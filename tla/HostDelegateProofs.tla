------------------------- MODULE HostDelegateProofs -------------------------
(***************************************************************************)
(* What the delegate of a host window is told (HostInput), for any         *)
(* pointers, any number of delegates and events, and what its native text  *)
(* input session is (HostTextInput), for any number of sessions, backends  *)
(* and revisions, on one thread or two; with or without failing posts.     *)
(***************************************************************************)
EXTENDS MCHostDelegate, FiniteSetTheorems, FunctionTheorems, SequenceTheorems,
        WellFoundedInduction, TLAPS

(***************************************************************************)
(* What a delegate makes of a sequence of callbacks.                       *)
(***************************************************************************)
LEMMA ViewsEqual ==
  ASSUME NEW v \in Views, NEW w \in Views,
         v.created = w.created, v.visible = w.visible, v.focused = w.focused,
         v.closed = w.closed, v.down = w.down, v.sane = w.sane
  PROVE  v = w
  BY DEF Views

LEMMA AfterTyped ==
  ASSUME NEW v \in Views, NEW e \in Event
  PROVE  After(v, e) \in Views
<1>1. /\ v.created \in BOOLEAN /\ v.visible \in BOOLEAN /\ v.focused \in BOOLEAN
      /\ v.closed \in BOOLEAN /\ v.sane \in BOOLEAN /\ v.down \in SUBSET Pointers
  BY DEF Views
<1>2. e.kind \in {"down", "up", "cancel", "move"} => e.pointer \in Pointers
  BY DEF Event, PointerEvent, WindowEvent, Phases
<1>3. PICK d : d = CASE e.kind = "down" -> v.down \cup {e.pointer}
                     [] e.kind \in {"up", "cancel"} -> v.down \ {e.pointer}
                     [] OTHER -> v.down
  OBVIOUS
<1>4. d \in SUBSET Pointers
  <2>1. CASE e.kind = "down"
    BY <1>1, <1>2, <1>3, <2>1
  <2>2. CASE e.kind \in {"up", "cancel"}
    BY <1>1, <1>3, <2>2
  <2>3. CASE e.kind \notin {"down", "up", "cancel"}
    BY <1>1, <1>3, <2>3
  <2> QED
    BY <2>1, <2>2, <2>3
<1>5. PICK sane \in BOOLEAN : sane = (v.sane /\ Sensible(v, e))
  BY <1>1
<1>6. After(v, e) = [created |-> v.created \/ e.kind = "created",
                     visible |-> (v.visible \/ e.kind = "shown") /\ e.kind # "hidden",
                     focused |-> (v.focused \/ e.kind = "focus") /\ e.kind # "blur",
                     closed |-> v.closed \/ e.kind = "shutting_down",
                     down |-> d, sane |-> sane]
  BY <1>3, <1>5 DEF After
<1> QED
  BY <1>1, <1>4, <1>6 DEF Views

LEMMA AfterFields ==
  ASSUME NEW v \in Views, NEW e \in Event
  PROVE  /\ After(v, e).created <=> v.created \/ e.kind = "created"
         /\ After(v, e).visible <=> (v.visible \/ e.kind = "shown") /\ e.kind # "hidden"
         /\ After(v, e).focused <=> (v.focused \/ e.kind = "focus") /\ e.kind # "blur"
         /\ After(v, e).closed <=> v.closed \/ e.kind = "shutting_down"
         /\ After(v, e).sane <=> v.sane /\ Sensible(v, e)
         /\ e.kind = "down" => After(v, e).down = v.down \cup {e.pointer}
         /\ e.kind \in {"up", "cancel"} => After(v, e).down = v.down \ {e.pointer}
         /\ e.kind \notin {"down", "up", "cancel"} => After(v, e).down = v.down
  BY DEF After

LEMMA KindOfEvent ==
  /\ \A k \in {"created", "shown", "hidden", "focus", "blur", "key", "shutting_down"} :
       Ev(k) \in Event /\ Ev(k).kind = k
  /\ \A k \in Phases, p \in Pointers :
       Pointer(k, p) \in Event /\ Pointer(k, p).kind = k /\ Pointer(k, p).pointer = p
  BY DEF Event, WindowEvent, PointerEvent, Ev, Pointer

(* The callbacks s, made in turn, lead sensibly from view v to view w. *)
IsStory(f, v, s, w) ==
  /\ f \in [0 .. Len(s) -> Views] /\ f[0] = v /\ f[Len(s)] = w
  /\ \A i \in 1 .. Len(s) : f[i] = After(f[i - 1], s[i]) /\ f[i].sane
Leads(v, s, w) == \E f : IsStory(f, v, s, w)

LEMMA LeadsNowhere ==
  ASSUME NEW v, NEW w
  PROVE  /\ v \in Views => Leads(v, <<>>, v)
         /\ Leads(v, <<>>, w) => v = w /\ v \in Views
<1>1. ASSUME v \in Views PROVE Leads(v, <<>>, v)
  <2>1. PICK f : f = [i \in 0 .. 0 |-> v]
    OBVIOUS
  <2>2. IsStory(f, v, <<>>, v)
    BY <1>1, <2>1 DEF IsStory
  <2> QED
    BY <2>2 DEF Leads
<1>2. ASSUME Leads(v, <<>>, w) PROVE v = w /\ v \in Views
  <2>1. PICK f : IsStory(f, v, <<>>, w)
    BY <1>2 DEF Leads
  <2> QED
    BY <2>1 DEF IsStory
<1> QED
  BY <1>1, <1>2

LEMMA LeadsTyped ==
  ASSUME NEW v, NEW s \in Seq(Event), NEW w, Leads(v, s, w)
  PROVE  v \in Views /\ w \in Views /\ (v.sane => w.sane)
<1>1. PICK f : IsStory(f, v, s, w)
  BY DEF Leads
<1>2. Len(s) \in Nat
  OBVIOUS
<1>3. v \in Views /\ w \in Views
  BY <1>1, <1>2 DEF IsStory
<1>4. CASE Len(s) = 0
  BY <1>1, <1>3, <1>4 DEF IsStory
<1>5. CASE Len(s) # 0
  <2>1. Len(s) \in 1 .. Len(s)
    BY <1>2, <1>5
  <2> QED
    BY <1>1, <1>3, <2>1 DEF IsStory
<1> QED
  BY <1>3, <1>4, <1>5

(* One more callback at the end, one fewer at the beginning. *)
LEMMA LeadsOn ==
  ASSUME NEW v, NEW s \in Seq(Event), NEW w, Leads(v, s, w), NEW e \in Event, After(w, e).sane
  PROVE  Leads(v, Append(s, e), After(w, e))
<1>1. PICK f : IsStory(f, v, s, w)
  BY DEF Leads
<1>2. PICK n \in Nat : n = Len(s)
  OBVIOUS
<1>3. PICK x : x = After(w, e)
  OBVIOUS
<1>4. PICK t : t = Append(s, e)
  OBVIOUS
<1>5. Len(t) = n + 1 /\ t[n + 1] = e /\ \A i \in 1 .. n : t[i] = s[i]
  BY <1>2, <1>4
<1>6. x \in Views /\ w \in Views
  BY <1>3, LeadsTyped, AfterTyped
<1>7. PICK g : g = [i \in 0 .. n + 1 |-> IF i = n + 1 THEN x ELSE f[i]]
  OBVIOUS
<1>8. /\ f \in [0 .. n -> Views] /\ f[0] = v /\ f[n] = w
      /\ \A i \in 1 .. n : f[i] = After(f[i - 1], s[i]) /\ f[i].sane
  BY <1>1, <1>2 DEF IsStory
<1>9. g[n + 1] = x /\ \A i \in 0 .. n : g[i] = f[i]
  BY <1>2, <1>7
<1>10. g \in [0 .. n + 1 -> Views]
  BY <1>6, <1>7, <1>8
<1>11. ASSUME NEW i \in 1 .. n + 1 PROVE g[i] = After(g[i - 1], t[i]) /\ g[i].sane
  <2>1. CASE i = n + 1
    <3>1. i - 1 = n /\ n \in 0 .. n
      BY <1>2, <2>1
    <3>2. g[i - 1] = w /\ t[i] = e /\ g[i] = x
      BY <1>5, <1>8, <1>9, <2>1, <3>1
    <3> QED
      BY <1>3, <3>2
  <2>2. CASE i # n + 1
    <3>1. i \in 1 .. n /\ i \in 0 .. n /\ i - 1 \in 0 .. n
      BY <1>2, <2>2
    <3>2. g[i] = f[i] /\ g[i - 1] = f[i - 1] /\ t[i] = s[i]
      BY <1>5, <1>9, <3>1
    <3>3. f[i] = After(f[i - 1], s[i]) /\ f[i].sane
      BY <1>8, <3>1
    <3> QED
      BY <3>2, <3>3
  <2> QED
    BY <2>1, <2>2
<1>12. g[0] = v
  BY <1>2, <1>8, <1>9
<1>13. IsStory(g, v, t, x)
  BY <1>5, <1>9, <1>10, <1>11, <1>12 DEF IsStory
<1> QED
  BY <1>3, <1>4, <1>13 DEF Leads

LEMMA LeadsRest ==
  ASSUME NEW v, NEW s \in Seq(Event), NEW w, Leads(v, s, w), s # <<>>
  PROVE  Leads(After(v, Head(s)), Tail(s), w) /\ After(v, Head(s)).sane
<1>1. PICK f : IsStory(f, v, s, w)
  BY DEF Leads
<1>2. PICK n \in Nat : n + 1 = Len(s)
  <2>1. Len(s) \in Nat /\ Len(s) # 0
    BY EmptySeq
  <2>2. Len(s) - 1 \in Nat /\ Len(s) - 1 + 1 = Len(s)
    BY <2>1
  <2> QED
    BY <2>2
<1>3. PICK t : t = Tail(s)
  OBVIOUS
<1>4. Len(t) = n /\ (\A i \in 1 .. n : t[i] = s[i + 1]) /\ Head(s) = s[1]
  BY <1>2, <1>3
<1>5. /\ f \in [0 .. n + 1 -> Views] /\ f[0] = v /\ f[n + 1] = w
      /\ \A i \in 1 .. n + 1 : f[i] = After(f[i - 1], s[i]) /\ f[i].sane
  BY <1>1, <1>2 DEF IsStory
<1>6. PICK g : g = [i \in 0 .. n |-> f[i + 1]]
  OBVIOUS
<1>7. \A i \in 0 .. n : i + 1 \in 0 .. n + 1 /\ i + 1 \in 1 .. n + 1
  BY <1>2
<1>8. g \in [0 .. n -> Views] /\ \A i \in 0 .. n : g[i] = f[i + 1]
  BY <1>5, <1>6, <1>7
<1>9. 1 \in 1 .. n + 1 /\ 1 - 1 = 0
  BY <1>2
<1>10. f[1] = After(v, Head(s)) /\ f[1].sane
  BY <1>4, <1>5, <1>9
<1>11. g[0] = f[1] /\ g[n] = w
  BY <1>2, <1>5, <1>8
<1>12. ASSUME NEW i \in 1 .. n PROVE g[i] = After(g[i - 1], t[i]) /\ g[i].sane
  <2>1. i \in 0 .. n /\ i - 1 \in 0 .. n /\ (i - 1) + 1 = i /\ i + 1 \in 1 .. n + 1 /\ (i + 1) - 1 = i
    BY <1>2
  <2>2. g[i] = f[i + 1] /\ g[i - 1] = f[i] /\ t[i] = s[i + 1]
    BY <1>4, <1>8, <2>1
  <2>3. f[i + 1] = After(f[i], s[i + 1]) /\ f[i + 1].sane
    BY <1>5, <2>1
  <2> QED
    BY <2>2, <2>3
<1>13. IsStory(g, f[1], t, w)
  BY <1>4, <1>8, <1>11, <1>12 DEF IsStory
<1> QED
  BY <1>3, <1>10, <1>13 DEF Leads

(***************************************************************************)
(* Cancelling the pointers that are down.                                  *)
(***************************************************************************)
Rank(S, p) == Cardinality({q \in S : q <= p})

LEMMA RankFits ==
  ASSUME NEW S, S \subseteq Nat, IsFiniteSet(S)
  PROVE  /\ Cardinality(S) \in Nat
         /\ \A p \in S : Rank(S, p) \in 1 .. Cardinality(S)
         /\ \A p, q \in S : Rank(S, p) = Rank(S, q) => p = q
         /\ \A i \in 1 .. Cardinality(S) : Nth(S, i) \in S /\ Rank(S, Nth(S, i)) = i
<1>0. PICK n : n = Cardinality(S)
  OBVIOUS
<1>1. n \in Nat
  BY <1>0, FS_CardinalityType
<1>2. ASSUME NEW p \in S PROVE Rank(S, p) \in 1 .. n
  <2> DEFINE T == {q \in S : q <= p}
  <2>1. T \subseteq S /\ p \in T
    OBVIOUS
  <2>2. IsFiniteSet(T) /\ Cardinality(T) <= n
    BY <1>0, <2>1, FS_Subset
  <2>3. Cardinality(T) \in Nat /\ Cardinality(T) # 0
    BY <2>1, <2>2, FS_CardinalityType, FS_EmptySet
  <2> QED
    BY <1>1, <2>2, <2>3 DEF Rank
<1>3. ASSUME NEW p \in S, NEW q \in S, p < q PROVE Rank(S, p) # Rank(S, q)
  <2> DEFINE T == {r \in S : r <= p}
             U == {r \in S : r <= q}
  <2>1. p \in Nat /\ q \in Nat
    OBVIOUS
  <2>2. T \subseteq U /\ q \in U /\ q \notin T
    <3>1. \A x \in S : x \in Nat
      OBVIOUS
    <3>2. ~(q <= p) /\ q <= q
      BY <1>3, <2>1
    <3>3. \A x \in Nat : x <= p => x <= q
      BY <1>3, <2>1
    <3> QED
      BY <3>1, <3>2, <3>3
  <2>3. U \subseteq S
    OBVIOUS
  <2>4. IsFiniteSet(U)
    BY <2>3, FS_Subset
  <2>5. Cardinality(T) # Cardinality(U)
    BY <2>2, <2>4, FS_Subset
  <2> QED
    BY <2>5 DEF Rank
<1>4. \A p, q \in S : Rank(S, p) = Rank(S, q) => p = q
  <2> SUFFICES ASSUME NEW p \in S, NEW q \in S, Rank(S, p) = Rank(S, q) PROVE p = q
    OBVIOUS
  <2>1. p \in Nat /\ q \in Nat
    OBVIOUS
  <2>2. ~(p < q) /\ ~(q < p)
    BY <1>3
  <2> QED
    BY <2>1, <2>2
<1>5. PICK r : r = [p \in S |-> Rank(S, p)]
  OBVIOUS
<1>6. r \in Injection(S, 1 .. n)
  BY <1>2, <1>4, <1>5 DEF Injection, IsInjective
<1>7. IsFiniteSet(1 .. n) /\ Cardinality(1 .. n) = n
  BY <1>1, FS_Interval
<1>8. r \in Surjection(S, 1 .. n)
  BY <1>0, <1>6, <1>7, FS_Injection
<1>9. ASSUME NEW i \in 1 .. n PROVE Nth(S, i) \in S /\ Rank(S, Nth(S, i)) = i
  <2>1. \E p \in S : Rank(S, p) = i
    BY <1>5, <1>8 DEF Surjection
  <2>2. \E p \in S : Cardinality({q \in S : q <= p}) = i
    BY <2>1 DEF Rank
  <2>3. Nth(S, i) \in S /\ Cardinality({q \in S : q <= Nth(S, i)}) = i
    BY <2>2, Zenon DEF Nth
  <2> QED
    BY <2>3 DEF Rank
<1> QED
  BY <1>0, <1>1, <1>2, <1>4, <1>9

LEMMA CancelsTyped ==
  ASSUME NEW S \in SUBSET Pointers
  PROVE  Cancels(S) \in Seq(Event) /\ Len(Cancels(S)) = Cardinality(S)
<1>1. S \subseteq Nat /\ IsFiniteSet(S)
  BY InputConstants, FS_Subset
<1>2. PICK n : n = Cardinality(S)
  OBVIOUS
<1>3. n \in Nat /\ \A i \in 1 .. n : Nth(S, i) \in Pointers
  BY <1>1, <1>2, RankFits
<1>4. Cancels(S) = [i \in 1 .. n |-> Pointer("cancel", Nth(S, i))]
  BY <1>2 DEF Cancels
<1>5. \A i \in 1 .. n : Pointer("cancel", Nth(S, i)) \in Event
  BY <1>3, KindOfEvent DEF Phases
<1>6. Cancels(S) \in [1 .. n -> Event]
  BY <1>4, <1>5
<1>7. Cancels(S) \in Seq(Event)
  BY <1>3, <1>6, SeqDef
<1> QED
  BY <1>2, <1>3, <1>6, <1>7

Closable(v, active) ==
  /\ v.sane /\ ~v.closed /\ v.down = active /\ (active # {} => v.created /\ v.visible)

(* The view v but for the pointers that are down. *)
Pressed(v, d) == [v EXCEPT !.down = d]

LEMMA PressedIs ==
  ASSUME NEW v \in Views, NEW d \in SUBSET Pointers
  PROVE  /\ Pressed(v, d) \in Views /\ Pressed(v, d).down = d
         /\ Pressed(v, d).created = v.created /\ Pressed(v, d).visible = v.visible
         /\ Pressed(v, d).focused = v.focused /\ Pressed(v, d).closed = v.closed
         /\ Pressed(v, d).sane = v.sane
  BY DEF Pressed, Views

LEMMA CancelOne ==
  ASSUME NEW v \in Views, v.sane, ~v.closed, v.created, v.visible,
         NEW d \in SUBSET Pointers, NEW p \in d
  PROVE  After(Pressed(v, d), Pointer("cancel", p)) = Pressed(v, d \ {p})
<1>1. PICK e : e = Pointer("cancel", p)
  OBVIOUS
<1>2. e \in Event /\ e.kind = "cancel" /\ e.pointer = p
  BY <1>1, KindOfEvent DEF Phases
<1>3. PICK x : x = Pressed(v, d)
  OBVIOUS
<1>4. PICK y : y = Pressed(v, d \ {p})
  OBVIOUS
<1>5. /\ x \in Views /\ x.down = d /\ x.created = v.created /\ x.visible = v.visible
      /\ x.focused = v.focused /\ x.closed = v.closed /\ x.sane = v.sane
  BY <1>3, PressedIs
<1>6. /\ y \in Views /\ y.down = d \ {p} /\ y.created = v.created /\ y.visible = v.visible
      /\ y.focused = v.focused /\ y.closed = v.closed /\ y.sane = v.sane
  BY <1>4, PressedIs
<1>7. Sensible(x, e)
  BY <1>2, <1>5 DEF Sensible
<1>8. PICK z : z = After(x, e)
  OBVIOUS
<1>9. z \in Views
  BY <1>2, <1>5, <1>8, AfterTyped
<1>10. /\ z.created <=> x.created
       /\ z.visible <=> x.visible
       /\ z.focused <=> x.focused
       /\ z.closed <=> x.closed
       /\ z.sane <=> x.sane
       /\ z.down = x.down \ {p}
  BY <1>2, <1>5, <1>7, <1>8, AfterFields
<1>11. /\ z.created = y.created /\ z.visible = y.visible /\ z.focused = y.focused
       /\ z.closed = y.closed /\ z.sane = y.sane /\ z.down = y.down
  BY <1>5, <1>6, <1>9, <1>10 DEF Views
<1> QED
  BY <1>1, <1>3, <1>4, <1>6, <1>8, <1>9, <1>11, ViewsEqual

LEMMA CancelsLead ==
  ASSUME NEW v \in Views, NEW S \in SUBSET Pointers, Closable(v, S)
  PROVE  Leads(v, Cancels(S), Pressed(v, {}))
<1>1. S \subseteq Nat /\ IsFiniteSet(S)
  BY InputConstants, FS_Subset
<1>2. PICK n : n = Cardinality(S)
  OBVIOUS
<1>3. /\ n \in Nat /\ \A p \in S : Rank(S, p) \in 1 .. n
      /\ \A p, q \in S : Rank(S, p) = Rank(S, q) => p = q
      /\ \A i \in 1 .. n : Nth(S, i) \in S /\ Rank(S, Nth(S, i)) = i
  BY <1>1, <1>2, RankFits
<1> DEFINE Left(i) == {p \in S : Rank(S, p) > i}
<1>4. Left(0) = S
  BY <1>3
<1>5. Left(n) = {}
  BY <1>3
<1>6. ASSUME NEW i \in 1 .. n
      PROVE  /\ Nth(S, i) \in Left(i - 1) /\ Left(i) = Left(i - 1) \ {Nth(S, i)}
             /\ Cancels(S)[i] = Pointer("cancel", Nth(S, i))
  <2>1. Nth(S, i) \in S /\ Rank(S, Nth(S, i)) = i
    BY <1>3
  <2>2. ASSUME NEW p \in S PROVE p \in Left(i) <=> p \in Left(i - 1) /\ p # Nth(S, i)
    <3>1. Rank(S, p) \in 1 .. n /\ (Rank(S, p) = i <=> p = Nth(S, i))
      BY <1>3, <2>1
    <3> QED
      BY <1>3, <3>1
  <2>3. Nth(S, i) \in Left(i - 1)
    BY <1>3, <2>1
  <2>4. Cancels(S)[i] = Pointer("cancel", Nth(S, i))
    BY <1>2 DEF Cancels
  <2> QED
    BY <2>2, <2>3, <2>4
<1>7. \A i \in 0 .. n : Left(i) \in SUBSET Pointers
  OBVIOUS
<1> HIDE DEF Left
<1>8. PICK f : f = [i \in 0 .. n |-> Pressed(v, Left(i))]
  OBVIOUS
<1>9. f \in [0 .. n -> Views] /\ \A i \in 0 .. n : f[i] = Pressed(v, Left(i)) /\ f[i].sane
  <2>1. \A i \in 0 .. n : Pressed(v, Left(i)) \in Views /\ Pressed(v, Left(i)).sane = v.sane
    BY <1>7, PressedIs
  <2>2. v.sane
    BY DEF Closable
  <2> QED
    BY <1>8, <2>1, <2>2
<1>10. f[0] = v
  <2>1. 0 \in 0 .. n /\ f[0] = Pressed(v, S) /\ v.down = S
    BY <1>3, <1>4, <1>9 DEF Closable
  <2>2. Pressed(v, S) = v
    BY <2>1, PressedIs, ViewsEqual
  <2> QED
    BY <2>1, <2>2
<1>11. f[n] = Pressed(v, {})
  <2>1. n \in 0 .. n
    BY <1>3
  <2> QED
    BY <1>5, <1>9, <2>1
<1>12. ASSUME NEW i \in 1 .. n PROVE f[i] = After(f[i - 1], Cancels(S)[i]) /\ f[i].sane
  <2>1. i \in 0 .. n /\ i - 1 \in 0 .. n
    BY <1>3
  <2>2. S # {} /\ v.sane /\ ~v.closed /\ v.created /\ v.visible
    BY <1>3 DEF Closable
  <2>3. After(Pressed(v, Left(i - 1)), Pointer("cancel", Nth(S, i)))
          = Pressed(v, Left(i - 1) \ {Nth(S, i)})
    BY <1>6, <1>7, <2>1, <2>2, CancelOne
  <2> QED
    BY <1>6, <1>9, <2>1, <2>3
<1>13. Len(Cancels(S)) = n
  BY <1>2, CancelsTyped
<1>14. IsStory(f, v, Cancels(S), Pressed(v, {}))
  BY <1>9, <1>10, <1>11, <1>12, <1>13 DEF IsStory
<1> QED
  BY <1>14 DEF Leads

(***************************************************************************)
(* What a queue of tasks tells the delegate of generation g.               *)
(***************************************************************************)
IsPassage(f, v, q, g, w) ==
  /\ f \in [0 .. Len(q) -> Views] /\ f[0] = v /\ f[Len(q)] = w
  /\ \A i \in 1 .. Len(q) : /\ q[i].gen = g => Leads(f[i - 1], q[i].calls, f[i])
                            /\ q[i].gen # g => f[i] = f[i - 1]
Through(v, q, g, w) == \E f : IsPassage(f, v, q, g, w)

LEMMA ThroughNothing ==
  ASSUME NEW v, NEW g, NEW w
  PROVE  Through(v, <<>>, g, w) => v = w
<1> SUFFICES ASSUME Through(v, <<>>, g, w) PROVE v = w
  OBVIOUS
<1>1. PICK f : IsPassage(f, v, <<>>, g, w)
  BY DEF Through
<1> QED
  BY <1>1 DEF IsPassage

LEMMA ThroughTyped ==
  ASSUME NEW v, NEW g, NEW w, NEW q \in Seq(CallbackTask), Through(v, q, g, w)
  PROVE  v \in Views /\ w \in Views
<1>1. PICK f : IsPassage(f, v, q, g, w)
  BY DEF Through
<1>2. Len(q) \in Nat
  OBVIOUS
<1> QED
  BY <1>1, <1>2 DEF IsPassage

LEMMA ThroughOthers ==
  ASSUME NEW v \in Views, NEW g, NEW q \in Seq(CallbackTask),
         \A i \in 1 .. Len(q) : q[i].gen # g
  PROVE  Through(v, q, g, v)
<1>1. PICK f : f = [i \in 0 .. Len(q) |-> v]
  OBVIOUS
<1>2. PICK n \in Nat : n = Len(q)
  OBVIOUS
<1>3. f \in [0 .. n -> Views] /\ f[0] = v /\ f[n] = v
      /\ \A i \in 1 .. n : f[i] = f[i - 1]
  BY <1>1, <1>2
<1>4. IsPassage(f, v, q, g, v)
  BY <1>2, <1>3 DEF IsPassage
<1> QED
  BY <1>4 DEF Through

LEMMA ThroughOn ==
  ASSUME NEW v, NEW g, NEW w, NEW q \in Seq(CallbackTask), Through(v, q, g, w),
         NEW t, t.gen = g, NEW x \in Views, Leads(w, t.calls, x)
  PROVE  Through(v, Append(q, t), g, x)
<1>1. PICK f : IsPassage(f, v, q, g, w)
  BY DEF Through
<1>2. PICK n \in Nat : n = Len(q)
  OBVIOUS
<1>3. PICK b : b = Append(q, t)
  OBVIOUS
<1>4. Len(b) = n + 1 /\ b[n + 1] = t /\ \A i \in 1 .. n : b[i] = q[i]
  BY <1>2, <1>3
<1>5. /\ f \in [0 .. n -> Views] /\ f[0] = v /\ f[n] = w
      /\ \A i \in 1 .. n : /\ q[i].gen = g => Leads(f[i - 1], q[i].calls, f[i])
                           /\ q[i].gen # g => f[i] = f[i - 1]
  BY <1>1, <1>2 DEF IsPassage
<1>6. PICK h : h = [i \in 0 .. n + 1 |-> IF i = n + 1 THEN x ELSE f[i]]
  OBVIOUS
<1>7. h[n + 1] = x /\ \A i \in 0 .. n : h[i] = f[i]
  BY <1>2, <1>6
<1>8. h \in [0 .. n + 1 -> Views]
  BY <1>5, <1>6
<1>9. ASSUME NEW i \in 1 .. n + 1
      PROVE  /\ b[i].gen = g => Leads(h[i - 1], b[i].calls, h[i])
             /\ b[i].gen # g => h[i] = h[i - 1]
  <2>1. CASE i = n + 1
    <3>1. i - 1 = n /\ n \in 0 .. n
      BY <1>2, <2>1
    <3>2. h[i - 1] = w /\ b[i] = t /\ h[i] = x
      BY <1>4, <1>5, <1>7, <2>1, <3>1
    <3> QED
      BY <3>2
  <2>2. CASE i # n + 1
    <3>1. i \in 1 .. n /\ i \in 0 .. n /\ i - 1 \in 0 .. n
      BY <1>2, <2>2
    <3>2. h[i] = f[i] /\ h[i - 1] = f[i - 1] /\ b[i] = q[i]
      BY <1>4, <1>7, <3>1
    <3> QED
      BY <1>5, <3>1, <3>2
  <2> QED
    BY <2>1, <2>2
<1>10. h[0] = v
  BY <1>2, <1>5, <1>7
<1>11. IsPassage(h, v, b, g, x)
  BY <1>4, <1>7, <1>8, <1>9, <1>10 DEF IsPassage
<1> QED
  BY <1>3, <1>11 DEF Through

(* The first task of the queue ends, or makes its next callback. *)
LEMMA ThroughTail ==
  ASSUME NEW v, NEW g, NEW w, NEW q \in Seq(CallbackTask), Through(v, q, g, w),
         q # <<>>, Head(q).calls = <<>>
  PROVE  Through(v, Tail(q), g, w)
<1>1. PICK f : IsPassage(f, v, q, g, w)
  BY DEF Through
<1>2. PICK n \in Nat : n + 1 = Len(q)
  <2>1. Len(q) \in Nat /\ Len(q) # 0
    BY EmptySeq
  <2>2. Len(q) - 1 \in Nat /\ Len(q) - 1 + 1 = Len(q)
    BY <2>1
  <2> QED
    BY <2>2
<1>3. PICK t : t = Tail(q)
  OBVIOUS
<1>4. Len(t) = n /\ (\A i \in 1 .. n : t[i] = q[i + 1]) /\ Head(q) = q[1]
  BY <1>2, <1>3
<1>5. /\ f \in [0 .. n + 1 -> Views] /\ f[0] = v /\ f[n + 1] = w
      /\ \A i \in 1 .. n + 1 : /\ q[i].gen = g => Leads(f[i - 1], q[i].calls, f[i])
                               /\ q[i].gen # g => f[i] = f[i - 1]
  BY <1>1, <1>2 DEF IsPassage
<1>6. f[1] = v
  <2>1. 1 \in 1 .. n + 1 /\ 1 - 1 = 0
    BY <1>2
  <2>2. CASE q[1].gen = g
    <3>1. Leads(v, <<>>, f[1])
      BY <1>4, <1>5, <2>1, <2>2
    <3> QED
      BY <3>1, LeadsNowhere
  <2>3. CASE q[1].gen # g
    BY <1>5, <2>1, <2>3
  <2> QED
    BY <2>2, <2>3
<1>7. PICK h : h = [i \in 0 .. n |-> f[i + 1]]
  OBVIOUS
<1>8. \A i \in 0 .. n : i + 1 \in 0 .. n + 1
  BY <1>2
<1>9. h \in [0 .. n -> Views] /\ \A i \in 0 .. n : h[i] = f[i + 1]
  BY <1>5, <1>7, <1>8
<1>10. h[0] = v /\ h[n] = w
  BY <1>2, <1>5, <1>6, <1>9
<1>11. ASSUME NEW i \in 1 .. n
       PROVE  /\ t[i].gen = g => Leads(h[i - 1], t[i].calls, h[i])
              /\ t[i].gen # g => h[i] = h[i - 1]
  <2>1. i \in 0 .. n /\ i - 1 \in 0 .. n /\ (i - 1) + 1 = i /\ i + 1 \in 1 .. n + 1 /\ (i + 1) - 1 = i
    BY <1>2
  <2>2. h[i] = f[i + 1] /\ h[i - 1] = f[i] /\ t[i] = q[i + 1]
    BY <1>4, <1>9, <2>1
  <2>3. /\ q[i + 1].gen = g => Leads(f[i], q[i + 1].calls, f[i + 1])
        /\ q[i + 1].gen # g => f[i + 1] = f[i]
    BY <1>5, <2>1
  <2> QED
    BY <2>2, <2>3
<1>12. IsPassage(h, v, t, g, w)
  BY <1>4, <1>9, <1>10, <1>11 DEF IsPassage
<1> QED
  BY <1>3, <1>12 DEF Through

(* The queue b is q with the first callback of its first task made. *)
CalledNext(q, b, c, n) ==
  /\ n + 1 = Len(q) /\ c # <<>> /\ q[1].calls = c
  /\ Len(b) = n + 1 /\ b[1].gen = q[1].gen /\ b[1].calls = Tail(c)
  /\ \A i \in 2 .. n + 1 : b[i] = q[i]

LEMMA ThroughHead ==
  ASSUME NEW v, NEW g, NEW w, NEW q \in Seq(CallbackTask), Through(v, q, g, w),
         NEW n \in Nat, NEW c \in Seq(Event), NEW b, CalledNext(q, b, c, n)
  PROVE  /\ q[1].gen = g => Through(After(v, Head(c)), b, g, w) /\ After(v, Head(c)).sane
         /\ q[1].gen # g => Through(v, b, g, w)
<1>0. /\ n + 1 = Len(q) /\ c # <<>> /\ q[1].calls = c
      /\ Len(b) = n + 1 /\ b[1].gen = q[1].gen /\ b[1].calls = Tail(c)
      /\ \A i \in 2 .. n + 1 : b[i] = q[i]
  BY DEF CalledNext
<1> USE <1>0
<1>1. PICK f : IsPassage(f, v, q, g, w)
  BY DEF Through
<1>2. /\ f \in [0 .. n + 1 -> Views] /\ f[0] = v /\ f[n + 1] = w
      /\ \A i \in 1 .. n + 1 : /\ q[i].gen = g => Leads(f[i - 1], q[i].calls, f[i])
                               /\ q[i].gen # g => f[i] = f[i - 1]
  BY <1>1 DEF IsPassage
<1>3. 1 \in 1 .. n + 1 /\ 1 - 1 = 0 /\ 0 \in 0 .. n + 1 /\ n + 1 # 0
  OBVIOUS
<1>4. CASE q[1].gen = g
  <2>1. Leads(v, c, f[1])
    BY <1>2, <1>3, <1>4
  <2>2. PICK x : x = After(v, Head(c))
    OBVIOUS
  <2>3. Leads(x, Tail(c), f[1]) /\ x.sane
    BY <2>1, <2>2, LeadsRest
  <2>4. Tail(c) \in Seq(Event)
    OBVIOUS
  <2>5. x \in Views
    BY <2>3, <2>4, LeadsTyped
  <2>6. PICK h : h = [f EXCEPT ![0] = x]
    OBVIOUS
  <2>7. /\ h \in [0 .. n + 1 -> Views] /\ h[0] = x
        /\ \A i \in 1 .. n + 1 : h[i] = f[i]
    BY <1>2, <1>3, <2>5, <2>6
  <2>8. ASSUME NEW i \in 1 .. n + 1
        PROVE  /\ b[i].gen = g => Leads(h[i - 1], b[i].calls, h[i])
               /\ b[i].gen # g => h[i] = h[i - 1]
    <3>1. CASE i = 1
      BY <1>3, <1>4, <2>3, <2>7, <3>1
    <3>2. CASE i # 1
      <4>1. i \in 2 .. n + 1 /\ i - 1 \in 1 .. n + 1
        BY <3>2
      <4>2. b[i] = q[i] /\ h[i] = f[i] /\ h[i - 1] = f[i - 1]
        BY <2>7, <4>1
      <4> QED
        BY <1>2, <4>2
    <3> QED
      BY <3>1, <3>2
  <2>9. h[n + 1] = w
    BY <1>2, <2>7
  <2>10. IsPassage(h, x, b, g, w)
    BY <2>7, <2>8, <2>9 DEF IsPassage
  <2>11. Through(x, b, g, w)
    BY <2>10 DEF Through
  <2> QED
    BY <1>4, <2>2, <2>3, <2>11
<1>5. CASE q[1].gen # g
  <2>1. ASSUME NEW i \in 1 .. n + 1
        PROVE  /\ b[i].gen = g => Leads(f[i - 1], b[i].calls, f[i])
               /\ b[i].gen # g => f[i] = f[i - 1]
    <3>1. CASE i = 1
      BY <1>2, <1>5, <3>1
    <3>2. CASE i # 1
      <4>1. i \in 2 .. n + 1
        BY <3>2
      <4> QED
        BY <1>2, <4>1
    <3> QED
      BY <3>1, <3>2
  <2>2. IsPassage(f, v, b, g, w)
    BY <1>2, <2>1 DEF IsPassage
  <2> QED
    BY <1>5, <2>2 DEF Through
<1> QED
  BY <1>4, <1>5

(***************************************************************************)
(* The inductive invariant: once the tasks queued for the bound delegate   *)
(* have run, its view agrees with the window as the owner of               *)
(* dispatch_mutex found it; what that owner is about to post makes it      *)
(* agree with the window as it is, and if the post fails the pointers put  *)
(* back are those the delegate knows.                                      *)
(***************************************************************************)
Agrees(v, active, vis, foc) ==
  /\ v.sane /\ v.created /\ ~v.closed /\ v.down = active
  /\ v.visible <=> vis
  /\ v.focused => foc
Before(h, active) == (active \cup h.insert) \ h.erase
Placed(w, h, active, vis, foc, run) ==
  /\ w.sane
  /\ h.pc = "free" /\ run => Agrees(w, active, vis, foc)
  /\ h.pc = "post" => /\ \E x \in Views : Leads(w, h.calls, x) /\ Agrees(x, active, vis, foc)
                      /\ Closable(w, Before(h, active))
                      /\ h.unlocks => Agrees(w, Before(h, active), vis, foc)
  /\ h.pc = "shutdown" => \E x \in Views : Leads(w, h.calls, x)
Known(v, q, g, h, active, vis, foc, run) ==
  \E w \in Views : Through(v, q, g, w) /\ Placed(w, h, active, vis, foc, run)
Queued(q, g, run, b) ==
  \A i \in 1 .. Len(q) : /\ q[i].gen <= g
                         /\ q[i].last => ~run
                         /\ q[i].last /\ b => q[i].gen = g
Owned(h, g, run, b, vis) ==
  /\ h.pc = "post" => run /\ (h.unlocks => vis)
  /\ h.pc = "shutdown" => ~run
  /\ h.pc # "free" => h.gen <= g /\ (b => h.gen = g)
Orderly ==
  /\ running \/ bound => deliver_queued_events
  /\ active_pointers # {} => visible
  /\ Owned(poster, delegate_generation, running, bound, visible)
  /\ Queued(evQ, delegate_generation, running, bound)
DelegateInv ==
  /\ DelegateTypeOK /\ view.sane /\ Orderly
  /\ bound => Known(view, evQ, delegate_generation, poster, active_pointers, visible, focused,
                    running)

Busy == [pc : {"post", "shutdown"}, gen : Generations, calls : Seq(Event),
         insert : SUBSET Pointers, erase : SUBSET Pointers, unlocks : BOOLEAN]

LEMMA HolderIs ==
  ASSUME NEW h \in Holders
  PROVE  /\ h.pc = "free" <=> h = Free
         /\ h.pc # "free" => h \in Busy
         /\ h.pc \in {"free", "post", "shutdown"}
<1>1. Free.pc = "free"
  BY DEF Free
<1>2. h = Free \/ h \in Busy
  BY DEF Holders, Busy
<1>3. h \in Busy => h.pc \in {"post", "shutdown"}
  BY DEF Busy
<1> QED
  BY <1>1, <1>2, <1>3

LEMMA FreeTyped == Free \in Holders /\ Free.pc = "free"
  BY DEF Free, Holders

LEMMA BusyTyped == Busy \subseteq Holders
  BY DEF Busy, Holders

LEMMA NewViewIs ==
  /\ NewView \in Views /\ NewView.sane /\ ~NewView.created /\ ~NewView.visible
  /\ ~NewView.focused /\ ~NewView.closed /\ NewView.down = {}
  BY DEF NewView, Views

LEMMA DelegateInvInforms ==
  ASSUME DelegateInv
  PROVE  DelegateTypeOK /\ DelegateInformed
<1>1. ASSUME running, bound, poster = Free, evQ = <<>>
      PROVE  /\ view.created /\ view.down = active_pointers /\ view.visible = visible
             /\ view.focused => focused
  <2>1. PICK w \in Views : /\ Through(view, evQ, delegate_generation, w)
                           /\ Placed(w, poster, active_pointers, visible, focused, running)
    BY <1>1 DEF DelegateInv, Known
  <2>2. w = view
    BY <1>1, <2>1, ThroughNothing
  <2>3. Agrees(view, active_pointers, visible, focused)
    BY <1>1, <2>1, <2>2, FreeTyped DEF Placed
  <2>4. view.visible \in BOOLEAN /\ visible \in BOOLEAN
    BY DEF DelegateInv, DelegateTypeOK, Views
  <2> QED
    BY <2>3, <2>4 DEF Agrees
<1> QED
  BY <1>1 DEF DelegateInv, DelegateInformed, DelegateStory, DelegateUpToDate

LEMMA DelegateStart ==
  ASSUME DelegateInit
  PROVE  DelegateInv
<1>1. DelegateTypeOK
  <2>1. evQ \in Seq(CallbackTask) /\ poster \in Holders /\ view \in Views
    BY FreeTyped, NewViewIs DEF DelegateInit
  <2>2. delegate_generation \in Generations /\ events \in 0 .. MaxEvents
    BY InputConstants DEF DelegateInit, Generations
  <2> QED
    BY <2>1, <2>2 DEF DelegateInit, DelegateTypeOK
<1>2. Orderly
  <2>1. Owned(poster, delegate_generation, running, bound, visible)
    BY FreeTyped DEF DelegateInit, Owned
  <2>2. Queued(evQ, delegate_generation, running, bound)
    BY DEF DelegateInit, Queued
  <2> QED
    BY <2>1, <2>2 DEF DelegateInit, Orderly
<1> QED
  BY <1>1, <1>2, NewViewIs DEF DelegateInit, DelegateInv

(***************************************************************************)
(* Stories the window tells.                                               *)
(***************************************************************************)
LEMMA LeadsOne ==
  ASSUME NEW v \in Views, NEW e \in Event, v.sane, Sensible(v, e)
  PROVE  Leads(v, <<e>>, After(v, e)) /\ After(v, e) \in Views
<1>1. Leads(v, <<>>, v) /\ <<>> \in Seq(Event)
  BY LeadsNowhere
<1>2. After(v, e).sane /\ After(v, e) \in Views
  BY AfterFields, AfterTyped
<1>3. Leads(v, Append(<<>>, e), After(v, e))
  BY <1>1, <1>2, LeadsOn
<1>4. Append(<<>>, e) = <<e>>
  OBVIOUS
<1> QED
  BY <1>2, <1>3, <1>4

LEMMA ClosingLeads ==
  ASSUME NEW v \in Views, NEW S \in SUBSET Pointers, Closable(v, S)
  PROVE  /\ Append(Cancels(S), Ev("shutting_down")) \in Seq(Event)
         /\ \E x \in Views : Leads(v, Append(Cancels(S), Ev("shutting_down")), x)
<1>1. PICK e : e = Ev("shutting_down")
  OBVIOUS
<1>2. e \in Event /\ e.kind = "shutting_down"
  BY <1>1, KindOfEvent
<1>3. Cancels(S) \in Seq(Event)
  BY CancelsTyped
<1>4. PICK w : w = Pressed(v, {})
  OBVIOUS
<1>5. /\ w \in Views /\ w.down = {} /\ w.closed = v.closed /\ w.sane = v.sane
  BY <1>4, PressedIs
<1>6. Leads(v, Cancels(S), w)
  BY <1>4, CancelsLead
<1>7. Sensible(w, e) /\ w.sane
  BY <1>2, <1>5 DEF Sensible, Closable
<1>8. After(w, e).sane /\ After(w, e) \in Views
  BY <1>2, <1>5, <1>7, AfterFields, AfterTyped
<1>9. Leads(v, Append(Cancels(S), e), After(w, e))
  BY <1>2, <1>3, <1>6, <1>8, LeadsOn
<1>10. Append(Cancels(S), e) \in Seq(Event)
  BY <1>2, <1>3
<1> QED
  BY <1>1, <1>8, <1>9, <1>10

(***************************************************************************)
(* Driver entries.                                                         *)
(***************************************************************************)
(* What a driver entry is to show of the callbacks it is about to post. *)
Tells(calls, insert, erase, unlocks, active, vis, foc) ==
  \A w \in Views : Agrees(w, active_pointers, visible, focused) =>
    /\ \E x \in Views : Leads(w, calls, x) /\ Agrees(x, active, vis, foc)
    /\ Closable(w, (active \cup insert) \ erase)
    /\ unlocks => Agrees(w, (active \cup insert) \ erase, vis, foc)

LEMMA DriverStep ==
  ASSUME DelegateInv, Enters, DriverUnchanged,
         NEW calls \in Seq(Event), NEW insert \in SUBSET Pointers, NEW erase \in SUBSET Pointers,
         NEW unlocks \in BOOLEAN, poster' = Posting(calls, insert, erase, unlocks),
         visible' \in BOOLEAN, focused' \in BOOLEAN, active_pointers' \in SUBSET Pointers,
         active_pointers' # {} => visible', unlocks => visible',
         Tells(calls, insert, erase, unlocks, active_pointers', visible', focused')
  PROVE  DelegateInv'
<1>1. PICK h : h = poster'
  OBVIOUS
<1>2. h = [pc |-> "post", gen |-> delegate_generation, calls |-> calls, insert |-> insert,
           erase |-> erase, unlocks |-> unlocks]
  BY <1>1 DEF Posting
<1>3. DelegateTypeOK /\ Orderly
  BY DEF DelegateInv
<1>4. h \in Busy
  BY <1>2, <1>3 DEF Busy, DelegateTypeOK
<1>5. /\ h.pc = "post" /\ h.gen = delegate_generation /\ h.calls = calls /\ h.insert = insert
      /\ h.erase = erase /\ h.unlocks = unlocks
  BY <1>2
<1>6. running /\ poster = Free /\ events' \in 0 .. MaxEvents
  BY <1>3, InputConstants DEF Enters, DelegateTypeOK
<1>7. /\ running' = running /\ deliver_queued_events' = deliver_queued_events
      /\ delegate_generation' = delegate_generation /\ bound' = bound /\ stopping' = stopping
      /\ evQ' = evQ /\ view' = view /\ uiRefused' = uiRefused
  BY DEF DriverUnchanged
<1>8. DelegateTypeOK'
  BY <1>1, <1>3, <1>4, <1>6, <1>7, BusyTyped DEF DelegateTypeOK
<1>9. Owned(h, delegate_generation, running, bound, visible')
  <2>1. delegate_generation <= delegate_generation
    BY <1>3, InputConstants DEF DelegateTypeOK, Generations
  <2> QED
    BY <1>5, <1>6, <2>1 DEF Owned
<1>10. Orderly'
  BY <1>1, <1>3, <1>7, <1>9 DEF Orderly
<1>11. ASSUME bound
       PROVE  Known(view, evQ, delegate_generation, h, active_pointers', visible', focused', running)
  <2>1. PICK w \in Views : /\ Through(view, evQ, delegate_generation, w)
                           /\ Placed(w, poster, active_pointers, visible, focused, running)
    BY <1>11 DEF DelegateInv, Known
  <2>2. Agrees(w, active_pointers, visible, focused)
    BY <1>6, <2>1, FreeTyped DEF Placed
  <2>3. /\ \E x \in Views : Leads(w, calls, x) /\ Agrees(x, active_pointers', visible', focused')
        /\ Closable(w, (active_pointers' \cup insert) \ erase)
        /\ unlocks => Agrees(w, (active_pointers' \cup insert) \ erase, visible', focused')
    BY <2>2 DEF Tells
  <2>4. Before(h, active_pointers') = (active_pointers' \cup insert) \ erase
    BY <1>5 DEF Before
  <2>5. w.sane
    BY <2>1 DEF Placed
  <2>6. Placed(w, h, active_pointers', visible', focused', running)
    BY <1>5, <2>3, <2>4, <2>5 DEF Placed
  <2> QED
    BY <2>1, <2>6 DEF Known
<1> QED
  BY <1>1, <1>7, <1>8, <1>10, <1>11 DEF DelegateInv

LEMMA AgreesCloses ==
  ASSUME NEW w \in Views, NEW a, NEW vis, NEW foc, Agrees(w, a, vis, foc), a # {} => vis
  PROVE  Closable(w, a)
  BY DEF Agrees, Closable

(* One callback that changes no pointer. *)
LEMMA PlainCallback ==
  ASSUME NEW w \in Views, NEW a \in SUBSET Pointers, NEW vis, NEW foc, Agrees(w, a, vis, foc),
         NEW k \in {"shown", "focus", "key"}, k = "shown" \/ vis
  PROVE  \E x \in Views : /\ Leads(w, <<Ev(k)>>, x)
                          /\ Agrees(x, a, vis \/ k = "shown", foc \/ k = "focus")
<1>1. PICK e : e = Ev(k)
  OBVIOUS
<1>2. e \in Event /\ e.kind = k
  BY <1>1, KindOfEvent
<1>3. Sensible(w, e)
  BY <1>2 DEF Sensible, Agrees
<1>4. PICK x : x = After(w, e)
  OBVIOUS
<1>5. Leads(w, <<e>>, x) /\ x \in Views
  BY <1>2, <1>3, <1>4, LeadsOne DEF Agrees
<1>6. Agrees(x, a, vis \/ k = "shown", foc \/ k = "focus")
  BY <1>2, <1>3, <1>4, AfterFields DEF Agrees
<1> QED
  BY <1>1, <1>5, <1>6

LEMMA ShowStep ==
  ASSUME DelegateInv, show
  PROVE  DelegateInv'
<1>1. PICK c : c = <<Ev("shown")>>
  OBVIOUS
<1>2. /\ Enters /\ ~visible /\ visible' = TRUE /\ poster' = Posting(c, {}, {}, FALSE)
      /\ focused' = focused /\ active_pointers' = active_pointers /\ DriverUnchanged
  BY <1>1 DEF show
<1>3. c \in Seq(Event)
  BY <1>1, KindOfEvent
<1>4. focused \in BOOLEAN /\ active_pointers \in SUBSET Pointers
  BY DEF DelegateInv, DelegateTypeOK
<1>5. active_pointers = {}
  BY <1>2 DEF DelegateInv, Orderly
<1>6. Tells(c, {}, {}, FALSE, active_pointers, TRUE, focused)
  <2> SUFFICES ASSUME NEW w \in Views, Agrees(w, active_pointers, visible, focused)
               PROVE  /\ \E x \in Views : Leads(w, c, x) /\ Agrees(x, active_pointers, TRUE, focused)
                      /\ Closable(w, (active_pointers \cup {}) \ {})
    BY DEF Tells
  <2>1. \E x \in Views : /\ Leads(w, c, x)
                         /\ Agrees(x, active_pointers, visible \/ "shown" = "shown",
                                   focused \/ "shown" = "focus")
    BY <1>1, <1>4, PlainCallback
  <2>2. PICK x \in Views : /\ Leads(w, c, x)
                           /\ Agrees(x, active_pointers, visible \/ "shown" = "shown",
                                     focused \/ "shown" = "focus")
    BY <2>1
  <2>3. Agrees(x, active_pointers, TRUE, focused)
    BY <2>2 DEF Agrees
  <2>4. Closable(w, active_pointers)
    BY <1>5, AgreesCloses
  <2>5. (active_pointers \cup {}) \ {} = active_pointers
    OBVIOUS
  <2> QED
    BY <2>2, <2>3, <2>4, <2>5
<1> QED
  BY <1>2, <1>3, <1>4, <1>5, <1>6, DriverStep

LEMMA SendKeyStep ==
  ASSUME DelegateInv, send_key
  PROVE  DelegateInv'
<1>1. PICK c : c = <<Ev("key")>>
  OBVIOUS
<1>2. /\ Enters /\ visible /\ poster' = Posting(c, {}, {}, FALSE)
      /\ visible' = visible /\ focused' = focused /\ active_pointers' = active_pointers
      /\ DriverUnchanged
  BY <1>1 DEF send_key
<1>3. c \in Seq(Event)
  BY <1>1, KindOfEvent
<1>4. visible \in BOOLEAN /\ focused \in BOOLEAN /\ active_pointers \in SUBSET Pointers
  BY DEF DelegateInv, DelegateTypeOK
<1>5. Tells(c, {}, {}, FALSE, active_pointers, visible, focused)
  <2> SUFFICES ASSUME NEW w \in Views, Agrees(w, active_pointers, visible, focused)
               PROVE  /\ \E x \in Views : Leads(w, c, x) /\ Agrees(x, active_pointers, visible, focused)
                      /\ Closable(w, (active_pointers \cup {}) \ {})
    BY DEF Tells
  <2>0. \E x \in Views : /\ Leads(w, c, x)
                         /\ Agrees(x, active_pointers, visible \/ "key" = "shown",
                                   focused \/ "key" = "focus")
    <3>1. PICK k : k = "key"
      OBVIOUS
    <3>2. k \in {"shown", "focus", "key"} /\ (k = "shown" \/ visible)
      BY <1>2, <3>1
    <3>3. \E x \in Views : /\ Leads(w, <<Ev(k)>>, x)
                           /\ Agrees(x, active_pointers, visible \/ k = "shown", focused \/ k = "focus")
      BY <1>4, <3>2, PlainCallback
    <3> QED
      BY <1>1, <3>1, <3>3
  <2>1. PICK x \in Views : /\ Leads(w, c, x)
                           /\ Agrees(x, active_pointers, visible \/ "key" = "shown",
                                     focused \/ "key" = "focus")
    BY <2>0
  <2>2. Agrees(x, active_pointers, visible, focused)
    BY <2>1 DEF Agrees
  <2>3. Closable(w, active_pointers)
    BY <1>2, AgreesCloses
  <2>4. (active_pointers \cup {}) \ {} = active_pointers
    OBVIOUS
  <2> QED
    BY <2>1, <2>2, <2>3, <2>4
<1> QED
  BY <1>2, <1>3, <1>4, <1>5, DriverStep

(* Pointers are cancelled before the focus or the visibility is lost. *)
LEMMA CancelsThen ==
  ASSUME NEW w \in Views, NEW a \in SUBSET Pointers, NEW vis, NEW foc, Agrees(w, a, vis, foc),
         a # {} => vis, NEW k \in {"blur", "hidden"}, k = "hidden" => ~foc
  PROVE  /\ Append(Cancels(a), Ev(k)) \in Seq(Event)
         /\ \E x \in Views : /\ Leads(w, Append(Cancels(a), Ev(k)), x)
                             /\ Agrees(x, {}, vis /\ k = "blur", FALSE)
<1>1. PICK e : e = Ev(k)
  OBVIOUS
<1>2. e \in Event /\ e.kind = k
  BY <1>1, KindOfEvent
<1>3. Cancels(a) \in Seq(Event)
  BY CancelsTyped
<1>4. PICK y : y = Pressed(w, {})
  OBVIOUS
<1>5. /\ y \in Views /\ y.down = {} /\ y.created = w.created /\ y.visible = w.visible
      /\ y.focused = w.focused /\ y.closed = w.closed /\ y.sane = w.sane
  BY <1>4, PressedIs
<1>6. Leads(w, Cancels(a), y)
  BY <1>4, AgreesCloses, CancelsLead
<1>7. Sensible(y, e) /\ y.sane
  BY <1>2, <1>5 DEF Sensible, Agrees
<1>8. PICK x : x = After(y, e)
  OBVIOUS
<1>9. x.sane /\ x \in Views
  BY <1>2, <1>5, <1>7, <1>8, AfterFields, AfterTyped
<1>10. Leads(w, Append(Cancels(a), e), x)
  BY <1>2, <1>3, <1>6, <1>8, <1>9, LeadsOn
<1>11. Agrees(x, {}, vis /\ k = "blur", FALSE)
  <2>1. /\ x.created /\ ~x.closed /\ x.down = {}
    BY <1>2, <1>5, <1>8, AfterFields DEF Agrees
  <2>2. x.visible <=> vis /\ k = "blur"
    BY <1>2, <1>5, <1>8, AfterFields DEF Agrees
  <2>3. ~x.focused
    BY <1>2, <1>5, <1>8, AfterFields DEF Agrees
  <2> QED
    BY <1>9, <2>1, <2>2, <2>3 DEF Agrees
<1>12. Append(Cancels(a), e) \in Seq(Event)
  BY <1>2, <1>3
<1> QED
  BY <1>1, <1>9, <1>10, <1>11, <1>12

LEMMA SetFocusedStep ==
  ASSUME DelegateInv, NEW f \in BOOLEAN, set_focused(f)
  PROVE  DelegateInv'
<1>1. /\ visible \in BOOLEAN /\ focused \in BOOLEAN /\ active_pointers \in SUBSET Pointers
      /\ active_pointers # {} => visible
  BY DEF DelegateInv, DelegateTypeOK, Orderly
<1>2. /\ Enters /\ focused # f /\ (f => visible) /\ focused' = f /\ visible' = visible
      /\ DriverUnchanged
  BY DEF set_focused
<1>3. CASE f
  <2>1. PICK c : c = <<Ev("focus")>>
    OBVIOUS
  <2>2. poster' = Posting(c, {}, {}, FALSE) /\ active_pointers' = active_pointers
    BY <1>3, <2>1 DEF set_focused
  <2>3. c \in Seq(Event)
    BY <2>1, KindOfEvent
  <2>4. Tells(c, {}, {}, FALSE, active_pointers, visible, f)
    <3> SUFFICES ASSUME NEW w \in Views, Agrees(w, active_pointers, visible, focused)
                 PROVE  /\ \E x \in Views : Leads(w, c, x) /\ Agrees(x, active_pointers, visible, f)
                        /\ Closable(w, (active_pointers \cup {}) \ {})
      BY DEF Tells
    <3>0. \E x \in Views : /\ Leads(w, c, x)
                           /\ Agrees(x, active_pointers, visible \/ "focus" = "shown",
                                     focused \/ "focus" = "focus")
      BY <1>1, <1>2, <1>3, <2>1, PlainCallback
    <3>1. PICK x \in Views : /\ Leads(w, c, x)
                             /\ Agrees(x, active_pointers, visible \/ "focus" = "shown",
                                       focused \/ "focus" = "focus")
      BY <3>0
    <3>2. Agrees(x, active_pointers, visible, f)
      BY <1>3, <3>1 DEF Agrees
    <3>3. Closable(w, active_pointers)
      BY <1>1, AgreesCloses
    <3>4. (active_pointers \cup {}) \ {} = active_pointers
      OBVIOUS
    <3> QED
      BY <3>1, <3>2, <3>3, <3>4
  <2> QED
    BY <1>1, <1>2, <2>2, <2>3, <2>4, DriverStep
<1>4. CASE ~f
  <2>1. PICK c : c = Append(Cancels(active_pointers), Ev("blur"))
    OBVIOUS
  <2>2. poster' = Posting(c, active_pointers, {}, FALSE) /\ active_pointers' = {}
    BY <1>4, <2>1 DEF set_focused
  <2>3. c \in Seq(Event)
    BY <1>1, <2>1, CancelsTyped, KindOfEvent
  <2>4. Tells(c, active_pointers, {}, FALSE, {}, visible, f)
    <3> SUFFICES ASSUME NEW w \in Views, Agrees(w, active_pointers, visible, focused)
                 PROVE  /\ \E x \in Views : Leads(w, c, x) /\ Agrees(x, {}, visible, f)
                        /\ Closable(w, ({} \cup active_pointers) \ {})
      BY DEF Tells
    <3>0. \E x \in Views : Leads(w, c, x) /\ Agrees(x, {}, visible /\ "blur" = "blur", FALSE)
      BY <1>1, <2>1, CancelsThen
    <3>1. PICK x \in Views : Leads(w, c, x) /\ Agrees(x, {}, visible /\ "blur" = "blur", FALSE)
      BY <3>0
    <3>2. Agrees(x, {}, visible, f)
      BY <3>1 DEF Agrees
    <3>3. Closable(w, active_pointers)
      BY <1>1, AgreesCloses
    <3>4. ({} \cup active_pointers) \ {} = active_pointers
      OBVIOUS
    <3> QED
      BY <3>1, <3>2, <3>3, <3>4
  <2> QED
    BY <1>1, <1>2, <2>2, <2>3, <2>4, DriverStep
<1> QED
  BY <1>3, <1>4

LEMMA HideStep ==
  ASSUME DelegateInv, hide
  PROVE  DelegateInv'
<1>1. /\ visible \in BOOLEAN /\ focused \in BOOLEAN /\ active_pointers \in SUBSET Pointers
  BY DEF DelegateInv, DelegateTypeOK
<1>2. PICK c : c = Cancels(active_pointers)
                     \o (IF focused THEN <<Ev("blur")>> ELSE <<>>) \o <<Ev("hidden")>>
  OBVIOUS
<1>3. /\ Enters /\ visible /\ visible' = FALSE /\ focused' = FALSE /\ active_pointers' = {}
      /\ poster' = Posting(c, active_pointers, {}, FALSE) /\ DriverUnchanged
  BY <1>2 DEF hide
<1>4. PICK s : s = Cancels(active_pointers)
  OBVIOUS
<1>5. PICK k : k = Ev("hidden")
  OBVIOUS
<1>6. PICK d : d = Ev("blur")
  OBVIOUS
<1>7. s \in Seq(Event) /\ k \in Event /\ k.kind = "hidden" /\ d \in Event
  BY <1>1, <1>4, <1>5, <1>6, CancelsTyped, KindOfEvent
<1>8. c = IF focused THEN Append(Append(s, d), k) ELSE Append(s, k)
  <2>1. (s \o <<d>>) \o <<k>> = Append(Append(s, d), k)
    BY <1>7
  <2>2. (s \o <<>>) \o <<k>> = Append(s, k)
    BY <1>7
  <2> QED
    BY <1>2, <1>4, <1>5, <1>6, <2>1, <2>2
<1>9. c \in Seq(Event)
  BY <1>7, <1>8
<1>10. Tells(c, active_pointers, {}, FALSE, {}, FALSE, FALSE)
  <2> SUFFICES ASSUME NEW w \in Views, Agrees(w, active_pointers, visible, focused)
               PROVE  /\ \E x \in Views : Leads(w, c, x) /\ Agrees(x, {}, FALSE, FALSE)
                      /\ Closable(w, ({} \cup active_pointers) \ {})
    BY DEF Tells
  <2>1. Closable(w, ({} \cup active_pointers) \ {})
    <3>1. ({} \cup active_pointers) \ {} = active_pointers
      OBVIOUS
    <3>2. Closable(w, active_pointers)
      BY <1>3, AgreesCloses
    <3> QED
      BY <3>1, <3>2
  <2>2. CASE focused
    <3>1. \E y \in Views : Leads(w, Append(s, d), y) /\ Agrees(y, {}, visible /\ "blur" = "blur", FALSE)
      BY <1>1, <1>3, <1>4, <1>6, CancelsThen
    <3>2. PICK y \in Views : Leads(w, Append(s, d), y) /\ Agrees(y, {}, visible /\ "blur" = "blur", FALSE)
      BY <3>1
    <3>3. Sensible(y, k)
      BY <1>7, <3>2 DEF Sensible, Agrees
    <3>4. PICK x : x = After(y, k)
      OBVIOUS
    <3>5. x \in Views /\ Agrees(x, {}, FALSE, FALSE)
      BY <1>7, <3>2, <3>3, <3>4, AfterFields, AfterTyped DEF Agrees
    <3>6. Append(s, d) \in Seq(Event) /\ x.sane
      BY <1>7, <3>5 DEF Agrees
    <3>7. Leads(w, Append(Append(s, d), k), x)
      BY <1>7, <3>2, <3>4, <3>6, LeadsOn
    <3> QED
      BY <1>8, <2>1, <2>2, <3>5, <3>7
  <2>3. CASE ~focused
    <3>1. \E y \in Views : Leads(w, Append(s, k), y) /\ Agrees(y, {}, visible /\ "hidden" = "blur", FALSE)
      BY <1>1, <1>3, <1>4, <1>5, <2>3, CancelsThen
    <3>2. PICK y \in Views : Leads(w, Append(s, k), y) /\ Agrees(y, {}, visible /\ "hidden" = "blur", FALSE)
      BY <3>1
    <3>3. Agrees(y, {}, FALSE, FALSE)
      BY <3>2 DEF Agrees
    <3> QED
      BY <1>8, <2>1, <2>3, <3>2, <3>3
  <2> QED
    BY <1>1, <2>2, <2>3
<1> QED
  BY <1>1, <1>3, <1>9, <1>10, DriverStep

LEMMA SendPointerStep ==
  ASSUME DelegateInv, NEW p \in Pointers, NEW phase \in Phases, send_pointer(p, phase)
  PROVE  DelegateInv'
<1>1. visible \in BOOLEAN /\ focused \in BOOLEAN /\ active_pointers \in SUBSET Pointers
  BY DEF DelegateInv, DelegateTypeOK
<1>2. PICK a : a = active_pointers'
  OBVIOUS
<1>3. PICK e : e = Pointer(phase, p)
  OBVIOUS
<1>4. /\ Enters /\ visible /\ visible' = visible /\ focused' = focused
      /\ (phase = "down") <=> (p \notin active_pointers)
      /\ poster' = Posting(<<e>>, active_pointers \ a, a \ active_pointers, TRUE)
      /\ DriverUnchanged
  BY <1>2, <1>3 DEF send_pointer
<1>5. /\ phase = "down" => a = active_pointers \cup {p}
      /\ phase = "move" => a = active_pointers
      /\ phase \in {"up", "cancel"} => a = active_pointers \ {p}
  BY <1>2 DEF send_pointer
<1>6. a \in SUBSET Pointers
  BY <1>1, <1>5 DEF Phases
<1>7. e \in Event /\ e.kind = phase /\ e.pointer = p
  BY <1>3, KindOfEvent
<1>8. <<e>> \in Seq(Event)
  BY <1>7
<1>9. (a \cup (active_pointers \ a)) \ (a \ active_pointers) = active_pointers
  OBVIOUS
<1>10. Tells(<<e>>, active_pointers \ a, a \ active_pointers, TRUE, a, visible, focused)
  <2> SUFFICES ASSUME NEW w \in Views, Agrees(w, active_pointers, visible, focused)
               PROVE  /\ \E x \in Views : Leads(w, <<e>>, x) /\ Agrees(x, a, visible, focused)
                      /\ Closable(w, active_pointers)
    BY <1>9 DEF Tells
  <2>1. Closable(w, active_pointers)
    BY <1>4, AgreesCloses
  <2>2. Sensible(w, e)
    BY <1>4, <1>7 DEF Sensible, Agrees, Phases
  <2>3. PICK x : x = After(w, e)
    OBVIOUS
  <2>4. Leads(w, <<e>>, x) /\ x \in Views
    BY <1>7, <2>2, <2>3, LeadsOne DEF Agrees
  <2>5. x.down = a
    BY <1>5, <1>7, <2>3, AfterFields DEF Agrees, Phases
  <2>6. Agrees(x, a, visible, focused)
    <3>1. /\ x.sane /\ x.created /\ ~x.closed
      BY <1>7, <2>2, <2>3, AfterFields DEF Agrees, Phases
    <3>2. x.visible <=> visible
      BY <1>7, <2>3, AfterFields DEF Agrees, Phases
    <3>3. x.focused => focused
      BY <1>7, <2>3, AfterFields DEF Agrees, Phases
    <3> QED
      BY <2>5, <3>1, <3>2, <3>3 DEF Agrees
  <2> QED
    BY <2>1, <2>4, <2>6
<1>11. active_pointers \ a \in SUBSET Pointers /\ a \ active_pointers \in SUBSET Pointers
  BY <1>1, <1>6
<1> QED
  BY <1>1, <1>2, <1>4, <1>6, <1>8, <1>10, <1>11, DriverStep

(***************************************************************************)
(* Binding and detaching a delegate.                                       *)
(***************************************************************************)
LEMMA BindDelegateStep ==
  ASSUME DelegateInv, bind_delegate
  PROVE  DelegateInv'
<1>1. DelegateTypeOK /\ Orderly
  BY DEF DelegateInv
<1>2. PICK g : g = delegate_generation + 1
  OBVIOUS
<1>3. PICK c : c = <<Ev("created")>> \o (IF visible THEN <<Ev("shown")>> ELSE <<>>)
  OBVIOUS
<1>4. PICK h : h = [pc |-> "post", gen |-> g, calls |-> c, insert |-> {}, erase |-> {},
                    unlocks |-> FALSE]
  OBVIOUS
<1>5. /\ running /\ delegate_generation # MaxDelegate /\ delegate_generation' = g
      /\ bound' = TRUE /\ active_pointers' = {} /\ view' = NewView /\ poster' = h
      /\ UNCHANGED <<running, deliver_queued_events, visible, focused, stopping, evQ, events,
                     uiRefused>>
  <2>1. PICK y : y = Posting(c, {}, {}, FALSE)
    OBVIOUS
  <2>2. [y EXCEPT !.gen = g] = h
    <3>1. y = [pc |-> "post", gen |-> delegate_generation, calls |-> c, insert |-> {},
               erase |-> {}, unlocks |-> FALSE]
      BY <2>1 DEF Posting
    <3>2. PICK z : z = [y EXCEPT !.gen = g]
      OBVIOUS
    <3>3. z = [pc |-> z.pc, gen |-> z.gen, calls |-> z.calls, insert |-> z.insert,
               erase |-> z.erase, unlocks |-> z.unlocks]
      BY <3>1, <3>2
    <3>4. /\ z.pc = "post" /\ z.gen = g /\ z.calls = c /\ z.insert = {} /\ z.erase = {}
          /\ z.unlocks = FALSE
      BY <3>1, <3>2
    <3> QED
      BY <1>4, <3>2, <3>3, <3>4
  <2>3. poster' = [y EXCEPT !.gen = g]
    BY <1>2, <1>3, <2>1 DEF bind_delegate
  <2> QED
    BY <1>2, <2>2, <2>3 DEF bind_delegate, PointersAfterDetach
<1>6. delegate_generation \in 0 .. MaxDelegate /\ g \in Generations /\ delegate_generation < g
  BY <1>1, <1>2, <1>5, InputConstants DEF DelegateTypeOK, Generations
<1>7. PICK e : e = Ev("created")
  OBVIOUS
<1>8. PICK s : s = Ev("shown")
  OBVIOUS
<1>9. e \in Event /\ e.kind = "created" /\ s \in Event /\ s.kind = "shown"
  BY <1>7, <1>8, KindOfEvent
<1>10. c = IF visible THEN Append(<<e>>, s) ELSE <<e>>
  <2>1. <<e>> \o <<s>> = Append(<<e>>, s)
    BY <1>9
  <2>2. <<e>> \o <<>> = <<e>>
    BY <1>9
  <2> QED
    BY <1>3, <1>7, <1>8, <2>1, <2>2
<1>11. c \in Seq(Event)
  BY <1>9, <1>10
<1>12. h \in Busy
  BY <1>4, <1>6, <1>11 DEF Busy
<1>13. h.pc = "post" /\ h.gen = g /\ h.calls = c /\ h.insert = {} /\ h.erase = {} /\ ~h.unlocks
  BY <1>4
<1>14. DelegateTypeOK'
  BY <1>1, <1>5, <1>6, <1>12, BusyTyped, NewViewIs DEF DelegateTypeOK
<1>15. \A i \in 1 .. Len(evQ) : evQ[i].gen <= delegate_generation /\ ~evQ[i].last
                                /\ evQ[i].gen \in 0 .. MaxDelegate
  <2>1. ASSUME NEW i \in 1 .. Len(evQ) PROVE evQ[i].gen \in 0 .. MaxDelegate
    <3>1. evQ[i] \in CallbackTask
      BY <1>1, <2>1, ElementOfSeq DEF DelegateTypeOK
    <3> QED
      BY <3>1 DEF CallbackTask, Generations
  <2> QED
    BY <1>1, <1>5, <2>1 DEF Orderly, Queued
<1>16. Orderly'
  <2>1. Owned(h, g, running, TRUE, visible)
    BY <1>5, <1>6, <1>13 DEF Owned, Generations
  <2>2. Queued(evQ, g, running, TRUE)
    <3>1. MaxDelegate \in Nat
      BY InputConstants
    <3> QED
      BY <1>6, <1>15, <3>1 DEF Queued, Generations
  <2>3. deliver_queued_events
    BY <1>1, <1>5 DEF Orderly
  <2> QED
    BY <1>5, <2>1, <2>2, <2>3 DEF Orderly
<1>17. Through(NewView, evQ, g, NewView)
  <2>1. \A i \in 1 .. Len(evQ) : evQ[i].gen # g
    <3>1. MaxDelegate \in Nat
      BY InputConstants
    <3> QED
      BY <1>6, <1>15, <3>1 DEF Generations
  <2>2. evQ \in Seq(CallbackTask)
    BY <1>1 DEF DelegateTypeOK
  <2> QED
    BY <2>1, <2>2, NewViewIs, ThroughOthers
<1>18. \E x \in Views : Leads(NewView, c, x) /\ Agrees(x, {}, visible, focused)
  <2>1. Sensible(NewView, e)
    BY <1>9, NewViewIs DEF Sensible
  <2>2. PICK y : y = After(NewView, e)
    OBVIOUS
  <2>3. Leads(NewView, <<e>>, y) /\ y \in Views
    BY <1>9, <2>1, <2>2, NewViewIs, LeadsOne
  <2>4. Agrees(y, {}, FALSE, FALSE)
    BY <1>9, <2>1, <2>2, NewViewIs, AfterFields DEF Agrees
  <2>5. CASE visible
    <3>1. Sensible(y, s)
      BY <1>9, <2>4 DEF Sensible, Agrees
    <3>2. PICK x : x = After(y, s)
      OBVIOUS
    <3>3. x \in Views /\ x.sane
      BY <1>9, <2>3, <2>4, <3>1, <3>2, AfterFields, AfterTyped DEF Agrees
    <3>4. Agrees(x, {}, TRUE, FALSE)
      BY <1>9, <2>3, <2>4, <3>1, <3>2, AfterFields DEF Agrees
    <3>5. Leads(NewView, Append(<<e>>, s), x)
      <4>1. <<e>> \in Seq(Event)
        BY <1>9
      <4> QED
        BY <1>9, <2>3, <3>2, <3>3, <4>1, LeadsOn
    <3>6. Agrees(x, {}, visible, focused)
      BY <2>5, <3>4 DEF Agrees
    <3> QED
      BY <1>10, <2>5, <3>3, <3>5, <3>6
  <2>6. CASE ~visible
    <3>1. Agrees(y, {}, visible, focused)
      BY <2>4, <2>6 DEF Agrees
    <3> QED
      BY <1>10, <2>3, <2>6, <3>1
  <2>7. visible \in BOOLEAN
    BY <1>1 DEF DelegateTypeOK
  <2> QED
    BY <2>5, <2>6, <2>7
<1>19. Closable(NewView, Before(h, {}))
  <2>1. Before(h, {}) = {}
    BY <1>13 DEF Before
  <2> QED
    BY <2>1, NewViewIs DEF Closable
<1>20. Placed(NewView, h, {}, visible, focused, running)
  BY <1>13, <1>18, <1>19, NewViewIs DEF Placed
<1>21. Known(NewView, evQ, g, h, {}, visible, focused, running)
  BY <1>17, <1>20, NewViewIs DEF Known
<1> QED
  BY <1>5, <1>14, <1>16, <1>21, NewViewIs DEF DelegateInv

LEMMA QueuedLater ==
  ASSUME NEW q \in Seq(CallbackTask), NEW g \in Generations, NEW k \in Generations, g <= k,
         NEW run, NEW b, Queued(q, g, run, b)
  PROVE  Queued(q, k, run, FALSE)
<1>1. MaxDelegate \in Nat
  BY InputConstants
<1>2. ASSUME NEW i \in 1 .. Len(q) PROVE q[i].gen <= k
  <2>1. q[i] \in CallbackTask
    BY <1>2, ElementOfSeq
  <2>2. q[i].gen \in 0 .. MaxDelegate /\ q[i].gen <= g
    BY <2>1 DEF CallbackTask, Generations, Queued
  <2> QED
    BY <1>1, <2>2 DEF Generations
<1> QED
  BY <1>2 DEF Queued

LEMMA OwnedLater ==
  ASSUME NEW h \in Holders, NEW g \in Generations, NEW k \in Generations, g <= k,
         NEW run, NEW b, NEW vis, Owned(h, g, run, b, vis)
  PROVE  Owned(h, k, run, FALSE, vis)
<1>1. MaxDelegate \in Nat
  BY InputConstants
<1>2. ASSUME h.pc # "free" PROVE h.gen <= k
  <2>1. h.gen \in 0 .. MaxDelegate /\ h.gen <= g
    BY <1>2, HolderIs DEF Busy, Generations, Owned
  <2> QED
    BY <1>1, <2>1 DEF Generations
<1> QED
  BY <1>2 DEF Owned

LEMMA NextDelegateIs ==
  ASSUME delegate_generation \in Generations
  PROVE  NextDelegate \in Generations /\ delegate_generation <= NextDelegate
  BY InputConstants DEF NextDelegate, Generations

LEMMA ResetDelegateStep ==
  ASSUME DelegateInv, reset_delegate
  PROVE  DelegateInv'
<1>1. DelegateTypeOK /\ Orderly
  BY DEF DelegateInv
<1>2. /\ bound /\ bound' = FALSE /\ active_pointers' = {} /\ delegate_generation' = NextDelegate
      /\ UNCHANGED <<running, deliver_queued_events, visible, focused, poster, stopping, evQ,
                     view, events, uiRefused>>
  BY DEF reset_delegate, PointersAfterDetach
<1>3. /\ delegate_generation \in Generations /\ poster \in Holders /\ evQ \in Seq(CallbackTask)
  BY <1>1 DEF DelegateTypeOK
<1>4. NextDelegate \in Generations /\ delegate_generation <= NextDelegate
  BY <1>3, NextDelegateIs
<1>5. DelegateTypeOK'
  BY <1>1, <1>2, <1>4 DEF DelegateTypeOK
<1>6. Owned(poster, NextDelegate, running, FALSE, visible)
  BY <1>1, <1>3, <1>4, OwnedLater DEF Orderly
<1>7. Queued(evQ, NextDelegate, running, FALSE)
  BY <1>1, <1>3, <1>4, QueuedLater DEF Orderly
<1>8. Orderly'
  BY <1>1, <1>2, <1>6, <1>7 DEF Orderly
<1> QED
  BY <1>2, <1>5, <1>8 DEF DelegateInv

(***************************************************************************)
(* Posting, stopping and the UI tasks.                                     *)
(***************************************************************************)
LEMMA StopWithStep ==
  ASSUME DelegateInv, running, NEW active \in SUBSET Pointers, StopWith(active),
         bound => \A w \in Views :
           Placed(w, poster, active_pointers, visible, focused, running) => Closable(w, active),
         stopping' \in BOOLEAN,
         UNCHANGED <<deliver_queued_events, visible, focused, delegate_generation, bound, evQ,
                     view, events, uiRefused>>
  PROVE  DelegateInv'
<1>1. DelegateTypeOK /\ Orderly
  BY DEF DelegateInv
<1>2. PICK c : c = Append(Cancels(active), Ev("shutting_down"))
  OBVIOUS
<1>3. c \in Seq(Event)
  BY <1>2, CancelsTyped, KindOfEvent
<1>4. PICK h : h = [pc |-> "shutdown", gen |-> delegate_generation, calls |-> c,
                    insert |-> {}, erase |-> {}, unlocks |-> FALSE]
  OBVIOUS
<1>5. running' = FALSE /\ active_pointers' = {} /\ poster' = h
  BY <1>2, <1>4 DEF StopWith
<1>6. delegate_generation \in Generations /\ delegate_generation <= delegate_generation
  BY <1>1, InputConstants DEF DelegateTypeOK, Generations
<1>7. h \in Busy
  BY <1>3, <1>4, <1>6 DEF Busy
<1>8. h.pc = "shutdown" /\ h.gen = delegate_generation /\ h.calls = c
  BY <1>4
<1>9. DelegateTypeOK'
  BY <1>1, <1>5, <1>7, BusyTyped DEF DelegateTypeOK
<1>10. Orderly'
  <2>1. Owned(h, delegate_generation, FALSE, bound, visible)
    BY <1>6, <1>8 DEF Owned
  <2>2. Queued(evQ, delegate_generation, FALSE, bound)
    BY <1>1 DEF Orderly, Queued
  <2> QED
    BY <1>1, <1>5, <2>1, <2>2 DEF Orderly
<1>11. ASSUME bound
       PROVE  Known(view, evQ, delegate_generation, h, {}, visible, focused, FALSE)
  <2>1. PICK w \in Views : /\ Through(view, evQ, delegate_generation, w)
                           /\ Placed(w, poster, active_pointers, visible, focused, running)
    BY <1>11 DEF DelegateInv, Known
  <2>2. Closable(w, active)
    BY <1>11, <2>1
  <2>3. \E x \in Views : Leads(w, c, x)
    BY <1>2, <2>2, ClosingLeads
  <2>4. Placed(w, h, {}, visible, focused, FALSE)
    BY <1>8, <2>1, <2>3 DEF Placed
  <2> QED
    BY <2>1, <2>4 DEF Known
<1> QED
  BY <1>5, <1>9, <1>10, <1>11 DEF DelegateInv

LEMMA ShutdownWindowStep ==
  ASSUME DelegateInv, shutdown_window
  PROVE  DelegateInv'
<1>1. /\ poster = Free /\ running /\ StopWith(active_pointers) /\ stopping' = FALSE
      /\ UNCHANGED <<deliver_queued_events, visible, focused, delegate_generation, bound, evQ,
                     view, events, uiRefused>>
  BY DEF shutdown_window
<1>2. active_pointers \in SUBSET Pointers /\ (active_pointers # {} => visible)
  BY DEF DelegateInv, DelegateTypeOK, Orderly
<1>3. ASSUME NEW w \in Views, Placed(w, poster, active_pointers, visible, focused, running)
      PROVE  Closable(w, active_pointers)
  <2>1. Agrees(w, active_pointers, visible, focused)
    BY <1>1, <1>3, FreeTyped DEF Placed
  <2> QED
    BY <1>2, <2>1, AgreesCloses
<1> QED
  BY <1>1, <1>2, <1>3, StopWithStep

LEMMA AppendedQueue ==
  ASSUME NEW q \in Seq(CallbackTask), NEW t \in CallbackTask, NEW g, NEW run, NEW b,
         Queued(q, g, run, b), t.gen <= g, t.last => ~run, t.last /\ b => t.gen = g
  PROVE  Append(q, t) \in Seq(CallbackTask) /\ Queued(Append(q, t), g, run, b)
<1>1. PICK n \in Nat : n = Len(q)
  OBVIOUS
<1>2. PICK s : s = Append(q, t)
  OBVIOUS
<1>3. /\ s \in Seq(CallbackTask) /\ Len(s) = n + 1 /\ s[n + 1] = t
      /\ \A i \in 1 .. n : s[i] = q[i]
  BY <1>1, <1>2
<1>4. ASSUME NEW i \in 1 .. n + 1
      PROVE  /\ s[i].gen <= g
             /\ s[i].last => ~run
             /\ s[i].last /\ b => s[i].gen = g
  <2>1. CASE i = n + 1
    BY <1>3, <2>1
  <2>2. CASE i # n + 1
    <3>1. i \in 1 .. n
      BY <1>1, <2>2
    <3> QED
      BY <1>1, <1>3, <3>1 DEF Queued
  <2> QED
    BY <2>1, <2>2
<1>5. Queued(s, g, run, b)
  BY <1>3, <1>4 DEF Queued
<1> QED
  BY <1>2, <1>3, <1>5

LEMMA EndDeliveryStep ==
  ASSUME DelegateInv, ~running, NEW gen, EndDelivery(gen), bound => gen = delegate_generation,
         evQ' \in Seq(CallbackTask), Queued(evQ', delegate_generation, FALSE, bound),
         poster' \in Holders, Owned(poster', delegate_generation, FALSE, bound, visible),
         uiRefused' \in BOOLEAN,
         UNCHANGED <<running, visible, focused, active_pointers, stopping, view, events>>
  PROVE  DelegateInv'
<1>1. DelegateTypeOK /\ Orderly
  BY DEF DelegateInv
<1>2. bound' = FALSE
  BY <1>1 DEF EndDelivery, DelegateTypeOK
<1>3. PICK k : k = delegate_generation'
  OBVIOUS
<1>4. delegate_generation \in Generations
  BY <1>1 DEF DelegateTypeOK
<1>5. k \in Generations /\ delegate_generation <= k
  <2>1. k = delegate_generation \/ k = NextDelegate
    BY <1>3 DEF EndDelivery
  <2>2. delegate_generation <= delegate_generation
    BY <1>4, InputConstants DEF Generations
  <2> QED
    BY <1>4, <2>1, <2>2, NextDelegateIs
<1>6. Queued(evQ', k, FALSE, FALSE)
  BY <1>4, <1>5, QueuedLater
<1>7. DelegateTypeOK'
  BY <1>1, <1>2, <1>3, <1>5 DEF DelegateTypeOK, EndDelivery
<1>8. Owned(poster', k, FALSE, FALSE, visible)
  BY <1>4, <1>5, OwnedLater
<1>9. running' = FALSE
  BY <1>1 DEF DelegateTypeOK
<1>10. Orderly'
  BY <1>1, <1>2, <1>3, <1>6, <1>8, <1>9 DEF Orderly
<1> QED
  BY <1>2, <1>7, <1>10 DEF DelegateInv

LEMMA PostShutdownStep ==
  ASSUME DelegateInv, PostShutdown
  PROVE  DelegateInv'
<1>1. DelegateTypeOK /\ Orderly
  BY DEF DelegateInv
<1>2. /\ poster.pc = "shutdown" /\ poster' = Free
      /\ UNCHANGED <<running, visible, focused, active_pointers, stopping, view, events>>
  BY DEF PostShutdown
<1>3. poster \in Busy
  BY <1>1, <1>2, HolderIs DEF DelegateTypeOK
<1>4. /\ poster.gen \in Generations /\ poster.calls \in Seq(Event)
      /\ poster.gen <= delegate_generation /\ ~running /\ (bound => poster.gen = delegate_generation)
  BY <1>1, <1>2, <1>3 DEF Busy, Orderly, Owned
<1>5. /\ evQ \in Seq(CallbackTask) /\ running \in BOOLEAN
      /\ Queued(evQ, delegate_generation, running, bound)
  BY <1>1 DEF DelegateTypeOK, Orderly
<1>6. CASE /\ evQ' = Append(evQ, [gen |-> poster.gen, calls |-> poster.calls, last |-> TRUE])
           /\ UNCHANGED <<deliver_queued_events, bound, delegate_generation, uiRefused>>
  <2>1. PICK t : t = [gen |-> poster.gen, calls |-> poster.calls, last |-> TRUE]
    OBVIOUS
  <2>2. t \in CallbackTask /\ t.gen = poster.gen /\ t.calls = poster.calls /\ t.last = TRUE
    BY <1>4, <2>1 DEF CallbackTask
  <2>3. evQ' \in Seq(CallbackTask) /\ Queued(evQ', delegate_generation, running, bound)
    BY <1>4, <1>5, <1>6, <2>1, <2>2, AppendedQueue
  <2>4. DelegateTypeOK'
    BY <1>1, <1>2, <1>6, <2>3, FreeTyped DEF DelegateTypeOK
  <2>5. Owned(Free, delegate_generation, running, bound, visible)
    BY FreeTyped DEF Owned
  <2>6. Orderly'
    BY <1>1, <1>2, <1>6, <2>3, <2>5 DEF Orderly
  <2>7. ASSUME bound
        PROVE  Known(view, evQ', delegate_generation, Free, active_pointers, visible, focused, running)
    <3>1. PICK w \in Views : /\ Through(view, evQ, delegate_generation, w)
                             /\ Placed(w, poster, active_pointers, visible, focused, running)
      BY <2>7 DEF DelegateInv, Known
    <3>2. PICK x \in Views : Leads(w, poster.calls, x)
      BY <1>2, <3>1 DEF Placed
    <3>3. x.sane
      BY <1>4, <3>1, <3>2, LeadsTyped DEF Placed
    <3>4. t.gen = delegate_generation /\ Leads(w, t.calls, x)
      BY <1>4, <2>2, <2>7, <3>2
    <3>5. Through(view, Append(evQ, t), delegate_generation, x)
      BY <1>5, <3>1, <3>4, ThroughOn
    <3>6. Placed(x, Free, active_pointers, visible, focused, running)
      BY <1>4, <3>3, FreeTyped DEF Placed
    <3> QED
      BY <1>6, <2>1, <3>5, <3>6 DEF Known
  <2> QED
    BY <1>2, <1>6, <2>4, <2>6, <2>7 DEF DelegateInv
<1>7. CASE evQ' = evQ /\ uiRefused' = TRUE /\ EndDelivery(poster.gen)
  <2>1. Queued(evQ', delegate_generation, FALSE, bound)
    BY <1>5, <1>7 DEF Queued
  <2>2. poster' \in Holders /\ Owned(poster', delegate_generation, FALSE, bound, visible)
    BY <1>2, FreeTyped DEF Owned
  <2> QED
    BY <1>2, <1>4, <1>5, <1>7, <2>1, <2>2, EndDeliveryStep
<1> QED
  BY <1>6, <1>7 DEF PostShutdown

LEMMA PostStep ==
  ASSUME DelegateInv, Post
  PROVE  DelegateInv'
<1>1. DelegateTypeOK /\ Orderly
  BY DEF DelegateInv
<1>2. /\ poster.pc = "post"
      /\ UNCHANGED <<deliver_queued_events, visible, focused, delegate_generation, bound, view,
                     events, uiRefused>>
  BY DEF Post
<1>3. poster \in Busy
  BY <1>1, <1>2, HolderIs DEF DelegateTypeOK
<1>4. /\ poster.gen \in Generations /\ poster.calls \in Seq(Event) /\ poster.insert \in SUBSET Pointers
      /\ poster.gen <= delegate_generation /\ running /\ (bound => poster.gen = delegate_generation)
      /\ poster.unlocks => visible
  BY <1>1, <1>2, <1>3 DEF Busy, Orderly, Owned
<1>5. /\ evQ \in Seq(CallbackTask) /\ active_pointers \in SUBSET Pointers
      /\ Queued(evQ, delegate_generation, running, bound)
  BY <1>1 DEF DelegateTypeOK, Orderly
<1>6. PICK a : a = RolledBack(poster)
  OBVIOUS
<1>7. /\ a \in SUBSET Pointers
      /\ bound => a = Before(poster, active_pointers)
  BY <1>4, <1>5, <1>6 DEF RolledBack, Before
<1>8. Owned(Free, delegate_generation, running, bound, visible)
  BY FreeTyped DEF Owned
<1>9. ASSUME bound
      PROVE  \E w \in Views : /\ Through(view, evQ, delegate_generation, w)
                              /\ Placed(w, poster, active_pointers, visible, focused, running)
  BY <1>9 DEF DelegateInv, Known
<1>10. CASE /\ evQ' = Append(evQ, [gen |-> poster.gen, calls |-> poster.calls, last |-> FALSE])
            /\ poster' = Free /\ UNCHANGED <<running, active_pointers, stopping>>
  <2>1. PICK t : t = [gen |-> poster.gen, calls |-> poster.calls, last |-> FALSE]
    OBVIOUS
  <2>2. t \in CallbackTask /\ t.gen = poster.gen /\ t.calls = poster.calls /\ t.last = FALSE
    BY <1>4, <2>1 DEF CallbackTask
  <2>3. evQ' \in Seq(CallbackTask) /\ Queued(evQ', delegate_generation, running, bound)
    BY <1>4, <1>5, <1>10, <2>1, <2>2, AppendedQueue
  <2>4. DelegateTypeOK'
    BY <1>1, <1>2, <1>10, <2>3, FreeTyped DEF DelegateTypeOK
  <2>5. Orderly'
    BY <1>1, <1>2, <1>8, <1>10, <2>3 DEF Orderly
  <2>6. ASSUME bound
        PROVE  Known(view, evQ', delegate_generation, Free, active_pointers, visible, focused, running)
    <3>1. PICK w \in Views : /\ Through(view, evQ, delegate_generation, w)
                             /\ Placed(w, poster, active_pointers, visible, focused, running)
      BY <1>9, <2>6
    <3>2. PICK x \in Views : /\ Leads(w, poster.calls, x)
                             /\ Agrees(x, active_pointers, visible, focused)
      BY <1>2, <3>1 DEF Placed
    <3>3. t.gen = delegate_generation /\ Leads(w, t.calls, x)
      BY <1>4, <2>2, <2>6, <3>2
    <3>4. Through(view, Append(evQ, t), delegate_generation, x)
      BY <1>5, <3>1, <3>3, ThroughOn
    <3>5. Placed(x, Free, active_pointers, visible, focused, running)
      BY <3>2, FreeTyped DEF Placed, Agrees
    <3> QED
      BY <1>10, <2>1, <3>4, <3>5 DEF Known
  <2> QED
    BY <1>2, <1>10, <2>4, <2>5, <2>6 DEF DelegateInv
<1>11. CASE /\ poster.unlocks /\ evQ' = evQ /\ active_pointers' = RolledBack(poster)
            /\ poster' = Free /\ stopping' = TRUE /\ UNCHANGED running
  <2>1. DelegateTypeOK'
    BY <1>1, <1>2, <1>6, <1>7, <1>11, FreeTyped DEF DelegateTypeOK
  <2>2. Orderly'
    BY <1>1, <1>2, <1>4, <1>8, <1>11 DEF Orderly
  <2>3. ASSUME bound
        PROVE  Known(view, evQ, delegate_generation, Free, a, visible, focused, running)
    <3>1. PICK w \in Views : /\ Through(view, evQ, delegate_generation, w)
                             /\ Placed(w, poster, active_pointers, visible, focused, running)
      BY <1>9, <2>3
    <3>2. Agrees(w, a, visible, focused)
      BY <1>2, <1>7, <1>11, <2>3, <3>1 DEF Placed
    <3>3. Placed(w, Free, a, visible, focused, running)
      BY <3>2, FreeTyped DEF Placed, Agrees
    <3> QED
      BY <3>1, <3>3 DEF Known
  <2> QED
    BY <1>2, <1>6, <1>11, <2>1, <2>2, <2>3 DEF DelegateInv
<1>12. CASE evQ' = evQ /\ StopWith(RolledBack(poster)) /\ UNCHANGED stopping
  <2>1. ASSUME bound, NEW w \in Views, Placed(w, poster, active_pointers, visible, focused, running)
        PROVE  Closable(w, a)
    BY <1>2, <1>7, <2>1 DEF Placed
  <2>2. stopping' \in BOOLEAN
    BY <1>1, <1>12 DEF DelegateTypeOK
  <2> QED
    BY <1>2, <1>4, <1>6, <1>7, <1>12, <2>1, <2>2, StopWithStep
<1> QED
  BY <1>10, <1>11, <1>12 DEF Post

LEMMA CallbackStep ==
  ASSUME DelegateInv, Callback
  PROVE  DelegateInv'
<1>1. DelegateTypeOK /\ Orderly
  BY DEF DelegateInv
<1>2. evQ \in Seq(CallbackTask) /\ view \in Views
  BY <1>1 DEF DelegateTypeOK
<1>3. evQ # <<>> /\ UNCHANGED <<state, poster, stopping, events, uiRefused>>
  BY DEF Callback
<1>4. PICK n \in Nat : n + 1 = Len(evQ)
  <2>1. Len(evQ) \in Nat /\ Len(evQ) # 0
    BY <1>2, <1>3, EmptySeq
  <2>2. Len(evQ) - 1 \in Nat /\ Len(evQ) - 1 + 1 = Len(evQ)
    BY <2>1
  <2> QED
    BY <2>2
<1>5. PICK t : t = evQ[1]
  OBVIOUS
<1>6. Head(evQ) = t /\ t \in CallbackTask
  <2>1. 1 \in 1 .. Len(evQ)
    BY <1>4
  <2>2. evQ[1] \in CallbackTask
    BY <1>2, <2>1, ElementOfSeq
  <2> QED
    BY <1>2, <1>3, <1>5, <2>2
<1>7. PICK c : c = t.calls
  OBVIOUS
<1>8. /\ c \in Seq(Event) /\ c # <<>> /\ t.gen \in Generations /\ t.last \in BOOLEAN
      /\ t = [gen |-> t.gen, calls |-> c, last |-> t.last]
  BY <1>6, <1>7 DEF CallbackTask, Callback
<1>9. PICK u : u = [gen |-> t.gen, calls |-> Tail(c), last |-> t.last]
  OBVIOUS
<1>10. [t EXCEPT !.calls = Tail(@)] = u
  <2>1. PICK z : z = [t EXCEPT !.calls = Tail(@)]
    OBVIOUS
  <2>2. /\ z = [gen |-> z.gen, calls |-> z.calls, last |-> z.last]
        /\ z.gen = t.gen /\ z.last = t.last /\ z.calls = Tail(t.calls)
    BY <1>6, <2>1 DEF CallbackTask
  <2> QED
    BY <1>7, <1>9, <2>1, <2>2
<1>11. u \in CallbackTask /\ u.gen = t.gen /\ u.last = t.last /\ u.calls = Tail(c)
  BY <1>8, <1>9 DEF CallbackTask
<1>12. PICK b : b = <<u>> \o Tail(evQ)
  OBVIOUS
<1>13. /\ b \in Seq(CallbackTask) /\ Len(b) = n + 1 /\ b[1] = u
       /\ \A i \in 2 .. n + 1 : b[i] = evQ[i]
  <2>1. PICK r : r = Tail(evQ)
    OBVIOUS
  <2>2. r \in Seq(CallbackTask) /\ Len(r) = n /\ \A i \in 1 .. n : r[i] = evQ[i + 1]
    BY <1>2, <1>3, <1>4, <2>1
  <2>3. <<u>> \in Seq(CallbackTask) /\ Len(<<u>>) = 1 /\ <<u>>[1] = u
    BY <1>11
  <2>4. /\ b \in Seq(CallbackTask) /\ Len(b) = n + 1 /\ b[1] = u
        /\ \A i \in 2 .. n + 1 : b[i] = r[i - 1]
    BY <1>12, <2>1, <2>2, <2>3
  <2>5. \A i \in 2 .. n + 1 : i - 1 \in 1 .. n /\ (i - 1) + 1 = i
    BY <1>4
  <2> QED
    BY <2>2, <2>4, <2>5
<1>14. evQ' = b /\ view' = (IF Reaches(t) THEN After(view, Head(c)) ELSE view)
  BY <1>6, <1>7, <1>10, <1>12 DEF Callback
<1>15. Queued(b, delegate_generation, running, bound)
  <2>1. Queued(evQ, delegate_generation, running, bound)
    BY <1>1 DEF Orderly
  <2>2. ASSUME NEW i \in 1 .. n + 1
        PROVE  /\ b[i].gen <= delegate_generation
               /\ b[i].last => ~running
               /\ b[i].last /\ bound => b[i].gen = delegate_generation
    <3>1. CASE i = 1
      BY <1>4, <1>5, <1>11, <1>13, <2>1, <3>1 DEF Queued
    <3>2. CASE i # 1
      <4>1. i \in 2 .. n + 1 /\ i \in 1 .. Len(evQ)
        BY <1>4, <3>2
      <4> QED
        BY <1>13, <2>1, <4>1 DEF Queued
    <3> QED
      BY <3>1, <3>2
  <2> QED
    BY <1>13, <2>2 DEF Queued
<1>16. Head(c) \in Event
  BY <1>8
<1>17. view' \in Views
  BY <1>2, <1>14, <1>16, AfterTyped
<1>18. DelegateTypeOK'
  BY <1>1, <1>3, <1>13, <1>14, <1>17 DEF DelegateTypeOK, state
<1>19. Orderly'
  BY <1>1, <1>3, <1>14, <1>15 DEF Orderly, state
<1>20. CASE ~bound
  <2>1. view' = view
    BY <1>14, <1>20 DEF Reaches
  <2> QED
    BY <1>3, <1>18, <1>19, <1>20, <2>1 DEF DelegateInv, state
<1>21. CASE bound
  <2>1. PICK w \in Views : /\ Through(view, evQ, delegate_generation, w)
                           /\ Placed(w, poster, active_pointers, visible, focused, running)
    BY <1>21 DEF DelegateInv, Known
  <2>2. /\ t.gen = delegate_generation => /\ Through(After(view, Head(c)), b, delegate_generation, w)
                                          /\ After(view, Head(c)).sane
        /\ t.gen # delegate_generation => Through(view, b, delegate_generation, w)
    <3>1. /\ evQ[1].calls = c /\ b[1].gen = evQ[1].gen /\ b[1].calls = Tail(c)
          /\ evQ[1].gen = t.gen
      BY <1>5, <1>7, <1>11, <1>13
    <3>2. /\ evQ[1].gen = delegate_generation =>
               /\ Through(After(view, Head(c)), b, delegate_generation, w)
               /\ After(view, Head(c)).sane
          /\ evQ[1].gen # delegate_generation => Through(view, b, delegate_generation, w)
      <4>1. CalledNext(evQ, b, c, n) /\ c \in Seq(Event)
        BY <1>4, <1>8, <1>13, <3>1 DEF CalledNext
      <4>2. Through(view, evQ, delegate_generation, w)
        BY <2>1
      <4> QED
        BY <1>2, <4>1, <4>2, ThroughHead
    <3> QED
      BY <3>1, <3>2
  <2>3. Reaches(t) <=> t.gen = delegate_generation
    BY <1>1, <1>21 DEF Reaches, Orderly
  <2>4. Through(view', b, delegate_generation, w) /\ view'.sane
    BY <1>14, <2>2, <2>3 DEF DelegateInv
  <2>5. Known(view', b, delegate_generation, poster, active_pointers, visible, focused, running)
    BY <2>1, <2>4 DEF Known
  <2> QED
    BY <1>3, <1>14, <1>18, <1>19, <2>4, <2>5 DEF DelegateInv, state
<1> QED
  BY <1>20, <1>21

LEMMA FinishUiTaskStep ==
  ASSUME DelegateInv, FinishUiTask
  PROVE  DelegateInv'
<1>1. DelegateTypeOK /\ Orderly
  BY DEF DelegateInv
<1>2. /\ evQ \in Seq(CallbackTask) /\ Queued(evQ, delegate_generation, running, bound)
      /\ running \in BOOLEAN
  BY <1>1 DEF DelegateTypeOK, Orderly
<1>3. /\ evQ # <<>> /\ Head(evQ).calls = <<>> /\ evQ' = Tail(evQ)
      /\ UNCHANGED <<running, visible, focused, active_pointers, poster, stopping, view, events,
                     uiRefused>>
  BY DEF FinishUiTask
<1>4. PICK n \in Nat : n + 1 = Len(evQ)
  <2>1. Len(evQ) \in Nat /\ Len(evQ) # 0
    BY <1>2, <1>3, EmptySeq
  <2>2. Len(evQ) - 1 \in Nat /\ Len(evQ) - 1 + 1 = Len(evQ)
    BY <2>1
  <2> QED
    BY <2>2
<1>5. PICK b : b = Tail(evQ)
  OBVIOUS
<1>6. b \in Seq(CallbackTask) /\ Len(b) = n /\ \A i \in 1 .. n : b[i] = evQ[i + 1]
  BY <1>2, <1>3, <1>4, <1>5
<1>7. Queued(b, delegate_generation, running, bound)
  <2>1. ASSUME NEW i \in 1 .. n
        PROVE  /\ b[i].gen <= delegate_generation
               /\ b[i].last => ~running
               /\ b[i].last /\ bound => b[i].gen = delegate_generation
    <3>1. i + 1 \in 1 .. Len(evQ)
      BY <1>4
    <3> QED
      BY <1>2, <1>6, <3>1 DEF Queued
  <2> QED
    BY <1>6, <2>1 DEF Queued
<1>8. PICK t : t = evQ[1]
  OBVIOUS
<1>9. /\ Head(evQ) = t /\ (t.last => ~running)
      /\ t.last /\ bound => t.gen = delegate_generation
  <2>1. 1 \in 1 .. Len(evQ)
    BY <1>4
  <2> QED
    BY <1>2, <1>3, <1>8, <2>1 DEF Queued
<1>10. CASE t.last
  <2>1. EndDelivery(t.gen)
    BY <1>9, <1>10 DEF FinishUiTask
  <2>2. Queued(evQ', delegate_generation, FALSE, bound)
    BY <1>3, <1>5, <1>7 DEF Queued
  <2>3. uiRefused' \in BOOLEAN /\ evQ' \in Seq(CallbackTask)
    BY <1>1, <1>3, <1>5, <1>6 DEF DelegateTypeOK
  <2>4. ~running /\ (bound => t.gen = delegate_generation)
    BY <1>9, <1>10
  <2>5. poster' \in Holders /\ Owned(poster', delegate_generation, FALSE, bound, visible)
    BY <1>1, <1>2, <1>3, <2>4 DEF DelegateTypeOK, Orderly, Owned
  <2> QED
    BY <1>3, <2>1, <2>2, <2>3, <2>4, <2>5, EndDeliveryStep
<1>11. CASE ~t.last
  <2>1. UNCHANGED <<deliver_queued_events, bound, delegate_generation>>
    BY <1>9, <1>11 DEF FinishUiTask
  <2>2. DelegateTypeOK'
    BY <1>1, <1>3, <1>5, <1>6, <2>1 DEF DelegateTypeOK
  <2>3. Orderly'
    BY <1>1, <1>3, <1>5, <1>7, <2>1 DEF Orderly
  <2>4. ASSUME bound
        PROVE  Known(view, b, delegate_generation, poster, active_pointers, visible, focused, running)
    <3>1. PICK w \in Views : /\ Through(view, evQ, delegate_generation, w)
                             /\ Placed(w, poster, active_pointers, visible, focused, running)
      BY <2>4 DEF DelegateInv, Known
    <3>2. Through(view, b, delegate_generation, w)
      BY <1>2, <1>3, <1>5, <3>1, ThroughTail
    <3> QED
      BY <3>1, <3>2 DEF Known
  <2> QED
    BY <1>3, <1>5, <2>1, <2>2, <2>3, <2>4 DEF DelegateInv
<1> QED
  BY <1>10, <1>11

LEMMA StopAgainStep ==
  ASSUME DelegateInv, StopAgain
  PROVE  DelegateInv'
<1>1. DelegateTypeOK'
  BY DEF DelegateInv, DelegateTypeOK, StopAgain, state
<1>2. Orderly'
  BY DEF DelegateInv, Orderly, StopAgain, state
<1> QED
  BY <1>1, <1>2 DEF DelegateInv, StopAgain, state

LEMMA DelegateStutter ==
  ASSUME DelegateInv, UNCHANGED delegateVars
  PROVE  DelegateInv'
<1>1. DelegateTypeOK'
  BY DEF DelegateInv, DelegateTypeOK, delegateVars, state
<1>2. Orderly'
  BY DEF DelegateInv, Orderly, delegateVars, state
<1> QED
  BY <1>1, <1>2 DEF DelegateInv, delegateVars, state

LEMMA DelegateInitially == DelegateInit => DelegateInv
<1> SUFFICES ASSUME DelegateInit PROVE DelegateInv
  OBVIOUS
<1>1. DelegateTypeOK
  <2>1. delegate_generation \in Generations /\ events \in 0 .. MaxEvents
    BY InputConstants DEF DelegateInit, Generations
  <2>2. poster \in Holders /\ view \in Views
    BY FreeTyped, NewViewIs DEF DelegateInit
  <2>3. evQ \in Seq(CallbackTask) /\ active_pointers \in SUBSET Pointers
    BY DEF DelegateInit
  <2> QED
    BY <2>1, <2>2, <2>3 DEF DelegateInit, DelegateTypeOK
<1>2. Orderly
  BY FreeTyped DEF DelegateInit, Orderly, Owned, Queued
<1> QED
  BY <1>1, <1>2, NewViewIs DEF DelegateInit, DelegateInv

LEMMA DelegateStep == DelegateInv /\ [DelegateNext]_delegateVars => DelegateInv'
<1> SUFFICES ASSUME DelegateInv, [DelegateNext]_delegateVars PROVE DelegateInv'
  OBVIOUS
<1>1. CASE Post
  BY <1>1, PostStep
<1>2. CASE PostShutdown
  BY <1>2, PostShutdownStep
<1>3. CASE shutdown_window
  BY <1>3, ShutdownWindowStep
<1>4. CASE StopAgain
  BY <1>4, StopAgainStep
<1>5. CASE Callback
  BY <1>5, CallbackStep
<1>6. CASE FinishUiTask
  BY <1>6, FinishUiTaskStep
<1>7. CASE hide
  BY <1>7, HideStep
<1>8. CASE show
  BY <1>8, ShowStep
<1>9. CASE send_key
  BY <1>9, SendKeyStep
<1>10. CASE bind_delegate
  BY <1>10, BindDelegateStep
<1>11. CASE reset_delegate
  BY <1>11, ResetDelegateStep
<1>12. CASE \E f \in BOOLEAN : set_focused(f)
  BY <1>12, SetFocusedStep
<1>13. CASE \E p \in Pointers, phase \in Phases : send_pointer(p, phase)
  BY <1>13, SendPointerStep
<1>14. CASE UNCHANGED delegateVars
  BY <1>14, DelegateStutter
<1> QED
  BY <1>1, <1>2, <1>3, <1>4, <1>5, <1>6, <1>7, <1>8, <1>9, <1>10, <1>11, <1>12, <1>13, <1>14
  DEF DelegateNext

LEMMA DelegateInvAlways == DelegateSpec => []DelegateInv
  BY DelegateInitially, DelegateStep, PTL DEF DelegateSpec

(* The delegate binding keeps its types, the task in progress and the      *)
(* owner of dispatch_mutex included, with any number of pointers and       *)
(* delegates.                                                              *)
THEOREM DelegateTypeCorrect == DelegateSpec => []DelegateTypeOK
<1>1. DelegateInv => DelegateTypeOK
  BY DEF DelegateInv
<1> QED
  BY <1>1, DelegateInvAlways, PTL

(* Every delegate host.cpp binds sees a sensible story (created first, a   *)
(* down before each move, up and cancel, every pointer ended before focus, *)
(* visibility or the window is lost) and, once nothing is under way, knows *)
(* the window as it is; through rolled back posts, rebinding, resets and   *)
(* shutdown.                                                               *)
THEOREM DelegateAlwaysInformed == DelegateSpec => []DelegateInformed
<1>1. DelegateInv => DelegateInformed
  BY DelegateInvInforms
<1> QED
  BY <1>1, DelegateInvAlways, PTL
-----------------------------------------------------------------------------
(***************************************************************************)
(* The text input session: what the values of the model are.               *)
(***************************************************************************)
LEMMA TextLimits ==
  /\ MaxSession \in Nat /\ MaxSession >= 1 /\ MaxService \in Nat /\ MaxService >= 1
  /\ MaxCallback \in Nat /\ MaxCallback >= 1 /\ MaxRevision \in Nat /\ MaxRevision >= 1
  /\ MaxCommands \in Nat /\ MaxCallbacks \in Nat
  BY TextConstants

LEMMA IdleTaskIs ==
  /\ IdleTask \in Task /\ IdleTask.pc = "idle" /\ IdleTask.session = {} /\ IdleTask.service = 0
  /\ IdleTask.callback = 0 /\ IdleTask.seen = -1 /\ IdleTask.then = "idle" /\ IdleTask.rect = FALSE
  BY TextLimits DEF IdleTask, Task, Steps, Services, Callbacks

LEMMA NoNativeIs ==
  /\ NoNative \in NativeText /\ NoNative.session = FALSE /\ NoNative.public = 0
  /\ NoNative.service = 0 /\ NoNative.callback = 0 /\ NoNative.value_revision = 0
  /\ NoNative.rect_revision = 0
  BY TextLimits DEF NoNative, NativeText, Sessions, Services, Callbacks, Revisions

LEMMA TaskIs ==
  ASSUME NEW t \in Task
  PROVE  /\ t.pc \in Steps \cup {"decide", "start", "value", "rect"}
         /\ t.session \in SUBSET Session /\ t.service \in Services /\ t.callback \in Callbacks
         /\ t.seen \in Int /\ t.then \in {"idle", "rect"} /\ t.rect \in BOOLEAN
  BY DEF Task

LEMMA SessionIs ==
  ASSUME NEW s \in Session
  PROVE  /\ s.id \in Nat /\ s.id \in Sessions /\ s.value \in Values /\ s.value_revision \in Nat
         /\ s.value_revision \in Revisions /\ s.rect_revision \in Nat
         /\ s.rect_revision \in Revisions /\ s.alive \in BOOLEAN
  BY TextLimits DEF Session, Sessions, Revisions

LEMMA NativeIs ==
  ASSUME NEW n \in NativeText
  PROVE  /\ n.session \in BOOLEAN /\ n.public \in Nat /\ n.public \in Sessions
         /\ n.service \in Nat /\ n.service \in Services /\ n.callback \in Nat
         /\ n.callback \in Callbacks /\ n.value_revision \in Nat /\ n.rect_revision \in Nat
  BY TextLimits DEF NativeText, Sessions, Services, Callbacks, Revisions

LEMMA LiveIs ==
  ASSUME NEW l \in Live
  PROVE  /\ l.service \in Nat /\ l.service \in Services /\ l.callback \in Nat
         /\ l.callback \in Callbacks /\ l.public \in Sessions /\ l.value \in Values
         /\ l.rect \in Revisions /\ l.edited \in BOOLEAN
  BY TextLimits DEF Live, Sessions, Services, Callbacks, Revisions

LEMMA ContinueIs ==
  ASSUME NEW t \in Task, NEW pc \in Steps \cup {"rect"}
  PROVE  /\ Continue(t, pc) \in Task /\ Continue(t, pc).pc = pc
         /\ pc = "idle" => Continue(t, pc) = IdleTask
         /\ pc # "idle" => /\ Continue(t, pc).session = t.session
                           /\ Continue(t, pc).service = t.service
                           /\ Continue(t, pc).callback = t.callback
                           /\ Continue(t, pc).seen = t.seen /\ Continue(t, pc).then = t.then
                           /\ Continue(t, pc).rect = t.rect
<1>1. CASE pc = "idle"
  BY <1>1, IdleTaskIs DEF Continue
<1>2. CASE pc # "idle"
  <2>1. Continue(t, pc) = [t EXCEPT !.pc = pc]
    BY <1>2 DEF Continue
  <2> QED
    BY <1>2, <2>1 DEF Task, Steps
<1> QED
  BY <1>1, <1>2


(***************************************************************************)
(* The inductive invariant of the text input service.  Kept holds in any   *)
(* state, Sound while the host runs.                                       *)
(***************************************************************************)
One(S) == \A x, y \in S : x = y

(* Sessions are numbered in the order they start; what the task copied or  *)
(* the native session stands for is never younger.                         *)
Identified ==
  /\ One(task.session)
  /\ \A s \in text_session : 1 <= s.id /\ s.id < text_next_session
  /\ \A c \in task.session : 1 <= c.id /\ c.id < text_next_session
  /\ native_text.public < text_next_session
  /\ native_text.session => native_text.service >= 1
  /\ text_input_backend => text_service_generation >= 1

(* One token stands for a synchronization that is wanted: a thread about   *)
(* to post it, or the task posted.                                         *)
AboutTo(pc) == IF pc = "post" THEN 1 ELSE 0
Wanted(pending) == IF pending THEN 1 ELSE 0
Posted == platQ + AboutTo(uiStep) + AboutTo(holder) + AboutTo(task.pc) <= Wanted(text_sync_pending)

(* Callback generations are fresh. *)
Called ==
  /\ \A l \in live : 1 <= l.callback /\ l.callback < text_next_callback_generation
  /\ \A i \in 1 .. Len(uiQ) : 1 <= uiQ[i].callback /\ uiQ[i].callback < text_next_callback_generation
  /\ task.pc = "start" =>
       /\ 1 <= task.callback /\ task.callback < text_next_callback_generation
       /\ \A i \in 1 .. Len(uiQ) : uiQ[i].callback # task.callback
  /\ \A i \in 1 .. Len(uiQ), l \in live :
       uiQ[i].kind = "value" /\ uiQ[i].callback = l.callback => l.edited

Copied ==
  \A c \in task.session, s \in text_session :
    /\ c.id <= s.id
    /\ c.id = s.id => /\ c.value_revision <= s.value_revision
                      /\ c.rect_revision <= s.rect_revision
                      /\ c.value_revision = s.value_revision => c.value = s.value
Taken ==
  /\ task.pc = "start" => ~native_text.session
  /\ task.pc \in {"value", "rect"} \/ task.then = "rect" =>
       \A c \in task.session : native_text.session => native_text.public <= c.id
  /\ task.pc = "decide" => task.session = {} /\ (native_text.session => task.service = 0)
Stood ==
  /\ native_text.session /\ native_text.public # 0 =>
       \E l \in live : /\ l.service = native_text.service /\ l.callback = native_text.callback
                       /\ l.public = native_text.public /\ l.rect = native_text.rect_revision
  /\ native_text.callback # 0 => native_text.session /\ native_text.public # 0
Versions ==
  \A s \in text_session :
    /\ native_text.public <= s.id
    /\ native_text.session /\ native_text.public = s.id =>
         /\ native_text.value_revision <= s.value_revision
         /\ native_text.rect_revision <= s.rect_revision
         /\ native_text.value_revision = s.value_revision =>
              \A l \in live : l.value = s.value \/ l.edited

Quiet == ~text_sync_pending /\ uiStep = "idle" /\ holder = "idle"
IdleFollows ==
  /\ \A l \in live : l.service = text_service_generation /\ \E s \in text_session : l.public = s.id
  /\ text_input_backend =>
       \A s \in LiveClients(text_session) :
         \/ refused = commands
         \/ \E l \in live : Stands(l, s) /\ (l.value = s.value \/ l.edited)
NativeCurrent ==
  native_text.service = text_service_generation /\ \E s \in text_session : native_text.public = s.id
StartFollows ==
  /\ text_input_backend /\ text_service_generation = task.service /\ task.seen = commands
  /\ \E c \in task.session, s \in text_session : c.id = s.id
UpdateFollows(c, s) ==
  /\ text_service_generation = task.service /\ task.seen = commands
  /\ c.id = s.id /\ c.rect_revision = s.rect_revision
  /\ native_text.session /\ native_text.public = c.id /\ native_text.service = task.service
ValueFollows ==
  \E c \in task.session, s \in text_session :
    /\ UpdateFollows(c, s)
    /\ ~task.rect => native_text.rect_revision = c.rect_revision
    /\ c.value_revision = s.value_revision \/ \A l \in live : l.edited
RectFollows ==
  \E c \in task.session, s \in text_session :
    /\ UpdateFollows(c, s)
    /\ \A l \in live : l.value = s.value \/ l.edited
Follows ==
  /\ task.pc = "idle" => IdleFollows
  /\ task.pc = "decide" /\ native_text.session => NativeCurrent
  /\ task.pc = "start" => StartFollows
  /\ task.pc = "value" => ValueFollows
  /\ task.pc = "rect" => RectFollows
Sound ==
  /\ Identified /\ Posted /\ Called /\ Copied /\ Taken /\ Stood /\ Versions
  /\ Quiet => Follows
Kept ==
  /\ One(live) /\ One(text_session)
  /\ \A l \in live : \/ native_text.session /\ native_text.service = l.service
                     \/ task.pc = "decide" /\ task.service = l.service
  /\ task.pc = "idle" => task = IdleTask
  /\ task.seen \in -1 .. MaxCommands
TextInv == TypeOK /\ Kept /\ (running => Sound)

LEMMA OneIs ==
  ASSUME NEW S, One(S), NEW x \in S
  PROVE  S = {x}
  BY DEF One

(* Stopping the host leaves only the types and the sessions to account for. *)
LEMMA StoppedKeeps ==
  ASSUME TextInv, StopHost, Unscheduled, uiStep' \in Steps, holder' \in Steps, task' \in Task,
         task.pc = "decide" => task' = task, task'.pc = "idle" => task' = IdleTask,
         task'.seen \in -1 .. MaxCommands, UNCHANGED uiQ
  PROVE  TextInv'
<1>1. TypeOK'
  BY DEF TextInv, TypeOK, StopHost, Unscheduled, service, ghosts
<1>2. Kept'
  BY DEF TextInv, Kept, StopHost, Unscheduled, service, ghosts, One
<1>3. ~running'
  BY DEF StopHost
<1> QED
  BY <1>1, <1>2, <1>3 DEF TextInv

(* What scheduling a synchronization does to the token. *)
LEMMA TokenIs ==
  /\ \A pc : AboutTo(pc) \in 0 .. 1 /\ (pc = "post" => AboutTo(pc) = 1)
                                  /\ (pc # "post" => AboutTo(pc) = 0)
  /\ \A p \in BOOLEAN : Wanted(p) \in 0 .. 1 /\ (p <=> Wanted(p) = 1)
  BY DEF AboutTo, Wanted

LEMMA ScheduleDoes ==
  ASSUME TypeOK, NEW pc, NEW next, NEW done \in {"idle", "rect"}, Schedule(pc, next, done)
  PROVE  /\ text_sync_pending' \in BOOLEAN /\ platQ' \in Nat
         /\ running' = running /\ text_session' = text_session
         /\ pc \in {"schedule", "post"} /\ next \in {"post", "stop", done}
         /\ running /\ (pc = "post" => text_sync_pending) =>
              /\ next = done => text_sync_pending'
              /\ platQ' + AboutTo(next) - Wanted(text_sync_pending')
                   <= platQ + AboutTo(pc) - Wanted(text_sync_pending)
<1>1. text_sync_pending \in BOOLEAN /\ platQ \in Nat /\ running \in BOOLEAN
  BY DEF TypeOK
<1>2. CASE pc = "schedule"
  <2>1. CASE Unwanted /\ next = done /\ UNCHANGED text_sync_pending
             /\ UNCHANGED <<running, text_session, platQ>>
    <3>1. /\ platQ' = platQ /\ AboutTo(next) = 0 /\ AboutTo(pc) = 0
          /\ running => text_sync_pending
      BY <1>2, <2>1 DEF Unwanted, AboutTo
    <3>2. Wanted(text_sync_pending) \in Nat /\ Wanted(text_sync_pending') = Wanted(text_sync_pending)
      BY <2>1 DEF Wanted
    <3> QED
      BY <1>1, <1>2, <2>1, <3>1, <3>2
  <2>2. CASE ~Unwanted /\ next = "post" /\ text_sync_pending' = TRUE
             /\ UNCHANGED <<running, text_session, platQ>>
    BY <1>1, <1>2, <2>2 DEF Unwanted, AboutTo, Wanted
  <2> QED
    BY <1>2, <2>1, <2>2 DEF Schedule
<1>3. CASE pc = "post"
  <2>1. CASE platQ' = platQ + 1 /\ next = done /\ UNCHANGED text_sync_pending
             /\ UNCHANGED <<running, text_session>>
    BY <1>1, <1>3, <2>1 DEF AboutTo, Wanted
  <2>2. CASE text_sync_pending' = FALSE /\ next = "stop" /\ UNCHANGED platQ
             /\ UNCHANGED <<running, text_session>>
    <3>1. AboutTo(next) = 0 /\ AboutTo(pc) = 1 /\ next # done
      BY <1>3, <2>2 DEF AboutTo
    <3>2. Wanted(text_sync_pending') = 0
      BY <2>2 DEF Wanted
    <3>3. text_sync_pending => Wanted(text_sync_pending) = 1
      BY DEF Wanted
    <3>4. PICK w : w = Wanted(text_sync_pending)
      OBVIOUS
    <3>5. PICK w2 : w2 = Wanted(text_sync_pending')
      OBVIOUS
    <3>6. w2 = 0 /\ (text_sync_pending => w = 1)
      BY <3>2, <3>3, <3>4, <3>5, Zenon
    <3>7. text_sync_pending => platQ' + AboutTo(next) - w2 <= platQ + AboutTo(pc) - w
      BY <1>1, <2>2, <3>1, <3>6
    <3>8. text_sync_pending =>
            platQ' + AboutTo(next) - Wanted(text_sync_pending')
              <= platQ + AboutTo(pc) - Wanted(text_sync_pending)
      BY <3>4, <3>5, <3>7, Zenon
    <3>9. /\ text_sync_pending' \in BOOLEAN /\ platQ' \in Nat
           /\ running' = running /\ text_session' = text_session
           /\ pc \in {"schedule", "post"} /\ next \in {"post", "stop", done}
      BY <1>1, <1>3, <2>2
    <3> QED
      BY <1>3, <3>1, <3>8, <3>9, Zenon
  <2> QED
    BY <1>3, <2>1, <2>2 DEF Schedule
<1> QED
  BY <1>2, <1>3 DEF Schedule

LEMMA UiThreadStep ==
  ASSUME TextInv, UiThread
  PROVE  TextInv'
<1>1. TypeOK /\ Kept /\ (running => Sound)
  BY DEF TextInv
<1>2. Unscheduled /\ holder' = holder /\ task' = task
  BY DEF UiThread
<1>3. holder \in Steps /\ task \in Task /\ task.seen \in -1 .. MaxCommands
  BY <1>1 DEF TypeOK, Kept
<1>4. CASE uiStep = "stop" /\ StopHost /\ uiStep' = "idle"
  <2>1. uiStep' \in Steps /\ (task'.pc = "idle" => task' = IdleTask)
    BY <1>1, <1>2, <1>4 DEF Steps, Kept
  <2> QED
    BY <1>2, <1>3, <1>4, <2>1, StoppedKeeps DEF Unscheduled
<1>5. ASSUME NEW next \in Steps, Schedule(uiStep, next, "idle"), uiStep' = next
      PROVE  TextInv'
  <2>1. /\ text_sync_pending' \in BOOLEAN /\ platQ' \in Nat
        /\ running' = running /\ text_session' = text_session /\ next \in {"post", "stop", "idle"}
        /\ running /\ (uiStep = "post" => text_sync_pending) =>
             /\ next = "idle" => text_sync_pending'
             /\ platQ' + AboutTo(next) - Wanted(text_sync_pending')
                  <= platQ + AboutTo(uiStep) - Wanted(text_sync_pending)
    BY <1>1, <1>5, ScheduleDoes
  <2>2. TypeOK'
    BY <1>1, <1>2, <1>5, <2>1 DEF TypeOK, Unscheduled, service, ghosts
  <2>3. Kept'
    BY <1>1, <1>2, <2>1 DEF Kept, Unscheduled, service, ghosts
  <2>4. ASSUME running PROVE Sound'
    <3>1. Sound /\ platQ \in Nat /\ text_sync_pending \in BOOLEAN
      BY <1>1, <2>4 DEF TypeOK
    <3>2. uiStep = "post" => text_sync_pending
      BY <3>1, TokenIs DEF Sound, Posted
    <3>3. Posted'
      BY <1>2, <1>5, <2>1, <2>4, <3>1, <3>2, TokenIs DEF Sound, Posted
    <3>4. ~Quiet'
      BY <1>5, <2>1, <2>4, <3>2 DEF Quiet
    <3>5. Identified' /\ Copied' /\ Taken' /\ Stood' /\ Versions'
      BY <1>2, <2>1, <3>1 DEF Sound, Identified, Copied, Taken, Stood, Versions, Unscheduled, service
    <3>6. Called'
      BY <1>2, <3>1 DEF Sound, Called, Unscheduled, service
    <3> QED
      BY <3>3, <3>4, <3>5, <3>6 DEF Sound
  <2> QED
    BY <2>1, <2>2, <2>3, <2>4 DEF TextInv
<1> QED
  BY <1>4, <1>5 DEF UiThread

LEMMA HolderThreadStep ==
  ASSUME TextInv, HolderThread
  PROVE  TextInv'
<1>1. TypeOK /\ Kept /\ (running => Sound)
  BY DEF TextInv
<1>2. Unscheduled /\ uiStep' = uiStep /\ task' = task
  BY DEF HolderThread
<1>3. uiStep \in Steps /\ task \in Task /\ task.seen \in -1 .. MaxCommands
  BY <1>1 DEF TypeOK, Kept
<1>4. CASE holder = "stop" /\ StopHost /\ holder' = "idle"
  <2>1. holder' \in Steps /\ (task'.pc = "idle" => task' = IdleTask)
    BY <1>1, <1>2, <1>4 DEF Steps, Kept
  <2> QED
    BY <1>2, <1>3, <1>4, <2>1, StoppedKeeps DEF Unscheduled
<1>5. ASSUME NEW next \in Steps, Schedule(holder, next, "idle"), holder' = next
      PROVE  TextInv'
  <2>1. /\ text_sync_pending' \in BOOLEAN /\ platQ' \in Nat
        /\ running' = running /\ text_session' = text_session /\ next \in {"post", "stop", "idle"}
        /\ running /\ (holder = "post" => text_sync_pending) =>
             /\ next = "idle" => text_sync_pending'
             /\ platQ' + AboutTo(next) - Wanted(text_sync_pending')
                  <= platQ + AboutTo(holder) - Wanted(text_sync_pending)
    BY <1>1, <1>5, ScheduleDoes
  <2>2. TypeOK'
    BY <1>1, <1>2, <1>5, <2>1 DEF TypeOK, Unscheduled, service, ghosts
  <2>3. Kept'
    BY <1>1, <1>2, <2>1 DEF Kept, Unscheduled, service, ghosts
  <2>4. ASSUME running PROVE Sound'
    <3>1. Sound /\ platQ \in Nat /\ text_sync_pending \in BOOLEAN
      BY <1>1, <2>4 DEF TypeOK
    <3>2. holder = "post" => text_sync_pending
      BY <3>1, TokenIs DEF Sound, Posted
    <3>3. Posted'
      BY <1>2, <1>5, <2>1, <2>4, <3>1, <3>2, TokenIs DEF Sound, Posted
    <3>4. ~Quiet'
      BY <1>5, <2>1, <2>4, <3>2 DEF Quiet
    <3>5. Identified' /\ Copied' /\ Taken' /\ Stood' /\ Versions'
      BY <1>2, <2>1, <3>1 DEF Sound, Identified, Copied, Taken, Stood, Versions, Unscheduled, service
    <3>6. Called'
      BY <1>2, <3>1 DEF Sound, Called, Unscheduled, service
    <3> QED
      BY <3>3, <3>4, <3>5, <3>6 DEF Sound
  <2> QED
    BY <2>1, <2>2, <2>3, <2>4 DEF TextInv
<1> QED
  BY <1>4, <1>5 DEF HolderThread

LEMMA TaskThreadStep ==
  ASSUME TextInv, TaskThread
  PROVE  TextInv'
<1>1. TypeOK /\ Kept /\ (running => Sound)
  BY DEF TextInv
<1>2. Unscheduled /\ uiStep' = uiStep /\ holder' = holder
  BY DEF TaskThread
<1>3. /\ uiStep \in Steps /\ holder \in Steps /\ task \in Task /\ task.seen \in -1 .. MaxCommands
      /\ task.then \in {"idle", "rect"} /\ -1 \in -1 .. MaxCommands
  BY <1>1, TaskIs, TextLimits DEF TypeOK, Kept
<1>4. ASSUME NEW pc \in Steps \cup {"rect"}, task' = Continue(task, pc)
      PROVE  /\ task' \in Task /\ task'.pc = pc /\ (pc = "idle" => task' = IdleTask)
             /\ task'.seen \in -1 .. MaxCommands
             /\ task'.session \in {task.session, {}} /\ task'.then \in {task.then, "idle"}
  <2>1. /\ task' \in Task /\ task'.pc = pc /\ (pc = "idle" => task' = IdleTask)
        /\ pc # "idle" => /\ task'.session = task.session /\ task'.seen = task.seen
                          /\ task'.then = task.then
    BY <1>3, <1>4, ContinueIs
  <2> QED
    BY <1>3, <2>1, IdleTaskIs
<1>5. CASE task.pc = "stop" /\ StopHost /\ task' = Continue(task, task.then)
  <2>1. task.then \in Steps \cup {"rect"}
    BY <1>3 DEF Steps
  <2> QED
    BY <1>2, <1>3, <1>4, <1>5, <2>1, StoppedKeeps DEF Unscheduled
<1>6. ASSUME NEW next \in Steps \cup {"rect"}, Schedule(task.pc, next, task.then),
             task' = Continue(task, next)
      PROVE  TextInv'
  <2>1. /\ text_sync_pending' \in BOOLEAN /\ platQ' \in Nat
        /\ running' = running /\ text_session' = text_session
        /\ task.pc \in {"schedule", "post"} /\ next \in {"post", "stop", task.then}
        /\ running /\ (task.pc = "post" => text_sync_pending) =>
             /\ next = task.then => text_sync_pending'
             /\ platQ' + AboutTo(next) - Wanted(text_sync_pending')
                  <= platQ + AboutTo(task.pc) - Wanted(text_sync_pending)
    BY <1>1, <1>3, <1>6, ScheduleDoes
  <2>2. /\ task' \in Task /\ task'.pc = next /\ (next = "idle" => task' = IdleTask)
        /\ task'.seen \in -1 .. MaxCommands
        /\ task'.session \in {task.session, {}} /\ task'.then \in {task.then, "idle"}
    BY <1>4, <1>6
  <2>3. TypeOK'
    BY <1>1, <1>2, <2>1, <2>2 DEF TypeOK, Unscheduled, service, ghosts
  <2>4. Kept'
    BY <1>1, <1>2, <2>1, <2>2 DEF Kept, Unscheduled, service, ghosts
  <2>5. ASSUME running PROVE Sound'
    <3>1. Sound /\ platQ \in Nat /\ text_sync_pending \in BOOLEAN
      BY <1>1, <2>5 DEF TypeOK
    <3>2. task.pc = "post" => text_sync_pending
      BY <3>1, TokenIs DEF Sound, Posted
    <3>3. Posted'
      BY <1>2, <2>1, <2>2, <2>5, <3>1, <3>2, TokenIs DEF Sound, Posted
    <3>4. Quiet' => next \in {"post", "stop"}
      BY <2>1, <2>5, <3>2 DEF Quiet
    <3>5. Quiet' => Follows'
      BY <2>2, <3>4 DEF Follows
    <3>6. Identified' /\ Copied' /\ Stood' /\ Versions'
      BY <1>2, <2>1, <2>2, <3>1 DEF Sound, Identified, Copied, Stood, Versions, Unscheduled, service, One
    <3>7. Taken'
      BY <1>2, <1>3, <2>1, <2>2, <3>1 DEF Sound, Taken, Unscheduled
    <3>8. Called'
      BY <1>2, <1>3, <2>1, <2>2, <3>1 DEF Sound, Called, Unscheduled, service
    <3> QED
      BY <3>3, <3>5, <3>6, <3>7, <3>8 DEF Sound
  <2> QED
    BY <2>1, <2>3, <2>4, <2>5 DEF TextInv
<1> QED
  BY <1>5, <1>6 DEF TaskThread

LEMMA ShutdownStep ==
  ASSUME TextInv, shutdown
  PROVE  TextInv'
<1>1. /\ task' = task /\ uiStep' \in Steps /\ holder' \in Steps /\ task' \in Task
      /\ task.pc = "idle" => task = IdleTask
      /\ task'.seen \in -1 .. MaxCommands
  BY DEF TextInv, TypeOK, Kept, shutdown
<1> QED
  BY <1>1, StoppedKeeps DEF shutdown, Unscheduled


(***************************************************************************)
(* Commands of the framework, and the driver's replacement of the backend. *)
(***************************************************************************)
LEMMA SessionMoves ==
  ASSUME TypeOK, One(text_session), Copied, Versions,
         NEW s \in text_session, NEW z \in Session,
         z.id = s.id, z.value_revision >= s.value_revision, z.rect_revision >= s.rect_revision,
         z.value_revision = s.value_revision => z.value = s.value,
         text_session' = {z}, task'.session = task.session, native_text' = native_text, live' = live
  PROVE  One(text_session') /\ Copied' /\ Versions'
<1>1. text_session = {s}
  BY OneIs
<1>2. s \in Session /\ native_text \in NativeText /\ task \in Task
  BY DEF TypeOK
<1>3. /\ s.id \in Nat /\ s.value_revision \in Nat /\ s.rect_revision \in Nat
      /\ z.value_revision \in Nat /\ z.rect_revision \in Nat
      /\ native_text.value_revision \in Nat /\ native_text.rect_revision \in Nat
  BY <1>2, SessionIs, NativeIs
<1>4. \A c \in task.session : c.id \in Nat /\ c.value_revision \in Nat /\ c.rect_revision \in Nat
  BY <1>2, SessionIs, TaskIs
<1>5. Copied'
  BY <1>1, <1>3, <1>4 DEF Copied
<1>6. Versions'
  BY <1>1, <1>3 DEF Versions
<1> QED
  BY <1>5, <1>6 DEF One

LEMMA CommandKeeps ==
  ASSUME TextInv, Command, text_session' \in SUBSET Session, text_next_session' \in 1 .. MaxSession,
         One(text_session'), text_next_session' >= text_next_session,
         \A s \in text_session' : 1 <= s.id /\ s.id < text_next_session',
         Sound => Copied' /\ Versions'
  PROVE  TextInv'
<1>1. TypeOK /\ Kept /\ Sound /\ running
  BY DEF TextInv, Command
<1>2. /\ UNCHANGED <<running, service, text_sync_pending, native_text, holder, task, platQ, uiQ,
                     live, refused>>
      /\ commands' = commands + 1 /\ commands < MaxCommands /\ uiStep = "idle" /\ uiStep' = "schedule"
  BY DEF Command
<1>3. commands' \in 0 .. MaxCommands
  BY <1>1, <1>2, TextLimits DEF TypeOK
<1>4. TypeOK'
  BY <1>1, <1>2, <1>3 DEF TypeOK, service, Steps
<1>5. Kept'
  BY <1>1, <1>2 DEF Kept
<1>6. Posted'
  BY <1>1, <1>2, TokenIs DEF Sound, Posted
<1>7. Identified'
  <2>1. native_text \in NativeText /\ text_next_session \in Nat /\ task \in Task
    BY <1>1, TextLimits DEF TypeOK
  <2>2. \A c \in task.session : c.id \in Nat
    BY <2>1, TaskIs, SessionIs
  <2>3. native_text.public \in Nat
    BY <2>1, NativeIs
  <2> QED
    BY <1>1, <1>2, <2>1, <2>2, <2>3 DEF Sound, Identified, service
<1>8. Called'
  BY <1>1, <1>2 DEF Sound, Called, service
<1>9. Taken' /\ Stood'
  BY <1>1, <1>2 DEF Sound, Taken, Stood
<1>10. ~Quiet'
  BY <1>2 DEF Quiet
<1> QED
  BY <1>1, <1>4, <1>5, <1>6, <1>7, <1>8, <1>9, <1>10 DEF TextInv, Sound

LEMMA StartTextInputStep ==
  ASSUME TextInv, NEW v \in Values, start_text_input(v)
  PROVE  TextInv'
<1> DEFINE z == [id |-> text_next_session, value |-> v, value_revision |-> 1,
                 rect_revision |-> 0, alive |-> TRUE]
<1>1. /\ TypeOK /\ Sound /\ text_session' = {z} /\ text_next_session' = text_next_session + 1
      /\ text_next_session # MaxSession /\ Command
      /\ native_text' = native_text /\ task' = task
  BY DEF TextInv, start_text_input, Command
<1>2. text_next_session \in 1 .. MaxSession
  BY <1>1 DEF TypeOK
<1>3. z \in Session /\ z.id = text_next_session
  BY <1>2, TextLimits DEF Session, Sessions, Revisions
<1> HIDE DEF z
<1>4. Copied' /\ Versions'
  <2>1. native_text \in NativeText /\ task \in Task
    BY <1>1 DEF TypeOK
  <2>2. \A c \in task.session : c.id \in Nat /\ c.id < text_next_session
    BY <1>1, <2>1, TaskIs, SessionIs DEF Sound, Identified
  <2>3. native_text.public \in Nat /\ native_text.public < text_next_session
    BY <1>1, <2>1, NativeIs DEF Sound, Identified
  <2> QED
    BY <1>1, <1>2, <1>3, <2>2, <2>3 DEF Copied, Versions
<1>5. text_next_session' \in 1 .. MaxSession /\ text_next_session' >= text_next_session
  BY <1>1, <1>2, TextLimits
<1>6. \A s \in text_session' : 1 <= s.id /\ s.id < text_next_session'
  BY <1>1, <1>2, <1>3
<1> QED
  BY <1>1, <1>3, <1>4, <1>5, <1>6, CommandKeeps DEF One

LEMMA SessionCommandStep ==
  ASSUME TextInv, Command, UNCHANGED text_next_session, NEW s \in text_session, NEW z \in Session,
         text_session' = {z}, z.id = s.id, z.value_revision >= s.value_revision,
         z.rect_revision >= s.rect_revision,
         z.value_revision = s.value_revision => z.value = s.value
  PROVE  TextInv'
<1>1. TypeOK /\ Kept /\ Sound
  BY DEF TextInv, Command
<1>2. task' = task /\ native_text' = native_text /\ live' = live
  BY DEF Command
<1>3. One(text_session') /\ Copied' /\ Versions'
  BY <1>1, <1>2, SessionMoves DEF Sound, Kept
<1>4. 1 <= z.id /\ z.id < text_next_session' /\ text_next_session \in 1 .. MaxSession
  BY <1>1 DEF Sound, Identified, TypeOK
<1>5. text_next_session' >= text_next_session
  BY <1>4, TextLimits
<1> QED
  BY <1>3, <1>4, <1>5, CommandKeeps

LEMMA UpdateEditingStateStep ==
  ASSUME TextInv, NEW v \in Values, update_editing_state(v)
  PROVE  TextInv'
<1>1. PICK s \in text_session :
        ~ValueExhausted(s) /\ text_session' = {[s EXCEPT !.value = v, !.value_revision = @ + 1]}
  BY DEF update_editing_state
<1>2. s \in Session /\ UNCHANGED text_next_session /\ Command
  BY DEF TextInv, TypeOK, update_editing_state
<1>3. PICK z : z = [s EXCEPT !.value = v, !.value_revision = @ + 1]
  OBVIOUS
<1>4. s.value_revision + 1 \in Revisions /\ s.value_revision \in Nat /\ s.rect_revision \in Nat
  BY <1>1, <1>2, SessionIs, TextLimits DEF ValueExhausted, Revisions
<1>5. /\ z \in Session /\ z.id = s.id /\ z.value_revision = s.value_revision + 1
      /\ z.rect_revision = s.rect_revision
  BY <1>2, <1>3, <1>4 DEF Session
<1>6. /\ z.value_revision >= s.value_revision /\ z.rect_revision >= s.rect_revision
      /\ z.value_revision # s.value_revision
  BY <1>4, <1>5
<1> QED
  BY <1>1, <1>2, <1>3, <1>5, <1>6, SessionCommandStep

LEMMA SetEditableRectStep ==
  ASSUME TextInv, set_editable_rect
  PROVE  TextInv'
<1>1. PICK s \in text_session :
        s.rect_revision # MaxRevision /\ text_session' = {[s EXCEPT !.rect_revision = @ + 1]}
  BY DEF set_editable_rect
<1>2. s \in Session /\ UNCHANGED text_next_session /\ Command
  BY DEF TextInv, TypeOK, set_editable_rect
<1>3. PICK z : z = [s EXCEPT !.rect_revision = @ + 1]
  OBVIOUS
<1>4. s.rect_revision + 1 \in Revisions /\ s.value_revision \in Nat /\ s.rect_revision \in Nat
  BY <1>1, <1>2, SessionIs, TextLimits DEF Revisions
<1>5. /\ z \in Session /\ z.id = s.id /\ z.value_revision = s.value_revision
      /\ z.rect_revision = s.rect_revision + 1 /\ z.value = s.value
  BY <1>2, <1>3, <1>4 DEF Session
<1>6. z.value_revision >= s.value_revision /\ z.rect_revision >= s.rect_revision
  BY <1>4, <1>5
<1> QED
  BY <1>1, <1>2, <1>3, <1>5, <1>6, SessionCommandStep

LEMMA StopTextInputStep ==
  ASSUME TextInv, stop_text_input
  PROVE  TextInv'
<1>1. text_session' = {} /\ text_next_session' = text_next_session /\ Command
  BY DEF stop_text_input
<1>2. text_next_session \in 1 .. MaxSession
  BY DEF TextInv, TypeOK
<1>3. text_next_session' >= text_next_session
  BY <1>1, <1>2, TextLimits
<1> QED
  BY <1>1, <1>2, <1>3, CommandKeeps DEF One, Copied, Versions


LEMMA ClientExpiresStep ==
  ASSUME TextInv, ClientExpires
  PROVE  TextInv'
<1>1. PICK s \in text_session : text_session' = {[s EXCEPT !.alive = FALSE]}
  BY DEF ClientExpires
<1>2. /\ TypeOK /\ Kept /\ (running => Sound) /\ s \in Session
      /\ UNCHANGED <<running, service, text_next_session, text_sync_pending, native_text, uiStep,
                     holder, task, platQ, uiQ, live, ghosts>>
  BY DEF TextInv, TypeOK, ClientExpires
<1>3. PICK z : z = [s EXCEPT !.alive = FALSE]
  OBVIOUS
<1>4. /\ z \in Session /\ z.id = s.id /\ z.value_revision = s.value_revision
      /\ z.rect_revision = s.rect_revision /\ z.value = s.value /\ z.alive = FALSE
  BY <1>2, <1>3 DEF Session
<1>5. s.value_revision \in Nat /\ s.rect_revision \in Nat
  BY <1>2, SessionIs
<1>6. text_session = {s} /\ text_session' = {z}
  BY <1>1, <1>2, <1>3, OneIs DEF Kept
<1>7. TypeOK'
  BY <1>2, <1>4, <1>6 DEF TypeOK, service, ghosts
<1>8. Kept'
  BY <1>2, <1>6 DEF Kept, One
<1>9. ASSUME running PROVE Sound'
  <2>1. Sound
    BY <1>2, <1>9
  <2>2. z.value_revision >= s.value_revision /\ z.rect_revision >= s.rect_revision
    BY <1>4, <1>5
  <2>3. Copied' /\ Versions'
    BY <1>2, <1>4, <1>6, <2>1, <2>2, SessionMoves DEF Kept, Sound
  <2>4. Identified' /\ Posted'
    BY <1>2, <1>4, <1>6, <2>1 DEF Sound, Identified, Posted, service
  <2>5. Called'
    BY <1>2, <2>1 DEF Sound, Called, service
  <2>6. Taken' /\ Stood'
    BY <1>2, <2>1 DEF Sound, Taken, Stood
  <2>7. ASSUME Quiet' PROVE Follows'
    <3>1. Follows
      BY <1>2, <2>1, <2>7 DEF Sound, Quiet
    <3>2. IdleFollows => IdleFollows'
      BY <1>2, <1>4, <1>6 DEF IdleFollows, LiveClients, service
    <3>3. (NativeCurrent => NativeCurrent') /\ (StartFollows => StartFollows')
      BY <1>2, <1>4, <1>6 DEF NativeCurrent, StartFollows, service, ghosts
    <3>4. \A c : UpdateFollows(c, s) => UpdateFollows(c, z)'
      BY <1>2, <1>4 DEF UpdateFollows, service, ghosts
    <3>5. (ValueFollows => ValueFollows') /\ (RectFollows => RectFollows')
      BY <1>2, <1>4, <1>6, <3>4 DEF ValueFollows, RectFollows
    <3> QED
      BY <1>2, <3>1, <3>2, <3>3, <3>5 DEF Follows
  <2> QED
    BY <2>3, <2>4, <2>5, <2>6, <2>7 DEF Sound
<1> QED
  BY <1>2, <1>7, <1>8, <1>9 DEF TextInv

LEMMA SetTextInputBackendStep ==
  ASSUME TextInv, NEW b \in BOOLEAN, set_text_input_backend(b)
  PROVE  TextInv'
<1>1. TypeOK /\ Kept /\ Sound /\ running
  BY DEF TextInv, set_text_input_backend
<1>2. /\ UNCHANGED <<running, session, text_sync_pending, native_text, uiStep, task, platQ, uiQ,
                     live, refused>>
      /\ commands' = commands + 1 /\ commands < MaxCommands /\ holder = "idle"
      /\ holder' \in {"stop", "schedule"}
      /\ text_next_callback_generation' = text_next_callback_generation
  BY DEF set_text_input_backend, service
<1>3. commands' \in 0 .. MaxCommands
  BY <1>1, <1>2, TextLimits DEF TypeOK
<1>4. /\ text_service_generation' \in Services /\ text_input_backend' \in BOOLEAN
      /\ text_input_backend' => text_service_generation' >= 1
  <2>1. text_service_generation \in Services
    BY <1>1 DEF TypeOK
  <2>2. CASE UNCHANGED service
    BY <1>1, <2>2 DEF TypeOK, Sound, Identified, service
  <2>3. CASE /\ text_service_generation # MaxService
             /\ text_service_generation' = text_service_generation + 1 /\ text_input_backend' = b
    BY <2>1, <2>3, TextLimits DEF Services
  <2> QED
    BY <2>2, <2>3 DEF set_text_input_backend
<1>5. TypeOK'
  BY <1>1, <1>2, <1>3, <1>4 DEF TypeOK, session, Steps
<1>6. Kept'
  BY <1>1, <1>2 DEF Kept, session
<1>7. Posted'
  BY <1>1, <1>2, TokenIs DEF Sound, Posted
<1>8. Identified' /\ Copied' /\ Taken' /\ Stood' /\ Versions'
  BY <1>1, <1>2, <1>4 DEF Sound, Identified, Copied, Taken, Stood, Versions, session
<1>9. Called'
  BY <1>1, <1>2 DEF Sound, Called
<1>10. ~Quiet'
  BY <1>2 DEF Quiet
<1> QED
  BY <1>1, <1>5, <1>6, <1>7, <1>8, <1>9, <1>10 DEF TextInv, Sound

LEMMA CompletePlatformShutdownStep ==
  ASSUME TextInv, complete_platform_shutdown
  PROVE  TextInv'
<1>1. TypeOK /\ Kept /\ ~running'
  BY DEF TextInv, complete_platform_shutdown
<1>2. native_text' \in NativeText
  BY <1>1 DEF complete_platform_shutdown, TypeOK, NativeText
<1>3. live' \subseteq live
  BY DEF complete_platform_shutdown, Without
<1>4. TypeOK'
  BY <1>1, <1>2, <1>3 DEF complete_platform_shutdown, TypeOK, session, ghosts
<1>5. \A l \in live' : l \in live /\ (native_text.session => l.service # native_text.service)
  BY DEF complete_platform_shutdown, Without
<1>6. Kept'
  BY <1>1, <1>3, <1>5 DEF complete_platform_shutdown, Kept, session, One
<1> QED
  BY <1>1, <1>4, <1>6 DEF TextInv


(***************************************************************************)
(* The platform task.                                                      *)
(***************************************************************************)
(* The native session the host believes in is the only one alive. *)
LEMMA StoodIs ==
  ASSUME Kept, Sound, native_text.session, native_text.public # 0
  PROVE  \E m : /\ live = {m} /\ m.service = native_text.service
                /\ m.callback = native_text.callback /\ m.public = native_text.public
                /\ m.rect = native_text.rect_revision
<1>1. PICK m \in live : /\ m.service = native_text.service /\ m.callback = native_text.callback
                        /\ m.public = native_text.public /\ m.rect = native_text.rect_revision
  BY DEF Sound, Stood
<1>2. live = {m}
  BY OneIs DEF Kept
<1> QED
  BY <1>1, <1>2

LEMMA BeginSyncStep ==
  ASSUME TextInv, BeginSync
  PROVE  TextInv'
<1> DEFINE stops == native_text.session /\ ~NativeIsCurrent(text_session')
<1>1. TypeOK /\ Kept /\ (running => Sound)
  BY DEF TextInv
<1>2. /\ platQ > 0 /\ task = IdleTask /\ platQ' = platQ - 1 /\ text_sync_pending' = FALSE
      /\ text_session' = LiveClients(text_session)
      /\ UNCHANGED <<running, service, text_next_session, uiStep, holder, uiQ, live, ghosts>>
  BY DEF BeginSync
<1>3. /\ task' = [IdleTask EXCEPT !.pc = "decide",
                                  !.service = IF stops THEN native_text.service ELSE 0]
      /\ native_text' = (IF stops THEN NoNative ELSE native_text)
  BY DEF BeginSync
<1>4. text_session' \subseteq text_session
  BY <1>2 DEF LiveClients
<1>5. native_text \in NativeText /\ native_text.service \in Services /\ 0 \in Services
  BY <1>1, NativeIs, TextLimits DEF TypeOK, Services
<1>6. /\ task' \in Task /\ task'.pc = "decide" /\ task'.session = {} /\ task'.then = "idle"
      /\ task'.seen = -1
      /\ stops => task'.service = native_text.service
      /\ ~stops => task'.service = 0
  <2>1. PICK sv \in Services : /\ stops => sv = native_text.service
                               /\ ~stops => sv = 0
    BY <1>5
  <2>2. task' = [IdleTask EXCEPT !.pc = "decide", !.service = sv]
    BY <1>3, <2>1
  <2> QED
    BY <2>1, <2>2, IdleTaskIs DEF Task, IdleTask
<1>7. native_text' \in NativeText
  BY <1>3, <1>5, NoNativeIs
<1>8. platQ' \in Nat /\ platQ \in Nat
  BY <1>1, <1>2 DEF TypeOK
<1>9. TypeOK'
  BY <1>1, <1>2, <1>4, <1>6, <1>7, <1>8 DEF TypeOK, service, ghosts
<1>10. Kept'
  <2>1. \A l \in live : native_text.session /\ native_text.service = l.service
    BY <1>1, <1>2, IdleTaskIs DEF Kept
  <2>2. One(live') /\ One(text_session')
    BY <1>1, <1>2, <1>4 DEF Kept, One
  <2>3. -1 \in -1 .. MaxCommands
    BY TextLimits
  <2> QED
    BY <1>2, <1>3, <1>6, <2>1, <2>2, <2>3 DEF Kept
<1>11. ASSUME running PROVE Sound'
  <2>1. Sound
    BY <1>1, <1>11
  <2>2. native_text' = native_text \/ native_text' = NoNative
    BY <1>3
  <2>3. text_next_session \in Nat /\ text_next_session >= 1
    BY <1>1, TextLimits DEF TypeOK
  <2>4. Identified'
    BY <1>2, <1>4, <1>6, <2>1, <2>2, <2>3, NoNativeIs DEF Sound, Identified, One, service
  <2>5. Posted'
    <3>1. platQ + AboutTo(uiStep) + AboutTo(holder) <= 1
      BY <1>1, <1>2, <1>8, <2>1, IdleTaskIs, TokenIs DEF Sound, Posted, TypeOK
    <3>2. AboutTo(task'.pc) = 0 /\ Wanted(text_sync_pending') = 0
      BY <1>2, <1>6 DEF AboutTo, Wanted
    <3> QED
      BY <1>2, <1>8, <3>1, <3>2, TokenIs DEF Posted
  <2>6. Called'
    BY <1>2, <1>6, <2>1 DEF Sound, Called, service
  <2>7. Copied'
    BY <1>6 DEF Copied
  <2>8. Taken'
    <3>1. native_text'.session => ~stops
      BY <1>3, NoNativeIs
    <3> QED
      BY <1>6, <3>1 DEF Taken
  <2>9. Stood'
    BY <1>2, <2>1, <2>2, NoNativeIs DEF Sound, Stood
  <2>10. Versions'
    <3>1. \A s \in text_session : 0 <= s.id
      BY <1>1, SessionIs DEF TypeOK
    <3> QED
      BY <1>2, <1>4, <2>1, <2>2, <3>1, NoNativeIs DEF Sound, Versions
  <2>11. Follows'
    <3>1. native_text'.session => ~stops /\ native_text' = native_text
      BY <1>3, NoNativeIs
    <3>2. native_text'.session => NativeCurrent'
      BY <1>2, <3>1 DEF NativeIsCurrent, NativeCurrent, service
    <3> QED
      BY <1>6, <3>2 DEF Follows
  <2> QED
    BY <2>4, <2>5, <2>6, <2>7, <2>8, <2>9, <2>10, <2>11 DEF Sound
<1> QED
  BY <1>2, <1>9, <1>10, <1>11 DEF TextInv


LEMMA DecideKeeps ==
  ASSUME TextInv, task.pc = "decide", live' = Without(task.service),
         UNCHANGED <<running, text_input_backend, text_service_generation, session,
                     text_sync_pending, native_text, uiStep, holder, platQ, uiQ, commands>>,
         task' \in Task, task'.pc \in {"idle", "start", "value", "rect"},
         task'.pc = "idle" => task' = IdleTask,
         task'.seen \in -1 .. MaxCommands, task'.session \in {{}, text_session}, task'.then = "idle",
         refused' \in -1 .. MaxCommands, text_next_callback_generation' \in 1 .. MaxCallback,
         text_next_callback_generation' >= text_next_callback_generation,
         task'.pc = "start" =>
           /\ ~native_text.session /\ task'.callback = text_next_callback_generation
           /\ text_next_callback_generation' = text_next_callback_generation + 1,
         running /\ Quiet => Follows'
  PROVE  TextInv'
<1>1. TypeOK /\ Kept /\ (running => Sound)
  BY DEF TextInv
<1>2. live' \subseteq live /\ \A l \in live : l \in live' <=> l.service # task.service
  BY DEF Without
<1>3. TypeOK'
  BY <1>1, <1>2 DEF TypeOK, session
<1>4. Kept'
  <2>1. One(live') /\ One(text_session')
    BY <1>1, <1>2 DEF Kept, One, session
  <2>2. \A l \in live' : native_text.session /\ native_text.service = l.service
    BY <1>1, <1>2 DEF Kept
  <2> QED
    BY <2>1, <2>2 DEF Kept
<1>5. ASSUME running PROVE Sound'
  <2>1. Sound
    BY <1>1, <1>5
  <2>2. Identified'
    BY <1>1, <2>1 DEF Sound, Identified, Kept, session, One
  <2>3. Posted'
    BY <2>1, TokenIs DEF Sound, Posted
  <2>4. Called'
    <3>1. text_next_callback_generation \in Nat /\ text_next_callback_generation' \in Nat
      BY <1>1, TextLimits DEF TypeOK
    <3>2. \A l \in live : l.callback \in Nat
      BY <1>1, LiveIs DEF TypeOK
    <3>3. \A i \in 1 .. Len(uiQ) : uiQ[i].callback \in Nat
      <4>1. \A i \in 1 .. Len(uiQ) : uiQ[i] \in UiTask
        BY <1>1, ElementOfSeq DEF TypeOK
      <4> QED
        BY <4>1, TextLimits DEF UiTask, Callbacks
    <3>4. /\ \A l \in live' : 1 <= l.callback /\ l.callback < text_next_callback_generation'
          /\ \A i \in 1 .. Len(uiQ') :
               1 <= uiQ'[i].callback /\ uiQ'[i].callback < text_next_callback_generation'
      BY <1>2, <2>1, <3>1, <3>2, <3>3 DEF Sound, Called
    <3>5. task'.pc = "start" =>
            /\ 1 <= task'.callback /\ task'.callback < text_next_callback_generation'
            /\ \A i \in 1 .. Len(uiQ') : uiQ'[i].callback # task'.callback
      <4>1. text_next_callback_generation >= 1
        BY <1>1, TextLimits DEF TypeOK
      <4> QED
        BY <2>1, <3>1, <3>3, <4>1 DEF Sound, Called
    <3>6. \A i \in 1 .. Len(uiQ'), l \in live' :
            uiQ'[i].kind = "value" /\ uiQ'[i].callback = l.callback => l.edited
      BY <1>2, <2>1 DEF Sound, Called
    <3> QED
      BY <3>4, <3>5, <3>6 DEF Called
  <2>5. Copied'
    <3>1. \A s \in text_session : s.id \in Nat /\ s.value_revision \in Nat /\ s.rect_revision \in Nat
      BY <1>1, SessionIs DEF TypeOK
    <3>2. \A c, s \in text_session : c = s
      BY <1>1 DEF Kept, One
    <3> QED
      BY <3>1, <3>2 DEF Copied, session
  <2>6. Taken'
    BY <2>1 DEF Sound, Taken, Versions
  <2>7. Stood'
    <3>1. ASSUME native_text.session, native_text.public # 0
          PROVE  \E l \in live' :
                   /\ l.service = native_text.service /\ l.callback = native_text.callback
                   /\ l.public = native_text.public /\ l.rect = native_text.rect_revision
      <4>1. PICK l \in live :
              /\ l.service = native_text.service /\ l.callback = native_text.callback
              /\ l.public = native_text.public /\ l.rect = native_text.rect_revision
        BY <2>1, <3>1 DEF Sound, Stood
      <4>2. task.service = 0 /\ native_text.service >= 1
        BY <2>1, <3>1 DEF Sound, Taken, Identified
      <4> QED
        BY <1>2, <4>1, <4>2
    <3> QED
      BY <2>1, <3>1 DEF Sound, Stood
  <2>8. Versions'
    BY <1>2, <2>1 DEF Sound, Versions, session
  <2>9. Quiet' => Follows'
    BY <1>5 DEF Quiet
  <2> QED
    BY <2>2, <2>3, <2>4, <2>5, <2>6, <2>7, <2>8, <2>9 DEF Sound
<1> QED
  BY <1>3, <1>4, <1>5 DEF TextInv

(* The copy the task works from. *)
LEMMA CopyIs ==
  ASSUME TypeOK, NEW pc \in {"start", "value", "rect"}, NEW g \in Callbacks, NEW r \in BOOLEAN,
         NEW t, t = [pc |-> pc, session |-> text_session, service |-> text_service_generation,
                     callback |-> g, seen |-> commands, then |-> "idle", rect |-> r]
  PROVE  /\ t \in Task /\ t.pc = pc /\ t.session = text_session
         /\ t.service = text_service_generation /\ t.callback = g /\ t.seen = commands
         /\ t.then = "idle" /\ t.rect = r /\ t.seen \in -1 .. MaxCommands
<1>1. /\ text_session \in SUBSET Session /\ text_service_generation \in Services
      /\ commands \in 0 .. MaxCommands /\ MaxCommands \in Nat
  BY TextLimits DEF TypeOK
<1>2. commands \in Int /\ commands \in -1 .. MaxCommands
  BY <1>1
<1> QED
  BY <1>1, <1>2 DEF Task

LEMMA DecideStep ==
  ASSUME TextInv, Decide
  PROVE  TextInv'
<1> DEFINE copy == [IdleTask EXCEPT !.session = text_session, !.seen = commands,
                                    !.service = text_service_generation]
<1>1. /\ TypeOK /\ Kept /\ (running => Sound) /\ task.pc = "decide"
      /\ live' = Without(task.service)
      /\ UNCHANGED <<running, text_input_backend, text_service_generation, session,
                     text_sync_pending, native_text, uiStep, holder, platQ, uiQ, commands>>
  BY DEF TextInv, Decide
<1>2. /\ text_next_callback_generation \in 1 .. MaxCallback /\ refused \in -1 .. MaxCommands
      /\ text_next_callback_generation \in Nat
      /\ -1 \in -1 .. MaxCommands /\ commands \in -1 .. MaxCommands
      /\ text_service_generation \in Services /\ text_service_generation' = text_service_generation
      /\ text_session' = text_session
  BY <1>1, TextLimits DEF TypeOK, session
<1>3. /\ live' \subseteq live
      /\ ~native_text.session => live' = {}
  BY <1>1 DEF Kept, Without
(* What is known when the decision is made with nothing in the way. *)
<1>4. ASSUME running, Quiet, native_text.session
      PROVE  \E s, m : /\ text_session = {s} /\ s \in Session /\ native_text.public = s.id
                       /\ native_text.service = text_service_generation /\ live' \subseteq {m}
                       /\ m.service = native_text.service /\ m.public = s.id
                       /\ m.callback = native_text.callback /\ m.rect = native_text.rect_revision
                       /\ m \in live'
                       /\ native_text.value_revision <= s.value_revision
                       /\ native_text.rect_revision <= s.rect_revision
                       /\ native_text.value_revision = s.value_revision =>
                             m.value = s.value \/ m.edited
  <2>1. Sound /\ NativeCurrent
    BY <1>1, <1>4 DEF Sound, Follows
  <2>2. PICK s \in text_session : native_text.public = s.id
    BY <2>1 DEF NativeCurrent
  <2>3. text_session = {s} /\ s \in Session
    BY <1>1, OneIs DEF Kept, TypeOK
  <2>4. native_text.public # 0
    BY <2>1, <2>2 DEF Sound, Identified
  <2>5. PICK m : /\ live = {m} /\ m.service = native_text.service
                 /\ m.callback = native_text.callback /\ m.public = native_text.public
                 /\ m.rect = native_text.rect_revision
    BY <1>1, <1>4, <2>1, <2>4, StoodIs
  <2>6. task.service = 0 /\ native_text.service >= 1
    BY <1>1, <1>4, <2>1 DEF Sound, Taken, Identified
  <2>7. live' = {m}
    BY <1>1, <2>5, <2>6 DEF Without
  <2>8. /\ native_text.value_revision <= s.value_revision
        /\ native_text.rect_revision <= s.rect_revision
        /\ native_text.value_revision = s.value_revision => m.value = s.value \/ m.edited
    BY <1>4, <2>1, <2>2, <2>5 DEF Sound, Versions
  <2> QED
    BY <2>1, <2>2, <2>3, <2>5, <2>7, <2>8 DEF NativeCurrent
<1>5. CASE /\ NothingToSync /\ task' = IdleTask
           /\ UNCHANGED <<text_next_callback_generation, refused>>
  <2>1. ASSUME running, Quiet PROVE Follows'
    <3>1. \A l \in live' : l.service = text_service_generation /\ \E s \in text_session : l.public = s.id
      BY <1>3, <1>4, <2>1
    <3>2. text_input_backend => LiveClients(text_session) = {}
      BY <1>5, <2>1 DEF NothingToSync, LiveClients
    <3>3. IdleFollows'
      BY <1>1, <1>2, <3>1, <3>2 DEF IdleFollows, LiveClients
    <3> QED
      BY <1>5, <3>3, IdleTaskIs DEF Follows
  <2> QED
    BY <1>1, <1>2, <1>5, <2>1, IdleTaskIs, DecideKeeps
<1>6. CASE /\ ~NothingToSync /\ ~native_text.session
           /\ text_next_callback_generation # MaxCallback
           /\ text_next_callback_generation' = text_next_callback_generation + 1
           /\ task' = [copy EXCEPT !.pc = "start", !.callback = text_next_callback_generation]
           /\ UNCHANGED refused
  <2>1. text_next_callback_generation \in Callbacks
    BY <1>2, TextLimits DEF Callbacks
  <2>2. task' = [pc |-> "start", session |-> text_session, service |-> text_service_generation,
                 callback |-> text_next_callback_generation, seen |-> commands, then |-> "idle",
                 rect |-> FALSE]
    BY <1>6 DEF IdleTask
  <2>3. /\ task' \in Task /\ task'.pc = "start" /\ task'.session = text_session
        /\ task'.service = text_service_generation
        /\ task'.callback = text_next_callback_generation
        /\ task'.seen = commands /\ task'.then = "idle"
    BY <1>1, <2>1, <2>2, CopyIs
  <2>4. /\ text_next_callback_generation' \in 1 .. MaxCallback
        /\ text_next_callback_generation' >= text_next_callback_generation
    BY <1>2, <1>6, TextLimits
  <2>5. ASSUME running, Quiet PROVE Follows'
    <3>1. StartFollows'
      BY <1>1, <1>2, <1>6, <2>3, <2>5 DEF StartFollows, NothingToSync
    <3> QED
      BY <2>3, <3>1 DEF Follows
  <2> QED
    BY <1>1, <1>2, <1>6, <2>3, <2>4, <2>5, DecideKeeps
<1>7. CASE /\ ~NothingToSync /\ ~native_text.session
           /\ task' = IdleTask /\ refused' = commands
           /\ UNCHANGED text_next_callback_generation
  <2>1. ASSUME running, Quiet PROVE Follows'
    <3>1. IdleFollows'
      BY <1>1, <1>3, <1>7 DEF IdleFollows
    <3> QED
      BY <1>7, <3>1, IdleTaskIs DEF Follows
  <2> QED
    BY <1>1, <1>2, <1>7, <2>1, IdleTaskIs, DecideKeeps
<1>8. CASE /\ ~NothingToSync /\ native_text.session
           /\ \E s \in text_session :
                LET value == UpdatesValue(s)
                    rect == UpdatesRect(s)
                IN  task' = IF value \/ rect
                            THEN [copy EXCEPT !.pc = IF value THEN "value" ELSE "rect",
                                              !.rect = rect]
                            ELSE IdleTask
           /\ UNCHANGED <<text_next_callback_generation, refused>>
  <2>1. PICK s \in text_session :
          task' = IF UpdatesValue(s) \/ UpdatesRect(s)
                  THEN [copy EXCEPT !.pc = IF UpdatesValue(s) THEN "value" ELSE "rect",
                                    !.rect = UpdatesRect(s)]
                  ELSE IdleTask
    BY <1>8
  <2>2. text_session = {s} /\ s \in Session
    BY <1>1, OneIs DEF Kept, TypeOK
  <2>3. /\ s.value_revision \in Nat /\ s.rect_revision \in Nat
        /\ native_text.value_revision \in Nat /\ native_text.rect_revision \in Nat
    BY <1>1, <2>2, SessionIs, NativeIs DEF TypeOK
  <2>4. ASSUME running, Quiet
        PROVE  \E m : /\ native_text.public = s.id
                      /\ native_text.service = text_service_generation /\ live' = {m}
                      /\ m.service = native_text.service /\ m.public = s.id
                      /\ m.callback = native_text.callback /\ m.rect = native_text.rect_revision
                      /\ native_text.rect_revision <= s.rect_revision
                      /\ ~UpdatesValue(s) => m.value = s.value \/ m.edited
    <3>1. PICK s2, m :
            /\ text_session = {s2} /\ native_text.public = s2.id
            /\ native_text.service = text_service_generation /\ live' \subseteq {m} /\ m \in live'
            /\ m.service = native_text.service /\ m.public = s2.id
            /\ m.callback = native_text.callback /\ m.rect = native_text.rect_revision
            /\ native_text.value_revision <= s2.value_revision
            /\ native_text.rect_revision <= s2.rect_revision
            /\ native_text.value_revision = s2.value_revision => m.value = s2.value \/ m.edited
      BY <1>4, <1>8, <2>4
    <3>2. s2 = s /\ live' = {m}
      BY <2>2, <3>1
    <3>3. ~UpdatesValue(s) => native_text.value_revision = s.value_revision
      BY <2>3, <3>1, <3>2 DEF UpdatesValue
    <3> QED
      BY <3>1, <3>2, <3>3
  <2>5. CASE UpdatesValue(s)
    <3>1. PICK r \in BOOLEAN : r = UpdatesRect(s)
      BY UpdatesRect(s) \in BOOLEAN, Zenon DEF UpdatesRect
    <3>2. task' = [pc |-> "value", session |-> text_session, service |-> text_service_generation,
                   callback |-> 0, seen |-> commands, then |-> "idle", rect |-> r]
      BY <2>1, <2>5, <3>1 DEF IdleTask
    <3>3. /\ task' \in Task /\ task'.pc = "value" /\ task'.session = text_session
          /\ task'.service = text_service_generation
          /\ task'.seen = commands /\ task'.then = "idle" /\ task'.rect = r
      <4>1. 0 \in Callbacks
        BY TextLimits DEF Callbacks
      <4> QED
        BY <1>1, <3>2, <4>1, CopyIs
    <3>4. ASSUME running, Quiet PROVE Follows'
      <4>1. PICK m : /\ native_text.public = s.id
                     /\ native_text.service = text_service_generation /\ live' = {m}
                     /\ native_text.rect_revision <= s.rect_revision
        BY <2>4, <3>4
      <4>2. UpdateFollows(s, s)'
        BY <1>1, <1>2, <1>8, <3>3, <4>1 DEF UpdateFollows
      <4>3. ~r => native_text.rect_revision = s.rect_revision
        <5>1. ~r => ~UpdatesRect(s)
          BY <3>1, Zenon
        <5> QED
          BY <2>3, <4>1, <5>1 DEF UpdatesRect
      <4>4. ValueFollows'
        BY <1>1, <1>2, <2>2, <3>3, <4>2, <4>3 DEF ValueFollows
      <4> QED
        BY <3>3, <4>4 DEF Follows
    <3> QED
      BY <1>1, <1>2, <1>8, <3>3, <3>4, DecideKeeps
  <2>6. CASE ~UpdatesValue(s) /\ UpdatesRect(s)
    <3>1. task' = [pc |-> "rect", session |-> text_session, service |-> text_service_generation,
                   callback |-> 0, seen |-> commands, then |-> "idle", rect |-> TRUE]
      BY <2>1, <2>6 DEF IdleTask
    <3>2. /\ task' \in Task /\ task'.pc = "rect" /\ task'.session = text_session
          /\ task'.service = text_service_generation
          /\ task'.seen = commands /\ task'.then = "idle"
      <4>1. 0 \in Callbacks
        BY TextLimits DEF Callbacks
      <4> QED
        BY <1>1, <3>1, <4>1, CopyIs
    <3>3. ASSUME running, Quiet PROVE Follows'
      <4>1. PICK m : /\ native_text.public = s.id
                     /\ native_text.service = text_service_generation /\ live' = {m}
                     /\ ~UpdatesValue(s) => m.value = s.value \/ m.edited
        BY <2>4, <3>3
      <4>2. UpdateFollows(s, s)'
        BY <1>1, <1>2, <1>8, <3>2, <4>1 DEF UpdateFollows
      <4>3. RectFollows'
        BY <1>1, <1>2, <2>2, <2>6, <3>2, <4>1, <4>2 DEF RectFollows
      <4> QED
        BY <3>2, <4>3 DEF Follows
    <3> QED
      BY <1>1, <1>2, <1>8, <3>2, <3>3, DecideKeeps
  <2>7. CASE ~UpdatesValue(s) /\ ~UpdatesRect(s)
    <3>1. task' = IdleTask
      BY <2>1, <2>7
    <3>2. ASSUME running, Quiet PROVE Follows'
      <4>1. PICK m : /\ native_text.public = s.id
                     /\ native_text.service = text_service_generation /\ live' = {m}
                     /\ m.service = native_text.service /\ m.public = s.id
                     /\ m.callback = native_text.callback /\ m.rect = native_text.rect_revision
                     /\ native_text.rect_revision <= s.rect_revision
                     /\ ~UpdatesValue(s) => m.value = s.value \/ m.edited
        BY <2>4, <3>2
      <4>2. m.rect = s.rect_revision
        BY <2>3, <2>7, <4>1 DEF UpdatesRect
      <4>3. Stands(m, s)'
        BY <1>1, <4>1, <4>2 DEF Stands
      <4>4. IdleFollows'
        BY <1>2, <2>2, <2>7, <4>1, <4>3 DEF IdleFollows, LiveClients
      <4> QED
        BY <3>1, <4>4, IdleTaskIs DEF Follows
    <3> QED
      BY <1>1, <1>2, <1>8, <3>1, <3>2, IdleTaskIs, DecideKeeps
  <2> QED
    BY <2>5, <2>6, <2>7
<1> QED
  BY <1>5, <1>6, <1>7, <1>8 DEF Decide


LEMMA StartSucceedsStep ==
  ASSUME TextInv, StartSucceeds
  PROVE  TextInv'
<1>1. /\ TypeOK /\ Kept /\ (running => Sound) /\ task.pc = "start"
      /\ UNCHANGED <<running, service, session, text_sync_pending, uiStep, holder, platQ, uiQ,
                     ghosts>>
  BY DEF TextInv, StartSucceeds
<1>2. /\ text_session' = text_session /\ text_next_session' = text_next_session
      /\ text_input_backend' = text_input_backend
      /\ text_service_generation' = text_service_generation
      /\ text_next_callback_generation' = text_next_callback_generation
      /\ commands' = commands /\ refused' = refused
  BY <1>1 DEF service, session, ghosts
<1>3. PICK c \in task.session :
        \E started :
          /\ started = [service |-> task.service, callback |-> task.callback, public |-> c.id,
                        value |-> c.value, rect |-> 0, edited |-> FALSE]
          /\ \/ /\ Accepts(c.id)
                /\ live' = live \cup {started}
                /\ native_text' = [session |-> TRUE, public |-> c.id, service |-> task.service,
                                   callback |-> task.callback,
                                   value_revision |-> c.value_revision, rect_revision |-> 0]
                /\ task' = [IdleTask EXCEPT !.pc = "schedule"]
             \/ /\ ~Accepts(c.id)
                /\ live' = (live \cup {started}) \ StoppedAtOnce(started)
                /\ task' = IdleTask
                /\ UNCHANGED native_text
  BY DEF StartSucceeds
<1>4. PICK started :
        /\ started = [service |-> task.service, callback |-> task.callback, public |-> c.id,
                      value |-> c.value, rect |-> 0, edited |-> FALSE]
        /\ \/ /\ Accepts(c.id)
              /\ live' = live \cup {started}
              /\ native_text' = [session |-> TRUE, public |-> c.id, service |-> task.service,
                                 callback |-> task.callback,
                                 value_revision |-> c.value_revision, rect_revision |-> 0]
              /\ task' = [IdleTask EXCEPT !.pc = "schedule"]
           \/ /\ ~Accepts(c.id)
              /\ live' = (live \cup {started}) \ StoppedAtOnce(started)
              /\ task' = IdleTask
              /\ UNCHANGED native_text
  BY <1>3
<1>5. /\ task \in Task /\ c \in Session /\ task.service \in Services /\ task.callback \in Callbacks
      /\ c.id \in Sessions /\ c.value \in Values /\ c.value_revision \in Revisions
      /\ c.id \in Nat /\ c.value_revision \in Nat /\ 0 \in Revisions
  BY <1>1, TaskIs, SessionIs, TextLimits DEF TypeOK, Revisions
<1>6. /\ started \in Live /\ started.service = task.service /\ started.callback = task.callback
      /\ started.public = c.id /\ started.value = c.value /\ started.rect = 0
      /\ started.edited = FALSE
  BY <1>4, <1>5 DEF Live
<1>7. -1 \in -1 .. MaxCommands
  BY TextLimits
<1>8. CASE /\ Accepts(c.id) /\ live' = live \cup {started}
           /\ native_text' = [session |-> TRUE, public |-> c.id, service |-> task.service,
                              callback |-> task.callback,
                              value_revision |-> c.value_revision, rect_revision |-> 0]
           /\ task' = [IdleTask EXCEPT !.pc = "schedule"]
  <2>1. /\ running /\ text_input_backend /\ text_service_generation = task.service
        /\ ~native_text.session /\ Sound
    BY <1>1, <1>8 DEF Accepts
  <2>2. live' = {started}
    BY <1>1, <1>8, <2>1 DEF Kept
  <2>3. /\ native_text' \in NativeText /\ native_text'.session = TRUE /\ native_text'.public = c.id
        /\ native_text'.service = task.service /\ native_text'.callback = task.callback
        /\ native_text'.value_revision = c.value_revision /\ native_text'.rect_revision = 0
    BY <1>5, <1>8 DEF NativeText
  <2>4. /\ task' \in Task /\ task'.pc = "schedule" /\ task'.session = {} /\ task'.then = "idle"
        /\ task'.seen = -1
    BY <1>8, IdleTaskIs DEF Task, IdleTask, Steps
  <2>5. TypeOK'
    BY <1>1, <1>2, <1>6, <2>2, <2>3, <2>4 DEF TypeOK
  <2>6. Kept'
    BY <1>1, <1>2, <1>6, <1>7, <2>2, <2>3, <2>4 DEF Kept, One
  <2>7. 1 <= c.id /\ c.id < text_next_session /\ task.service >= 1
    BY <2>1 DEF Sound, Identified
  <2>8. Identified'
    BY <1>2, <2>1, <2>3, <2>4, <2>7 DEF Sound, Identified, One
  <2>9. Posted'
    BY <1>1, <2>1, <2>4, TokenIs DEF Sound, Posted
  <2>10. Called'
    BY <1>1, <1>2, <1>6, <2>1, <2>2, <2>4 DEF Sound, Called
  <2>11. Copied' /\ Taken'
    BY <2>4 DEF Copied, Taken
  <2>12. Stood'
    BY <1>6, <2>2, <2>3, <2>7 DEF Stood
  <2>13. Versions'
    <3>1. \A s \in text_session :
            /\ s.id \in Nat /\ s.rect_revision \in Nat
            /\ c.id <= s.id
            /\ c.id = s.id => /\ c.value_revision <= s.value_revision
                              /\ c.value_revision = s.value_revision => c.value = s.value
      BY <1>1, <2>1, SessionIs DEF TypeOK, Sound, Copied
    <3>2. \A s \in text_session : 0 <= s.rect_revision
      BY <3>1
    <3> QED
      BY <1>2, <1>6, <2>2, <2>3, <3>1, <3>2 DEF Versions
  <2>14. Follows'
    BY <2>4 DEF Follows
  <2> QED
    BY <2>5, <2>6, <2>8, <2>9, <2>10, <2>11, <2>12, <2>13, <2>14 DEF TextInv, Sound
<1>9. CASE /\ ~Accepts(c.id) /\ live' = (live \cup {started}) \ StoppedAtOnce(started)
           /\ task' = IdleTask /\ UNCHANGED native_text
  <2>1. live' \subseteq live
    BY <1>9 DEF StoppedAtOnce
  <2>2. TypeOK'
    BY <1>1, <1>2, <1>9, <2>1, IdleTaskIs DEF TypeOK
  <2>3. Kept'
    BY <1>1, <1>2, <1>7, <1>9, <2>1, IdleTaskIs DEF Kept, One
  <2>4. ASSUME running PROVE Sound'
    <3>1. Sound /\ ~native_text.session
      BY <1>1, <2>4 DEF Sound, Taken
    <3>2. Identified' /\ Posted'
      BY <1>1, <1>2, <1>9, <3>1, IdleTaskIs, TokenIs DEF Sound, Identified, Posted, One
    <3>3. Called'
      BY <1>1, <1>2, <1>9, <2>1, <3>1, IdleTaskIs DEF Sound, Called
    <3>4. Copied' /\ Taken' /\ Stood'
      BY <1>9, <3>1, IdleTaskIs DEF Sound, Copied, Taken, Stood
    <3>5. Versions'
      BY <1>2, <1>9, <3>1 DEF Sound, Versions
    <3>6. ~Quiet'
      <4>1. Quiet' => Quiet
        BY <1>1 DEF Quiet
      <4>2. ASSUME Quiet PROVE FALSE
        <5>1. StartFollows
          BY <1>1, <3>1, <4>2 DEF Sound, Follows
        <5>2. PICK c2 \in task.session, s \in text_session : c2.id = s.id
          BY <5>1 DEF StartFollows
        <5>3. c2 = c
          BY <3>1 DEF Sound, Identified, One
        <5> QED
          BY <1>9, <2>4, <3>1, <5>1, <5>2, <5>3 DEF Accepts, StartFollows
      <4> QED
        BY <4>1, <4>2
    <3> QED
      BY <3>2, <3>3, <3>4, <3>5, <3>6 DEF Sound
  <2> QED
    BY <1>1, <2>2, <2>3, <2>4 DEF TextInv
<1> QED
  BY <1>4, <1>8, <1>9

LEMMA StartFailsStep ==
  ASSUME TextInv, StartFails
  PROVE  TextInv'
<1>1. /\ TypeOK /\ Kept /\ (running => Sound) /\ task.pc = "start" /\ task' = IdleTask
      /\ refused' = task.seen
      /\ UNCHANGED <<host, uiStep, holder, platQ, uiQ, live, commands>>
  BY DEF TextInv, StartFails
<1>2. /\ running' = running /\ text_session' = text_session /\ text_next_session' = text_next_session
      /\ text_input_backend' = text_input_backend
      /\ text_service_generation' = text_service_generation
      /\ text_next_callback_generation' = text_next_callback_generation
      /\ text_sync_pending' = text_sync_pending /\ native_text' = native_text
  BY <1>1 DEF host, service, session
<1>3. -1 \in -1 .. MaxCommands
  BY TextLimits
<1>4. TypeOK'
  BY <1>1, <1>2, IdleTaskIs DEF TypeOK, Kept
<1>5. Kept'
  BY <1>1, <1>2, <1>3, IdleTaskIs DEF Kept
<1>6. ASSUME running PROVE Sound'
  <2>1. Sound /\ ~native_text.session /\ live = {}
    BY <1>1, <1>6 DEF Sound, Taken, Kept
  <2>2. Identified' /\ Posted'
    BY <1>1, <1>2, <2>1, IdleTaskIs, TokenIs DEF Sound, Identified, Posted, One
  <2>3. Called'
    BY <1>1, <1>2, <2>1, IdleTaskIs DEF Sound, Called
  <2>4. Copied' /\ Taken' /\ Stood'
    BY <1>1, <1>2, <2>1, IdleTaskIs DEF Sound, Copied, Taken, Stood
  <2>5. Versions'
    BY <1>1, <1>2, <2>1 DEF Sound, Versions
  <2>6. ASSUME Quiet' PROVE Follows'
    <3>1. task.seen = commands
      BY <1>1, <1>2, <2>1, <2>6 DEF Sound, Follows, StartFollows, Quiet
    <3>2. IdleFollows'
      BY <1>1, <2>1, <3>1 DEF IdleFollows
    <3> QED
      BY <1>1, <3>2, IdleTaskIs DEF Follows
  <2> QED
    BY <2>2, <2>3, <2>4, <2>5, <2>6 DEF Sound
<1> QED
  BY <1>2, <1>4, <1>5, <1>6 DEF TextInv


(* A native edit of session l is on its way. *)
Awaited(l) == \E i \in 1 .. Len(uiQ) : uiQ[i].kind = "value" /\ uiQ[i].callback = l.callback

(* What the update calls of the backend have in common. *)
LEMMA UpdateKeeps ==
  ASSUME TextInv, task.pc \in {"value", "rect"},
         UNCHANGED <<running, service, session, text_sync_pending, uiStep, holder, platQ, uiQ>>,
         commands' = commands, refused' \in -1 .. MaxCommands,
         task' \in Task, task'.pc \in {"rect", "idle", "schedule"},
         task'.pc = "idle" => task' = IdleTask,
         task'.session \in {task.session, {}}, task'.seen \in -1 .. MaxCommands,
         live' \in SUBSET Live, One(live'),
         \A m \in live' : \E l \in live : /\ m.service = l.service /\ m.callback = l.callback
                                          /\ Awaited(l) /\ l.edited => m.edited,
         native_text' \in NativeText, native_text'.session = native_text.session,
         native_text'.service = native_text.service,
         native_text'.public \in {native_text.public, 0},
         running => Stood' /\ Versions',
         running /\ Quiet => Follows'
  PROVE  TextInv'
<1>1. TypeOK /\ Kept /\ (running => Sound)
  BY DEF TextInv
<1>2. /\ text_session' = text_session /\ text_next_session' = text_next_session
      /\ text_input_backend' = text_input_backend
      /\ text_service_generation' = text_service_generation
      /\ text_next_callback_generation' = text_next_callback_generation
  BY DEF service, session
<1>3. TypeOK'
  BY <1>1, <1>2 DEF TypeOK
<1>4. Kept'
  <2>1. \A m \in live' : native_text'.session /\ native_text'.service = m.service
    BY <1>1 DEF Kept
  <2> QED
    BY <1>1, <1>2, <2>1 DEF Kept
<1>5. ASSUME running PROVE Sound'
  <2>1. Sound
    BY <1>1, <1>5
  <2>2. text_next_session \in Nat /\ text_next_session >= 1
    BY <1>1, TextLimits DEF TypeOK
  <2>3. Identified'
    BY <1>2, <2>1, <2>2 DEF Sound, Identified, One
  <2>4. Posted'
    BY <2>1, TokenIs DEF Sound, Posted
  <2>5. Called'
    <3>1. \A m \in live' : 1 <= m.callback /\ m.callback < text_next_callback_generation
      BY <2>1 DEF Sound, Called
    <3>2. ASSUME NEW i \in 1 .. Len(uiQ), NEW m \in live', uiQ[i].kind = "value",
                 uiQ[i].callback = m.callback
          PROVE  m.edited
      <4>1. PICK l \in live : /\ m.callback = l.callback
                              /\ Awaited(l) /\ l.edited => m.edited
        OBVIOUS
      <4>2. Awaited(l)
        BY <3>2, <4>1 DEF Awaited
      <4>3. l.edited
        BY <2>1, <3>2, <4>1 DEF Sound, Called
      <4> QED
        BY <4>1, <4>2, <4>3
    <3> QED
      BY <1>2, <2>1, <3>1, <3>2 DEF Sound, Called
  <2>6. Copied'
    BY <1>2, <2>1 DEF Sound, Copied
  <2>7. Taken'
    <3>1. \A c \in task.session : c.id \in Nat
      BY <1>1, TaskIs, SessionIs DEF TypeOK
    <3>2. \A c \in task.session : native_text.session => native_text'.public <= c.id
      BY <2>1, <3>1 DEF Sound, Taken
    <3> QED
      BY <3>2 DEF Taken
  <2>8. Quiet' => Follows'
    BY <1>5 DEF Quiet
  <2> QED
    BY <1>5, <2>3, <2>4, <2>5, <2>6, <2>7, <2>8 DEF Sound
<1> QED
  BY <1>3, <1>4, <1>5 DEF TextInv

(* The session the task copied is the one the native session stands for. *)
LEMMA CopyStands ==
  ASSUME TypeOK, Sound, task.pc \in {"value", "rect"}, NEW c \in task.session,
         NEW s \in text_session, native_text.session, native_text.public = s.id
  PROVE  /\ c.id = s.id /\ c.value_revision <= s.value_revision /\ c.rect_revision <= s.rect_revision
         /\ c.value_revision = s.value_revision => c.value = s.value
<1>1. c.id \in Nat /\ s.id \in Nat
  BY TaskIs, SessionIs DEF TypeOK
<1>2. native_text.public <= c.id /\ c.id <= s.id
  BY DEF Sound, Taken, Copied
<1>3. c.id = s.id
  BY <1>1, <1>2
<1> QED
  BY <1>3 DEF Sound, Copied

LEMMA ValueSucceedsStep ==
  ASSUME TextInv, ValueSucceeds
  PROVE  TextInv'
<1>1. /\ TypeOK /\ Kept /\ (running => Sound) /\ task.pc = "value"
      /\ task' = Continue(task, IF task.rect THEN "rect" ELSE "idle")
      /\ UNCHANGED <<running, service, session, text_sync_pending, uiStep, holder, platQ, uiQ,
                     ghosts>>
  BY DEF TextInv, ValueSucceeds
<1>2. PICK c \in task.session :
        /\ live' = {IF l.service = task.service THEN HandOver(l, c) ELSE l : l \in live}
        /\ native_text' = IF Recorded THEN [native_text EXCEPT !.value_revision = c.value_revision]
                          ELSE native_text
  BY DEF ValueSucceeds
<1>3. /\ task \in Task /\ c \in Session /\ task.rect \in BOOLEAN /\ native_text \in NativeText
      /\ task.session \in SUBSET Session /\ task.seen \in -1 .. MaxCommands
  BY <1>1, TaskIs DEF TypeOK, Kept
<1>4. /\ c.value_revision \in Revisions /\ c.value_revision \in Nat /\ c.rect_revision \in Nat
      /\ c.value \in Values /\ c.id \in Nat
  BY <1>3, SessionIs
<1>5. /\ native_text' \in NativeText /\ native_text'.session = native_text.session
      /\ native_text'.service = native_text.service /\ native_text'.public = native_text.public
      /\ native_text'.callback = native_text.callback
      /\ native_text'.rect_revision = native_text.rect_revision
      /\ Recorded => native_text'.value_revision = c.value_revision
      /\ ~Recorded => native_text' = native_text
  BY <1>2, <1>3, <1>4 DEF NativeText
<1>6. /\ task' \in Task /\ task'.pc = (IF task.rect THEN "rect" ELSE "idle")
      /\ ~task.rect => task' = IdleTask
      /\ task.rect => /\ task'.session = task.session /\ task'.service = task.service
                      /\ task'.seen = task.seen /\ task'.then = task.then
  <2>1. CASE task.rect
    BY <1>1, <1>3, <2>1, ContinueIs DEF Steps
  <2>2. CASE ~task.rect
    BY <1>1, <1>3, <2>2, ContinueIs DEF Steps
  <2> QED
    BY <2>1, <2>2
<1>7. /\ task'.session \in {task.session, {}} /\ task'.seen \in -1 .. MaxCommands
      /\ task'.pc \in {"rect", "idle", "schedule"}
  <2>1. -1 \in -1 .. MaxCommands
    BY TextLimits
  <2> QED
    BY <1>3, <1>6, <2>1, IdleTaskIs
<1>8. /\ commands' = commands /\ refused' = refused /\ text_session' = text_session
      /\ text_service_generation' = text_service_generation /\ refused' \in -1 .. MaxCommands
      /\ text_input_backend' = text_input_backend
  BY <1>1 DEF ghosts, session, service, TypeOK
<1>9. \A l \in live : native_text.session /\ native_text.service = l.service
  BY <1>1 DEF Kept
<1>10. CASE live = {}
  <2>1. live' = {}
    BY <1>2, <1>10
  <2>2. ASSUME running PROVE Stood'
    <3>1. Sound /\ ~(native_text.session /\ native_text.public # 0)
      BY <1>1, <1>10, <2>2 DEF Sound, Stood
    <3> QED
      BY <1>5, <3>1 DEF Sound, Stood
  <2>3. ASSUME running PROVE Versions'
    <3>1. Sound
      BY <1>1, <2>3
    <3>2. \A s \in text_session : native_text.session /\ native_text.public = s.id =>
            c.value_revision <= s.value_revision
      BY <1>1, <3>1, CopyStands
    <3>3. CASE Recorded
      BY <1>5, <1>8, <2>1, <3>1, <3>2, <3>3 DEF Sound, Versions
    <3>4. CASE ~Recorded
      BY <1>5, <1>8, <1>10, <2>1, <3>1, <3>4 DEF Sound, Versions
    <3> QED
      BY <3>3, <3>4
  <2>4. ~(running /\ Quiet)
    <3>1. ASSUME running, Quiet PROVE FALSE
      <4>1. Sound /\ ValueFollows
        BY <1>1, <3>1 DEF Sound, Follows
      <4>2. PICK c2 \in task.session, s \in text_session : UpdateFollows(c2, s)
        BY <4>1 DEF ValueFollows
      <4>3. native_text.session /\ native_text.public # 0
        BY <4>1, <4>2 DEF UpdateFollows, Sound, Identified
      <4> QED
        BY <1>10, <4>1, <4>3 DEF Sound, Stood
    <3> QED
      BY <3>1
  <2> QED
    BY <1>1, <1>5, <1>6, <1>7, <1>8, <2>1, <2>2, <2>3, <2>4, UpdateKeeps DEF One
<1>11. CASE live # {}
  <2>1. PICK l \in live : TRUE
    BY <1>11
  <2>2. live = {l} /\ l \in Live /\ native_text.session /\ native_text.service = l.service
    BY <1>1, <1>9, OneIs DEF Kept, TypeOK
  <2>3. CASE l.service # task.service
    <3>1. live' = live /\ ~Recorded
      BY <1>2, <2>2, <2>3 DEF Recorded
    <3>2. native_text' = native_text
      BY <1>5, <3>1
    <3>3. running => Stood' /\ Versions'
      BY <1>1, <1>8, <3>1, <3>2 DEF Sound, Stood, Versions
    <3>4. ~(running /\ Quiet)
      <4>1. ASSUME running, Quiet PROVE FALSE
        <5>1. ValueFollows
          BY <1>1, <4>1 DEF Sound, Follows
        <5> QED
          BY <2>2, <2>3, <5>1 DEF ValueFollows, UpdateFollows
      <4> QED
        BY <4>1
    <3>5. live' \in SUBSET Live /\ One(live')
      BY <1>1, <3>1 DEF TypeOK, Kept
    <3> QED
      BY <1>1, <1>5, <1>6, <1>7, <1>8, <3>1, <3>3, <3>4, <3>5, UpdateKeeps
  <2>4. CASE l.service = task.service
    <3>1. PICK m : m = HandOver(l, c)
      OBVIOUS
    <3>2. live' = {m} /\ Recorded
      BY <1>2, <2>2, <2>4, <3>1 DEF Recorded
    <3>3. PICK e \in BOOLEAN : e = (l.edited /\ Racing(l))
      BY (l.edited /\ Racing(l)) \in BOOLEAN, Zenon
    <3>4. m = [l EXCEPT !.value = c.value, !.edited = e]
      BY <3>1, <3>3 DEF HandOver
    <3>5. /\ m \in Live /\ m.service = l.service /\ m.callback = l.callback /\ m.public = l.public
          /\ m.rect = l.rect /\ m.value = c.value /\ m.edited = e
      BY <1>4, <2>2, <3>4 DEF Live
    <3>6. l.edited /\ Racing(l) => m.edited
      BY <3>3, <3>5, Zenon
    <3>7. Awaited(l) /\ l.edited => m.edited
      BY <3>6 DEF Awaited, Racing
    <3>8. ASSUME running PROVE Stood' /\ Versions'
      <4>1. Sound
        BY <1>1, <3>8
      <4>2. Stood'
        BY <1>5, <2>2, <3>2, <3>5, <4>1 DEF Sound, Stood
      <4>3. \A s \in text_session : native_text.session /\ native_text.public = s.id =>
              /\ c.value_revision <= s.value_revision
              /\ c.value_revision = s.value_revision => c.value = s.value
        BY <1>1, <4>1, CopyStands
      <4>4. Versions'
        BY <1>5, <1>8, <3>2, <3>5, <4>1, <4>3 DEF Sound, Versions
      <4> QED
        BY <4>2, <4>4
    <3>9. ASSUME running, Quiet PROVE Follows'
      <4>1. Sound /\ ValueFollows
        BY <1>1, <3>9 DEF Sound, Follows
      <4>2. PICK c2 \in task.session, s \in text_session :
              /\ UpdateFollows(c2, s)
              /\ ~task.rect => native_text.rect_revision = c2.rect_revision
              /\ c2.value_revision = s.value_revision \/ \A k \in live : k.edited
        BY <4>1 DEF ValueFollows
      <4>3. c2 = c /\ text_session = {s} /\ s \in Session /\ task.session = {c}
        BY <1>1, <4>1, OneIs DEF Sound, Identified, One, Kept, TypeOK
      <4>4. m.value = s.value \/ m.edited
        <5>1. CASE c.value_revision = s.value_revision
          BY <3>5, <4>1, <4>2, <4>3, <5>1 DEF UpdateFollows, Sound, Copied
        <5>2. CASE c.value_revision # s.value_revision
          <6>1. text_session # task.session
            BY <4>3, <5>2
          <6>2. Racing(l)
            BY <6>1 DEF Racing
          <6> QED
            BY <2>2, <3>6, <4>2, <4>3, <5>2, <6>2
        <5> QED
          BY <5>1, <5>2
      <4>5. CASE task.rect
        <5>1. UpdateFollows(c, s)'
          BY <1>5, <1>6, <1>8, <4>2, <4>3, <4>5 DEF UpdateFollows
        <5>2. RectFollows'
          BY <1>6, <1>8, <3>2, <4>3, <4>4, <4>5, <5>1 DEF RectFollows
        <5> QED
          BY <1>6, <4>5, <5>2 DEF Follows
      <4>6. CASE ~task.rect
        <5>1. native_text.session /\ native_text.public = s.id /\ native_text.public # 0
          BY <4>1, <4>2 DEF UpdateFollows, Sound, Identified
        <5>2. l.callback = native_text.callback /\ l.public = s.id /\ l.rect = native_text.rect_revision
          BY <2>2, <4>1, <5>1 DEF Sound, Stood
        <5>3. Stands(m, s)' /\ m.service = text_service_generation
          BY <1>5, <1>8, <2>4, <3>5, <4>2, <4>3, <4>6, <5>2 DEF Stands, UpdateFollows
        <5>4. m.public = s.id
          BY <3>5, <5>2
        <5>5. IdleFollows'
          BY <1>8, <3>2, <4>3, <4>4, <5>3, <5>4 DEF IdleFollows, LiveClients
        <5> QED
          BY <1>6, <4>6, <5>5 DEF Follows
      <4> QED
        BY <4>5, <4>6
    <3>10. live' \in SUBSET Live /\ One(live')
      BY <3>2, <3>5 DEF One
    <3>11. \A n \in live' : \E k \in live : /\ n.service = k.service /\ n.callback = k.callback
                                            /\ Awaited(k) /\ k.edited => n.edited
      BY <2>2, <3>2, <3>5, <3>7
    <3> QED
      BY <1>1, <1>5, <1>6, <1>7, <1>8, <3>8, <3>9, <3>10, <3>11, UpdateKeeps
  <2> QED
    BY <2>3, <2>4
<1> QED
  BY <1>10, <1>11


LEMMA RectSucceedsStep ==
  ASSUME TextInv, RectSucceeds
  PROVE  TextInv'
<1>1. /\ TypeOK /\ Kept /\ (running => Sound) /\ task.pc = "rect" /\ task' = IdleTask
      /\ UNCHANGED <<running, service, session, text_sync_pending, uiStep, holder, platQ, uiQ,
                     ghosts>>
  BY DEF TextInv, RectSucceeds
<1>2. PICK c \in task.session :
        /\ live' = {IF l.service = task.service THEN [l EXCEPT !.rect = c.rect_revision] ELSE l
                      : l \in live}
        /\ native_text' = IF Recorded THEN [native_text EXCEPT !.rect_revision = c.rect_revision]
                          ELSE native_text
  BY DEF RectSucceeds
<1>3. task \in Task /\ c \in Session /\ native_text \in NativeText
  BY <1>1, TaskIs DEF TypeOK
<1>4. c.rect_revision \in Revisions
  BY <1>3, SessionIs
<1>5. /\ native_text' \in NativeText /\ native_text'.session = native_text.session
      /\ native_text'.service = native_text.service /\ native_text'.public = native_text.public
      /\ native_text'.callback = native_text.callback
      /\ native_text'.value_revision = native_text.value_revision
      /\ Recorded => native_text'.rect_revision = c.rect_revision
      /\ ~Recorded => native_text' = native_text
  BY <1>2, <1>3, <1>4 DEF NativeText
<1>6. /\ commands' = commands /\ refused' = refused /\ text_session' = text_session
      /\ text_service_generation' = text_service_generation /\ refused' \in -1 .. MaxCommands
      /\ text_input_backend' = text_input_backend
  BY <1>1 DEF ghosts, session, service, TypeOK
<1>7. /\ task' \in Task /\ task'.pc = "idle" /\ task'.session = {}
      /\ task'.seen \in -1 .. MaxCommands
  <2>1. -1 \in -1 .. MaxCommands
    BY TextLimits
  <2> QED
    BY <1>1, <2>1, IdleTaskIs
<1>8. ASSUME running, Quiet
      PROVE  \E s : /\ text_session = {s} /\ s \in Session /\ UpdateFollows(c, s) /\ Sound
                    /\ \A l \in live : l.value = s.value \/ l.edited
                    /\ native_text.session /\ native_text.public = s.id /\ native_text.public # 0
  <2>1. Sound /\ RectFollows
    BY <1>1, <1>8 DEF Sound, Follows
  <2>2. PICK c2 \in task.session, s \in text_session :
          UpdateFollows(c2, s) /\ \A l \in live : l.value = s.value \/ l.edited
    BY <2>1 DEF RectFollows
  <2>3. c2 = c /\ text_session = {s} /\ s \in Session
    BY <1>1, <2>1, OneIs DEF Sound, Identified, One, Kept, TypeOK
  <2>4. native_text.session /\ native_text.public = s.id /\ native_text.public # 0
    BY <2>1, <2>2 DEF UpdateFollows, Sound, Identified
  <2> QED
    BY <2>1, <2>2, <2>3, <2>4
<1>9. ASSUME running PROVE Versions'
  <2>1. Sound
    BY <1>1, <1>9
  <2>2. \A s \in text_session : native_text.session /\ native_text.public = s.id =>
          c.rect_revision <= s.rect_revision
    BY <1>1, <2>1, CopyStands
  <2>3. \A s : (\A l \in live : l.value = s.value \/ l.edited)
                 => (\A m \in live' : m.value = s.value \/ m.edited)
    <3>1. \A m \in live' : \E l \in live : m.value = l.value /\ m.edited = l.edited
      BY <1>1, <1>2 DEF TypeOK, Live
    <3> QED
      BY <3>1
  <2> QED
    BY <1>5, <1>6, <2>1, <2>2, <2>3 DEF Sound, Versions
<1>10. CASE live = {}
  <2>1. live' = {}
    BY <1>2, <1>10
  <2>2. ASSUME running PROVE Stood'
    <3>1. Sound /\ ~(native_text.session /\ native_text.public # 0)
      BY <1>1, <1>10, <2>2 DEF Sound, Stood
    <3> QED
      BY <1>5, <3>1 DEF Sound, Stood
  <2>3. ~(running /\ Quiet)
    <3>1. ASSUME running, Quiet PROVE FALSE
      BY <1>8, <1>10, <3>1 DEF Sound, Stood
    <3> QED
      BY <3>1
  <2> QED
    BY <1>1, <1>5, <1>6, <1>7, <1>9, <2>1, <2>2, <2>3, UpdateKeeps DEF One
<1>11. CASE live # {}
  <2>1. PICK l \in live : TRUE
    BY <1>11
  <2>2. live = {l} /\ l \in Live /\ native_text.session /\ native_text.service = l.service
    BY <1>1, OneIs DEF Kept, TypeOK
  <2>3. CASE l.service # task.service
    <3>1. live' = live /\ ~Recorded
      BY <1>2, <2>2, <2>3 DEF Recorded
    <3>2. running => Stood'
      BY <1>1, <1>5, <3>1 DEF Sound, Stood
    <3>3. ~(running /\ Quiet)
      <4>1. ASSUME running, Quiet PROVE FALSE
        BY <1>8, <2>2, <2>3, <4>1 DEF UpdateFollows
      <4> QED
        BY <4>1
    <3>4. live' \in SUBSET Live /\ One(live')
      BY <1>1, <3>1 DEF TypeOK, Kept
    <3> QED
      BY <1>1, <1>5, <1>6, <1>7, <1>9, <3>1, <3>2, <3>3, <3>4, UpdateKeeps
  <2>4. CASE l.service = task.service
    <3>1. PICK m : m = [l EXCEPT !.rect = c.rect_revision]
      OBVIOUS
    <3>2. live' = {m} /\ Recorded
      BY <1>2, <2>2, <2>4, <3>1 DEF Recorded
    <3>3. /\ m \in Live /\ m.service = l.service /\ m.callback = l.callback /\ m.public = l.public
          /\ m.rect = c.rect_revision /\ m.value = l.value /\ m.edited = l.edited
      BY <1>4, <2>2, <3>1 DEF Live
    <3>4. ASSUME running PROVE Stood'
      <4>1. Sound
        BY <1>1, <3>4
      <4> QED
        BY <1>5, <2>2, <3>2, <3>3, <4>1 DEF Sound, Stood
    <3>5. ASSUME running, Quiet PROVE Follows'
      <4>1. PICK s : /\ text_session = {s} /\ s \in Session /\ UpdateFollows(c, s) /\ Sound
                     /\ \A k \in live : k.value = s.value \/ k.edited
                     /\ native_text.session /\ native_text.public = s.id /\ native_text.public # 0
        BY <1>8, <3>5
      <4>2. l.callback = native_text.callback /\ l.public = s.id
        BY <2>2, <4>1 DEF Sound, Stood
      <4>3. Stands(m, s)' /\ m.service = text_service_generation /\ m.public = s.id
        BY <1>5, <1>6, <2>4, <3>3, <4>1, <4>2 DEF Stands, UpdateFollows
      <4>4. m.value = s.value \/ m.edited
        BY <2>2, <3>3, <4>1
      <4>5. IdleFollows'
        BY <1>6, <3>2, <4>1, <4>3, <4>4 DEF IdleFollows, LiveClients
      <4> QED
        BY <1>7, <4>5 DEF Follows
    <3>6. live' \in SUBSET Live /\ One(live')
      BY <3>2, <3>3 DEF One
    <3>7. \A n \in live' : \E k \in live : /\ n.service = k.service /\ n.callback = k.callback
                                           /\ Awaited(k) /\ k.edited => n.edited
      BY <2>2, <3>2, <3>3
    <3> QED
      BY <1>1, <1>5, <1>6, <1>7, <1>9, <3>4, <3>5, <3>6, <3>7, UpdateKeeps
  <2> QED
    BY <2>3, <2>4
<1> QED
  BY <1>10, <1>11

(* A refused update forgets the native session it was for. *)
LEMMA UpdateFailsKeeps ==
  ASSUME TextInv, UpdateFails, task.pc \in {"value", "rect"}
  PROVE  /\ live' \in SUBSET Live /\ One(live') /\ live' \subseteq live
         /\ native_text' \in NativeText /\ native_text'.session = native_text.session
         /\ native_text'.service = native_text.service
         /\ native_text'.public \in {native_text.public, 0}
         /\ running => Stood' /\ Versions'
<1>1. /\ TypeOK /\ Kept /\ (running => Sound) /\ live' \in {live, Without(task.service)}
      /\ native_text' = IF Recorded THEN Invalidated ELSE native_text
      /\ text_session' = text_session
  BY DEF TextInv, UpdateFails, session
<1>2. live' \subseteq live /\ \A l \in live : l.service # task.service => l \in live'
  BY <1>1 DEF Without
<1>3. live' \in SUBSET Live /\ One(live')
  BY <1>1, <1>2 DEF TypeOK, Kept, One
<1>4. native_text \in NativeText /\ 0 \in Sessions /\ 0 \in Callbacks
  BY <1>1, TextLimits DEF TypeOK, Sessions, Callbacks
<1>5. CASE Recorded
  <2>1. native_text' = [native_text EXCEPT !.public = 0, !.callback = 0]
    BY <1>1, <1>5 DEF Invalidated
  <2>2. /\ native_text' \in NativeText /\ native_text'.session = native_text.session
        /\ native_text'.service = native_text.service /\ native_text'.public = 0
        /\ native_text'.callback = 0
    BY <1>4, <2>1 DEF NativeText
  <2>3. ASSUME running PROVE Stood' /\ Versions'
    <3>1. \A s \in text_session : 1 <= s.id /\ s.id \in Nat
      BY <1>1, <2>3, SessionIs DEF TypeOK, Sound, Identified
    <3>2. \A s \in text_session : 0 <= s.id /\ s.id # 0
      BY <3>1
    <3> QED
      BY <1>1, <2>2, <3>2 DEF Stood, Versions
  <2> QED
    BY <1>2, <1>3, <2>2, <2>3
<1>6. CASE ~Recorded
  <2>1. native_text' = native_text
    BY <1>1, <1>6
  <2>2. ASSUME running PROVE Stood' /\ Versions'
    <3>1. Sound
      BY <1>1, <2>2
    <3>2. Stood'
      BY <1>2, <1>6, <2>1, <3>1 DEF Sound, Stood, Recorded
    <3>3. Versions'
      BY <1>1, <1>2, <2>1, <3>1 DEF Sound, Versions
    <3> QED
      BY <3>2, <3>3
  <2> QED
    BY <1>2, <1>3, <1>4, <2>1, <2>2
<1> QED
  BY <1>5, <1>6

LEMMA ValueFailsStep ==
  ASSUME TextInv, ValueFails
  PROVE  TextInv'
<1>1. /\ TypeOK /\ Kept /\ task.pc = "value" /\ UpdateFails /\ refused' = refused
      /\ UNCHANGED <<running, service, session, text_sync_pending, uiStep, holder, platQ, uiQ,
                     commands>>
      /\ task' = [task EXCEPT !.pc = "schedule", !.then = IF task.rect THEN "rect" ELSE "idle"]
  BY DEF TextInv, ValueFails, UpdateFails
<1>2. PICK th \in {"idle", "rect"} : th = IF task.rect THEN "rect" ELSE "idle"
  OBVIOUS
<1>3. task' = [task EXCEPT !.pc = "schedule", !.then = th] /\ task \in Task
  BY <1>1, <1>2 DEF TypeOK
<1>4. /\ task' \in Task /\ task'.pc = "schedule" /\ task'.session = task.session
      /\ task'.seen = task.seen
  BY <1>3 DEF Task, Steps
<1>5. task'.seen \in -1 .. MaxCommands /\ refused' \in -1 .. MaxCommands
  BY <1>1, <1>4 DEF Kept, TypeOK
<1>6. /\ live' \in SUBSET Live /\ One(live') /\ live' \subseteq live
      /\ native_text' \in NativeText /\ native_text'.session = native_text.session
      /\ native_text'.service = native_text.service
      /\ native_text'.public \in {native_text.public, 0}
      /\ running => Stood' /\ Versions'
  BY <1>1, UpdateFailsKeeps
<1>7. Follows'
  BY <1>4 DEF Follows
<1>8. \A m \in live' : \E l \in live : /\ m.service = l.service /\ m.callback = l.callback
                                       /\ Awaited(l) /\ l.edited => m.edited
  BY <1>6
<1> QED
  BY <1>1, <1>4, <1>5, <1>6, <1>7, <1>8, UpdateKeeps

LEMMA RectFailsStep ==
  ASSUME TextInv, RectFails
  PROVE  TextInv'
<1>1. /\ TypeOK /\ Kept /\ (running => Sound) /\ task.pc = "rect" /\ UpdateFails
      /\ refused' = task.seen /\ task' = IdleTask
      /\ UNCHANGED <<running, service, session, text_sync_pending, uiStep, holder, platQ, uiQ,
                     commands>>
  BY DEF TextInv, RectFails, UpdateFails
<1>2. -1 \in -1 .. MaxCommands /\ refused' \in -1 .. MaxCommands
  BY <1>1, TextLimits DEF Kept
<1>3. /\ task' \in Task /\ task'.pc = "idle" /\ task'.session = {}
      /\ task'.seen \in -1 .. MaxCommands
  BY <1>1, <1>2, IdleTaskIs
<1>4. /\ live' \in SUBSET Live /\ One(live') /\ live' \subseteq live
      /\ native_text' \in NativeText /\ native_text'.session = native_text.session
      /\ native_text'.service = native_text.service
      /\ native_text'.public \in {native_text.public, 0}
      /\ running => Stood' /\ Versions'
  BY <1>1, UpdateFailsKeeps
<1>5. ASSUME running, Quiet PROVE Follows'
  <2>1. Sound /\ RectFollows
    BY <1>1, <1>5 DEF Sound, Follows
  <2>2. PICK c \in task.session, s \in text_session : UpdateFollows(c, s)
    BY <2>1 DEF RectFollows
  <2>3. native_text.session /\ native_text.public = s.id /\ native_text.public # 0
    BY <2>1, <2>2 DEF UpdateFollows, Sound, Identified
  <2>4. PICK m : live = {m} /\ m.service = native_text.service /\ m.public = native_text.public
    BY <1>1, <2>1, <2>3, StoodIs
  <2>5. /\ text_session' = text_session /\ text_service_generation' = text_service_generation
        /\ refused' = commands'
    BY <1>1, <2>2 DEF session, service, UpdateFollows
  <2>6. \A l \in live' : l.service = text_service_generation /\ l.public = s.id
    BY <1>4, <2>2, <2>3, <2>4 DEF UpdateFollows
  <2>7. IdleFollows'
    BY <2>5, <2>6 DEF IdleFollows
  <2> QED
    BY <1>3, <2>7 DEF Follows
<1>6. \A m \in live' : \E l \in live : /\ m.service = l.service /\ m.callback = l.callback
                                       /\ Awaited(l) /\ l.edited => m.edited
  BY <1>4
<1> QED
  BY <1>1, <1>2, <1>3, <1>4, <1>5, <1>6, UpdateKeeps


(***************************************************************************)
(* Native edits and actions.                                               *)
(***************************************************************************)
LEMMA NativeCallbackStep ==
  ASSUME TextInv, NEW l \in live, NEW v \in Values, NEW kind \in {"value", "action"},
         NativeCallback(l, kind, v)
  PROVE  TextInv'
<1> DEFINE e == [kind |-> kind, public |-> l.public, service |-> l.service,
                 callback |-> l.callback, value |-> v]
<1>1. /\ TypeOK /\ Kept /\ (running => Sound) /\ task = IdleTask /\ task' = task
      /\ UNCHANGED <<service, text_next_session, native_text, uiStep, holder, task, ghosts>>
      /\ live' = IF kind = "value" THEN (live \ {l}) \cup {[l EXCEPT !.value = v, !.edited = TRUE]}
                 ELSE live
  BY DEF TextInv, NativeCallback
<1>2. live = {l} /\ l \in Live /\ native_text.session /\ native_text.service = l.service
  BY <1>1, OneIs, IdleTaskIs DEF Kept, TypeOK
<1>3. PICK m : /\ live' = {m} /\ m \in Live /\ m.service = l.service /\ m.callback = l.callback
               /\ m.public = l.public /\ m.rect = l.rect
               /\ m = l \/ m.edited
               /\ kind = "value" => m.edited
  <2>1. CASE kind = "value"
    <3>1. PICK m : m = [l EXCEPT !.value = v, !.edited = TRUE]
      OBVIOUS
    <3>2. live' = {m}
      BY <1>1, <1>2, <2>1, <3>1
    <3>3. /\ m \in Live /\ m.service = l.service /\ m.callback = l.callback
          /\ m.public = l.public /\ m.rect = l.rect /\ m.edited = TRUE
      BY <1>2, <3>1 DEF Live
    <3> QED
      BY <3>2, <3>3
  <2>2. CASE kind # "value"
    BY <1>1, <1>2, <2>2
  <2> QED
    BY <2>1, <2>2
<1>4. CASE PostsMayFail /\ StopHost /\ UNCHANGED uiQ
  <2>1. TypeOK' /\ ~running'
    BY <1>1, <1>3, <1>4 DEF TypeOK, StopHost, service, ghosts
  <2>2. Kept'
    BY <1>1, <1>2, <1>3, <1>4 DEF Kept, One, StopHost
  <2> QED
    BY <2>1, <2>2 DEF TextInv
<1>5. CASE uiQ' = Append(uiQ, e) /\ UNCHANGED <<running, text_session, text_sync_pending, platQ>>
  <2>1. e \in UiTask /\ e.kind = kind /\ e.callback = l.callback /\ uiQ \in Seq(UiTask)
    BY <1>1, <1>2, LiveIs DEF UiTask, TypeOK
  <2> HIDE DEF e
  <2>2. /\ uiQ' \in Seq(UiTask) /\ Len(uiQ') = Len(uiQ) + 1 /\ uiQ'[Len(uiQ) + 1] = e
        /\ \A i \in 1 .. Len(uiQ) : uiQ'[i] = uiQ[i]
    BY <1>5, <2>1
  <2>3. Len(uiQ) \in Nat /\ \A i \in 1 .. Len(uiQ') : i \in 1 .. Len(uiQ) \/ i = Len(uiQ) + 1
    BY <2>1, <2>2
  <2>4. TypeOK'
    BY <1>1, <1>3, <1>5, <2>2 DEF TypeOK, service, ghosts
  <2>5. Kept'
    BY <1>1, <1>2, <1>3, <1>5 DEF Kept, One
  <2>6. ASSUME running PROVE Sound'
    <3>1. Sound
      BY <1>1, <2>6
    <3>2. Identified' /\ Posted'
      BY <1>1, <1>5, <3>1 DEF Sound, Identified, Posted, service
    <3>3. Called'
      <4>1. 1 <= l.callback /\ l.callback < text_next_callback_generation
        BY <3>1 DEF Sound, Called
      <4>2. \A i \in 1 .. Len(uiQ') :
              1 <= uiQ'[i].callback /\ uiQ'[i].callback < text_next_callback_generation
        BY <2>1, <2>2, <2>3, <3>1, <4>1 DEF Sound, Called
      <4>3. ASSUME NEW i \in 1 .. Len(uiQ'), uiQ'[i].kind = "value", uiQ'[i].callback = m.callback
            PROVE  m.edited
        <5>1. CASE i \in 1 .. Len(uiQ)
          <6>1. uiQ[i].kind = "value" /\ uiQ[i].callback = l.callback
            BY <1>3, <2>2, <4>3, <5>1
          <6>2. l.edited
            BY <3>1, <5>1, <6>1 DEF Sound, Called
          <6> QED
            BY <1>3, <6>2
        <5>2. CASE i = Len(uiQ) + 1
          BY <1>3, <2>1, <2>2, <4>3, <5>2
        <5> QED
          BY <2>3, <5>1, <5>2
      <4> QED
        BY <1>1, <1>3, <4>1, <4>2, <4>3, IdleTaskIs DEF Called, service
    <3>4. Copied' /\ Taken'
      BY <1>1, <1>5, <3>1 DEF Sound, Copied, Taken
    <3>5. Stood'
      BY <1>1, <1>2, <1>3, <3>1 DEF Sound, Stood
    <3>6. Versions'
      BY <1>1, <1>2, <1>3, <1>5, <3>1 DEF Sound, Versions
    <3>7. ASSUME Quiet' PROVE Follows'
      <4>1. IdleFollows
        BY <1>1, <1>5, <3>1, <3>7, IdleTaskIs DEF Sound, Follows, Quiet
      <4>2. \A s : Stands(l, s) => Stands(m, s)'
        BY <1>1, <1>3 DEF Stands, service
      <4>3. \A s : l.value = s.value \/ l.edited => m.value = s.value \/ m.edited
        BY <1>3
      <4>4. /\ m.service = text_service_generation
            /\ \E s \in text_session : m.public = s.id
        BY <1>2, <1>3, <4>1 DEF IdleFollows
      <4>5. \A s \in LiveClients(text_session) :
              text_input_backend => refused = commands \/ (Stands(l, s) /\ (l.value = s.value \/ l.edited))
        BY <1>2, <4>1 DEF IdleFollows
      <4>6. IdleFollows'
        BY <1>1, <1>3, <1>5, <4>2, <4>3, <4>4, <4>5 DEF IdleFollows, LiveClients, service, ghosts
      <4> QED
        BY <1>1, <4>6, IdleTaskIs DEF Follows
    <3> QED
      BY <3>2, <3>3, <3>4, <3>5, <3>6, <3>7 DEF Sound
  <2> QED
    BY <1>5, <2>4, <2>5, <2>6 DEF TextInv
<1> QED
  BY <1>4, <1>5 DEF NativeCallback

(* The queue behind its first callback. *)
LEMMA CalledBehind ==
  ASSUME TypeOK, Called, uiQ # <<>>, uiQ' = Tail(uiQ), task' = task, live' = live,
         text_next_callback_generation' = text_next_callback_generation
  PROVE  /\ uiQ' \in Seq(UiTask) /\ Called' /\ Head(uiQ) \in UiTask /\ Head(uiQ) = uiQ[1]
         /\ 1 \in 1 .. Len(uiQ)
<1>1. /\ uiQ \in Seq(UiTask) /\ Len(uiQ) \in Nat /\ Len(uiQ) >= 1
  BY DEF TypeOK
<1>2. /\ uiQ' \in Seq(UiTask) /\ Len(uiQ') = Len(uiQ) - 1 /\ Head(uiQ) = uiQ[1]
      /\ \A i \in 1 .. Len(uiQ') : uiQ'[i] = uiQ[i + 1]
      /\ 1 \in 1 .. Len(uiQ)
  BY <1>1
<1>3. \A i \in 1 .. Len(uiQ') : i + 1 \in 1 .. Len(uiQ)
  BY <1>1, <1>2
<1>4. Head(uiQ) \in UiTask
  BY <1>1, <1>2, ElementOfSeq
<1>5. \A i \in 1 .. Len(uiQ') : \E j \in 1 .. Len(uiQ) : uiQ'[i] = uiQ[j]
  BY <1>2, <1>3
<1>6. Called'
  BY <1>5 DEF Called
<1> QED
  BY <1>2, <1>4, <1>6

LEMMA DeliverCallbackStep ==
  ASSUME TextInv, DeliverCallback
  PROVE  TextInv'
<1> DEFINE t == Head(uiQ)
<1>1. /\ TypeOK /\ Kept /\ (running => Sound) /\ uiStep = "idle" /\ uiQ # <<>> /\ uiQ' = Tail(uiQ)
      /\ UNCHANGED <<running, service, text_next_session, text_sync_pending, holder, task, platQ,
                     live, ghosts>>
  BY DEF TextInv, DeliverCallback
<1>2. /\ text_next_callback_generation' = text_next_callback_generation
      /\ text_service_generation' = text_service_generation /\ commands' = commands
      /\ text_input_backend' = text_input_backend /\ refused' = refused
  BY <1>1 DEF service, ghosts
<1>3. uiQ \in Seq(UiTask) /\ uiQ' \in Seq(UiTask)
  BY <1>1 DEF TypeOK
<1>4. running => /\ Called' /\ t \in UiTask /\ t = uiQ[1] /\ 1 \in 1 .. Len(uiQ)
  BY <1>1, <1>2, CalledBehind DEF Sound
<1>5. CASE UNCHANGED <<text_session, native_text, uiStep>>
  <2>1. TypeOK' /\ Kept'
    BY <1>1, <1>3, <1>5 DEF TypeOK, Kept, service, ghosts
  <2>2. ASSUME running PROVE Sound'
    <3>1. Sound
      BY <1>1, <2>2
    <3>2. Identified' /\ Posted' /\ Copied' /\ Taken' /\ Stood' /\ Versions'
      BY <1>1, <1>2, <1>5, <3>1
         DEF Sound, Identified, Posted, Copied, Taken, Stood, Versions
    <3>3. /\ Quiet' = Quiet /\ IdleFollows' = IdleFollows /\ NativeCurrent' = NativeCurrent
          /\ StartFollows' = StartFollows
      BY <1>1, <1>2, <1>5 DEF Quiet, IdleFollows, NativeCurrent, StartFollows, LiveClients, Stands
    <3>4. ValueFollows' = ValueFollows /\ RectFollows' = RectFollows
      BY <1>1, <1>2, <1>5 DEF ValueFollows, RectFollows, UpdateFollows
    <3>5. Quiet' => Follows'
      BY <1>1, <1>5, <3>1, <3>3, <3>4 DEF Sound, Follows
    <3> QED
      BY <1>4, <2>2, <3>2, <3>5 DEF Sound
  <2> QED
    BY <1>1, <2>1, <2>2 DEF TextInv
<1>6. CASE /\ text_session' \in {text_session, {}} /\ uiStep' \in {"schedule", "stop"}
           /\ UNCHANGED native_text
  <2>1. TypeOK' /\ Kept'
    BY <1>1, <1>3, <1>6 DEF TypeOK, Kept, service, ghosts, Steps, One
  <2>2. ASSUME running PROVE Sound'
    <3>1. Sound
      BY <1>1, <2>2
    <3>2. Identified' /\ Copied' /\ Taken' /\ Stood' /\ Versions'
      BY <1>1, <1>2, <1>6, <3>1 DEF Sound, Identified, Copied, Taken, Stood, Versions
    <3>3. Posted'
      BY <1>1, <1>6, <3>1, TokenIs DEF Sound, Posted
    <3>4. ~Quiet'
      BY <1>6 DEF Quiet
    <3> QED
      BY <1>4, <2>2, <3>2, <3>3, <3>4 DEF Sound
  <2> QED
    BY <1>1, <2>1, <2>2 DEF TextInv
<1>7. ASSUME NEW s \in text_session, FromCurrent(t), t.kind = "value", ~ValueExhausted(s),
             text_session' = {[s EXCEPT !.value = t.value, !.value_revision = @ + 1]},
             native_text' = [native_text EXCEPT !.value_revision = s.value_revision + 1],
             uiStep' = uiStep
      PROVE  TextInv'
  <2>1. running /\ Sound /\ native_text.callback = t.callback
    BY <1>1, <1>7 DEF FromCurrent
  <2>2. t \in UiTask /\ t = uiQ[1] /\ 1 \in 1 .. Len(uiQ) /\ Called'
    BY <1>4, <2>1
  <2> HIDE DEF t
  <2>3. text_session = {s} /\ s \in Session /\ native_text \in NativeText
    BY <1>1, OneIs DEF Kept, TypeOK
  <2>4. /\ s.value_revision + 1 \in Revisions /\ s.value_revision \in Nat /\ s.rect_revision \in Nat
        /\ s.id \in Nat
    BY <1>7, <2>3, SessionIs, TextLimits DEF ValueExhausted, Revisions
  <2>5. PICK z : z = [s EXCEPT !.value = t.value, !.value_revision = @ + 1]
    OBVIOUS
  <2>6. /\ z \in Session /\ z.id = s.id /\ z.value_revision = s.value_revision + 1
        /\ z.rect_revision = s.rect_revision /\ z.alive = s.alive
    BY <2>2, <2>3, <2>4, <2>5 DEF Session, UiTask
  <2>7. /\ native_text' \in NativeText /\ native_text'.session = native_text.session
        /\ native_text'.public = native_text.public /\ native_text'.service = native_text.service
        /\ native_text'.callback = native_text.callback
        /\ native_text'.rect_revision = native_text.rect_revision
        /\ native_text'.value_revision = s.value_revision + 1
    BY <1>7, <2>3, <2>4 DEF NativeText
  <2>8. text_session' = {z}
    BY <1>7, <2>5
  (* The edit came from the session alive, which is marked as edited. *)
  <2>9. \A l \in live : l.edited
    <3>1. native_text.callback # 0
      BY <2>1, <2>2 DEF Sound, Called
    <3>2. native_text.session /\ native_text.public # 0
      BY <2>1, <3>1 DEF Sound, Stood
    <3>3. PICK m : live = {m} /\ m.callback = native_text.callback
      BY <1>1, <2>1, <3>2, StoodIs
    <3>4. uiQ[1].kind = "value" /\ uiQ[1].callback = m.callback
      BY <1>7, <2>1, <2>2, <3>3
    <3> QED
      BY <2>1, <2>2, <3>3, <3>4 DEF Sound, Called
  <2>10. TypeOK'
    BY <1>1, <1>3, <1>7, <2>6, <2>7, <2>8 DEF TypeOK, service, ghosts
  <2>11. Kept'
    BY <1>1, <2>7, <2>8 DEF Kept, One
  <2>12. Identified' /\ Posted'
    BY <1>1, <1>2, <1>7, <2>1, <2>3, <2>6, <2>7, <2>8 DEF Sound, Identified, Posted
  <2>13. Copied'
    <3>1. \A c \in task.session : c.value_revision \in Nat
      BY <1>1, TaskIs, SessionIs DEF TypeOK
    <3>2. \A c \in task.session : c.value_revision <= s.value_revision =>
            c.value_revision <= z.value_revision /\ c.value_revision # z.value_revision
      BY <2>4, <2>6, <3>1
    <3> QED
      BY <1>1, <2>1, <2>6, <2>8, <3>2 DEF Sound, Copied
  <2>14. Taken' /\ Stood'
    BY <1>1, <2>1, <2>7 DEF Sound, Taken, Stood
  <2>15. Versions'
    <3>1. native_text'.value_revision <= z.value_revision
      BY <2>4, <2>6, <2>7
    <3> QED
      BY <1>1, <2>1, <2>6, <2>7, <2>8, <2>9, <3>1 DEF Sound, Versions
  <2>16. ASSUME Quiet' PROVE Follows'
    <3>1. Follows
      BY <1>1, <1>7, <2>1, <2>16 DEF Sound, Quiet
    <3>2. IdleFollows => IdleFollows'
      <4>1. \A l : Stands(l, s) => Stands(l, z)'
        BY <1>2, <2>6, <2>7 DEF Stands
      <4>2. LiveClients(text_session') = {z} => LiveClients(text_session) = {s}
        BY <2>3, <2>6, <2>8 DEF LiveClients
      <4>3. LiveClients(text_session') \in {{}, {z}}
        BY <2>8 DEF LiveClients
      <4> QED
        BY <1>1, <1>2, <2>3, <2>6, <2>8, <2>9, <4>1, <4>2, <4>3 DEF IdleFollows, LiveClients
    <3>3. (NativeCurrent => NativeCurrent') /\ (StartFollows => StartFollows')
      BY <1>1, <1>2, <2>3, <2>6, <2>7, <2>8 DEF NativeCurrent, StartFollows
    <3>4. \A c : UpdateFollows(c, s) => UpdateFollows(c, z)'
      BY <1>1, <1>2, <2>6, <2>7 DEF UpdateFollows
    <3>5. (ValueFollows => ValueFollows') /\ (RectFollows => RectFollows')
      BY <1>1, <2>3, <2>7, <2>8, <2>9, <3>4 DEF ValueFollows, RectFollows
    <3> QED
      BY <1>1, <2>7, <3>1, <3>2, <3>3, <3>5 DEF Follows
  <2> QED
    BY <2>2, <2>10, <2>11, <2>12, <2>13, <2>14, <2>15, <2>16 DEF TextInv, Sound
<1> QED
  BY <1>5, <1>6, <1>7 DEF DeliverCallback

LEMMA TextStep ==
  ASSUME TextInv, [Next]_vars
  PROVE  TextInv'
<1>1. CASE Next
  BY <1>1, UiThreadStep, HolderThreadStep, TaskThreadStep, ShutdownStep, StartTextInputStep,
     UpdateEditingStateStep, StopTextInputStep, SetEditableRectStep, ClientExpiresStep,
     SetTextInputBackendStep, BeginSyncStep, DecideStep, StartSucceedsStep, StartFailsStep,
     ValueSucceedsStep, ValueFailsStep, RectSucceedsStep, RectFailsStep,
     CompletePlatformShutdownStep, NativeCallbackStep, DeliverCallbackStep DEF Next
<1>2. CASE UNCHANGED vars
  <2>1. UNCHANGED <<running, text_input_backend, text_service_generation,
                    text_next_callback_generation, text_next_session, text_session,
                    text_sync_pending, native_text, uiStep, holder, task, platQ, uiQ, live,
                    commands, refused>>
    BY <1>2 DEF vars, host, service, session, ghosts
  <2>2. TypeOK' /\ Kept'
    BY <2>1 DEF TextInv, TypeOK, Kept
  <2>3. ASSUME running PROVE Sound'
    <3>1. Sound
      BY <2>3 DEF TextInv
    <3>2. Identified' /\ Posted' /\ Copied' /\ Taken' /\ Stood' /\ Versions'
      BY <2>1, <3>1 DEF Sound, Identified, Posted, Copied, Taken, Stood, Versions
    <3>3. Called'
      BY <2>1, <3>1 DEF Sound, Called
    <3>4. /\ Quiet' = Quiet /\ IdleFollows' = IdleFollows /\ NativeCurrent' = NativeCurrent
          /\ StartFollows' = StartFollows
      BY <2>1 DEF Quiet, IdleFollows, NativeCurrent, StartFollows, LiveClients, Stands
    <3>5. ValueFollows' = ValueFollows /\ RectFollows' = RectFollows
      BY <2>1 DEF ValueFollows, RectFollows, UpdateFollows
    <3>6. Quiet' => Follows'
      BY <2>1, <3>1, <3>4, <3>5 DEF Sound, Follows
    <3> QED
      BY <3>2, <3>3, <3>6 DEF Sound
  <2> QED
    BY <2>1, <2>2, <2>3 DEF TextInv
<1> QED
  BY <1>1, <1>2

LEMMA TextInitially ==
  ASSUME Init
  PROVE  TextInv
<1>1. /\ running = TRUE /\ text_input_backend = FALSE /\ text_sync_pending = FALSE
      /\ text_service_generation = 0 /\ text_next_session = 1 /\ text_next_callback_generation = 1
      /\ text_session = {} /\ native_text = NoNative
      /\ uiStep = "idle" /\ holder = "idle" /\ task = IdleTask
      /\ platQ = 0 /\ uiQ = <<>> /\ live = {}
      /\ commands = 0 /\ refused = -1
  BY DEF Init
<1>2. TypeOK
  <2>1. /\ text_service_generation \in Services /\ text_next_session \in 1 .. MaxSession
        /\ text_next_callback_generation \in 1 .. MaxCallback /\ platQ \in Nat
        /\ commands \in 0 .. MaxCommands /\ refused \in -1 .. MaxCommands
    BY <1>1, TextLimits DEF Services
  <2>2. uiStep \in Steps /\ holder \in Steps /\ task \in Task /\ native_text \in NativeText
    BY <1>1, IdleTaskIs, NoNativeIs DEF Steps
  <2>3. /\ running \in BOOLEAN /\ text_input_backend \in BOOLEAN /\ text_sync_pending \in BOOLEAN
        /\ text_session \in SUBSET Session /\ live \in SUBSET Live
    BY <1>1
  <2>4. uiQ \in Seq(UiTask)
    BY <1>1
  <2> QED
    BY <2>1, <2>2, <2>3, <2>4, Zenon DEF TypeOK
<1>3. -1 \in -1 .. MaxCommands
  BY TextLimits
<1>4. Kept
  BY <1>1, <1>3, IdleTaskIs DEF Kept, One
<1>5. Identified /\ Copied /\ Taken /\ Stood /\ Versions
  BY <1>1, IdleTaskIs, NoNativeIs DEF Identified, Copied, Taken, Stood, Versions, One
<1>6. Posted
  <2>1. AboutTo(uiStep) = 0 /\ AboutTo(holder) = 0 /\ AboutTo(task.pc) = 0
        /\ Wanted(text_sync_pending) = 0
    BY <1>1, IdleTaskIs DEF AboutTo, Wanted
  <2> QED
    BY <1>1, <2>1 DEF Posted
<1>7. Called
  BY <1>1, IdleTaskIs DEF Called
<1>8. Follows
  BY <1>1, IdleTaskIs, NoNativeIs DEF Follows, IdleFollows, LiveClients
<1> QED
  BY <1>2, <1>4, <1>5, <1>6, <1>7, <1>8 DEF TextInv, Sound

(* The state of the text input service is well formed. *)
THEOREM TextInputTypeCorrect == Spec => []TypeOK
<1>1. TextInv => TypeOK
  BY DEF TextInv
<1> QED
  BY TextInitially, TextStep, <1>1, PTL DEF Spec

(* Whatever crosses the backend's calls (commands, replacements, edits,    *)
(* failures and shutdown), no native session is leaked, and once nothing   *)
(* is in progress the native session is the framework's.                   *)
THEOREM NativeSessionAlwaysFits == Spec => []NativeSessionFits
<1>1. TextInv => NoSessionLeaked
  BY DEF TextInv, Kept, NoSessionLeaked, One
<1>2. TextInv => NativeFollows
  BY IdleTaskIs DEF TextInv, Sound, Quiet, Follows, IdleFollows, NativeFollows, AtRest
<1> QED
  BY TextInitially, TextStep, <1>1, <1>2, PTL DEF Spec, NativeSessionFits

(***************************************************************************)
(* Both components side by side, as the run `delegate` explores them: they *)
(* share only whether the host runs.                                       *)
(***************************************************************************)
HostInv ==
  /\ explored \in {"input", "text"}
  /\ explored = "input" => DelegateInv /\ TypeOK
  /\ explored = "text" => DelegateTypeOK /\ TextInv

LEMMA HostStep ==
  ASSUME HostInv, [HostNext]_<<explored, running, textVars, inputVars>>
  PROVE  HostInv'
<1>1. CASE explored = "input" /\ DelegateNext /\ UNCHANGED textVars /\ UNCHANGED explored
  <2>1. DelegateInv' /\ TypeOK
    BY <1>1, DelegateStep DEF HostInv
  <2>2. running' \in BOOLEAN
    BY <2>1 DEF DelegateInv, DelegateTypeOK
  <2>3. TypeOK'
    BY <1>1, <2>1, <2>2 DEF TypeOK, textVars, service, session, ghosts
  <2> QED
    BY <1>1, <2>1, <2>3 DEF HostInv
<1>2. CASE explored = "text" /\ Next /\ UNCHANGED inputVars /\ UNCHANGED explored
  <2>1. TextInv' /\ DelegateTypeOK
    BY <1>2, TextStep DEF HostInv
  <2>2. running' \in BOOLEAN
    BY <2>1 DEF TextInv, TypeOK
  <2>3. DelegateTypeOK'
    BY <1>2, <2>1, <2>2 DEF DelegateTypeOK, inputVars
  <2> QED
    BY <1>2, <2>1, <2>3 DEF HostInv
<1>3. CASE UNCHANGED <<explored, running, textVars, inputVars>>
  <2>1. UNCHANGED delegateVars
    BY <1>3 DEF delegateVars, inputVars, state
  <2>2. UNCHANGED vars
    BY <1>3 DEF vars, host, textVars, service, session, ghosts
  <2>3. explored = "input" => DelegateInv'
    BY <2>1, DelegateStep DEF HostInv
  <2>4. explored = "text" => TextInv'
    BY <2>2, TextStep DEF HostInv
  <2>5. TypeOK => TypeOK'
    BY <2>2 DEF TypeOK, vars, host, service, session, ghosts
  <2>6. DelegateTypeOK => DelegateTypeOK'
    BY <2>1 DEF DelegateTypeOK, delegateVars, state
  <2> QED
    BY <1>3, <2>3, <2>4, <2>5, <2>6 DEF HostInv
<1> QED
  BY <1>1, <1>2, <1>3 DEF HostNext

(* Types and counters within their limits, for the delegate binding and    *)
(* the text input service of one host.                                     *)
THEOREM HostTypeCorrect == HostSpec => []HostTypeOK
<1>1. HostInit => HostInv
  <2> SUFFICES ASSUME HostInit PROVE HostInv
    OBVIOUS
  <2>1. DelegateInv /\ TextInv /\ explored \in {"input", "text"}
    BY DelegateInitially, TextInitially DEF HostInit
  <2> QED
    BY <2>1 DEF HostInv, DelegateInv, TextInv
<1>2. HostInv => HostTypeOK
  BY DEF HostInv, HostTypeOK, DelegateInv, TextInv
<1> QED
  BY <1>1, <1>2, HostStep, PTL DEF HostSpec
=============================================================================
