-------------------------- MODULE HostServicesProofs --------------------------
(***************************************************************************)
(* Proofs about the clipboard and the cursor service, for any limits of    *)
(* their counters, any number of requests, backends, delegates and         *)
(* cursors, and posts and backends that fail.                              *)
(***************************************************************************)
EXTENDS MCHostServices, FiniteSetTheorems, SequenceTheorems, WellFoundedInduction, TLAPS

(* Induction over the natural numbers: a set of them that is not empty has *)
(* a least member.                                                         *)
LEMMA LeastMember ==
  ASSUME NEW T, T \subseteq Nat, T # {}
  PROVE  \E n \in T : \A m \in T : n <= m
<1> DEFINE R == OpToRel(<, Nat)
<1>1. IsWellFoundedOn(R, Nat)
  BY NatLessThanWellFounded
<1>2. \A x, y \in Nat : x < y => <<x, y>> \in R
  BY DEF OpToRel
<1> HIDE DEF R
<1>3. PICK n \in T : \A m \in T : ~(<<m, n>> \in R)
  BY <1>1, WFMin
<1>4. ASSUME NEW m \in T PROVE n <= m
  <2>1. ~(m < n)
    BY <1>2, <1>3
  <2> QED
    BY <2>1
<1> QED
  BY <1>4

In(r, q) == \E i \in 1 .. Len(q) : q[i] = r
Distinct(q) == \A i, j \in 1 .. Len(q) : q[i] = q[j] => i = j

(* What Erase computes. *)
StepsTo(f, q, S, n) ==
  f = [i \in 0 .. n |->
         IF i = 0 THEN <<>> ELSE IF q[i] \in S THEN f[i - 1] ELSE Append(f[i - 1], q[i])]

LEMMA EraseStepsExist ==
  ASSUME NEW q, NEW S, NEW n \in Nat
  PROVE  \E f : StepsTo(f, q, S, n)
<1> DEFINE T == {m \in Nat : ~(\E f : StepsTo(f, q, S, m))}
<1>1. SUFFICES ASSUME n \in T PROVE FALSE
  OBVIOUS
<1>2. T \subseteq Nat /\ T # {}
  BY <1>1
<1> HIDE DEF T
<1>3. PICK m \in T : \A k \in T : m <= k
  BY <1>2, LeastMember
<1>4. m \in Nat /\ ~(\E f : StepsTo(f, q, S, m))
  BY DEF T
<1>5. CASE m = 0
  <2> DEFINE g == [i \in 0 .. 0 |-> <<>>]
  <2>1. g = [i \in 0 .. 0 |-> IF i = 0 THEN <<>> ELSE IF q[i] \in S THEN g[i - 1] ELSE Append(g[i - 1], q[i])]
    OBVIOUS
  <2>2. StepsTo(g, q, S, 0)
    BY <2>1 DEF StepsTo
  <2> QED
    BY <1>4, <1>5, <2>2
<1>6. CASE m # 0
  <2>1. m - 1 \in Nat /\ m - 1 \notin T
    BY <1>3, <1>4, <1>6
  <2>2. PICK f : StepsTo(f, q, S, m - 1)
    BY <2>1 DEF T
  <2> DEFINE g == [i \in 0 .. m |->
                     IF i = m THEN IF q[m] \in S THEN f[m - 1] ELSE Append(f[m - 1], q[m]) ELSE f[i]]
  <2> DEFINE h == [i \in 0 .. m |-> IF i = 0 THEN <<>> ELSE IF q[i] \in S THEN g[i - 1] ELSE Append(g[i - 1], q[i])]
  <2>3. ASSUME NEW i \in 0 .. m - 1
        PROVE  f[i] = IF i = 0 THEN <<>> ELSE IF q[i] \in S THEN f[i - 1] ELSE Append(f[i - 1], q[i])
    <3> DEFINE e == [j \in 0 .. m - 1 |->
                       IF j = 0 THEN <<>> ELSE IF q[j] \in S THEN f[j - 1] ELSE Append(f[j - 1], q[j])]
    <3>1. f = e
      BY <2>2 DEF StepsTo
    <3>2. e[i] = IF i = 0 THEN <<>> ELSE IF q[i] \in S THEN f[i - 1] ELSE Append(f[i - 1], q[i])
      OBVIOUS
    <3> HIDE DEF e
    <3> QED
      BY <3>1, <3>2
  <2>4. ASSUME NEW i \in 0 .. m PROVE g[i] = h[i]
    <3>1. CASE i = m
      <4>1. g[m - 1] = f[m - 1]
        BY <1>4, <1>6
      <4> QED
        BY <1>4, <1>6, <3>1, <4>1
    <3>2. CASE i # m
      <4>1. i \in 0 .. m - 1
        BY <1>4, <3>2
      <4>2. g[i] = f[i]
        BY <3>2
      <4>3. i # 0 => g[i - 1] = f[i - 1]
        BY <1>4, <4>1
      <4> QED
        BY <2>3, <4>1, <4>2, <4>3
    <3> QED
      BY <3>1, <3>2
  <2>5. g = h
    BY <2>4
  <2>6. StepsTo(g, q, S, m)
    BY <2>5 DEF StepsTo
  <2> QED
    BY <1>4, <2>6
<1> QED
  BY <1>5, <1>6

LEMMA AppendIn ==
  ASSUME NEW R, NEW q \in Seq(R), NEW e \in R
  PROVE  /\ Append(q, e) \in Seq(R)
         /\ \A r : In(r, Append(q, e)) <=> In(r, q) \/ r = e
         /\ Distinct(q) /\ ~In(e, q) => Distinct(Append(q, e))
<1>1. /\ Append(q, e) \in Seq(R) /\ Len(Append(q, e)) = Len(q) + 1 /\ Len(q) \in Nat
      /\ Append(q, e)[Len(q) + 1] = e
      /\ \A i \in 1 .. Len(q) : Append(q, e)[i] = q[i]
  OBVIOUS
<1> DEFINE a == Append(q, e)
<1> HIDE DEF a
<1>2. ASSUME NEW r PROVE In(r, a) <=> In(r, q) \/ r = e
  <2>1. ASSUME In(r, a) PROVE In(r, q) \/ r = e
    <3>1. PICK i \in 1 .. Len(q) + 1 : a[i] = r
      BY <1>1, <2>1 DEF In, a
    <3>2. CASE i = Len(q) + 1
      BY <1>1, <3>1, <3>2 DEF a
    <3>3. CASE i # Len(q) + 1
      <4>1. i \in 1 .. Len(q)
        BY <1>1, <3>3
      <4> QED
        BY <1>1, <3>1, <4>1 DEF In, a
    <3> QED
      BY <3>2, <3>3
  <2>2. ASSUME In(r, q) PROVE In(r, a)
    <3>1. PICK i \in 1 .. Len(q) : q[i] = r
      BY <2>2 DEF In
    <3>2. i \in 1 .. Len(a) /\ a[i] = r
      BY <1>1, <3>1 DEF a
    <3> QED
      BY <3>2 DEF In
  <2>3. ASSUME r = e PROVE In(r, a)
    <3>1. Len(q) + 1 \in 1 .. Len(a) /\ a[Len(q) + 1] = r
      BY <1>1, <2>3 DEF a
    <3> QED
      BY <3>1 DEF In
  <2> QED
    BY <2>1, <2>2, <2>3
<1>3. ASSUME Distinct(q), ~In(e, q) PROVE Distinct(a)
  <2>1. \A i \in 1 .. Len(q) : q[i] # e
    BY <1>3 DEF In
  <2>2. \A i \in 1 .. Len(a) : i = Len(q) + 1 \/ i \in 1 .. Len(q)
    BY <1>1 DEF a
  <2>3. \A i \in 1 .. Len(q) : a[i] = q[i] /\ i # Len(q) + 1
    BY <1>1 DEF a
  <2>4. a[Len(q) + 1] = e
    BY <1>1 DEF a
  <2> QED
    BY <1>3, <2>1, <2>2, <2>3, <2>4 DEF Distinct
<1> QED
  BY <1>1, <1>2, <1>3 DEF a

LEMMA EraseKeeps ==
  ASSUME NEW R, NEW q \in Seq(R), NEW S
  PROVE  /\ Erase(q, S) \in Seq(R)
         /\ \A r : In(r, Erase(q, S)) <=> In(r, q) /\ r \notin S
         /\ Distinct(q) => Distinct(Erase(q, S))
<1> DEFINE n == Len(q)
<1> DEFINE f == CHOOSE g : StepsTo(g, q, S, n)
<1>1. n \in Nat /\ \A i \in 1 .. n : q[i] \in R
  OBVIOUS
<1>2. Erase(q, S) = f[n]
  BY DEF Erase, StepsTo
<1>3. StepsTo(f, q, S, n)
  BY <1>1, EraseStepsExist
<1> HIDE DEF f, n
<1>4. ASSUME NEW i \in 0 .. n
      PROVE  f[i] = IF i = 0 THEN <<>> ELSE IF q[i] \in S THEN f[i - 1] ELSE Append(f[i - 1], q[i])
  <2> DEFINE e == [j \in 0 .. n |->
                     IF j = 0 THEN <<>> ELSE IF q[j] \in S THEN f[j - 1] ELSE Append(f[j - 1], q[j])]
  <2>1. f = e
    BY <1>3 DEF StepsTo
  <2>2. e[i] = IF i = 0 THEN <<>> ELSE IF q[i] \in S THEN f[i - 1] ELSE Append(f[i - 1], q[i])
    OBVIOUS
  <2> HIDE DEF e
  <2> QED
    BY <2>1, <2>2
<1> DEFINE Among(r, i) == \E j \in 1 .. i : q[j] = r
<1> DEFINE Good(i) == /\ f[i] \in Seq(R)
                      /\ \A r : In(r, f[i]) <=> Among(r, i) /\ r \notin S
                      /\ Distinct(q) => Distinct(f[i])
<1>5. ASSUME NEW i \in 0 .. n PROVE Good(i)
  <2> DEFINE T == {m \in 0 .. n : ~Good(m)}
  <2>1. SUFFICES ASSUME T # {} PROVE FALSE
    OBVIOUS
  <2>2. T \subseteq Nat
    BY <1>1
  <2> HIDE DEF T
  <2>3. PICK m \in T : \A k \in T : m <= k
    BY <2>1, <2>2, LeastMember
  <2>4. m \in 0 .. n /\ ~Good(m)
    BY DEF T
  <2>5. CASE m = 0
    <3>1. f[0] = <<>>
      BY <1>4, <2>4, <2>5
    <3>2. \A r : ~In(r, <<>>) /\ ~Among(r, 0)
      BY DEF In
    <3>3. Distinct(<<>>) /\ <<>> \in Seq(R)
      BY DEF Distinct
    <3>4. Good(0)
      BY <3>1, <3>2, <3>3
    <3> QED
      BY <2>4, <2>5, <3>4
  <2>6. CASE m # 0
    <3>1. m - 1 \in 0 .. n /\ m \in 1 .. n /\ ~(m <= m - 1)
      BY <1>1, <2>4, <2>6
    <3>2. Good(m - 1)
      <4>1. m - 1 \notin T
        BY <2>3, <3>1
      <4> QED
        BY <3>1, <4>1 DEF T
    <3>3. f[m] = IF q[m] \in S THEN f[m - 1] ELSE Append(f[m - 1], q[m])
      BY <1>4, <2>4, <2>6
    <3>4. q[m] \in R
      BY <1>1, <3>1
    <3>5. ASSUME NEW r PROVE Among(r, m) <=> Among(r, m - 1) \/ r = q[m]
      <4>1. \A j \in 1 .. m : j = m \/ j \in 1 .. m - 1
        BY <1>1, <2>4
      <4>2. \A j \in 1 .. m - 1 : j \in 1 .. m
        BY <1>1, <2>4
      <4>3. m \in 1 .. m
        BY <1>1, <3>1
      <4> QED
        BY <4>1, <4>2, <4>3
    <3>6. CASE q[m] \in S
      <4>1. f[m] = f[m - 1]
        BY <3>3, <3>6
      <4>2. \A r : Among(r, m) /\ r \notin S <=> Among(r, m - 1) /\ r \notin S
        BY <3>5, <3>6
      <4> HIDE DEF Among
      <4> QED
        BY <2>4, <3>2, <4>1, <4>2
    <3>7. CASE q[m] \notin S
      <4>1. f[m] = Append(f[m - 1], q[m])
        BY <3>3, <3>7
      <4>2. Distinct(q) => ~Among(q[m], m - 1)
        BY <1>1, <3>1 DEF Distinct, n
      <4>3. Distinct(q) => ~In(q[m], f[m - 1])
        BY <3>2, <4>2
      <4> HIDE DEF Among
      <4>4. /\ Append(f[m - 1], q[m]) \in Seq(R)
            /\ \A r : In(r, Append(f[m - 1], q[m])) <=> In(r, f[m - 1]) \/ r = q[m]
            /\ Distinct(q) => Distinct(Append(f[m - 1], q[m]))
        BY <3>2, <3>4, <4>3, AppendIn
      <4>5. \A r : In(r, f[m]) <=> Among(r, m) /\ r \notin S
        BY <3>2, <3>5, <3>7, <4>1, <4>4
      <4> QED
        BY <2>4, <4>1, <4>4, <4>5
    <3> QED
      BY <3>6, <3>7
  <2> QED
    BY <2>5, <2>6
<1>6. \A r : Among(r, n) <=> In(r, q)
  BY DEF In, n
<1>7. n \in 0 .. n
  BY <1>1
<1> HIDE DEF Among
<1>8. Good(n)
  BY <1>5, <1>7
<1> QED
  BY <1>2, <1>6, <1>8
-----------------------------------------------------------------------------
(***************************************************************************)
(* The UI queue: which requests its tasks carry, and that none is carried  *)
(* twice.                                                                  *)
(***************************************************************************)
Carried(q, r) == \E i \in 1 .. Len(q) : In(r, q[i].reqs)
CarriedOnce(q) ==
  \A i, j \in 1 .. Len(q) : \A k \in 1 .. Len(q[i].reqs), l \in 1 .. Len(q[j].reqs) :
    q[i].reqs[k] = q[j].reqs[l] => i = j /\ k = l

LEMMA QueueOfTask ==
  ASSUME NEW q \in Seq(UiTask), NEW i \in 1 .. Len(q)
  PROVE  q[i] \in UiTask /\ q[i].reqs \in Seq(Request) /\ Len(q[i].reqs) \in Nat
<1>1. q[i] \in UiTask
  OBVIOUS
<1>2. q[i].reqs \in Seq(Request)
  BY <1>1 DEF UiTask
<1> QED
  BY <1>1, <1>2

(* A task is posted. *)
LEMMA TaskPosted ==
  ASSUME NEW q \in Seq(UiTask), NEW t \in UiTask
  PROVE  /\ Append(q, t) \in Seq(UiTask) /\ Len(Append(q, t)) = Len(q) + 1
         /\ Append(q, t)[Len(q) + 1] = t
         /\ \A i \in 1 .. Len(q) : Append(q, t)[i] = q[i]
         /\ \A r : Carried(Append(q, t), r) <=> Carried(q, r) \/ In(r, t.reqs)
         /\ CarriedOnce(q) /\ Distinct(t.reqs) /\ (\A r : In(r, t.reqs) => ~Carried(q, r))
              => CarriedOnce(Append(q, t))
<1> DEFINE a == Append(q, t)
<1>1. /\ a \in Seq(UiTask) /\ Len(a) = Len(q) + 1 /\ Len(q) \in Nat /\ a[Len(q) + 1] = t
      /\ \A i \in 1 .. Len(q) : a[i] = q[i]
  OBVIOUS
<1> HIDE DEF a
<1>2. \A i \in 1 .. Len(a) : i = Len(q) + 1 \/ (i \in 1 .. Len(q) /\ i # Len(q) + 1)
  BY <1>1
<1>3. Len(q) + 1 \in 1 .. Len(a) /\ \A i \in 1 .. Len(q) : i \in 1 .. Len(a)
  BY <1>1
<1>4. ASSUME NEW r PROVE Carried(a, r) <=> Carried(q, r) \/ In(r, t.reqs)
  BY <1>1, <1>2, <1>3 DEF Carried
<1>5. ASSUME CarriedOnce(q), Distinct(t.reqs), \A r : In(r, t.reqs) => ~Carried(q, r)
      PROVE  CarriedOnce(a)
  <2> SUFFICES ASSUME NEW i \in 1 .. Len(a), NEW j \in 1 .. Len(a),
                      NEW k \in 1 .. Len(a[i].reqs), NEW l \in 1 .. Len(a[j].reqs),
                      a[i].reqs[k] = a[j].reqs[l]
               PROVE  i = j /\ k = l
    BY DEF CarriedOnce
  <2>1. CASE i \in 1 .. Len(q) /\ j \in 1 .. Len(q)
    BY <1>1, <1>5, <2>1 DEF CarriedOnce
  <2>2. CASE i = Len(q) + 1 /\ j = Len(q) + 1
    <3>1. a[i] = t /\ a[j] = t
      BY <1>1, <2>2
    <3> QED
      BY <1>5, <2>2, <3>1 DEF Distinct
  <2>3. CASE i = Len(q) + 1 /\ j \in 1 .. Len(q)
    <3>1. In(a[i].reqs[k], t.reqs) /\ Carried(q, a[j].reqs[l])
      BY <1>1, <2>3 DEF In, Carried
    <3> QED
      BY <1>5, <3>1
  <2>4. CASE i \in 1 .. Len(q) /\ j = Len(q) + 1
    <3>1. In(a[j].reqs[l], t.reqs) /\ Carried(q, a[i].reqs[k])
      BY <1>1, <2>4 DEF In, Carried
    <3> QED
      BY <1>5, <3>1
  <2> QED
    BY <1>2, <2>1, <2>2, <2>3, <2>4
<1> QED
  BY <1>1, <1>4, <1>5 DEF a

(* The task at the head is done with all of its requests. *)
LEMMA TaskFinished ==
  ASSUME NEW q \in Seq(UiTask), q # <<>>, Head(q).reqs = <<>>
  PROVE  /\ Tail(q) \in Seq(UiTask) /\ Len(Tail(q)) = Len(q) - 1
         /\ \A i \in 1 .. Len(q) - 1 : Tail(q)[i] = q[i + 1]
         /\ \A r : Carried(Tail(q), r) <=> Carried(q, r)
         /\ CarriedOnce(q) => CarriedOnce(Tail(q))
<1> DEFINE a == Tail(q)
<1>1. /\ a \in Seq(UiTask) /\ Len(a) = Len(q) - 1 /\ Len(q) \in Nat /\ Len(q) > 0
      /\ q[1].reqs = <<>>
      /\ \A i \in 1 .. Len(q) - 1 : a[i] = q[i + 1]
  OBVIOUS
<1> HIDE DEF a
<1>2. /\ \A i \in 1 .. Len(a) : i + 1 \in 1 .. Len(q) /\ a[i] = q[i + 1]
      /\ \A i \in 1 .. Len(q) : i = 1 \/ (i - 1 \in 1 .. Len(a) /\ (i - 1) + 1 = i)
  BY <1>1
<1>3. \A r : ~In(r, <<>>)
  BY DEF In
<1>4. ASSUME NEW r PROVE Carried(a, r) <=> Carried(q, r)
  <2>1. ASSUME Carried(a, r) PROVE Carried(q, r)
    BY <1>2, <2>1 DEF Carried
  <2>2. ASSUME Carried(q, r) PROVE Carried(a, r)
    <3>1. PICK i \in 1 .. Len(q) : In(r, q[i].reqs)
      BY <2>2 DEF Carried
    <3>2. i # 1
      BY <1>1, <1>3, <3>1
    <3>3. i - 1 \in 1 .. Len(a) /\ a[i - 1] = q[i]
      <4>1. i - 1 \in 1 .. Len(a) /\ (i - 1) + 1 = i
        BY <1>2, <3>2
      <4> QED
        BY <1>2, <4>1
    <3> QED
      BY <3>1, <3>3 DEF Carried
  <2> QED
    BY <2>1, <2>2
<1>5. ASSUME CarriedOnce(q) PROVE CarriedOnce(a)
  <2> SUFFICES ASSUME NEW i \in 1 .. Len(a), NEW j \in 1 .. Len(a),
                      NEW k \in 1 .. Len(a[i].reqs), NEW l \in 1 .. Len(a[j].reqs),
                      a[i].reqs[k] = a[j].reqs[l]
               PROVE  i = j /\ k = l
    BY DEF CarriedOnce
  <2>1. i + 1 = j + 1 /\ k = l
    <3>1. i + 1 \in 1 .. Len(q) /\ j + 1 \in 1 .. Len(q) /\ a[i] = q[i + 1] /\ a[j] = q[j + 1]
      BY <1>2
    <3>2. /\ k \in 1 .. Len(q[i + 1].reqs) /\ l \in 1 .. Len(q[j + 1].reqs)
          /\ q[i + 1].reqs[k] = q[j + 1].reqs[l]
      BY <3>1
    <3> QED
      BY <1>5, <3>1, <3>2 DEF CarriedOnce
  <2>2. i \in Int /\ j \in Int
    OBVIOUS
  <2> QED
    BY <2>1, <2>2
<1> QED
  BY <1>1, <1>4, <1>5 DEF a

(* The task at the head is replaced by what is left of it. *)
LEMMA HeadReplaced ==
  ASSUME NEW q \in Seq(UiTask), q # <<>>, NEW t \in UiTask
  PROVE  /\ <<t>> \o Tail(q) \in Seq(UiTask) /\ Len(<<t>> \o Tail(q)) = Len(q)
         /\ (<<t>> \o Tail(q))[1] = t
         /\ \A i \in 2 .. Len(q) : (<<t>> \o Tail(q))[i] = q[i]
<1> DEFINE u == <<t>>
<1> DEFINE v == Tail(q)
<1>1. /\ Len(q) \in Nat /\ Len(q) > 0
      /\ u \in Seq(UiTask) /\ v \in Seq(UiTask) /\ Len(u) = 1 /\ u[1] = t /\ Len(v) = Len(q) - 1
      /\ \A i \in 1 .. Len(q) - 1 : v[i] = q[i + 1]
  OBVIOUS
<1> HIDE DEF u, v
<1>2. /\ u \o v \in Seq(UiTask) /\ Len(u \o v) = Len(u) + Len(v)
      /\ \A i \in 1 .. Len(u) + Len(v) : (u \o v)[i] = IF i <= Len(u) THEN u[i] ELSE v[i - Len(u)]
  <2>1. u \in Seq(UiTask) /\ v \in Seq(UiTask)
    BY <1>1
  <2> QED
    BY <2>1, ConcatProperties
<1>3. Len(u \o v) = Len(q) /\ (u \o v)[1] = t /\ \A i \in 2 .. Len(q) : (u \o v)[i] = v[i - 1]
  BY <1>1, <1>2
<1>4. \A i \in 2 .. Len(q) : (u \o v)[i] = q[i]
  <2> TAKE i \in 2 .. Len(q)
  <2>1. i - 1 \in 1 .. Len(q) - 1 /\ (i - 1) + 1 = i
    BY <1>1
  <2> QED
    BY <1>1, <1>3, <2>1
<1> QED
  BY <1>2, <1>3, <1>4 DEF u, v

(* The first request of the task at the head is delivered. *)
LEMMA RequestDelivered ==
  ASSUME NEW q \in Seq(UiTask), NEW a \in Seq(UiTask), NEW h \in UiTask, NEW t \in UiTask, NEW d,
         Len(a) = Len(q), Len(q) > 0, q[1] = h, a[1] = t, \A i \in 2 .. Len(q) : a[i] = q[i],
         h.reqs # <<>>, d = Head(h.reqs), t.kind = h.kind, t.reqs = Tail(h.reqs), CarriedOnce(q)
  PROVE  /\ d \in Request
         /\ \A i \in 1 .. Len(q) : a[i].kind = q[i].kind
         /\ \A r : Carried(a, r) <=> Carried(q, r) /\ r # d
         /\ Carried(q, d)
         /\ CarriedOnce(a)
<1>1. Len(q) \in Nat /\ Len(q) > 0 /\ h = q[1]
  OBVIOUS
<1>2. h.reqs \in Seq(Request) /\ h.reqs # <<>>
  BY DEF UiTask
<1>3. t.kind = h.kind /\ t.reqs = Tail(h.reqs)
  OBVIOUS
<1>4. /\ Len(h.reqs) \in Nat /\ Len(h.reqs) > 0 /\ d = h.reqs[1] /\ d \in Request
      /\ Len(Tail(h.reqs)) = Len(h.reqs) - 1
      /\ \A k \in 1 .. Len(h.reqs) - 1 : Tail(h.reqs)[k] = h.reqs[k + 1]
  BY <1>2
<1>5. Len(a) = Len(q) /\ a[1] = t
  OBVIOUS
<1>6. \A i \in 2 .. Len(q) : a[i] = q[i]
  OBVIOUS
<1>7. /\ 1 \in 1 .. Len(q) /\ \A i \in 1 .. Len(q) : i = 1 \/ (i # 1 /\ i \in 2 .. Len(q))
      /\ \A i \in 2 .. Len(q) : i \in 1 .. Len(q) /\ i # 1
  BY <1>1
<1>8. \A i \in 1 .. Len(q) : a[i].kind = q[i].kind
  BY <1>1, <1>3, <1>5, <1>6, <1>7
<1>9. /\ 1 \in 1 .. Len(h.reqs)
      /\ \A k \in 1 .. Len(t.reqs) :
           k + 1 \in 1 .. Len(h.reqs) /\ k + 1 # 1 /\ t.reqs[k] = h.reqs[k + 1]
      /\ \A k \in 1 .. Len(h.reqs) : k = 1 \/ (k - 1 \in 1 .. Len(t.reqs) /\ (k - 1) + 1 = k)
  BY <1>3, <1>4
<1>10. \A k \in 1 .. Len(h.reqs) : k # 1 => h.reqs[k] # d
  BY <1>1, <1>4, <1>7, <1>9 DEF CarriedOnce
<1>11. ASSUME NEW r PROVE In(r, t.reqs) <=> In(r, h.reqs) /\ r # d
  <2>1. ASSUME In(r, t.reqs) PROVE In(r, h.reqs) /\ r # d
    BY <1>9, <1>10, <2>1 DEF In
  <2>2. ASSUME In(r, h.reqs), r # d PROVE In(r, t.reqs)
    <3>1. PICK k \in 1 .. Len(h.reqs) : h.reqs[k] = r
      BY <2>2 DEF In
    <3>2. k # 1
      BY <1>4, <2>2, <3>1
    <3>3. k - 1 \in 1 .. Len(t.reqs) /\ t.reqs[k - 1] = r
      <4>1. k - 1 \in 1 .. Len(t.reqs) /\ (k - 1) + 1 = k
        BY <1>9, <3>2
      <4> QED
        BY <1>9, <3>1, <4>1
    <3> QED
      BY <3>3 DEF In
  <2> QED
    BY <2>1, <2>2
<1>12. \A i \in 2 .. Len(q) : ~In(d, q[i].reqs)
  <2> SUFFICES ASSUME NEW i \in 2 .. Len(q), NEW k \in 1 .. Len(q[i].reqs), q[i].reqs[k] = d
               PROVE  FALSE
    BY DEF In
  <2> QED
    BY <1>1, <1>4, <1>7, <1>9 DEF CarriedOnce
<1>13. ASSUME NEW r PROVE Carried(a, r) <=> Carried(q, r) /\ r # d
  <2>1. Carried(a, r) <=> In(r, t.reqs) \/ \E i \in 2 .. Len(q) : In(r, q[i].reqs)
    BY <1>5, <1>6, <1>7 DEF Carried
  <2>2. Carried(q, r) <=> In(r, h.reqs) \/ \E i \in 2 .. Len(q) : In(r, q[i].reqs)
    BY <1>1, <1>7 DEF Carried
  <2> QED
    BY <1>11, <1>12, <2>1, <2>2
<1>14. Carried(q, d)
  BY <1>1, <1>4, <1>7, <1>9 DEF Carried, In
<1>15. CarriedOnce(a)
  <2> SUFFICES ASSUME NEW i \in 1 .. Len(q), NEW j \in 1 .. Len(q),
                      NEW k \in 1 .. Len(a[i].reqs), NEW l \in 1 .. Len(a[j].reqs),
                      a[i].reqs[k] = a[j].reqs[l]
               PROVE  i = j /\ k = l
    BY <1>5 DEF CarriedOnce
  <2>1. CASE i = 1 /\ j = 1
    <3>1. k + 1 \in 1 .. Len(h.reqs) /\ l + 1 \in 1 .. Len(h.reqs) /\ h.reqs[k + 1] = h.reqs[l + 1]
      BY <1>5, <1>9, <2>1
    <3>2. k + 1 = l + 1
      BY <1>1, <1>7, <3>1 DEF CarriedOnce
    <3>3. k \in Int /\ l \in Int
      OBVIOUS
    <3> QED
      BY <2>1, <3>2, <3>3
  <2>2. CASE i = 1 /\ j # 1
    <3>1. k + 1 \in 1 .. Len(h.reqs) /\ h.reqs[k + 1] = q[j].reqs[l] /\ l \in 1 .. Len(q[j].reqs)
      BY <1>5, <1>6, <1>7, <1>9, <2>2
    <3>2. q[1].reqs[k + 1] = q[j].reqs[l] /\ k + 1 \in 1 .. Len(q[1].reqs)
      BY <1>1, <3>1
    <3>3. 1 = j
      BY <1>7, <3>1, <3>2 DEF CarriedOnce
    <3> QED
      BY <2>2, <3>3
  <2>3. CASE i # 1 /\ j = 1
    <3>1. l + 1 \in 1 .. Len(h.reqs) /\ h.reqs[l + 1] = q[i].reqs[k] /\ k \in 1 .. Len(q[i].reqs)
      BY <1>5, <1>6, <1>7, <1>9, <2>3
    <3>2. q[1].reqs[l + 1] = q[i].reqs[k] /\ l + 1 \in 1 .. Len(q[1].reqs)
      BY <1>1, <3>1
    <3>3. 1 = i
      BY <1>7, <3>1, <3>2 DEF CarriedOnce
    <3> QED
      BY <2>3, <3>3
  <2>4. CASE i # 1 /\ j # 1
    <3>1. a[i] = q[i] /\ a[j] = q[j]
      BY <1>6, <1>7, <2>4
    <3> QED
      BY <3>1 DEF CarriedOnce
  <2> QED
    BY <2>1, <2>2, <2>3, <2>4
<1> QED
  BY <1>4, <1>8, <1>13, <1>14, <1>15
-----------------------------------------------------------------------------
(***************************************************************************)
(* The clipboard.  The inductive invariant follows each request from the   *)
(* list of pending ones through the owner of dispatch_mutex and the UI     *)
(* queue to its completion: it is in one of these places at a time, except *)
(* that an answered request is still pending until the owner erases it.    *)
(***************************************************************************)
Took(r) == holder.pc \in {"replace", "shutdown"} /\ In(r, holder.reqs)
Answering(r) == holder.pc = "erase" /\ holder.reqs = <<r>>

OneRequest(r) ==
  /\ In(r, clipboard_requests) \/ Carried(uiQ, r) \/ Done(r) \/ Took(r) \/ r \in accepted =>
       r.sequence < clipboard_next_sequence
  /\ In(r, clipboard_requests) /\ ~Answering(r) => ~Done(r) /\ ~Carried(uiQ, r)
  /\ Took(r) => ~In(r, clipboard_requests) /\ ~Done(r) /\ ~Carried(uiQ, r)
  /\ completed[r] <= 1 /\ (Carried(uiQ, r) => ~Done(r))
  /\ Answering(r) => Carried(uiQ, r) \/ Done(r)
  /\ r \in accepted /\ ~Done(r) =>
       In(r, clipboard_requests) \/ Took(r) \/ Carried(uiQ, r) \/ uiRefused

HolderFits ==
  /\ holder.pc \in {"request", "complete", "erase"} =>
       running /\ \E r \in Request : holder.reqs = <<r>> /\ In(r, clipboard_requests)
  /\ holder.pc = "request" => \A r \in accepted : holder.reqs # <<r>>
  /\ holder.pc \in {"replace", "shutdown"} => Distinct(holder.reqs)
  /\ holder.pc = "replace" => running /\ clipboard_requests = <<>>
  /\ holder.pc = "shutdown" => ~running /\ deliver_queued_events

(* The UI task of shutdown() is the last of its queue. *)
StopLast ==
  /\ running => deliver_queued_events
  /\ \A i \in 1 .. Len(uiQ) :
       uiQ[i].kind = "shutdown" => ~running /\ holder = Free /\ i = Len(uiQ)
  /\ ~deliver_queued_events /\ ~uiRefused => uiQ = <<>>

(* The first backend comes with the first service generation. *)
BackendServed == clipboard_backend => clipboard_service_generation # 0

ClipboardInv ==
  /\ TypeOK /\ HolderFits /\ StopLast /\ BackendServed
  /\ Distinct(clipboard_requests) /\ CarriedOnce(uiQ)
  /\ \A r \in Request : OneRequest(r)

LEMMA NothingIn == /\ \A r : ~In(r, <<>>) /\ ~Carried(<<>>, r)
                   /\ Distinct(<<>>) /\ CarriedOnce(<<>>)
BY DEF In, Carried, Distinct, CarriedOnce

LEMMA OneIn ==
  ASSUME NEW r
  PROVE  /\ \A s : In(s, <<r>>) <=> s = r
         /\ Distinct(<<r>>) /\ Head(<<r>>) = r /\ Len(<<r>>) = 1
BY DEF In, Distinct

(* Only these states of the owner of dispatch_mutex hold requests. *)
LEMMA HolderTyped ==
  ASSUME TypeOK, holder # Free
  PROVE  /\ holder.pc \in {"request", "complete", "erase", "replace", "shutdown"}
         /\ holder.reqs \in Seq(Request) /\ holder.gen \in Generations
BY DEF TypeOK, Holders

LEMMA HoldingTyped ==
  ASSUME NEW pc \in {"request", "complete", "erase", "replace", "shutdown"},
         NEW q \in Seq(Request), NEW g \in Generations
  PROVE  /\ Holding(pc, q, g) \in Holders /\ Holding(pc, q, g) # Free
         /\ Holding(pc, q, g).pc = pc /\ Holding(pc, q, g).reqs = q /\ Holding(pc, q, g).gen = g
<1>1. /\ Holding(pc, q, g).pc = pc /\ Holding(pc, q, g).reqs = q /\ Holding(pc, q, g).gen = g
      /\ Holding(pc, q, g) \in Holders
  BY DEF Holding, Holders
<1>2. Free.pc = "free" /\ pc # "free"
  BY DEF Free
<1> QED
  BY <1>1, <1>2

LEMMA InitClipboard == Init => ClipboardInv
<1> SUFFICES ASSUME Init PROVE ClipboardInv
  OBVIOUS
<1>1. 0 \in Generations /\ 0 \in Services /\ 1 \in 1 .. MaxSequence /\ Free \in Holders
  BY ClipboardConstants DEF Generations, Services, Holders
<1>2. <<>> \in Seq(Request) /\ <<>> \in Seq(UiTask)
  OBVIOUS
<1>3. completed \in [Request -> Nat]
  BY DEF Init
<1>4. TypeOK
  BY <1>1, <1>2, <1>3 DEF Init, TypeOK
<1>5. holder.pc = "free"
  BY DEF Init, Free
<1>6. HolderFits
  BY <1>5 DEF HolderFits
<1>7. StopLast /\ BackendServed
  BY DEF Init, StopLast, BackendServed
<1>8. Distinct(clipboard_requests) /\ CarriedOnce(uiQ)
  BY NothingIn DEF Init
<1>9. ASSUME NEW r \in Request PROVE OneRequest(r)
  <2>1. ~In(r, clipboard_requests) /\ ~Carried(uiQ, r) /\ ~Took(r) /\ ~Answering(r) /\ r \notin accepted
    BY <1>5, NothingIn DEF Init, Took, Answering
  <2>2. ~Done(r) /\ completed[r] <= 1
    BY DEF Init, Done
  <2> QED
    BY <2>1, <2>2 DEF OneRequest
<1> QED
  BY <1>4, <1>6, <1>7, <1>8, <1>9 DEF ClipboardInv

(* Steps that leave the requests where they are. *)
LEMMA QuietClipboard ==
  ASSUME ClipboardInv, TypeOK', BackendServed',
         UNCHANGED <<running, deliver_queued_events, clipboard_next_sequence, clipboard_requests,
                     holder, uiQ, accepted, completed, dropped, uiRefused>>
  PROVE  ClipboardInv'
<1>1. HolderFits' /\ StopLast' /\ Distinct(clipboard_requests)' /\ CarriedOnce(uiQ)'
  BY DEF ClipboardInv, HolderFits, StopLast
<1>2. ASSUME NEW r \in Request PROVE OneRequest(r)'
  <2>1. OneRequest(r)
    BY DEF ClipboardInv
  <2> QED
    BY <2>1 DEF OneRequest, Took, Answering, Done, In, Carried
<1> QED
  BY <1>1, <1>2 DEF ClipboardInv

(* The locked section of shutdown(): the requests in p move to its task. *)
LEMMA StopClipboard ==
  ASSUME ClipboardInv, running, NEW p \in Seq(Request), NEW g \in Generations,
         running' = FALSE, deliver_queued_events' = deliver_queued_events,
         clipboard_requests' = <<>>, holder' = Holding("shutdown", p, g),
         delegate_generation' \in Generations, bound' \in BOOLEAN,
         UNCHANGED <<clipboard_backend, clipboard_service_generation, clipboard_next_sequence, tasks,
                     ghosts>>,
         Distinct(p),
         \A r \in Request : In(r, p) => (In(r, clipboard_requests) /\ ~Answering(r)) \/ Took(r),
         \A r \in Request : r \in accepted /\ (In(r, clipboard_requests) \/ Took(r)) => In(r, p)
  PROVE  ClipboardInv'
<1>1. /\ holder' \in Holders /\ holder'.pc = "shutdown" /\ holder'.reqs = p /\ holder' # Free
      /\ <<>> \in Seq(Request)
  BY HoldingTyped
<1> USE DEF tasks, ghosts
<1>2. TypeOK' /\ BackendServed'
  <2>1. TypeOK'
    BY <1>1 DEF ClipboardInv, TypeOK
  <2> QED
    BY <2>1 DEF ClipboardInv, BackendServed
<1>3. HolderFits'
  BY <1>1 DEF ClipboardInv, HolderFits, StopLast
<1>4. StopLast'
  <2>1. ASSUME NEW i \in 1 .. Len(uiQ) PROVE uiQ[i].kind # "shutdown"
    BY DEF ClipboardInv, StopLast
  <2>2. ASSUME NEW i \in 1 .. Len(uiQ') PROVE uiQ'[i].kind # "shutdown"
    BY <2>1
  <2> QED
    BY <2>2 DEF ClipboardInv, StopLast
<1>5. Distinct(clipboard_requests)' /\ CarriedOnce(uiQ)'
  BY NothingIn DEF ClipboardInv, Distinct, CarriedOnce
<1>6. ASSUME NEW r \in Request PROVE OneRequest(r)'
  <2>1. OneRequest(r)
    BY DEF ClipboardInv
  <2>2. Took(r)' <=> In(r, p)
    BY <1>1 DEF Took
  <2>3. ~Answering(r)' /\ ~In(r, clipboard_requests)'
    BY <1>1, NothingIn DEF Answering
  <2>4. (Carried(uiQ, r)' <=> Carried(uiQ, r)) /\ (Done(r)' <=> Done(r))
    BY DEF Carried, Done, In
  <2>5. completed'[r] = completed[r] /\ accepted' = accepted /\ uiRefused' = uiRefused
        /\ clipboard_next_sequence' = clipboard_next_sequence
    OBVIOUS
  <2> QED
    BY <2>1, <2>2, <2>3, <2>4, <2>5 DEF OneRequest
<1> QED
  BY <1>2, <1>3, <1>4, <1>5, <1>6 DEF ClipboardInv

LEMMA shutdownNext ==
  ASSUME ClipboardInv, shutdown
  PROVE  ClipboardInv'
<1>1. holder.pc = "free" /\ \A r : ~Took(r) /\ ~Answering(r)
  BY DEF shutdown, Free, Took, Answering
<1>2. clipboard_requests \in Seq(Request) /\ delegate_generation \in Generations
  BY DEF ClipboardInv, TypeOK
<1>3. Distinct(clipboard_requests) /\ bound \in BOOLEAN
  BY DEF ClipboardInv, TypeOK
<1> QED
  BY <1>1, <1>2, <1>3, StopClipboard DEF shutdown, StopWith, DeliverQueuedAfterStop

LEMMA StartRequestNext ==
  ASSUME ClipboardInv, StartRequest
  PROVE  ClipboardInv'
<1>1. holder.pc = "free" /\ \A r : ~Took(r) /\ ~Answering(r)
  BY DEF StartRequest, Free, Took, Answering
<1>2. /\ clipboard_requests \in Seq(Request) /\ delegate_generation \in Generations
      /\ clipboard_service_generation \in Services /\ clipboard_next_sequence \in 1 .. MaxSequence
      /\ MaxSequence \in Nat /\ MaxService \in Nat
  BY ClipboardConstants DEF ClipboardInv, TypeOK
<1>3. CASE SequenceExhausted /\ StopWith(clipboard_requests) /\ UNCHANGED clipboard_next_sequence
  <2>1. Distinct(clipboard_requests) /\ bound \in BOOLEAN
    BY DEF ClipboardInv, TypeOK
  <2> QED
    BY <1>1, <1>2, <1>3, <2>1, StopClipboard DEF StartRequest, StopWith, DeliverQueuedAfterStop
<1>4. CASE ~SequenceExhausted
  <2> DEFINE n == [service |-> clipboard_service_generation, sequence |-> clipboard_next_sequence]
  <2>1. /\ running /\ clipboard_requests' = Append(clipboard_requests, n)
        /\ holder' = Holding("request", <<n>>, 0)
        /\ clipboard_next_sequence' = clipboard_next_sequence + 1
        /\ UNCHANGED <<running, deliver_queued_events, delegate_generation, bound,
                       clipboard_backend, clipboard_service_generation, platQ, uiQ, calling, given,
                       accepted, completed, dropped, uiRefused>>
    BY <1>4 DEF StartRequest, tasks, ghosts
  <2>2. clipboard_next_sequence \in Sequences /\ clipboard_next_sequence + 1 \in 1 .. MaxSequence
    BY <1>2, <1>4 DEF SequenceExhausted, Sequences
  <2>3. clipboard_service_generation \in 1 .. MaxService
    BY <1>2 DEF StartRequest, ClipboardInv, BackendServed, Services
  <2>4. n \in Request /\ n.sequence = clipboard_next_sequence /\ 0 \in Generations
    BY <2>2, <2>3, ClipboardConstants DEF Request, Generations
  <2> HIDE DEF n
  <2>5. ~In(n, clipboard_requests) /\ ~Carried(uiQ, n) /\ ~Done(n) /\ n \notin accepted
    <3>1. OneRequest(n)
      BY <2>4 DEF ClipboardInv
    <3>2. ~(n.sequence < clipboard_next_sequence)
      BY <1>2, <2>4
    <3> QED
      BY <3>1, <3>2 DEF OneRequest
  <2>6. /\ Append(clipboard_requests, n) \in Seq(Request)
        /\ \A r : In(r, Append(clipboard_requests, n)) <=> In(r, clipboard_requests) \/ r = n
        /\ Distinct(Append(clipboard_requests, n))
    BY <1>2, <2>4, <2>5, AppendIn DEF ClipboardInv
  <2>7. <<n>> \in Seq(Request)
    BY <2>4
  <2>8. /\ holder' \in Holders /\ holder' # Free /\ holder'.pc = "request" /\ holder'.reqs = <<n>>
    <3> DEFINE q == <<n>>
    <3>1. q \in Seq(Request) /\ 0 \in Generations /\ holder' = Holding("request", q, 0)
      BY <2>1, <2>4, <2>7
    <3> HIDE DEF q
    <3>2. /\ holder' \in Holders /\ holder' # Free /\ holder'.pc = "request" /\ holder'.reqs = q
      BY <3>1, HoldingTyped
    <3> QED
      BY <3>2 DEF q
  <2>9. TypeOK' /\ BackendServed'
    <3>1. clipboard_requests' \in Seq(Request) /\ clipboard_next_sequence' \in 1 .. MaxSequence
      BY <2>1, <2>2, <2>6
    <3>2. TypeOK'
      BY <2>1, <2>8, <3>1 DEF ClipboardInv, TypeOK
    <3> QED
      BY <2>1, <3>2 DEF ClipboardInv, BackendServed
  <2>10. HolderFits'
    <3>1. In(n, clipboard_requests')
      BY <2>1, <2>6
    <3> QED
      BY <2>1, <2>4, <2>5, <2>8, <3>1 DEF HolderFits
  <2>11. StopLast'
    <3>1. ASSUME NEW i \in 1 .. Len(uiQ) PROVE uiQ[i].kind # "shutdown"
      BY <2>1 DEF ClipboardInv, StopLast
    <3> QED
      BY <2>1, <3>1 DEF ClipboardInv, StopLast
  <2>12. ASSUME NEW r \in Request PROVE OneRequest(r)'
    <3>1. OneRequest(r)
      BY DEF ClipboardInv
    <3>2. ~Took(r)' /\ ~Answering(r)'
      BY <2>8 DEF Took, Answering
    <3>3. (In(r, clipboard_requests)' <=> In(r, clipboard_requests) \/ r = n)
      BY <2>1, <2>6 DEF In
    <3>4. (Carried(uiQ, r)' <=> Carried(uiQ, r)) /\ (Done(r)' <=> Done(r))
      BY <2>1 DEF Carried, Done, In
    <3>5. /\ completed'[r] = completed[r] /\ accepted' = accepted /\ uiRefused' = uiRefused
          /\ clipboard_next_sequence' = clipboard_next_sequence + 1
      BY <2>1
    <3>6. r.sequence \in Nat /\ clipboard_next_sequence \in Nat
      BY <1>2 DEF Request, Sequences
    <3>7. r.sequence < clipboard_next_sequence \/ r = n => r.sequence < clipboard_next_sequence'
      BY <2>4, <3>5, <3>6
    <3> QED
      BY <1>1, <2>5, <3>1, <3>2, <3>3, <3>4, <3>5, <3>7 DEF OneRequest
  <2>13. Distinct(clipboard_requests)' /\ CarriedOnce(uiQ)'
    BY <2>1, <2>6 DEF ClipboardInv
  <2> QED
    BY <2>9, <2>10, <2>11, <2>12, <2>13 DEF ClipboardInv
<1> QED
  BY <1>3, <1>4 DEF StartRequest

(* The owner of dispatch_mutex works on one pending request. *)
LEMMA HolderOne ==
  ASSUME ClipboardInv, holder.pc \in {"request", "complete", "erase"}
  PROVE  /\ running /\ holder # Free
         /\ \E r \in Request : /\ holder.reqs = <<r>> /\ Head(holder.reqs) = r
                               /\ In(r, clipboard_requests)
                               /\ \A s : Head(holder.reqs) = s => s = r
         /\ \A r : ~Took(r)
         /\ holder.pc # "erase" => \A r : ~Answering(r)
<1>1. running /\ holder # Free
  BY DEF ClipboardInv, HolderFits, Free
<1>2. PICK r \in Request : holder.reqs = <<r>> /\ In(r, clipboard_requests)
  BY DEF ClipboardInv, HolderFits
<1>3. Head(holder.reqs) = r
  BY <1>2
<1> QED
  BY <1>1, <1>2, <1>3 DEF Took, Answering

LEMMA PostRequestNext ==
  ASSUME ClipboardInv, PostRequest
  PROVE  ClipboardInv'
<1>1. holder.pc = "request"
  BY DEF PostRequest
<1>2. PICK r \in Request : holder.reqs = <<r>> /\ Head(holder.reqs) = r /\ In(r, clipboard_requests)
  BY <1>1, HolderOne
<1>3. running /\ (\A s : ~Took(s) /\ ~Answering(s)) /\ r \notin accepted
  BY <1>1, <1>2, HolderOne DEF ClipboardInv, HolderFits
<1>4. CASE /\ platQ' = Append(platQ, r)
           /\ accepted' = accepted \cup {r}
           /\ holder' = Free
           /\ UNCHANGED <<running, deliver_queued_events, clipboard_requests>>
  <2>1. UNCHANGED <<running, deliver_queued_events, clipboard_requests,
                    delegate_generation, bound, clipboard_backend,
                    clipboard_service_generation, clipboard_next_sequence, uiQ, calling,
                    given, completed, dropped, uiRefused>>
    BY <1>4 DEF PostRequest
  <2>2. Append(platQ, r) \in Seq(Request) /\ holder' \in Holders /\ holder'.pc = "free"
    BY <1>4 DEF ClipboardInv, TypeOK, Free, Holders
  <2>3. TypeOK'
    BY <1>4, <2>1, <2>2 DEF ClipboardInv, TypeOK
  <2>4. BackendServed' /\ HolderFits'
    BY <2>1, <2>2 DEF ClipboardInv, BackendServed, HolderFits
  <2>5. StopLast'
    BY <1>3, <2>1 DEF ClipboardInv, StopLast
  <2>6. ASSUME NEW s \in Request PROVE OneRequest(s)'
    <3>1. OneRequest(s) /\ OneRequest(r)
      BY DEF ClipboardInv
    <3>2. ~Took(s)' /\ ~Answering(s)'
      BY <2>2 DEF Took, Answering
    <3>3. /\ In(s, clipboard_requests)' <=> In(s, clipboard_requests)
          /\ Carried(uiQ, s)' <=> Carried(uiQ, s)
          /\ Done(s)' <=> Done(s)
      BY <2>1 DEF Done
    <3>4. /\ completed'[s] = completed[s] /\ uiRefused' = uiRefused
          /\ clipboard_next_sequence' = clipboard_next_sequence
          /\ s \in accepted' <=> s \in accepted \/ s = r
      BY <1>4, <2>1
    <3> QED
      BY <1>2, <1>3, <3>1, <3>2, <3>3, <3>4 DEF OneRequest
  <2>7. Distinct(clipboard_requests)' /\ CarriedOnce(uiQ)'
    BY <2>1 DEF ClipboardInv
  <2> QED
    BY <2>3, <2>4, <2>5, <2>6, <2>7 DEF ClipboardInv
<1>5. CASE StopWith(WithoutRefused(r)) /\ UNCHANGED <<platQ, accepted>>
  <2> DEFINE p == Erase(clipboard_requests, {r})
  <2>1. /\ p \in Seq(Request) /\ \A s : In(s, p) <=> In(s, clipboard_requests) /\ s \notin {r}
        /\ Distinct(p)
    BY EraseKeeps DEF ClipboardInv, TypeOK
  <2> HIDE DEF p
  <2>2. delegate_generation \in Generations /\ bound \in BOOLEAN
    BY DEF ClipboardInv, TypeOK
  <2>3. /\ running' = FALSE /\ deliver_queued_events' = deliver_queued_events
        /\ clipboard_requests' = <<>> /\ holder' = Holding("shutdown", p, delegate_generation)
        /\ delegate_generation' \in Generations /\ bound' \in BOOLEAN
        /\ UNCHANGED <<clipboard_backend, clipboard_service_generation, clipboard_next_sequence,
                       tasks, ghosts>>
    BY <1>5, <2>2 DEF PostRequest, StopWith, WithoutRefused, DeliverQueuedAfterStop, p, tasks, ghosts
  <2>4. \A s \in Request : In(s, p) => In(s, clipboard_requests) /\ ~Answering(s)
    BY <1>3, <2>1
  <2>5. \A s \in Request : s \in accepted /\ (In(s, clipboard_requests) \/ Took(s)) => In(s, p)
    BY <1>3, <2>1
  <2> QED
    BY <1>3, <2>1, <2>2, <2>3, <2>4, <2>5, StopClipboard
<1> QED
  BY <1>2, <1>4, <1>5 DEF PostRequest

LEMMA RunRequestNext ==
  ASSUME ClipboardInv, RunRequest
  PROVE  ClipboardInv'
<1>1. Tail(platQ) \in Seq(Request) /\ Head(platQ) \in Request
  BY DEF ClipboardInv, TypeOK, RunRequest
<1>2. calling' \in SUBSET Request /\ given' \in SUBSET Request /\ platQ' \in Seq(Request)
  BY <1>1 DEF ClipboardInv, TypeOK, RunRequest
<1>3. UNCHANGED <<state, holder, uiQ, accepted, completed, dropped, uiRefused>>
  BY DEF RunRequest
<1>4. TypeOK'
  BY <1>2, <1>3 DEF ClipboardInv, TypeOK, state
<1>5. BackendServed'
  BY <1>3 DEF ClipboardInv, BackendServed, state
<1> QED
  BY <1>3, <1>4, <1>5, QuietClipboard DEF state

LEMMA BackendReturnsNext ==
  ASSUME ClipboardInv, BackendReturns
  PROVE  ClipboardInv'
<1>1. calling' = {} /\ UNCHANGED <<state, holder, platQ, uiQ, ghosts>>
  BY DEF BackendReturns
<1>2. TypeOK' /\ BackendServed'
  <2>1. TypeOK'
    BY <1>1 DEF ClipboardInv, TypeOK, state, ghosts
  <2> QED
    BY <1>1, <2>1 DEF ClipboardInv, BackendServed, state
<1> QED
  BY <1>1, <1>2, QuietClipboard DEF state, ghosts

LEMMA ReleaseBackendNext ==
  ASSUME ClipboardInv, ReleaseBackend
  PROVE  ClipboardInv'
<1>1. /\ clipboard_backend' = FALSE
      /\ UNCHANGED <<running, deliver_queued_events, delegate_generation, bound,
                     clipboard_service_generation, clipboard_next_sequence, clipboard_requests,
                     holder, tasks, ghosts>>
  BY DEF ReleaseBackend
<1>2. TypeOK' /\ BackendServed'
  <2>1. TypeOK'
    BY <1>1 DEF ClipboardInv, TypeOK, tasks, ghosts
  <2> QED
    BY <1>1, <2>1 DEF BackendServed
<1> QED
  BY <1>1, <1>2, QuietClipboard DEF tasks, ghosts

LEMMA resetNext ==
  ASSUME ClipboardInv, reset_delegate
  PROVE  ClipboardInv'
<1>1. /\ bound' = FALSE /\ delegate_generation' \in Generations
      /\ UNCHANGED <<running, deliver_queued_events, clipboard_backend,
                     clipboard_service_generation, clipboard_next_sequence, clipboard_requests,
                     holder, tasks, ghosts>>
  BY DEF reset_delegate, ClipboardInv, TypeOK
<1>2. TypeOK' /\ BackendServed'
  <2>1. TypeOK'
    BY <1>1 DEF ClipboardInv, TypeOK, tasks, ghosts
  <2> QED
    BY <1>1, <2>1 DEF ClipboardInv, BackendServed
<1> QED
  BY <1>1, <1>2, QuietClipboard DEF tasks, ghosts

LEMMA bindNext ==
  ASSUME ClipboardInv, bind_delegate
  PROVE  ClipboardInv'
<1>1. delegate_generation + 1 \in Generations
  BY ClipboardConstants DEF bind_delegate, ClipboardInv, TypeOK, Generations
<1>2. /\ delegate_generation' = delegate_generation + 1 /\ bound' = TRUE /\ running /\ holder = Free
      /\ UNCHANGED <<deliver_queued_events, clipboard_backend, clipboard_service_generation,
                     clipboard_next_sequence, tasks, ghosts>>
  BY DEF bind_delegate
<1>3. CASE UNCHANGED <<running, clipboard_requests, holder>>
  <2>1. TypeOK'
    BY <1>1, <1>2, <1>3 DEF ClipboardInv, TypeOK, tasks, ghosts
  <2>2. BackendServed'
    BY <1>2 DEF ClipboardInv, BackendServed
  <2> QED
    BY <1>2, <1>3, <2>1, <2>2, QuietClipboard DEF tasks, ghosts
<1>4. CASE /\ running' = FALSE /\ clipboard_requests' = <<>>
           /\ holder' = Holding("shutdown", clipboard_requests, delegate_generation + 1)
  <2>1. \A r : ~Took(r) /\ ~Answering(r)
    BY <1>2 DEF Free, Took, Answering
  <2>2. Distinct(clipboard_requests) /\ clipboard_requests \in Seq(Request)
    BY DEF ClipboardInv, TypeOK
  <2>3. delegate_generation' \in Generations /\ bound' \in BOOLEAN
    BY <1>1, <1>2
  <2> QED
    BY <1>1, <1>2, <1>4, <2>1, <2>2, <2>3, StopClipboard
<1> QED
  BY <1>3, <1>4 DEF bind_delegate

(* An answer, or the exception of the backend, is matched. *)
LEMMA CompletingNext ==
  ASSUME ClipboardInv, holder = Free, NEW r \in Request, Matches(r), holder' = Completing(r),
         calling' \in SUBSET Request, UNCHANGED <<state, platQ, uiQ, ghosts>>
  PROVE  ClipboardInv'
<1>1. running /\ In(r, clipboard_requests) /\ delegate_generation \in Generations
  BY DEF Matches, In, ClipboardInv, TypeOK
<1>2. /\ holder' \in Holders /\ holder' # Free /\ holder'.pc = "complete" /\ holder'.reqs = <<r>>
  <2> DEFINE q == <<r>>
  <2>1. q \in Seq(Request) /\ holder' = Holding("complete", q, delegate_generation)
    BY DEF Completing
  <2> HIDE DEF q
  <2>2. /\ holder' \in Holders /\ holder' # Free /\ holder'.pc = "complete" /\ holder'.reqs = q
    BY <1>1, <2>1, HoldingTyped
  <2> QED
    BY <2>2 DEF q
<1>3. UNCHANGED <<running, deliver_queued_events, delegate_generation, bound, clipboard_backend,
                  clipboard_service_generation, clipboard_next_sequence, clipboard_requests,
                  platQ, uiQ, given, accepted, completed, dropped, uiRefused>>
  BY DEF state, ghosts
<1>4. TypeOK'
  BY <1>2, <1>3 DEF ClipboardInv, TypeOK
<1>5. BackendServed' /\ HolderFits'
  BY <1>1, <1>2, <1>3 DEF ClipboardInv, BackendServed, HolderFits
<1>6. StopLast'
  BY <1>1, <1>3 DEF ClipboardInv, StopLast
<1>7. ASSUME NEW s \in Request PROVE OneRequest(s)'
  <2>1. OneRequest(s)
    BY DEF ClipboardInv
  <2>2. ~Took(s)' /\ ~Answering(s)' /\ ~Took(s) /\ ~Answering(s)
    BY <1>2 DEF Took, Answering, Free
  <2>3. /\ In(s, clipboard_requests)' <=> In(s, clipboard_requests)
        /\ Carried(uiQ, s)' <=> Carried(uiQ, s)
        /\ Done(s)' <=> Done(s)
        /\ UNCHANGED <<completed, accepted, uiRefused, clipboard_next_sequence>>
    BY <1>3 DEF Done
  <2> QED
    BY <2>1, <2>2, <2>3 DEF OneRequest
<1>8. Distinct(clipboard_requests)' /\ CarriedOnce(uiQ)'
  BY <1>3 DEF ClipboardInv
<1> QED
  BY <1>4, <1>5, <1>6, <1>7, <1>8 DEF ClipboardInv

LEMMA BackendThrowsNext ==
  ASSUME ClipboardInv, BackendThrows
  PROVE  ClipboardInv'
<1>1. PICK r \in calling : holder' = (IF Matches(r) THEN Completing(r) ELSE Free)
  BY DEF BackendThrows
<1>2. r \in Request /\ holder = Free /\ calling' = {} /\ UNCHANGED <<state, platQ, uiQ, ghosts>>
  BY DEF BackendThrows, ClipboardInv, TypeOK
<1>3. CASE Matches(r)
  BY <1>1, <1>2, <1>3, CompletingNext
<1>4. CASE ~Matches(r)
  <2>1. holder' = holder
    BY <1>1, <1>2, <1>4
  <2>2. TypeOK'
    BY <1>2, <2>1 DEF ClipboardInv, TypeOK, state, ghosts
  <2>3. BackendServed'
    BY <1>2 DEF ClipboardInv, BackendServed, state
  <2> QED
    BY <1>2, <2>1, <2>2, <2>3, QuietClipboard DEF state, ghosts
<1> QED
  BY <1>3, <1>4

LEMMA PostCompletionNext ==
  ASSUME ClipboardInv, PostCompletion
  PROVE  ClipboardInv'
<1>1. holder.pc = "complete"
  BY DEF PostCompletion
<1>2. PICK r \in Request : holder.reqs = <<r>> /\ Head(holder.reqs) = r /\ In(r, clipboard_requests)
  BY <1>1, HolderOne
<1>3. running /\ holder # Free /\ (\A s : ~Took(s) /\ ~Answering(s))
  BY <1>1, HolderOne
<1>4. /\ holder.gen \in Generations /\ holder.reqs \in Seq(Request) /\ uiQ \in Seq(UiTask)
      /\ delegate_generation \in Generations /\ bound \in BOOLEAN
      /\ clipboard_requests \in Seq(Request)
  BY <1>3, HolderTyped DEF ClipboardInv, TypeOK
<1>5. CASE /\ uiQ' = Append(uiQ, UiTaskOf("completed", holder.gen, holder.reqs))
           /\ holder' = [holder EXCEPT !.pc = "erase"]
           /\ UNCHANGED <<running, deliver_queued_events, clipboard_requests>>
  <2>1. UNCHANGED <<running, deliver_queued_events, clipboard_requests,
                    delegate_generation, bound, clipboard_backend, platQ, calling, given, accepted,
                    clipboard_service_generation, clipboard_next_sequence,
                    completed, dropped, uiRefused>>
    BY <1>5 DEF PostCompletion, ghosts
  <2>2. /\ holder' \in Holders /\ holder'.pc = "erase" /\ holder'.reqs = <<r>>
    BY <1>1, <1>2, <1>3, <1>5 DEF ClipboardInv, TypeOK, Holders
  <2> DEFINE t == UiTaskOf("completed", holder.gen, holder.reqs)
  <2>3. t \in UiTask /\ t.kind = "completed" /\ t.reqs = <<r>> /\ uiQ' = Append(uiQ, t)
    BY <1>2, <1>4, <1>5 DEF UiTaskOf, UiTask
  <2> HIDE DEF t
  <2>4. (\A s : In(s, t.reqs) <=> s = r) /\ Distinct(t.reqs)
    BY <2>3, OneIn
  <2>5. ~Carried(uiQ, r) /\ ~Done(r)
    <3>1. OneRequest(r) /\ ~Answering(r)
      BY <1>3 DEF ClipboardInv
    <3> QED
      BY <1>2, <3>1 DEF OneRequest
  <2>6. /\ uiQ' \in Seq(UiTask) /\ Len(uiQ') = Len(uiQ) + 1 /\ uiQ'[Len(uiQ) + 1] = t
        /\ \A i \in 1 .. Len(uiQ) : uiQ'[i] = uiQ[i]
        /\ \A s : Carried(uiQ', s) <=> Carried(uiQ, s) \/ s = r
        /\ CarriedOnce(uiQ')
    BY <1>4, <2>3, <2>4, <2>5, TaskPosted DEF ClipboardInv
  <2>7. TypeOK'
    BY <2>1, <2>2, <2>6 DEF ClipboardInv, TypeOK
  <2>8. BackendServed' /\ HolderFits'
    BY <1>2, <1>3, <2>1, <2>2 DEF ClipboardInv, BackendServed, HolderFits
  <2>9. StopLast'
    <3>1. ASSUME NEW i \in 1 .. Len(uiQ') PROVE uiQ'[i].kind # "shutdown"
      <4>1. Len(uiQ) \in Nat
        BY <1>4
      <4>2. i \in 1 .. Len(uiQ) \/ i = Len(uiQ) + 1
        BY <2>6, <4>1
      <4> QED
        BY <1>3, <2>3, <2>6, <4>2 DEF ClipboardInv, StopLast
    <3> QED
      BY <1>3, <2>1, <3>1 DEF ClipboardInv, StopLast
  <2>10. ASSUME NEW s \in Request PROVE OneRequest(s)'
    <3>1. OneRequest(s)
      BY DEF ClipboardInv
    <3>2. ~Took(s)' /\ (Answering(s)' <=> s = r)
      <4>1. <<r>> = <<s>> <=> r = s
        OBVIOUS
      <4> QED
        BY <2>2, <4>1 DEF Took, Answering
    <3>3. /\ In(s, clipboard_requests)' <=> In(s, clipboard_requests)
          /\ Carried(uiQ, s)' <=> Carried(uiQ, s) \/ s = r
          /\ Done(s)' <=> Done(s)
          /\ UNCHANGED <<completed, accepted, uiRefused, clipboard_next_sequence>>
      BY <2>1, <2>6 DEF Done
    <3> QED
      BY <1>2, <1>3, <2>5, <3>1, <3>2, <3>3 DEF OneRequest
  <2>11. Distinct(clipboard_requests)' /\ CarriedOnce(uiQ)'
    BY <2>1, <2>6 DEF ClipboardInv
  <2> QED
    BY <2>7, <2>8, <2>9, <2>10, <2>11 DEF ClipboardInv
<1>6. CASE uiQ' = uiQ /\ StopWith(PendingIfUnposted(Head(holder.reqs)))
  <2>1. Distinct(clipboard_requests)
    BY DEF ClipboardInv
  <2>2. /\ running' = FALSE /\ deliver_queued_events' = deliver_queued_events
        /\ clipboard_requests' = <<>>
        /\ holder' = Holding("shutdown", clipboard_requests, delegate_generation)
        /\ delegate_generation' \in Generations /\ bound' \in BOOLEAN
        /\ UNCHANGED <<clipboard_backend, clipboard_service_generation, clipboard_next_sequence,
                       tasks, ghosts>>
    BY <1>4, <1>6 DEF PostCompletion, StopWith, PendingIfUnposted, DeliverQueuedAfterStop, tasks
  <2> QED
    BY <1>3, <1>4, <2>1, <2>2, StopClipboard
<1> QED
  BY <1>5, <1>6 DEF PostCompletion

LEMMA EraseCompletedNext ==
  ASSUME ClipboardInv, EraseCompleted
  PROVE  ClipboardInv'
<1>1. holder.pc = "erase"
  BY DEF EraseCompleted
<1>2. PICK r \in Request : holder.reqs = <<r>> /\ Head(holder.reqs) = r /\ In(r, clipboard_requests)
  BY <1>1, HolderOne
<1>3. /\ holder' = Free /\ clipboard_requests' = Erase(clipboard_requests, {r})
      /\ UNCHANGED <<running, deliver_queued_events, delegate_generation, bound, uiQ,
                     clipboard_backend, clipboard_service_generation, clipboard_next_sequence,
                     platQ, calling, given, accepted, completed, dropped, uiRefused>>
  BY <1>2 DEF EraseCompleted, StillPending, tasks, ghosts
<1>4. /\ clipboard_requests' \in Seq(Request) /\ Distinct(clipboard_requests')
      /\ \A s : In(s, clipboard_requests') <=> In(s, clipboard_requests) /\ s # r
  <2>1. clipboard_requests \in Seq(Request) /\ Distinct(clipboard_requests)
    BY DEF ClipboardInv, TypeOK
  <2> QED
    BY <1>3, <2>1, EraseKeeps
<1>5. holder' \in Holders /\ holder'.pc = "free"
  BY <1>3 DEF Holders, Free
<1>6. TypeOK'
  BY <1>3, <1>4, <1>5 DEF ClipboardInv, TypeOK
<1>7. running /\ BackendServed' /\ HolderFits'
  BY <1>1, <1>3, <1>5 DEF ClipboardInv, BackendServed, HolderFits
<1>8. StopLast'
  BY <1>3, <1>7 DEF ClipboardInv, StopLast
<1>9. ASSUME NEW s \in Request PROVE OneRequest(s)'
  <2>1. OneRequest(s)
    BY DEF ClipboardInv
  <2>2. ~Took(s)' /\ ~Answering(s)' /\ ~Took(s) /\ (Answering(s) <=> s = r)
    <3>1. <<r>> = <<s>> <=> r = s
      OBVIOUS
    <3> QED
      BY <1>1, <1>2, <1>5, <3>1 DEF Took, Answering
  <2>3. /\ In(s, clipboard_requests)' <=> In(s, clipboard_requests) /\ s # r
        /\ Carried(uiQ, s)' <=> Carried(uiQ, s)
        /\ Done(s)' <=> Done(s)
        /\ UNCHANGED <<completed, accepted, uiRefused, clipboard_next_sequence>>
    BY <1>3, <1>4 DEF Done
  <2> QED
    BY <2>1, <2>2, <2>3 DEF OneRequest
<1>10. Distinct(clipboard_requests)' /\ CarriedOnce(uiQ)'
  BY <1>3, <1>4 DEF ClipboardInv
<1> QED
  BY <1>6, <1>7, <1>8, <1>9, <1>10 DEF ClipboardInv

LEMMA setBackendNext ==
  ASSUME ClipboardInv, NEW b \in BOOLEAN, set_clipboard_backend(b)
  PROVE  ClipboardInv'
<1>1. running /\ holder = Free /\ \A r : ~Took(r) /\ ~Answering(r)
  BY DEF set_clipboard_backend, Free, Took, Answering
<1>2. /\ clipboard_requests \in Seq(Request) /\ delegate_generation \in Generations
      /\ clipboard_service_generation \in Services /\ bound \in BOOLEAN
      /\ Distinct(clipboard_requests) /\ MaxService \in Nat
  BY ClipboardConstants DEF ClipboardInv, TypeOK
<1>3. CASE /\ StopWith(clipboard_requests)
           /\ UNCHANGED <<clipboard_backend, clipboard_service_generation>>
  BY <1>1, <1>2, <1>3, StopClipboard DEF set_clipboard_backend, StopWith, DeliverQueuedAfterStop
<1>4. CASE /\ clipboard_service_generation # MaxService
           /\ clipboard_service_generation' = clipboard_service_generation + 1
           /\ clipboard_backend' = b
           /\ clipboard_requests' = <<>>
           /\ holder' = CanceledBy(b)
           /\ UNCHANGED <<running, deliver_queued_events>>
  <2>1. UNCHANGED <<running, deliver_queued_events, delegate_generation, bound,
                    clipboard_next_sequence, platQ, uiQ, calling, given, accepted, completed,
                    dropped, uiRefused>>
    BY <1>4 DEF set_clipboard_backend, tasks, ghosts
  <2>2. clipboard_service_generation' \in Services /\ BackendServed'
    BY <1>2, <1>4 DEF Services, BackendServed
  <2>3. <<>> \in Seq(Request) /\ clipboard_requests' = <<>>
    BY <1>4
  <2>4. /\ holder' \in Holders /\ holder'.pc \in {"free", "replace"}
        /\ holder'.pc = "free" => clipboard_requests = <<>>
        /\ holder'.pc = "replace" => holder'.reqs = clipboard_requests
    <3> DEFINE h == Holding("replace", clipboard_requests, delegate_generation)
    <3>1. h \in Holders /\ h.pc = "replace" /\ h.reqs = clipboard_requests
      BY <1>2, HoldingTyped
    <3>2. Free \in Holders /\ Free.pc = "free"
      BY DEF Free, Holders
    <3>3. holder' = (IF clipboard_requests = <<>> THEN Free ELSE h)
      BY <1>4 DEF CanceledBy
    <3> HIDE DEF h
    <3> QED
      BY <3>1, <3>2, <3>3
  <2>5. TypeOK'
    BY <1>4, <2>1, <2>2, <2>3, <2>4 DEF ClipboardInv, TypeOK
  <2>6. HolderFits'
    BY <1>1, <1>2, <2>1, <2>3, <2>4 DEF HolderFits
  <2>7. StopLast'
    BY <1>1, <2>1 DEF ClipboardInv, StopLast
  <2>8. ASSUME NEW s \in Request PROVE OneRequest(s)'
    <3>1. OneRequest(s)
      BY DEF ClipboardInv
    <3>2. (Took(s)' <=> In(s, clipboard_requests)) /\ ~Answering(s)'
      <4>1. CASE holder'.pc = "free"
        BY <2>4, <4>1, NothingIn DEF Took, Answering
      <4>2. CASE holder'.pc = "replace"
        BY <2>4, <4>2 DEF Took, Answering
      <4> QED
        BY <2>4, <4>1, <4>2
    <3>3. /\ ~In(s, clipboard_requests)'
          /\ Carried(uiQ, s)' <=> Carried(uiQ, s)
          /\ Done(s)' <=> Done(s)
          /\ UNCHANGED <<completed, accepted, uiRefused, clipboard_next_sequence>>
      BY <2>1, <2>3, NothingIn DEF Done
    <3> QED
      BY <1>1, <3>1, <3>2, <3>3 DEF OneRequest
  <2>9. Distinct(clipboard_requests)' /\ CarriedOnce(uiQ)'
    BY <2>1, <2>3, NothingIn DEF ClipboardInv
  <2> QED
    BY <2>2, <2>5, <2>6, <2>7, <2>8, <2>9 DEF ClipboardInv
<1> QED
  BY <1>3, <1>4 DEF set_clipboard_backend

(* The canceled requests of a replacement or of shutdown() are posted. *)
LEMMA TakenPosted ==
  ASSUME ClipboardInv, NEW k \in {"canceled", "shutdown"},
         holder.pc = IF k = "canceled" THEN "replace" ELSE "shutdown",
         uiQ' = Append(uiQ, UiTaskOf(k, holder.gen, holder.reqs)), holder' = Free,
         UNCHANGED <<state, platQ, calling, ghosts>>
  PROVE  ClipboardInv'
<1>1. holder # Free /\ holder.pc \in {"replace", "shutdown"}
  BY DEF Free
<1>2. /\ holder.gen \in Generations /\ holder.reqs \in Seq(Request) /\ uiQ \in Seq(UiTask)
      /\ Distinct(holder.reqs)
  BY <1>1, HolderTyped DEF ClipboardInv, TypeOK, HolderFits
<1>3. (\A r : Took(r) <=> In(r, holder.reqs)) /\ \A r : ~Answering(r)
  BY <1>1 DEF Took, Answering
<1>4. UNCHANGED <<running, deliver_queued_events, delegate_generation, bound, clipboard_backend,
                  clipboard_service_generation, clipboard_next_sequence, clipboard_requests,
                  platQ, calling, given, accepted, completed, dropped, uiRefused>>
  BY DEF state, ghosts
<1> DEFINE t == UiTaskOf(k, holder.gen, holder.reqs)
<1>5. t \in UiTask /\ t.kind = k /\ t.reqs = holder.reqs /\ uiQ' = Append(uiQ, t)
  BY <1>2 DEF UiTaskOf, UiTask
<1> HIDE DEF t
<1>6. ASSUME NEW r, In(r, t.reqs) PROVE ~Carried(uiQ, r)
  <2>1. r \in Request /\ Took(r)
    BY <1>2, <1>3, <1>5, <1>6 DEF In
  <2> QED
    BY <2>1 DEF ClipboardInv, OneRequest
<1>7. /\ uiQ' \in Seq(UiTask) /\ Len(uiQ') = Len(uiQ) + 1 /\ uiQ'[Len(uiQ) + 1] = t
      /\ \A i \in 1 .. Len(uiQ) : uiQ'[i] = uiQ[i]
      /\ \A s : Carried(uiQ', s) <=> Carried(uiQ, s) \/ In(s, holder.reqs)
      /\ CarriedOnce(uiQ')
  BY <1>2, <1>5, <1>6, TaskPosted DEF ClipboardInv
<1>8. holder' \in Holders /\ holder'.pc = "free"
  BY DEF Holders, Free
<1>9. TypeOK'
  BY <1>4, <1>7, <1>8 DEF ClipboardInv, TypeOK
<1>10. BackendServed' /\ HolderFits'
  BY <1>4, <1>8 DEF ClipboardInv, BackendServed, HolderFits
<1>11. StopLast'
  <2>1. \A i \in 1 .. Len(uiQ) : uiQ[i].kind # "shutdown"
    BY <1>1 DEF ClipboardInv, StopLast
  <2>2. Len(uiQ) \in Nat /\ \A i \in 1 .. Len(uiQ') : i \in 1 .. Len(uiQ) \/ i = Len(uiQ')
    <3>1. Len(uiQ) \in Nat
      BY <1>2
    <3> QED
      BY <1>7, <3>1
  <2>3. deliver_queued_events' /\ (running' => deliver_queued_events')
    BY <1>1, <1>4 DEF ClipboardInv, StopLast, HolderFits
  <2>4. k = "shutdown" => ~running'
    BY <1>4 DEF ClipboardInv, HolderFits
  <2>5. ASSUME NEW i \in 1 .. Len(uiQ'), uiQ'[i].kind = "shutdown"
        PROVE  ~running' /\ i = Len(uiQ')
    BY <1>5, <1>7, <2>1, <2>2, <2>4, <2>5
  <2> QED
    BY <2>3, <2>5 DEF StopLast
<1>12. ASSUME NEW s \in Request PROVE OneRequest(s)'
  <2>1. OneRequest(s)
    BY DEF ClipboardInv
  <2>2. ~Took(s)' /\ ~Answering(s)'
    BY <1>8 DEF Took, Answering
  <2>3. /\ In(s, clipboard_requests)' <=> In(s, clipboard_requests)
        /\ Carried(uiQ, s)' <=> Carried(uiQ, s) \/ Took(s)
        /\ Done(s)' <=> Done(s)
        /\ UNCHANGED <<completed, accepted, uiRefused, clipboard_next_sequence>>
    BY <1>3, <1>4, <1>7 DEF Done
  <2> QED
    BY <1>3, <2>1, <2>2, <2>3 DEF OneRequest
<1>13. Distinct(clipboard_requests)' /\ CarriedOnce(uiQ)'
  BY <1>4, <1>7 DEF ClipboardInv
<1> QED
  BY <1>9, <1>10, <1>11, <1>12, <1>13 DEF ClipboardInv

LEMMA PostCanceledNext ==
  ASSUME ClipboardInv, PostCanceled
  PROVE  ClipboardInv'
<1>1. holder.pc = "replace" /\ running /\ clipboard_requests = <<>> /\ holder # Free
  BY DEF PostCanceled, ClipboardInv, HolderFits, Free
<1>2. CASE /\ uiQ' = Append(uiQ, UiTaskOf("canceled", holder.gen, holder.reqs))
           /\ holder' = Free
           /\ UNCHANGED <<running, deliver_queued_events, clipboard_requests>>
  BY <1>1, <1>2, TakenPosted DEF PostCanceled, state
<1>3. CASE uiQ' = uiQ /\ StopWith(holder.reqs)
  <2>1. /\ Distinct(holder.reqs) /\ holder.reqs \in Seq(Request)
        /\ delegate_generation \in Generations /\ bound \in BOOLEAN
    BY <1>1, HolderTyped DEF ClipboardInv, HolderFits, TypeOK
  <2>2. \A r : (Took(r) <=> In(r, holder.reqs)) /\ ~In(r, clipboard_requests)
    BY <1>1, NothingIn DEF Took
  <2>3. /\ running' = FALSE /\ deliver_queued_events' = deliver_queued_events
        /\ clipboard_requests' = <<>>
        /\ holder' = Holding("shutdown", holder.reqs, delegate_generation)
        /\ delegate_generation' \in Generations /\ bound' \in BOOLEAN
        /\ UNCHANGED <<clipboard_backend, clipboard_service_generation, clipboard_next_sequence,
                       tasks, ghosts>>
    BY <1>3, <2>1 DEF PostCanceled, StopWith, DeliverQueuedAfterStop, tasks
  <2> QED
    BY <1>1, <2>1, <2>2, <2>3, StopClipboard
<1> QED
  BY <1>2, <1>3 DEF PostCanceled

(* What EndDelivery leaves of the delegate is well typed. *)
LEMMA DeliveryEnds ==
  ASSUME TypeOK, NEW g, EndDelivery(g)
  PROVE  deliver_queued_events' = FALSE /\ bound' \in BOOLEAN /\ delegate_generation' \in Generations
<1>1. delegate_generation # MaxDelegate => delegate_generation + 1 \in Generations
  BY ClipboardConstants DEF TypeOK, Generations
<1> QED
  BY <1>1 DEF EndDelivery, TypeOK

LEMMA PostShutdownNext ==
  ASSUME ClipboardInv, PostShutdown
  PROVE  ClipboardInv'
<1>1. holder.pc = "shutdown" /\ ~running /\ deliver_queued_events /\ holder # Free
  BY DEF PostShutdown, ClipboardInv, HolderFits, Free
<1>2. CASE /\ uiQ' = Append(uiQ, UiTaskOf("shutdown", holder.gen, holder.reqs))
           /\ UNCHANGED <<deliver_queued_events, bound, delegate_generation, uiRefused>>
  BY <1>1, <1>2, TakenPosted DEF PostShutdown, state, ghosts
<1>3. CASE uiQ' = uiQ /\ uiRefused' = TRUE /\ EndDelivery(holder.gen)
  <2>1. /\ holder' = Free /\ uiQ' = uiQ /\ uiRefused' = TRUE
        /\ UNCHANGED <<running, clipboard_backend, clipboard_service_generation,
                       clipboard_next_sequence, clipboard_requests, platQ, calling,
                       given, accepted, completed, dropped>>
    BY <1>3 DEF PostShutdown
  <2>2. deliver_queued_events' = FALSE /\ bound' \in BOOLEAN /\ delegate_generation' \in Generations
    BY <1>3, DeliveryEnds DEF ClipboardInv
  <2>3. holder' \in Holders /\ holder'.pc = "free"
    BY <2>1 DEF Holders, Free
  <2>4. TypeOK'
    BY <2>1, <2>2, <2>3 DEF ClipboardInv, TypeOK
  <2>5. BackendServed' /\ HolderFits'
    BY <2>1, <2>3 DEF ClipboardInv, BackendServed, HolderFits
  <2>6. StopLast'
    BY <1>1, <2>1 DEF ClipboardInv, StopLast
  <2>7. ASSUME NEW s \in Request PROVE OneRequest(s)'
    <3>1. OneRequest(s)
      BY DEF ClipboardInv
    <3>2. ~Took(s)' /\ ~Answering(s)' /\ ~Answering(s)
      BY <1>1, <2>3 DEF Took, Answering
    <3>3. /\ In(s, clipboard_requests)' <=> In(s, clipboard_requests)
          /\ Carried(uiQ, s)' <=> Carried(uiQ, s)
          /\ Done(s)' <=> Done(s)
          /\ uiRefused' /\ UNCHANGED <<completed, accepted, clipboard_next_sequence>>
      BY <2>1 DEF Done
    <3> QED
      BY <3>1, <3>2, <3>3 DEF OneRequest
  <2>8. Distinct(clipboard_requests)' /\ CarriedOnce(uiQ)'
    BY <2>1 DEF ClipboardInv
  <2> QED
    BY <2>4, <2>5, <2>6, <2>7, <2>8 DEF ClipboardInv
<1> QED
  BY <1>2, <1>3 DEF PostShutdown

LEMMA DeliverCompletionNext ==
  ASSUME ClipboardInv, DeliverCompletion
  PROVE  ClipboardInv'
<1>0. PICK d, h, t : /\ h = Head(uiQ) /\ d = Head(Head(uiQ).reqs)
                     /\ t = [Head(uiQ) EXCEPT !.reqs = Tail(@)]
  OBVIOUS
<1>1. /\ uiQ \in Seq(UiTask) /\ uiQ # <<>> /\ h.reqs # <<>> /\ CarriedOnce(uiQ)
      /\ uiQ' = <<t>> \o Tail(uiQ)
  BY <1>0 DEF ClipboardInv, TypeOK, DeliverCompletion
<1>2. /\ uiQ' \in Seq(UiTask) /\ Len(uiQ') = Len(uiQ) /\ d \in Request
      /\ \A i \in 1 .. Len(uiQ) : uiQ'[i].kind = uiQ[i].kind
      /\ \A r : Carried(uiQ', r) <=> Carried(uiQ, r) /\ r # d
      /\ Carried(uiQ, d)
      /\ CarriedOnce(uiQ')
  <2>1. h \in UiTask /\ h = uiQ[1] /\ Len(uiQ) \in Nat /\ Len(uiQ) > 0
    BY <1>0, <1>1
  <2>2. h.reqs \in Seq(Request) /\ h.kind \in {"completed", "canceled", "shutdown"}
    BY <2>1 DEF UiTask
  <2>3. d = Head(h.reqs) /\ t = [h EXCEPT !.reqs = Tail(h.reqs)] /\ Tail(h.reqs) \in Seq(Request)
    BY <1>0, <1>1, <2>2
  <2>4. t \in UiTask /\ t.kind = h.kind /\ t.reqs = Tail(h.reqs)
    BY <2>1, <2>3 DEF UiTask
  <2>5. /\ uiQ' \in Seq(UiTask) /\ Len(uiQ') = Len(uiQ) /\ uiQ'[1] = t
        /\ \A i \in 2 .. Len(uiQ) : uiQ'[i] = uiQ[i]
    BY <1>1, <2>4, HeadReplaced
  <2>6. PICK a : a = uiQ'
    OBVIOUS
  <2>7. /\ a \in Seq(UiTask) /\ Len(a) = Len(uiQ) /\ uiQ[1] = h /\ a[1] = t
        /\ \A i \in 2 .. Len(uiQ) : a[i] = uiQ[i]
        /\ h.reqs # <<>> /\ d = Head(h.reqs)
    BY <1>1, <2>1, <2>3, <2>5, <2>6
  <2>8. /\ d \in Request
        /\ \A i \in 1 .. Len(uiQ) : a[i].kind = uiQ[i].kind
        /\ \A r : Carried(a, r) <=> Carried(uiQ, r) /\ r # d
        /\ Carried(uiQ, d)
        /\ CarriedOnce(a)
    BY <1>1, <2>1, <2>4, <2>7, RequestDelivered
  <2> QED
    BY <2>5, <2>6, <2>8
<1>3. \/ completed' = [completed EXCEPT ![d] = @ + 1] /\ UNCHANGED dropped
      \/ dropped' = dropped \cup {d} /\ UNCHANGED completed
  BY <1>0 DEF DeliverCompletion
<1>4. UNCHANGED <<running, deliver_queued_events, delegate_generation, bound, clipboard_backend,
                  clipboard_service_generation, clipboard_next_sequence, clipboard_requests,
                  holder, platQ, calling, given, accepted, uiRefused>>
  BY DEF DeliverCompletion, state
<1>5. OneRequest(d) /\ ~Done(d) /\ completed \in [Request -> Nat] /\ dropped \in SUBSET Request
  BY <1>2 DEF ClipboardInv, OneRequest, TypeOK
<1>6. /\ completed' \in [Request -> Nat] /\ dropped' \in SUBSET Request
      /\ Done(d)' /\ completed'[d] <= 1
      /\ \A s \in Request : s # d => (Done(s)' <=> Done(s)) /\ completed'[s] = completed[s]
  <2>1. completed[d] = 0
    BY <1>2, <1>5 DEF Done
  <2>2. d \in Request
    BY <1>2
  <2>3. CASE completed' = [completed EXCEPT ![d] = @ + 1] /\ UNCHANGED dropped
    <3>1. completed'[d] = 1 /\ completed' \in [Request -> Nat]
      BY <1>5, <2>1, <2>2, <2>3
    <3>2. \A s \in Request : s # d => completed'[s] = completed[s]
      BY <1>5, <2>3
    <3>3. Done(d)'
      BY <3>1 DEF Done
    <3>4. ASSUME NEW s \in Request, s # d PROVE Done(s)' <=> Done(s)
      BY <2>3, <3>2, <3>4 DEF Done
    <3>5. completed'[d] <= 1 /\ dropped' \in SUBSET Request
      BY <1>5, <2>3, <3>1
    <3> QED
      BY <3>1, <3>2, <3>3, <3>4, <3>5
  <2>4. CASE dropped' = dropped \cup {d} /\ UNCHANGED completed
    <3>1. Done(d)'
      BY <2>4 DEF Done
    <3>2. ASSUME NEW s \in Request, s # d PROVE Done(s)' <=> Done(s)
      BY <2>4, <3>2 DEF Done
    <3>3. completed'[d] <= 1 /\ dropped' \in SUBSET Request
      BY <1>5, <2>1, <2>2, <2>4
    <3> QED
      BY <1>5, <2>4, <3>1, <3>2, <3>3
  <2> QED
    BY <1>3, <2>3, <2>4
<1>7. TypeOK'
  BY <1>2, <1>4, <1>6 DEF ClipboardInv, TypeOK
<1>8. BackendServed' /\ HolderFits'
  BY <1>4 DEF ClipboardInv, BackendServed, HolderFits
<1>9. StopLast'
  <2>1. deliver_queued_events \/ uiRefused
    BY <1>1 DEF ClipboardInv, StopLast
  <2>2. ASSUME NEW i \in 1 .. Len(uiQ'), uiQ'[i].kind = "shutdown"
        PROVE  ~running /\ holder = Free /\ i = Len(uiQ')
    <3>1. i \in 1 .. Len(uiQ) /\ uiQ[i].kind = "shutdown"
      BY <1>2, <2>2
    <3> QED
      BY <1>2, <3>1 DEF ClipboardInv, StopLast
  <2> QED
    BY <1>4, <2>1, <2>2 DEF ClipboardInv, StopLast
<1>10. ASSUME NEW s \in Request PROVE OneRequest(s)'
  <2>1. OneRequest(s)
    BY DEF ClipboardInv
  <2>2. (Took(s)' <=> Took(s)) /\ (Answering(s)' <=> Answering(s))
    BY <1>4 DEF Took, Answering
  <2>3. /\ In(s, clipboard_requests)' <=> In(s, clipboard_requests)
        /\ Carried(uiQ, s)' <=> Carried(uiQ, s) /\ s # d
        /\ UNCHANGED <<accepted, uiRefused, clipboard_next_sequence>>
    BY <1>2, <1>4
  <2>4. CASE s = d
    <3>0. Carried(uiQ, s) /\ Done(s)' /\ completed'[s] <= 1 /\ ~Carried(uiQ, s)'
      BY <1>2, <1>6, <2>3, <2>4
    <3>1. Carried(uiQ, s) /\ Done(s)' /\ completed'[s] <= 1 /\ ~Carried(uiQ, s)' /\ ~Took(s)
      BY <2>1, <3>0 DEF OneRequest
    <3>2. In(s, clipboard_requests) => Answering(s)
      BY <2>1, <3>1 DEF OneRequest
    <3>3. s.sequence < clipboard_next_sequence
      BY <2>1, <3>1 DEF OneRequest
    <3> QED
      BY <2>2, <2>3, <3>1, <3>2, <3>3 DEF OneRequest
  <2>5. CASE s # d
    BY <1>6, <2>1, <2>2, <2>3, <2>5 DEF OneRequest
  <2> QED
    BY <2>4, <2>5
<1>11. Distinct(clipboard_requests)' /\ CarriedOnce(uiQ)'
  BY <1>2, <1>4 DEF ClipboardInv
<1> QED
  BY <1>7, <1>8, <1>9, <1>10, <1>11 DEF ClipboardInv

LEMMA FinishUiTaskNext ==
  ASSUME ClipboardInv, FinishUiTask
  PROVE  ClipboardInv'
<1>1. uiQ \in Seq(UiTask) /\ uiQ # <<>> /\ Head(uiQ).reqs = <<>> /\ uiQ' = Tail(uiQ)
  BY DEF ClipboardInv, TypeOK, FinishUiTask
<1>2. /\ uiQ' \in Seq(UiTask) /\ Len(uiQ') = Len(uiQ) - 1
      /\ \A i \in 1 .. Len(uiQ) - 1 : uiQ'[i] = uiQ[i + 1]
      /\ \A r : Carried(uiQ', r) <=> Carried(uiQ, r)
      /\ CarriedOnce(uiQ')
  BY <1>1, TaskFinished DEF ClipboardInv
<1>3. UNCHANGED <<running, clipboard_backend, clipboard_service_generation,
                  clipboard_next_sequence, clipboard_requests, holder, platQ, calling,
                  given, accepted, completed, dropped, uiRefused>>
  BY DEF FinishUiTask, ghosts
<1>4. Len(uiQ) \in Nat /\ Len(uiQ) > 0 /\ Head(uiQ) = uiQ[1]
  BY <1>1
<1>5. /\ Head(uiQ).kind = "shutdown" =>
           /\ ~running /\ holder = Free /\ Len(uiQ') = 0
           /\ deliver_queued_events' = FALSE /\ bound' \in BOOLEAN
           /\ delegate_generation' \in Generations
      /\ Head(uiQ).kind # "shutdown" =>
           UNCHANGED <<deliver_queued_events, bound, delegate_generation>>
  <2>1. ASSUME Head(uiQ).kind = "shutdown"
        PROVE  /\ ~running /\ holder = Free /\ Len(uiQ') = 0
               /\ deliver_queued_events' = FALSE /\ bound' \in BOOLEAN
               /\ delegate_generation' \in Generations
    <3>1. 1 \in 1 .. Len(uiQ)
      BY <1>4
    <3>2. ~running /\ holder = Free /\ 1 = Len(uiQ)
      BY <1>4, <2>1, <3>1 DEF ClipboardInv, StopLast
    <3>3. Len(uiQ') = 0
      <4>1. Len(uiQ') = Len(uiQ) - 1
        BY <1>2
      <4> QED
        BY <3>2, <4>1
    <3>4. EndDelivery(Head(uiQ).gen) /\ TypeOK
      BY <2>1 DEF FinishUiTask, ClipboardInv
    <3> QED
      BY <3>2, <3>3, <3>4, DeliveryEnds
  <2> QED
    BY <2>1 DEF FinishUiTask
<1>6. TypeOK'
  <2>1. /\ deliver_queued_events' \in BOOLEAN /\ bound' \in BOOLEAN
        /\ delegate_generation' \in Generations
    BY <1>5 DEF ClipboardInv, TypeOK
  <2> QED
    BY <1>2, <1>3, <2>1 DEF ClipboardInv, TypeOK
<1>7. BackendServed' /\ HolderFits'
  BY <1>3, <1>5 DEF ClipboardInv, BackendServed, HolderFits, Free
<1>8. StopLast'
  <2>1. running' => deliver_queued_events'
    <3>1. running' = running /\ (running => deliver_queued_events)
      BY <1>3 DEF ClipboardInv, StopLast
    <3>2. Head(uiQ).kind = "shutdown" => ~running
      BY <1>5
    <3>3. Head(uiQ).kind # "shutdown" => deliver_queued_events' = deliver_queued_events
      BY <1>5
    <3> QED
      BY <3>1, <3>2, <3>3
  <2>2. ASSUME NEW i \in 1 .. Len(uiQ'), uiQ'[i].kind = "shutdown"
        PROVE  ~running' /\ holder' = Free /\ i = Len(uiQ')
    <3>1. i + 1 \in 1 .. Len(uiQ) /\ i \in 1 .. Len(uiQ) - 1
      BY <1>2, <1>4
    <3>2. uiQ[i + 1].kind = "shutdown"
      BY <1>2, <2>2, <3>1
    <3>3. ~running /\ holder = Free /\ i + 1 = Len(uiQ)
      BY <3>1, <3>2 DEF ClipboardInv, StopLast
    <3> QED
      BY <1>2, <1>3, <3>3
  <2>3. ~deliver_queued_events' /\ ~uiRefused' => uiQ' = <<>>
    <3>1. deliver_queued_events \/ uiRefused
      BY <1>1 DEF ClipboardInv, StopLast
    <3>2. Len(uiQ') = 0 => uiQ' = <<>>
      BY <1>2
    <3> QED
      BY <1>3, <1>5, <3>1, <3>2
  <2> QED
    BY <2>1, <2>2, <2>3 DEF StopLast
<1>9. ASSUME NEW s \in Request PROVE OneRequest(s)'
  <2>1. OneRequest(s)
    BY DEF ClipboardInv
  <2>2. (Took(s)' <=> Took(s)) /\ (Answering(s)' <=> Answering(s))
    BY <1>3 DEF Took, Answering
  <2>3. /\ In(s, clipboard_requests)' <=> In(s, clipboard_requests)
        /\ Carried(uiQ, s)' <=> Carried(uiQ, s)
        /\ Done(s)' <=> Done(s)
        /\ UNCHANGED <<completed, accepted, uiRefused, clipboard_next_sequence>>
    BY <1>2, <1>3 DEF Done
  <2> QED
    BY <2>1, <2>2, <2>3 DEF OneRequest
<1>10. Distinct(clipboard_requests)' /\ CarriedOnce(uiQ)'
  BY <1>2, <1>3 DEF ClipboardInv
<1> QED
  BY <1>6, <1>7, <1>8, <1>9, <1>10 DEF ClipboardInv

LEMMA NextClipboard == ClipboardInv /\ [Next]_vars => ClipboardInv'
<1> SUFFICES ASSUME ClipboardInv, [Next]_vars PROVE ClipboardInv'
  OBVIOUS
<1>1. CASE UNCHANGED vars
  <2>1. TypeOK'
    BY <1>1 DEF ClipboardInv, TypeOK, vars, state, tasks, ghosts
  <2>2. BackendServed'
    BY <1>1 DEF ClipboardInv, BackendServed, vars, state
  <2> QED
    BY <1>1, <2>1, <2>2, QuietClipboard DEF vars, state, tasks, ghosts
<1>2. ASSUME NEW r \in given, complete_clipboard(r) PROVE ClipboardInv'
  BY <1>2, CompletingNext DEF complete_clipboard, ClipboardInv, TypeOK, tasks
<1> QED
  BY <1>1, <1>2, shutdownNext, StartRequestNext, PostRequestNext, RunRequestNext,
     BackendReturnsNext, ReleaseBackendNext, resetNext, bindNext, BackendThrowsNext,
     PostCompletionNext, EraseCompletedNext, setBackendNext, PostCanceledNext, PostShutdownNext,
     DeliverCompletionNext, FinishUiTaskNext
     DEF Next, Holder, Backend

LEMMA ClipboardAccounted ==
  ClipboardInv => TypeOK /\ CompletedOnce /\ NoRequestLost /\ DeliveredBeforeShutdown
<1> SUFFICES ASSUME ClipboardInv
             PROVE  CompletedOnce /\ NoRequestLost /\ DeliveredBeforeShutdown
  BY DEF ClipboardInv
<1>1. \A r : (Queued(r) <=> Carried(uiQ, r)) /\ (Pending(r) <=> In(r, clipboard_requests))
  BY DEF Queued, Pending, Carried, In
<1>2. \A r : Took(r) => Held(r)
  BY DEF Took, Held, In
<1>3. CompletedOnce
  BY <1>1 DEF ClipboardInv, OneRequest, CompletedOnce, CarriedOnce
<1>4. NoRequestLost
  <2>1. accepted \subseteq Request
    BY DEF ClipboardInv, TypeOK
  <2> QED
    BY <1>1, <1>2, <2>1 DEF ClipboardInv, OneRequest, NoRequestLost
<1>5. DeliveredBeforeShutdown
  BY <1>1, NothingIn DEF ClipboardInv, StopLast, DeliveredBeforeShutdown
<1> QED
  BY <1>3, <1>4, <1>5

(* Whatever answers, replaces, throws, refuses or stops in whatever order, *)
(* an accepted request is answered at most once, is not forgotten, and is  *)
(* delivered before shutdown() ends delivery.                              *)
THEOREM RequestsAnsweredOnce ==
  Spec => [](TypeOK /\ CompletedOnce /\ NoRequestLost /\ DeliveredBeforeShutdown)
BY InitClipboard, NextClipboard, ClipboardAccounted, PTL DEF Spec
-----------------------------------------------------------------------------
(***************************************************************************)
(* The cursor.  Where the tasks of service s are, of threads with steps    *)
(* th, queue q and calls a: about to be posted, queued, or being run.      *)
(***************************************************************************)
SyncThreads == {"ui", "driver", "task"}
StepsNow ==
  [x \in SyncThreads |-> IF x = "ui" THEN uiStep ELSE IF x = "driver" THEN driverStep ELSE taskStep]

Posting(th, s) == {x \in SyncThreads : th[x] = Cursor!Step("post", s)}
Waiting(q, s) == {i \in 1 .. Len(q) : q[i] = s}
Applying(a, s) == {c \in a : c.service = s}

NoTask(th, q, a, s) == Posting(th, s) = {} /\ Waiting(q, s) = {} /\ Applying(a, s) = {}
OneTask(th, q, a, s) ==
  \/ (\E x : Posting(th, s) = {x}) /\ Waiting(q, s) = {} /\ Applying(a, s) = {}
  \/ Posting(th, s) = {} /\ (\E i : Waiting(q, s) = {i}) /\ Applying(a, s) = {}
  \/ Posting(th, s) = {} /\ Waiting(q, s) = {} /\ (\E c : Applying(a, s) = {c})

(* The mark is exact.  A mark with no backend would never be cleared. *)
MarkExact ==
  /\ cursor_sync_pending =>
       /\ cursor_pending_service = cursor_service_generation /\ cursor_backend
       /\ OneTask(StepsNow, syncQ, applying, cursor_service_generation)
  /\ ~cursor_sync_pending =>
       /\ cursor_pending_service = 0
       /\ NoTask(StepsNow, syncQ, applying, cursor_service_generation)

(* No task is for a service that was not there yet. *)
TasksOld ==
  /\ \A x \in SyncThreads : StepsNow[x].service <= cursor_service_generation
  /\ \A i \in 1 .. Len(syncQ) : syncQ[i] <= cursor_service_generation
  /\ \A c \in applying : c.service <= cursor_service_generation

(* The newest cursor is applied, refused or to be scheduled. *)
Newest ==
  /\ applied_cursor # {} => shown = applied_cursor
  /\ cursor_backend /\ ~cursor_sync_pending =>
       \/ \E x \in SyncThreads : StepsNow[x].pc \in {"schedule", "stop"}
       \/ applied_cursor = {desired_cursor}
       \/ failed = {cursor_revision}

CursorInv ==
  /\ Cursor!TypeOK /\ TasksOld
  /\ \A c, d \in applying : c = d
  /\ applying # {} => StepsNow["task"] = Cursor!Idle
  /\ running => MarkExact /\ Newest

LEMMA StepFields ==
  ASSUME NEW pc, NEW s
  PROVE  Cursor!Step(pc, s).pc = pc /\ Cursor!Step(pc, s).service = s
BY DEF Cursor!Step

(* A thread takes a step that has nothing to do with tasks of service s. *)
LEMMA ThreadMoves ==
  ASSUME NEW th, NEW tk, NEW x \in SyncThreads, NEW s,
         \A y \in SyncThreads : y # x => tk[y] = th[y],
         th[x] # Cursor!Step("post", s), tk[x] # Cursor!Step("post", s)
  PROVE  Posting(tk, s) = Posting(th, s)
BY DEF Posting

(* schedule_cursor_sync sets the mark. *)
LEMMA ThreadPosts ==
  ASSUME NEW th, NEW tk, NEW x \in SyncThreads, NEW s, NEW q, NEW a,
         \A y \in SyncThreads : y # x => tk[y] = th[y],
         tk[x] = Cursor!Step("post", s), NoTask(th, q, a, s)
  PROVE  OneTask(tk, q, a, s)
<1>1. Posting(tk, s) = {x}
  BY DEF NoTask, Posting
<1> QED
  BY <1>1 DEF NoTask, OneTask

(* The thread that was about to post s is no more. *)
LEMMA ThreadLeaves ==
  ASSUME NEW th, NEW tk, NEW x \in SyncThreads, NEW s, NEW q, NEW a,
         \A y \in SyncThreads : y # x => tk[y] = th[y],
         th[x] = Cursor!Step("post", s), tk[x] # Cursor!Step("post", s), OneTask(th, q, a, s)
  PROVE  NoTask(tk, q, a, s)
<1>1. x \in Posting(th, s)
  BY DEF Posting
<1>2. Posting(th, s) = {x} /\ Waiting(q, s) = {} /\ Applying(a, s) = {}
  BY <1>1 DEF OneTask
<1>3. Posting(tk, s) = {}
  BY <1>2 DEF Posting
<1> QED
  BY <1>2, <1>3 DEF NoTask

(* A task of service s is queued. *)
LEMMA SyncPosted ==
  ASSUME NEW R, NEW q \in Seq(R), NEW s \in R
  PROVE  /\ Waiting(q, s) = {} => Waiting(Append(q, s), s) = {Len(q) + 1}
         /\ \A t : t # s => Waiting(Append(q, s), t) = Waiting(q, t)
         /\ Append(q, s) \in Seq(R)
         /\ \A i \in 1 .. Len(Append(q, s)) : Append(q, s)[i] = s \/ \E j \in 1 .. Len(q) : Append(q, s)[i] = q[j]
<1> DEFINE a == Append(q, s)
<1>1. /\ a \in Seq(R) /\ Len(a) = Len(q) + 1 /\ Len(q) \in Nat /\ a[Len(q) + 1] = s
      /\ \A i \in 1 .. Len(q) : a[i] = q[i]
  OBVIOUS
<1> HIDE DEF a
<1>2. /\ \A i \in 1 .. Len(a) : i = Len(q) + 1 \/ i \in 1 .. Len(q)
      /\ Len(q) + 1 \in 1 .. Len(a) /\ \A i \in 1 .. Len(q) : i \in 1 .. Len(a)
  BY <1>1
<1>3. Waiting(q, s) = {} => Waiting(a, s) = {Len(q) + 1}
  BY <1>1, <1>2 DEF Waiting
<1>4. ASSUME NEW t, t # s PROVE Waiting(a, t) = Waiting(q, t)
  BY <1>1, <1>2, <1>4 DEF Waiting
<1>5. \A i \in 1 .. Len(a) : a[i] = s \/ \E j \in 1 .. Len(q) : a[i] = q[j]
  BY <1>1, <1>2
<1> QED
  BY <1>1, <1>3, <1>4, <1>5 DEF a

(* The task at the head of the queue begins. *)
LEMMA SyncBegins ==
  ASSUME NEW R, NEW q \in Seq(R), q # <<>>
  PROVE  /\ Head(q) \in R /\ Tail(q) \in Seq(R) /\ Waiting(q, Head(q)) # {}
         /\ \A i : Waiting(q, Head(q)) = {i} => Waiting(Tail(q), Head(q)) = {}
         /\ \A s : s # Head(q) /\ Waiting(q, s) = {} => Waiting(Tail(q), s) = {}
         /\ \A s : s # Head(q) /\ (\E i : Waiting(q, s) = {i}) => \E i : Waiting(Tail(q), s) = {i}
         /\ \A i \in 1 .. Len(Tail(q)) : \E j \in 1 .. Len(q) : Tail(q)[i] = q[j]
         /\ \E j \in 1 .. Len(q) : Head(q) = q[j]
<1> DEFINE a == Tail(q)
<1>1. /\ a \in Seq(R) /\ Len(a) = Len(q) - 1 /\ Len(q) \in Nat /\ Len(q) > 0
      /\ Head(q) = q[1] /\ Head(q) \in R
      /\ \A i \in 1 .. Len(q) - 1 : a[i] = q[i + 1]
  OBVIOUS
<1> HIDE DEF a
<1>2. /\ 1 \in 1 .. Len(q)
      /\ \A i \in 1 .. Len(a) : i + 1 \in 1 .. Len(q) /\ i + 1 # 1 /\ a[i] = q[i + 1]
      /\ \A i \in 1 .. Len(q) : i = 1 \/ (i - 1 \in 1 .. Len(a) /\ (i - 1) + 1 = i)
  BY <1>1
<1>3. 1 \in Waiting(q, Head(q))
  BY <1>1, <1>2 DEF Waiting
<1>4. ASSUME NEW i, Waiting(q, Head(q)) = {i} PROVE Waiting(a, Head(q)) = {}
  <2>1. Waiting(q, Head(q)) = {1}
    BY <1>3, <1>4
  <2>2. \A j \in 1 .. Len(a) : a[j] # Head(q)
    <3> SUFFICES ASSUME NEW j \in 1 .. Len(a), a[j] = Head(q) PROVE FALSE
      OBVIOUS
    <3>1. j + 1 \in Waiting(q, Head(q)) /\ j + 1 # 1
      BY <1>2 DEF Waiting
    <3> QED
      BY <2>1, <3>1
  <2> QED
    BY <2>2 DEF Waiting
<1>5. ASSUME NEW s, Waiting(q, s) = {} PROVE Waiting(a, s) = {}
  <2> SUFFICES ASSUME NEW j \in Waiting(a, s) PROVE FALSE
    OBVIOUS
  <2>1. j + 1 \in Waiting(q, s)
    BY <1>2 DEF Waiting
  <2> QED
    BY <1>5, <2>1
<1>6. ASSUME NEW s, s # Head(q), NEW i, Waiting(q, s) = {i} PROVE Waiting(a, s) = {i - 1}
  <2>1. i \in 1 .. Len(q) /\ q[i] = s
    BY <1>6 DEF Waiting
  <2>2. i - 1 \in 1 .. Len(a) /\ (i - 1) + 1 = i /\ i \in Int
    BY <1>1, <1>2, <1>6, <2>1
  <2>3. a[i - 1] = s
    BY <1>2, <2>1, <2>2
  <2>4. ASSUME NEW j \in Waiting(a, s) PROVE j = i - 1
    <3>1. j + 1 \in Waiting(q, s) /\ j \in Int
      BY <1>2 DEF Waiting
    <3>2. j + 1 = i
      BY <1>6, <3>1
    <3> QED
      BY <2>2, <3>1, <3>2
  <2>5. i - 1 \in Waiting(a, s)
    BY <2>2, <2>3 DEF Waiting
  <2> QED
    BY <2>4, <2>5
<1>7. \A i \in 1 .. Len(a) : \E j \in 1 .. Len(q) : a[i] = q[j]
  BY <1>2
<1>8. \E j \in 1 .. Len(q) : Head(q) = q[j]
  BY <1>1, <1>2
<1> QED
  BY <1>1, <1>3, <1>4, <1>5, <1>6, <1>7, <1>8 DEF a

(* Only thread x moves. *)
OnlyMoves(x) == \A y \in SyncThreads : y # x => StepsNow'[y] = StepsNow[y]

LEMMA StepOf ==
  /\ StepsNow["ui"] = uiStep /\ StepsNow["driver"] = driverStep /\ StepsNow["task"] = taskStep
  /\ (StepsNow["ui"] = uiStep /\ StepsNow["driver"] = driverStep /\ StepsNow["task"] = taskStep)'
  /\ \A x \in SyncThreads : x \in {"ui", "driver", "task"}
BY DEF StepsNow, SyncThreads

LEMMA StepTyped ==
  ASSUME Cursor!TypeOK, NEW x \in SyncThreads
  PROVE  /\ StepsNow[x] \in Cursor!Steps
         /\ StepsNow[x].pc = "post" => StepsNow[x] = Cursor!Step("post", StepsNow[x].service)
         /\ StepsNow[x].service \in Cursor!Services
<1>1. StepsNow[x] \in Cursor!Steps
  BY StepOf DEF Cursor!TypeOK
<1> QED
  BY <1>1 DEF Cursor!Steps, Cursor!Step

LEMMA IdleFields == Cursor!Idle.pc = "idle" /\ Cursor!Idle.service = 0
BY DEF Cursor!Idle, Cursor!Step

LEMMA ScheduleKeeps ==
  ASSUME CursorInv, Cursor!TypeOK', NEW x \in SyncThreads, OnlyMoves(x),
         StepsNow[x].pc = "schedule",
         \/ /\ Cursor!Unwanted /\ StepsNow'[x] = Cursor!Idle
            /\ UNCHANGED <<cursor_pending_service, cursor_sync_pending>>
         \/ /\ ~Cursor!Unwanted
            /\ cursor_sync_pending' = TRUE
            /\ cursor_pending_service' = cursor_service_generation
            /\ StepsNow'[x] = Cursor!Step("post", cursor_service_generation),
         UNCHANGED <<running, cursor_backend, applied_cursor, cursor_service_generation,
                     desired_cursor, cursor_revision, syncQ, applying, shown, failed>>
  PROVE  CursorInv'
<1> DEFINE g == cursor_service_generation
<1>1. g \in Nat
  BY CursorConstants DEF CursorInv, Cursor!TypeOK, Cursor!Services
<1>2. TasksOld'
  <2>1. StepsNow'[x].service <= g
    BY <1>1, StepFields, IdleFields
  <2>2. \A y \in SyncThreads : StepsNow'[y].service <= g
    BY <2>1 DEF OnlyMoves, CursorInv, TasksOld
  <2> QED
    BY <2>2 DEF CursorInv, TasksOld
<1>3. (\A c, d \in applying : c = d)' /\ (applying # {} => StepsNow["task"] = Cursor!Idle)'
  <2>1. applying # {} => x # "task"
    BY IdleFields DEF CursorInv
  <2> QED
    BY <2>1 DEF CursorInv, OnlyMoves, SyncThreads
<1>4. ASSUME running PROVE MarkExact' /\ Newest'
  <2>1. MarkExact /\ Newest
    BY <1>4 DEF CursorInv
  <2>2. StepsNow[x] # Cursor!Step("post", g)
    BY StepFields
  <2>3. CASE /\ Cursor!Unwanted /\ StepsNow'[x] = Cursor!Idle
             /\ UNCHANGED <<cursor_pending_service, cursor_sync_pending>>
    <3>1. StepsNow'[x] # Cursor!Step("post", g)
      BY <2>3, IdleFields, StepFields
    <3>2. Posting(StepsNow', g) = Posting(StepsNow, g)
      BY <2>2, <3>1, ThreadMoves DEF OnlyMoves
    <3>3. MarkExact'
      BY <2>1, <2>3, <3>2 DEF MarkExact, NoTask, OneTask
    <3>4. Newest'
      BY <1>4, <2>1, <2>3 DEF Newest, Cursor!Unwanted
    <3> QED
      BY <3>3, <3>4
  <2>4. CASE /\ ~Cursor!Unwanted
             /\ cursor_sync_pending' = TRUE
             /\ cursor_pending_service' = cursor_service_generation
             /\ StepsNow'[x] = Cursor!Step("post", cursor_service_generation)
    <3>1. cursor_backend /\ ~cursor_sync_pending
      BY <2>4 DEF Cursor!Unwanted
    <3>2. NoTask(StepsNow, syncQ, applying, g)
      BY <2>1, <3>1 DEF MarkExact
    <3>3. OneTask(StepsNow', syncQ, applying, g)
      BY <2>4, <3>2, ThreadPosts DEF OnlyMoves
    <3>4. MarkExact'
      BY <2>4, <3>1, <3>3 DEF MarkExact
    <3>5. Newest'
      BY <2>1, <2>4 DEF Newest
    <3> QED
      BY <3>4, <3>5
  <2> QED
    BY <2>3, <2>4
<1> QED
  BY <1>2, <1>3, <1>4 DEF CursorInv

LEMMA PostKeeps ==
  ASSUME CursorInv, Cursor!TypeOK', NEW x \in SyncThreads, OnlyMoves(x),
         StepsNow[x].pc = "post", NEW s, s = StepsNow[x].service,
         \/ /\ syncQ' = Append(syncQ, s) /\ StepsNow'[x] = Cursor!Idle
            /\ UNCHANGED <<cursor_pending_service, cursor_sync_pending>>
         \/ /\ IF Cursor!Withdraws(s) THEN Cursor!ClearPending
               ELSE UNCHANGED <<cursor_pending_service, cursor_sync_pending>>
            /\ StepsNow'[x] = Cursor!Step("stop", 0) /\ syncQ' = syncQ,
         UNCHANGED <<running, cursor_backend, applied_cursor, cursor_service_generation,
                     desired_cursor, cursor_revision, applying, shown, failed>>
  PROVE  CursorInv'
<1> DEFINE g == cursor_service_generation
<1>1. g \in Nat /\ s \in Cursor!Services /\ syncQ \in Seq(Cursor!Services) /\ s <= g
  BY CursorConstants, StepTyped DEF CursorInv, Cursor!TypeOK, Cursor!Services, TasksOld
<1>2. StepsNow[x] = Cursor!Step("post", s)
  BY StepTyped DEF CursorInv
<1>3. /\ StepsNow'[x].service = 0 /\ StepsNow'[x].pc \in {"idle", "stop"}
      /\ \A t : StepsNow'[x] # Cursor!Step("post", t)
  BY StepFields, IdleFields
<1>4. TasksOld'
  <2>1. StepsNow'[x].service <= g
    BY <1>1, <1>3
  <2>2. \A y \in SyncThreads : StepsNow'[y].service <= g
    BY <2>1 DEF OnlyMoves, CursorInv, TasksOld
  <2>3. \A i \in 1 .. Len(syncQ') : syncQ'[i] <= g
    BY <1>1, SyncPosted DEF CursorInv, TasksOld
  <2> QED
    BY <2>2, <2>3 DEF CursorInv, TasksOld
<1>5. (\A c, d \in applying : c = d)' /\ (applying # {} => StepsNow["task"] = Cursor!Idle)'
  <2>1. applying # {} => x # "task"
    BY IdleFields DEF CursorInv
  <2> QED
    BY <2>1 DEF CursorInv, OnlyMoves, SyncThreads
<1>6. ASSUME running PROVE MarkExact' /\ Newest'
  <2>1. MarkExact /\ Newest
    BY <1>6 DEF CursorInv
  <2>2. ASSUME s = g
        PROVE  /\ cursor_sync_pending /\ cursor_pending_service = g /\ cursor_backend
               /\ NoTask(StepsNow', syncQ, applying, g)
    <3>1. x \in Posting(StepsNow, g)
      BY <1>2, <2>2 DEF Posting
    <3>2. /\ cursor_sync_pending /\ cursor_pending_service = g /\ cursor_backend
          /\ OneTask(StepsNow, syncQ, applying, g)
      BY <2>1, <3>1 DEF MarkExact, NoTask
    <3> QED
      BY <1>2, <1>3, <2>2, <3>2, ThreadLeaves DEF OnlyMoves
  <2>3. ASSUME s # g PROVE Posting(StepsNow', g) = Posting(StepsNow, g)
    <3>1. StepsNow[x] # Cursor!Step("post", g)
      BY <2>3, StepFields
    <3> QED
      BY <1>3, <3>1, ThreadMoves DEF OnlyMoves
  <2>4. CASE /\ syncQ' = Append(syncQ, s) /\ StepsNow'[x] = Cursor!Idle
             /\ UNCHANGED <<cursor_pending_service, cursor_sync_pending>>
    <3>1. ASSUME s = g PROVE MarkExact'
      <4>1. Waiting(syncQ', g) = {Len(syncQ) + 1}
        BY <1>1, <2>2, <2>4, <3>1, SyncPosted DEF NoTask
      <4>2. OneTask(StepsNow', syncQ', applying, g)
        BY <2>2, <3>1, <4>1 DEF NoTask, OneTask
      <4> QED
        BY <2>2, <2>4, <3>1, <4>2 DEF MarkExact
    <3>2. ASSUME s # g PROVE MarkExact'
      <4>1. Waiting(syncQ', g) = Waiting(syncQ, g)
        BY <1>1, <2>4, <3>2, SyncPosted
      <4> QED
        BY <2>1, <2>3, <2>4, <3>2, <4>1 DEF MarkExact, NoTask, OneTask
    <3>3. MarkExact'
      BY <3>1, <3>2
    <3>4. (\E y \in SyncThreads : StepsNow[y].pc \in {"schedule", "stop"})
            => \E y \in SyncThreads : StepsNow'[y].pc \in {"schedule", "stop"}
      BY DEF OnlyMoves
    <3>5. Newest'
      BY <2>1, <2>4, <3>4 DEF Newest
    <3> QED
      BY <3>3, <3>5
  <2>5. CASE /\ IF Cursor!Withdraws(s) THEN Cursor!ClearPending
                ELSE UNCHANGED <<cursor_pending_service, cursor_sync_pending>>
             /\ StepsNow'[x] = Cursor!Step("stop", 0) /\ syncQ' = syncQ
    <3>1. ASSUME s = g PROVE MarkExact'
      <4>1. ~cursor_sync_pending' /\ cursor_pending_service' = 0
        BY <2>2, <2>5, <3>1 DEF Cursor!Withdraws, Cursor!ClearPending
      <4> QED
        BY <2>2, <2>5, <3>1, <4>1 DEF MarkExact
    <3>2. ASSUME s # g PROVE MarkExact'
      <4>1. UNCHANGED <<cursor_pending_service, cursor_sync_pending>>
        BY <2>5, <3>2 DEF Cursor!Withdraws
      <4> QED
        BY <2>1, <2>3, <2>5, <3>2, <4>1 DEF MarkExact, NoTask, OneTask
    <3>3. MarkExact'
      BY <3>1, <3>2
    <3>4. StepsNow'[x].pc = "stop"
      BY <2>5, StepFields
    <3>5. Newest'
      BY <2>1, <3>4 DEF Newest
    <3> QED
      BY <3>3, <3>5
  <2> QED
    BY <2>4, <2>5
<1> QED
  BY <1>4, <1>5, <1>6 DEF CursorInv

(* set_cursor, or set_cursor_backend at the limit: thread x will go on. *)
LEMMA StartKeeps ==
  ASSUME CursorInv, Cursor!TypeOK', NEW x \in SyncThreads, OnlyMoves(x), x # "task",
         StepsNow[x] = Cursor!Idle,
         StepsNow'[x] \in {Cursor!Step("stop", 0), Cursor!Step("schedule", 0)},
         UNCHANGED <<running, cursor_backend, applied_cursor, cursor_service_generation, shown,
                     cursor_pending_service, cursor_sync_pending, syncQ, applying>>
  PROVE  CursorInv'
<1> DEFINE g == cursor_service_generation
<1>1. g \in Nat
  BY CursorConstants DEF CursorInv, Cursor!TypeOK, Cursor!Services
<1>2. /\ StepsNow'[x].service = 0 /\ StepsNow'[x].pc \in {"schedule", "stop"}
      /\ \A t : StepsNow'[x] # Cursor!Step("post", t)
      /\ \A t : StepsNow[x] # Cursor!Step("post", t)
  BY StepFields, IdleFields
<1>3. TasksOld'
  <2>1. \A y \in SyncThreads : StepsNow'[y].service <= g
    BY <1>1, <1>2 DEF OnlyMoves, CursorInv, TasksOld
  <2> QED
    BY <2>1 DEF CursorInv, TasksOld
<1>4. (\A c, d \in applying : c = d)' /\ (applying # {} => StepsNow["task"] = Cursor!Idle)'
  BY DEF CursorInv, OnlyMoves, SyncThreads
<1>5. ASSUME running PROVE MarkExact' /\ Newest'
  <2>1. MarkExact /\ Newest
    BY <1>5 DEF CursorInv
  <2>2. Posting(StepsNow', g) = Posting(StepsNow, g)
    BY <1>2, ThreadMoves DEF OnlyMoves
  <2>3. MarkExact'
    BY <2>1, <2>2 DEF MarkExact, NoTask, OneTask
  <2>4. Newest'
    BY <1>2, <2>1 DEF Newest
  <2> QED
    BY <2>3, <2>4
<1> QED
  BY <1>3, <1>4, <1>5 DEF CursorInv

(* A stopped host: only the bounds are left to keep. *)
LEMMA StopKeeps ==
  ASSUME CursorInv, Cursor!TypeOK', ~running',
         NEW x \in SyncThreads, OnlyMoves(x),
         \/ StepsNow'[x] = StepsNow[x]
         \/ StepsNow[x].pc = "stop" /\ StepsNow'[x] = Cursor!Idle,
         UNCHANGED <<cursor_service_generation, syncQ, applying>>
  PROVE  CursorInv'
<1> DEFINE g == cursor_service_generation
<1>1. g \in Nat
  BY CursorConstants DEF CursorInv, Cursor!TypeOK, Cursor!Services
<1>2. TasksOld'
  <2>1. \A y \in SyncThreads : StepsNow'[y].service <= g
    BY <1>1, IdleFields DEF OnlyMoves, CursorInv, TasksOld
  <2> QED
    BY <2>1 DEF CursorInv, TasksOld
<1>3. (\A c, d \in applying : c = d)' /\ (applying # {} => StepsNow["task"] = Cursor!Idle)'
  <2>1. applying # {} /\ x = "task" => StepsNow'[x] = StepsNow[x]
    BY IdleFields DEF CursorInv
  <2> QED
    BY <2>1 DEF CursorInv, OnlyMoves, SyncThreads
<1> QED
  BY <1>2, <1>3 DEF CursorInv

(* The backend is replaced: no task is for the new one. *)
LEMMA ReplaceKeeps ==
  ASSUME CursorInv, Cursor!TypeOK', OnlyMoves("driver"),
         StepsNow["driver"] = Cursor!Idle, StepsNow'["driver"] = Cursor!Step("schedule", 0),
         cursor_service_generation' = cursor_service_generation + 1,
         applied_cursor' = {}, shown' = {}, Cursor!ClearPending,
         UNCHANGED <<running, syncQ, applying>>
  PROVE  CursorInv'
<1> DEFINE g == cursor_service_generation
<1>1. g \in Nat
  BY CursorConstants DEF CursorInv, Cursor!TypeOK, Cursor!Services
<1>2. "driver" \in SyncThreads /\ "task" \in SyncThreads /\ "driver" # "task"
  BY DEF SyncThreads
<1>3. /\ StepsNow'["driver"].service = 0 /\ StepsNow'["driver"].pc = "schedule"
      /\ \A t : StepsNow'["driver"] # Cursor!Step("post", t)
  BY StepFields
<1>4. /\ \A y \in SyncThreads : StepsNow'[y].service \in Nat /\ StepsNow'[y].service <= g
      /\ \A i \in 1 .. Len(syncQ) : syncQ[i] \in Nat /\ syncQ[i] <= g
      /\ \A c \in applying : c.service \in Nat /\ c.service <= g
  <2>1. \A y \in SyncThreads : StepsNow[y].service \in Nat
    BY CursorConstants, StepTyped DEF CursorInv, Cursor!Services
  <2>2. \A y \in SyncThreads : StepsNow'[y].service \in Nat /\ StepsNow'[y].service <= g
    BY <1>1, <1>3, <2>1 DEF OnlyMoves, CursorInv, TasksOld
  <2>3. \A i \in 1 .. Len(syncQ) : syncQ[i] \in Nat
    BY CursorConstants DEF CursorInv, Cursor!TypeOK, Cursor!Services
  <2>4. \A c \in applying : c.service \in Nat
    BY CursorConstants DEF CursorInv, Cursor!TypeOK, Cursor!Services, Cursor!Call
  <2> QED
    BY <2>2, <2>3, <2>4 DEF CursorInv, TasksOld
<1>5. TasksOld'
  <2>1. \A n \in Nat : n <= g => n <= g + 1
    BY <1>1
  <2>2. \A y \in SyncThreads : StepsNow'[y].service <= g + 1
    BY <1>4, <2>1
  <2>3. \A i \in 1 .. Len(syncQ) : syncQ[i] <= g + 1
    BY <1>4, <2>1
  <2>4. \A c \in applying : c.service <= g + 1
    BY <1>4, <2>1
  <2> QED
    BY <2>2, <2>3, <2>4 DEF TasksOld
<1>6. (\A c, d \in applying : c = d)' /\ (applying # {} => StepsNow["task"] = Cursor!Idle)'
  BY <1>2 DEF CursorInv, OnlyMoves
<1>7. NoTask(StepsNow', syncQ, applying, g + 1)
  <2>1. \A n \in Nat : n <= g => n # g + 1
    BY <1>1
  <2>2. Posting(StepsNow', g + 1) = {}
    <3>1. \A y \in SyncThreads : StepsNow'[y].service # g + 1
      BY <1>4, <2>1
    <3>2. Cursor!Step("post", g + 1).service = g + 1
      BY StepFields
    <3> QED
      BY <3>1, <3>2 DEF Posting
  <2>3. Waiting(syncQ, g + 1) = {}
    BY <1>4, <2>1 DEF Waiting
  <2>4. Applying(applying, g + 1) = {}
    BY <1>4, <2>1 DEF Applying
  <2> QED
    BY <2>2, <2>3, <2>4 DEF NoTask
<1>8. MarkExact' /\ Newest'
  <2>1. MarkExact'
    BY <1>7 DEF MarkExact, Cursor!ClearPending
  <2>2. Newest'
    BY <1>2, <1>3 DEF Newest
  <2> QED
    BY <2>1, <2>2
<1> QED
  BY <1>5, <1>6, <1>8 DEF CursorInv

LEMMA BeginSyncKeeps ==
  ASSUME CursorInv, Cursor!TypeOK', Cursor!BeginSync
  PROVE  CursorInv'
<1> DEFINE g == cursor_service_generation
<1>1. /\ g \in Nat /\ syncQ \in Seq(Cursor!Services) /\ syncQ # <<>> /\ applying = {}
      /\ taskStep = Cursor!Idle /\ syncQ' = Tail(syncQ)
      /\ UNCHANGED <<running, cursor_backend, applied_cursor, cursor_service_generation,
                     cursor_pending_service, cursor_sync_pending, desired_cursor, cursor_revision,
                     uiStep, driverStep, taskStep, shown, failed>>
  BY CursorConstants DEF CursorInv, Cursor!TypeOK, Cursor!Services, Cursor!BeginSync,
     Cursor!service, Cursor!pending, Cursor!steps
<1>2. StepsNow' = StepsNow
  BY <1>1 DEF StepsNow
<1>3. PICK s, c : s = Head(syncQ)
                  /\ c = [service |-> s, cursor |-> desired_cursor, revision |-> cursor_revision]
  OBVIOUS
<1>4. c.service = s /\ applying' = IF Cursor!TaskCurrent(s) THEN {c} ELSE {}
  <2>1. applying' = {[service |-> z, cursor |-> desired_cursor, revision |-> cursor_revision]
                      : z \in {y \in {s} : Cursor!TaskCurrent(y)}}
    BY <1>3 DEF Cursor!BeginSync
  <2>2. CASE Cursor!TaskCurrent(s)
    <3>1. {y \in {s} : Cursor!TaskCurrent(y)} = {s}
      BY <2>2
    <3> QED
      BY <1>3, <2>1, <2>2, <3>1
  <2>3. CASE ~Cursor!TaskCurrent(s)
    <3>1. {y \in {s} : Cursor!TaskCurrent(y)} = {}
      BY <2>3
    <3> QED
      BY <1>3, <2>1, <2>3, <3>1
  <2> QED
    BY <2>2, <2>3
<1>5. /\ Waiting(syncQ, s) # {}
      /\ \A i : Waiting(syncQ, s) = {i} => Waiting(syncQ', s) = {}
      /\ \A t : t # s /\ Waiting(syncQ, t) = {} => Waiting(syncQ', t) = {}
      /\ \A t : t # s /\ (\E i : Waiting(syncQ, t) = {i}) => \E i : Waiting(syncQ', t) = {i}
      /\ \A i \in 1 .. Len(syncQ') : \E j \in 1 .. Len(syncQ) : syncQ'[i] = syncQ[j]
      /\ \E j \in 1 .. Len(syncQ) : s = syncQ[j]
  <2> DEFINE q == syncQ
  <2>1. q \in Seq(Cursor!Services) /\ q # <<>>
    BY <1>1
  <2>2. Waiting(q, Head(q)) # {} /\ \E j \in 1 .. Len(q) : Head(q) = q[j]
    BY <2>1, SyncBegins
  <2>4. \A i : Waiting(q, Head(q)) = {i} => Waiting(Tail(q), Head(q)) = {}
    BY <2>1, SyncBegins
  <2>5. \A t : t # Head(q) /\ Waiting(q, t) = {} => Waiting(Tail(q), t) = {}
    BY <2>1, SyncBegins
  <2>6. \A t : t # Head(q) /\ (\E i : Waiting(q, t) = {i}) => \E i : Waiting(Tail(q), t) = {i}
    BY <2>1, SyncBegins
  <2>7. \A i \in 1 .. Len(Tail(q)) : \E j \in 1 .. Len(q) : Tail(q)[i] = q[j]
    BY <2>1, SyncBegins
  <2>3. syncQ' = Tail(q) /\ s = Head(q)
    BY <1>1, <1>3
  <2> QED
    BY <2>2, <2>3, <2>4, <2>5, <2>6, <2>7
<1>6. TasksOld'
  <2>1. s <= g
    BY <1>5 DEF CursorInv, TasksOld
  <2>2. \A i \in 1 .. Len(syncQ') : syncQ'[i] <= g
    BY <1>5 DEF CursorInv, TasksOld
  <2>3. \A d \in applying' : d.service <= g
    BY <1>4, <2>1
  <2> QED
    BY <1>1, <1>2, <2>2, <2>3 DEF CursorInv, TasksOld
<1>7. (\A d, e \in applying : d = e)' /\ (applying # {} => StepsNow["task"] = Cursor!Idle)'
  <2>1. \A d, e \in applying' : d = e
    BY <1>4
  <2> QED
    BY <1>1, <2>1, StepOf
<1>8. ASSUME running PROVE MarkExact' /\ Newest'
  <2>1. MarkExact /\ Newest
    BY <1>8 DEF CursorInv
  <2>2. Newest'
    BY <1>1, <1>2, <2>1 DEF Newest
  <2>3. Applying(applying, g) = {}
    BY <1>1 DEF Applying
  <2>4. ASSUME s = g PROVE MarkExact'
    <3>1. ~NoTask(StepsNow, syncQ, applying, g)
      BY <1>5, <2>4 DEF NoTask
    <3>2. cursor_sync_pending /\ cursor_pending_service = g /\ cursor_backend
          /\ OneTask(StepsNow, syncQ, applying, g)
      BY <2>1, <3>1 DEF MarkExact
    <3>3. Posting(StepsNow, g) = {} /\ Waiting(syncQ', g) = {}
      BY <1>5, <2>3, <2>4, <3>2 DEF OneTask
    <3>4. applying' = {c} /\ c.service = g
      BY <1>4, <1>8, <2>4, <3>2 DEF Cursor!TaskCurrent
    <3>5. Applying(applying', g) = {c}
      BY <3>4 DEF Applying
    <3>6. OneTask(StepsNow', syncQ', applying', g)
      BY <1>2, <3>3, <3>5 DEF OneTask
    <3> QED
      BY <1>1, <3>2, <3>6 DEF MarkExact
  <2>5. ASSUME s # g PROVE MarkExact'
    <3>1. Applying(applying', g) = {}
      BY <1>4, <2>5 DEF Applying
    <3>2. OneTask(StepsNow, syncQ, applying, g) => OneTask(StepsNow', syncQ', applying', g)
      BY <1>2, <1>5, <2>3, <2>5, <3>1 DEF OneTask
    <3>3. NoTask(StepsNow, syncQ, applying, g) => NoTask(StepsNow', syncQ', applying', g)
      BY <1>2, <1>5, <2>5, <3>1 DEF NoTask
    <3> QED
      BY <1>1, <2>1, <3>2, <3>3 DEF MarkExact
  <2> QED
    BY <2>2, <2>4, <2>5
<1> QED
  BY <1>1, <1>6, <1>7, <1>8 DEF CursorInv

LEMMA EndSyncKeeps ==
  ASSUME CursorInv, Cursor!TypeOK', NEW ok \in BOOLEAN, Cursor!EndSync(ok)
  PROVE  CursorInv'
<1> DEFINE g == cursor_service_generation
<1>1. PICK c \in applying :
        /\ applying' = {}
        /\ shown' = (IF g = c.service /\ ok THEN {c.cursor} ELSE shown)
        /\ failed' = (IF g = c.service /\ ~ok THEN {c.revision} ELSE failed)
        /\ \/ /\ ~Cursor!StillOwner(c.service)
              /\ UNCHANGED <<cursor_pending_service, cursor_sync_pending, applied_cursor, taskStep>>
           \/ /\ Cursor!StillOwner(c.service)
              /\ Cursor!ClearPending
              /\ applied_cursor' = (IF ok THEN {c.cursor} ELSE applied_cursor)
              /\ taskStep' = (IF Cursor!NewerAfter(c, ok) THEN Cursor!Step("schedule", 0)
                                                          ELSE Cursor!Idle)
        /\ UNCHANGED <<running, cursor_backend, cursor_service_generation, desired_cursor,
                       cursor_revision, uiStep, driverStep, syncQ>>
  BY DEF Cursor!EndSync, Cursor!pending
<1>2. g \in Nat /\ applying = {c}
  BY CursorConstants DEF CursorInv, Cursor!TypeOK, Cursor!Services
<1>3. /\ StepsNow["task"] = Cursor!Idle /\ taskStep = Cursor!Idle
      /\ StepsNow'["task"] = taskStep' /\ "task" \in SyncThreads
      /\ \A y \in SyncThreads : y # "task" => StepsNow'[y] = StepsNow[y]
  <2>1. StepsNow["task"] = Cursor!Idle
    BY DEF CursorInv
  <2>2. \A y \in SyncThreads : y # "task" => StepsNow'[y] = StepsNow[y]
    BY <1>1 DEF StepsNow, SyncThreads
  <2> QED
    BY <2>1, <2>2, StepOf DEF SyncThreads
<1>4. taskStep' \in {Cursor!Idle, Cursor!Step("schedule", 0)}
  BY <1>1, <1>3
<1>5. /\ StepsNow'["task"].service = 0
      /\ \A t : StepsNow'["task"] # Cursor!Step("post", t)
      /\ \A t : StepsNow["task"] # Cursor!Step("post", t)
  BY <1>3, <1>4, StepFields, IdleFields
<1>6. TasksOld'
  <2>1. \A y \in SyncThreads : StepsNow'[y].service <= g
    BY <1>2, <1>3, <1>5 DEF CursorInv, TasksOld
  <2> QED
    BY <1>1, <2>1 DEF CursorInv, TasksOld
<1>7. (\A d, e \in applying : d = e)' /\ (applying # {} => StepsNow["task"] = Cursor!Idle)'
  BY <1>1
<1>8. ASSUME running PROVE MarkExact' /\ Newest'
  <2>1. MarkExact /\ Newest
    BY <1>8 DEF CursorInv
  <2>2. Posting(StepsNow', g) = Posting(StepsNow, g)
    BY <1>3, <1>5, ThreadMoves
  <2>3. Applying(applying', g) = {}
    BY <1>1 DEF Applying
  <2>4. CASE c.service = g
    <3>1. c \in Applying(applying, g)
      BY <2>4 DEF Applying
    <3>2. /\ cursor_sync_pending /\ cursor_pending_service = g /\ cursor_backend
          /\ OneTask(StepsNow, syncQ, applying, g)
      BY <2>1, <3>1 DEF MarkExact, NoTask
    <3>3. Posting(StepsNow, g) = {} /\ Waiting(syncQ, g) = {}
      BY <3>1, <3>2 DEF OneTask
    <3>4. /\ Cursor!StillOwner(c.service)
      BY <2>4, <3>2 DEF Cursor!StillOwner
    <3>5. /\ cursor_sync_pending' = FALSE /\ cursor_pending_service' = 0
          /\ applied_cursor' = (IF ok THEN {c.cursor} ELSE applied_cursor)
          /\ taskStep' = (IF Cursor!NewerAfter(c, ok) THEN Cursor!Step("schedule", 0)
                                                      ELSE Cursor!Idle)
      BY <1>1, <3>4 DEF Cursor!ClearPending
    <3>6. MarkExact'
      BY <1>1, <2>2, <2>3, <3>3, <3>5 DEF MarkExact, NoTask
    <3>7. applied_cursor' # {} => shown' = applied_cursor'
      BY <1>1, <2>1, <2>4, <3>5 DEF Newest
    <3>8. \/ StepsNow'["task"].pc = "schedule"
          \/ applied_cursor' = {desired_cursor}
          \/ failed' = {cursor_revision}
      <4>1. CASE Cursor!NewerAfter(c, ok)
        BY <1>3, <3>5, <4>1, StepFields
      <4>2. CASE ~Cursor!NewerAfter(c, ok) /\ ok
        BY <1>8, <3>5, <4>2 DEF Cursor!NewerAfter
      <4>3. CASE ~Cursor!NewerAfter(c, ok) /\ ~ok
        BY <1>1, <1>8, <2>4, <4>3 DEF Cursor!NewerAfter
      <4> QED
        BY <4>1, <4>2, <4>3
    <3>9. Newest'
      BY <1>1, <1>3, <3>7, <3>8 DEF Newest
    <3> QED
      BY <3>6, <3>9
  <2>5. CASE c.service # g
    <3>1. ~Cursor!StillOwner(c.service)
      BY <2>5 DEF Cursor!StillOwner
    <3>2. UNCHANGED <<cursor_pending_service, cursor_sync_pending, applied_cursor, taskStep, shown,
                      failed, StepsNow>>
      <4>1. UNCHANGED <<cursor_pending_service, cursor_sync_pending, applied_cursor, taskStep, shown,
                        failed>>
        BY <1>1, <2>5, <3>1
      <4> QED
        BY <1>1, <4>1 DEF StepsNow
    <3>3. Applying(applying, g) = {}
      BY <1>2, <2>5 DEF Applying
    <3>4. MarkExact'
      BY <1>1, <2>1, <2>3, <3>2, <3>3 DEF MarkExact, NoTask, OneTask
    <3>5. Newest'
      BY <1>1, <2>1, <3>2 DEF Newest
    <3> QED
      BY <3>4, <3>5
  <2> QED
    BY <2>4, <2>5
<1> QED
  BY <1>1, <1>6, <1>7, <1>8 DEF CursorInv

LEMMA InitCursor == Cursor!Init => CursorInv
<1> SUFFICES ASSUME Cursor!Init PROVE CursorInv
  OBVIOUS
<1> USE DEF Cursor!Init
<1>1. Cursor!Idle \in Cursor!Steps /\ 0 \in Cursor!Services /\ 0 \in Cursor!Revisions
  BY CursorConstants DEF Cursor!Idle, Cursor!Step, Cursor!Steps, Cursor!Services, Cursor!Revisions
<1>2. arrow \in CursorsUsed
  BY DEF CursorsUsed
<1>3. Cursor!TypeOK
  <2>1. running \in BOOLEAN /\ cursor_backend \in BOOLEAN /\ cursor_sync_pending \in BOOLEAN
    OBVIOUS
  <2>2. desired_cursor \in CursorsUsed /\ applied_cursor \in SUBSET CursorsUsed
        /\ shown \in SUBSET CursorsUsed
    BY <1>2
  <2>3. /\ uiStep \in Cursor!Steps /\ driverStep \in Cursor!Steps /\ taskStep \in Cursor!Steps
        /\ syncQ \in Seq(Cursor!Services) /\ applying \in SUBSET Cursor!Call
        /\ failed \in SUBSET Cursor!Revisions
    BY <1>1
  <2>4. /\ cursor_service_generation \in Cursor!Services /\ cursor_revision \in Cursor!Revisions
        /\ cursor_pending_service \in Cursor!Services
    BY <1>1
  <2> HIDE DEF Cursor!Init
  <2> QED
    BY <2>1, <2>2, <2>3, <2>4 DEF Cursor!TypeOK
<1>4. \A x \in SyncThreads : StepsNow[x] = Cursor!Idle
  BY DEF StepsNow
<1>5. TasksOld
  BY <1>4, IdleFields DEF TasksOld
<1>6. NoTask(StepsNow, syncQ, applying, cursor_service_generation)
  <2>1. Posting(StepsNow, cursor_service_generation) = {}
    BY <1>4, IdleFields, StepFields DEF Posting
  <2> QED
    BY <2>1 DEF NoTask, Waiting, Applying
<1>7. MarkExact /\ Newest
  BY <1>6 DEF MarkExact, Newest
<1> QED
  BY <1>3, <1>5, <1>7 DEF CursorInv

(* Every step keeps the cursor service well typed. *)
LEMMA ThreadTyped ==
  ASSUME Cursor!TypeOK, NEW st \in Cursor!Steps, NEW sn,
         \/ Cursor!Unwanted /\ sn = Cursor!Idle /\ UNCHANGED Cursor!pending /\ UNCHANGED syncQ
         \/ /\ cursor_sync_pending' = TRUE /\ cursor_pending_service' = cursor_service_generation
            /\ sn = Cursor!Step("post", cursor_service_generation) /\ UNCHANGED syncQ
         \/ syncQ' = Append(syncQ, st.service) /\ sn = Cursor!Idle /\ UNCHANGED Cursor!pending
         \/ /\ Cursor!ClearPending \/ UNCHANGED Cursor!pending
            /\ sn \in {Cursor!Step("stop", 0), Cursor!Idle} /\ UNCHANGED syncQ
  PROVE  /\ sn \in Cursor!Steps /\ syncQ' \in Seq(Cursor!Services)
         /\ cursor_pending_service' \in Cursor!Services /\ cursor_sync_pending' \in BOOLEAN
<1>1. /\ Cursor!Idle \in Cursor!Steps /\ Cursor!Step("stop", 0) \in Cursor!Steps
      /\ 0 \in Cursor!Services /\ st.service \in Cursor!Services
      /\ \A s \in Cursor!Services : Cursor!Step("post", s) \in Cursor!Steps
  BY CursorConstants DEF Cursor!Idle, Cursor!Step, Cursor!Steps, Cursor!Services
<1>2. /\ syncQ \in Seq(Cursor!Services) /\ cursor_pending_service \in Cursor!Services
      /\ cursor_sync_pending \in BOOLEAN /\ cursor_service_generation \in Cursor!Services
  BY DEF Cursor!TypeOK
<1>3. sn \in Cursor!Steps
  BY <1>1, <1>2
<1>4. syncQ' \in Seq(Cursor!Services)
  BY <1>1, <1>2
<1>5. cursor_pending_service' \in Cursor!Services /\ cursor_sync_pending' \in BOOLEAN
  BY <1>1, <1>2 DEF Cursor!ClearPending, Cursor!pending
<1> QED
  BY <1>3, <1>4, <1>5

LEMMA UiThreadNext ==
  ASSUME CursorInv, Cursor!UiThread
  PROVE  CursorInv'
<1> USE DEF Cursor!service, Cursor!pending, Cursor!native
<1>1. /\ OnlyMoves("ui") /\ "ui" \in SyncThreads
      /\ StepsNow["ui"] = uiStep /\ StepsNow'["ui"] = uiStep'
      /\ UNCHANGED <<driverStep, taskStep>>
  BY DEF Cursor!UiThread, OnlyMoves, StepsNow, SyncThreads
<1>2. uiStep \in Cursor!Steps /\ Cursor!TypeOK
  BY DEF CursorInv, Cursor!TypeOK
<1>3. CASE Cursor!Schedule(uiStep)
  <2>1. /\ uiStep' \in Cursor!Steps /\ syncQ' \in Seq(Cursor!Services)
        /\ cursor_pending_service' \in Cursor!Services /\ cursor_sync_pending' \in BOOLEAN
    BY <1>2, <1>3, ThreadTyped DEF Cursor!Schedule
  <2>2. Cursor!TypeOK'
    BY <1>1, <1>2, <1>3, <2>1 DEF Cursor!TypeOK, Cursor!Schedule
  <2> QED
    BY <1>1, <1>3, <2>2, ScheduleKeeps DEF Cursor!Schedule
<1>4. CASE Cursor!Post(uiStep)
  <2>1. /\ uiStep' \in Cursor!Steps /\ syncQ' \in Seq(Cursor!Services)
        /\ cursor_pending_service' \in Cursor!Services /\ cursor_sync_pending' \in BOOLEAN
    BY <1>2, <1>4, ThreadTyped DEF Cursor!Post
  <2>2. Cursor!TypeOK'
    BY <1>1, <1>2, <1>4, <2>1 DEF Cursor!TypeOK, Cursor!Post
  <2> QED
    BY <1>1, <1>4, <2>2, PostKeeps DEF Cursor!Post
<1>5. CASE Cursor!Stop(uiStep)
  <2>1. /\ uiStep' \in Cursor!Steps /\ syncQ' \in Seq(Cursor!Services)
        /\ cursor_pending_service' \in Cursor!Services /\ cursor_sync_pending' \in BOOLEAN
    BY <1>2, <1>5, ThreadTyped DEF Cursor!Stop, Cursor!StopHost
  <2>2. Cursor!TypeOK'
    BY <1>1, <1>2, <1>5, <2>1 DEF Cursor!TypeOK, Cursor!Stop, Cursor!StopHost
  <2> QED
    BY <1>1, <1>5, <2>2, StopKeeps DEF Cursor!Stop, Cursor!StopHost
<1> QED
  BY <1>3, <1>4, <1>5 DEF Cursor!UiThread

LEMMA DriverThreadNext ==
  ASSUME CursorInv, Cursor!DriverThread
  PROVE  CursorInv'
<1> USE DEF Cursor!service, Cursor!pending, Cursor!native
<1>1. /\ OnlyMoves("driver") /\ "driver" \in SyncThreads
      /\ StepsNow["driver"] = driverStep /\ StepsNow'["driver"] = driverStep'
      /\ UNCHANGED <<uiStep, taskStep>>
  BY DEF Cursor!DriverThread, OnlyMoves, StepsNow, SyncThreads
<1>2. driverStep \in Cursor!Steps /\ Cursor!TypeOK
  BY DEF CursorInv, Cursor!TypeOK
<1>3. CASE Cursor!Schedule(driverStep)
  <2>1. /\ driverStep' \in Cursor!Steps /\ syncQ' \in Seq(Cursor!Services)
        /\ cursor_pending_service' \in Cursor!Services /\ cursor_sync_pending' \in BOOLEAN
    BY <1>2, <1>3, ThreadTyped DEF Cursor!Schedule
  <2>2. Cursor!TypeOK'
    BY <1>1, <1>2, <1>3, <2>1 DEF Cursor!TypeOK, Cursor!Schedule
  <2> QED
    BY <1>1, <1>3, <2>2, ScheduleKeeps DEF Cursor!Schedule
<1>4. CASE Cursor!Post(driverStep)
  <2>1. /\ driverStep' \in Cursor!Steps /\ syncQ' \in Seq(Cursor!Services)
        /\ cursor_pending_service' \in Cursor!Services /\ cursor_sync_pending' \in BOOLEAN
    BY <1>2, <1>4, ThreadTyped DEF Cursor!Post
  <2>2. Cursor!TypeOK'
    BY <1>1, <1>2, <1>4, <2>1 DEF Cursor!TypeOK, Cursor!Post
  <2> QED
    BY <1>1, <1>4, <2>2, PostKeeps DEF Cursor!Post
<1>5. CASE Cursor!Stop(driverStep)
  <2>1. /\ driverStep' \in Cursor!Steps /\ syncQ' \in Seq(Cursor!Services)
        /\ cursor_pending_service' \in Cursor!Services /\ cursor_sync_pending' \in BOOLEAN
    BY <1>2, <1>5, ThreadTyped DEF Cursor!Stop, Cursor!StopHost
  <2>2. Cursor!TypeOK'
    BY <1>1, <1>2, <1>5, <2>1 DEF Cursor!TypeOK, Cursor!Stop, Cursor!StopHost
  <2> QED
    BY <1>1, <1>5, <2>2, StopKeeps DEF Cursor!Stop, Cursor!StopHost
<1> QED
  BY <1>3, <1>4, <1>5 DEF Cursor!DriverThread

LEMMA TaskThreadNext ==
  ASSUME CursorInv, Cursor!TaskThread
  PROVE  CursorInv'
<1> USE DEF Cursor!service, Cursor!pending, Cursor!native
<1>1. /\ OnlyMoves("task") /\ "task" \in SyncThreads
      /\ StepsNow["task"] = taskStep /\ StepsNow'["task"] = taskStep'
      /\ UNCHANGED <<uiStep, driverStep>>
  BY DEF Cursor!TaskThread, OnlyMoves, StepsNow, SyncThreads
<1>2. taskStep \in Cursor!Steps /\ Cursor!TypeOK
  BY DEF CursorInv, Cursor!TypeOK
<1>3. CASE Cursor!Schedule(taskStep)
  <2>1. /\ taskStep' \in Cursor!Steps /\ syncQ' \in Seq(Cursor!Services)
        /\ cursor_pending_service' \in Cursor!Services /\ cursor_sync_pending' \in BOOLEAN
    BY <1>2, <1>3, ThreadTyped DEF Cursor!Schedule
  <2>2. Cursor!TypeOK'
    BY <1>1, <1>2, <1>3, <2>1 DEF Cursor!TypeOK, Cursor!Schedule
  <2> QED
    BY <1>1, <1>3, <2>2, ScheduleKeeps DEF Cursor!Schedule
<1>4. CASE Cursor!Post(taskStep)
  <2>1. /\ taskStep' \in Cursor!Steps /\ syncQ' \in Seq(Cursor!Services)
        /\ cursor_pending_service' \in Cursor!Services /\ cursor_sync_pending' \in BOOLEAN
    BY <1>2, <1>4, ThreadTyped DEF Cursor!Post
  <2>2. Cursor!TypeOK'
    BY <1>1, <1>2, <1>4, <2>1 DEF Cursor!TypeOK, Cursor!Post
  <2> QED
    BY <1>1, <1>4, <2>2, PostKeeps DEF Cursor!Post
<1>5. CASE Cursor!Stop(taskStep)
  <2>1. /\ taskStep' \in Cursor!Steps /\ syncQ' \in Seq(Cursor!Services)
        /\ cursor_pending_service' \in Cursor!Services /\ cursor_sync_pending' \in BOOLEAN
    BY <1>2, <1>5, ThreadTyped DEF Cursor!Stop, Cursor!StopHost
  <2>2. Cursor!TypeOK'
    BY <1>1, <1>2, <1>5, <2>1 DEF Cursor!TypeOK, Cursor!Stop, Cursor!StopHost
  <2> QED
    BY <1>1, <1>5, <2>2, StopKeeps DEF Cursor!Stop, Cursor!StopHost
<1> QED
  BY <1>3, <1>4, <1>5 DEF Cursor!TaskThread

(* The host stops, or is stopped, between the steps of every thread. *)
LEMMA StoppedKeeps ==
  ASSUME CursorInv, Cursor!TypeOK', ~running', StepsNow' = StepsNow,
         UNCHANGED <<cursor_service_generation, syncQ, applying>>
  PROVE  CursorInv'
<1>1. "ui" \in SyncThreads /\ OnlyMoves("ui")
  BY DEF SyncThreads, OnlyMoves
<1>2. \/ StepsNow'["ui"] = StepsNow["ui"]
      \/ StepsNow["ui"].pc = "stop" /\ StepsNow'["ui"] = Cursor!Idle
  OBVIOUS
<1> QED
  BY <1>1, <1>2, StopKeeps

LEMMA NextCursor == CursorInv /\ [Cursor!Next]_<<running, cursorVars>> => CursorInv'
<1> SUFFICES ASSUME CursorInv, [Cursor!Next]_<<running, cursorVars>> PROVE CursorInv'
  OBVIOUS
<1>1. Cursor!TypeOK
  BY DEF CursorInv
<1>2. /\ Cursor!Idle \in Cursor!Steps /\ 0 \in Cursor!Services
      /\ Cursor!Step("stop", 0) \in Cursor!Steps /\ Cursor!Step("schedule", 0) \in Cursor!Steps
  BY CursorConstants DEF Cursor!Idle, Cursor!Step, Cursor!Steps, Cursor!Services
<1>3. CASE UNCHANGED <<running, cursorVars>>
  <2>1. UNCHANGED StepsNow
    BY <1>3 DEF StepsNow, cursorVars
  <2>2. Cursor!TypeOK'
    BY <1>1, <1>3 DEF Cursor!TypeOK, cursorVars
  <2>3. MarkExact' <=> MarkExact
    BY <1>3, <2>1 DEF MarkExact, NoTask, OneTask, cursorVars
  <2>4. (Newest' <=> Newest) /\ (TasksOld' <=> TasksOld)
    BY <1>3, <2>1 DEF Newest, TasksOld, cursorVars
  <2> QED
    BY <1>3, <2>1, <2>2, <2>3, <2>4 DEF CursorInv, cursorVars
<1>4. CASE Cursor!shutdown
  <2> USE DEF Cursor!shutdown, Cursor!StopHost, Cursor!service, Cursor!native, Cursor!steps
  <2>1. StepsNow' = StepsNow
    BY <1>4 DEF StepsNow
  <2>2. cursor_pending_service' \in Cursor!Services /\ cursor_sync_pending' \in BOOLEAN
    BY <1>1, <1>2, <1>4 DEF Cursor!TypeOK, Cursor!ClearPending, Cursor!pending
  <2>3. Cursor!TypeOK'
    BY <1>1, <1>4, <2>2 DEF Cursor!TypeOK
  <2>4. /\ ~running' /\ UNCHANGED <<cursor_service_generation, syncQ, applying>>
    BY <1>4
  <2> HIDE DEF Cursor!shutdown, Cursor!StopHost, Cursor!service, Cursor!native, Cursor!steps
  <2> QED
    BY <2>1, <2>3, <2>4, StoppedKeeps
<1>5. CASE Cursor!ReleaseBackend
  <2> USE DEF Cursor!ReleaseBackend, Cursor!pending, Cursor!native, Cursor!steps
  <2>1. StepsNow' = StepsNow
    BY <1>5 DEF StepsNow
  <2>2. Cursor!TypeOK'
    BY <1>1, <1>5 DEF Cursor!TypeOK
  <2>3. /\ ~running' /\ UNCHANGED <<cursor_service_generation, syncQ, applying>>
    BY <1>5
  <2> HIDE DEF Cursor!ReleaseBackend, Cursor!pending, Cursor!native, Cursor!steps
  <2> QED
    BY <2>1, <2>2, <2>3, StoppedKeeps
<1>6. CASE Cursor!BeginSync
  <2> USE DEF Cursor!service, Cursor!pending, Cursor!steps
  <2>1. syncQ' \in Seq(Cursor!Services) /\ Head(syncQ) \in Cursor!Services
    BY <1>1, <1>6 DEF Cursor!TypeOK, Cursor!BeginSync
  <2>2. applying' \in SUBSET Cursor!Call
    BY <1>1, <1>6, <2>1 DEF Cursor!TypeOK, Cursor!BeginSync, Cursor!Call
  <2>3. Cursor!TypeOK'
    BY <1>1, <1>6, <2>1, <2>2 DEF Cursor!TypeOK, Cursor!BeginSync
  <2> QED
    BY <1>6, <2>3, BeginSyncKeeps
<1>7. ASSUME NEW ok \in BOOLEAN, Cursor!EndSync(ok) PROVE CursorInv'
  <2>1. PICK c \in applying :
          /\ applying' = {}
          /\ shown' \in {{c.cursor}, shown} /\ failed' \in {{c.revision}, failed}
          /\ \/ UNCHANGED <<cursor_pending_service, cursor_sync_pending, applied_cursor, taskStep>>
             \/ /\ Cursor!ClearPending
                /\ applied_cursor' \in {{c.cursor}, applied_cursor}
                /\ taskStep' \in {Cursor!Step("schedule", 0), Cursor!Idle}
          /\ UNCHANGED <<running, cursor_backend, cursor_service_generation, desired_cursor,
                         cursor_revision, uiStep, driverStep, syncQ>>
    BY <1>7 DEF Cursor!EndSync, Cursor!pending
  <2>2. {c.cursor} \in SUBSET CursorsUsed /\ {c.revision} \in SUBSET Cursor!Revisions
    BY <1>1 DEF Cursor!TypeOK, Cursor!Call
  <2>3. /\ shown' \in SUBSET CursorsUsed /\ failed' \in SUBSET Cursor!Revisions
        /\ applied_cursor' \in SUBSET CursorsUsed /\ taskStep' \in Cursor!Steps
        /\ cursor_pending_service' \in Cursor!Services /\ cursor_sync_pending' \in BOOLEAN
    BY <1>1, <1>2, <2>1, <2>2 DEF Cursor!TypeOK, Cursor!ClearPending
  <2>4. Cursor!TypeOK'
    BY <1>1, <2>1, <2>3 DEF Cursor!TypeOK
  <2> QED
    BY <1>7, <2>4, EndSyncKeeps
<1>8. ASSUME NEW c \in CursorsUsed, Cursor!set_cursor(c) PROVE CursorInv'
  <2> USE DEF Cursor!service, Cursor!pending, Cursor!native
  <2>1. /\ OnlyMoves("ui") /\ "ui" \in SyncThreads /\ "ui" # "task"
        /\ StepsNow["ui"] = Cursor!Idle
        /\ StepsNow'["ui"] \in {Cursor!Step("stop", 0), Cursor!Step("schedule", 0)}
        /\ uiStep' \in Cursor!Steps
    BY <1>2, <1>8 DEF Cursor!set_cursor, OnlyMoves, StepsNow, SyncThreads
  <2>2. desired_cursor' \in CursorsUsed /\ cursor_revision' \in Cursor!Revisions
    <3>1. cursor_revision # MaxRevision => cursor_revision + 1 \in Cursor!Revisions
      BY <1>1, CursorConstants DEF Cursor!TypeOK, Cursor!Revisions
    <3> QED
      BY <1>1, <1>8, <3>1 DEF Cursor!TypeOK, Cursor!set_cursor, Cursor!RevisionExhausted
  <2>3. Cursor!TypeOK'
    BY <1>1, <1>8, <2>1, <2>2 DEF Cursor!TypeOK, Cursor!set_cursor
  <2> QED
    BY <1>8, <2>1, <2>3, StartKeeps DEF Cursor!set_cursor
<1>9. ASSUME NEW b \in BOOLEAN, Cursor!set_cursor_backend(b) PROVE CursorInv'
  <2> USE DEF Cursor!service, Cursor!pending
  <2>1. /\ OnlyMoves("driver") /\ "driver" \in SyncThreads /\ "driver" # "task"
        /\ StepsNow["driver"] = Cursor!Idle /\ StepsNow'["driver"] = driverStep'
    BY <1>9 DEF Cursor!set_cursor_backend, OnlyMoves, StepsNow, SyncThreads
  <2>2. CASE /\ driverStep' = Cursor!Step("stop", 0)
             /\ UNCHANGED <<Cursor!service, Cursor!pending, shown, failed>>
    <3>1. Cursor!TypeOK'
      BY <1>1, <1>2, <1>9, <2>2 DEF Cursor!TypeOK, Cursor!set_cursor_backend
    <3> QED
      BY <1>9, <2>1, <2>2, <3>1, StartKeeps DEF Cursor!set_cursor_backend
  <2>3. CASE /\ cursor_service_generation # MaxCursorService
             /\ cursor_service_generation' = cursor_service_generation + 1
             /\ cursor_backend' = b
             /\ applied_cursor' = {}
             /\ Cursor!ClearPending
             /\ shown' = {} /\ failed' = {}
             /\ driverStep' = Cursor!Step("schedule", 0)
    <3>1. cursor_service_generation' \in Cursor!Services
      BY <1>1, <2>3, CursorConstants DEF Cursor!TypeOK, Cursor!Services
    <3>2. cursor_pending_service' \in Cursor!Services /\ cursor_sync_pending' \in BOOLEAN
      BY <1>2, <2>3 DEF Cursor!ClearPending
    <3>3. Cursor!TypeOK'
      BY <1>1, <1>2, <1>9, <2>3, <3>1, <3>2 DEF Cursor!TypeOK, Cursor!set_cursor_backend
    <3> QED
      BY <1>9, <2>1, <2>3, <3>3, ReplaceKeeps DEF Cursor!set_cursor_backend
  <2> QED
    BY <1>9, <2>2, <2>3 DEF Cursor!set_cursor_backend
<1> QED
  BY <1>3, <1>4, <1>5, <1>6, <1>7, <1>8, <1>9, UiThreadNext, DriverThreadNext, TaskThreadNext
     DEF Cursor!Next

(* What OneTask and NoTask count. *)
LEMMA Counted ==
  ASSUME NEW s
  PROVE  /\ OneTask(StepsNow, syncQ, applying, s) => Cursor!Tasks(s) = 1
         /\ NoTask(StepsNow, syncQ, applying, s) => Cursor!Tasks(s) = 0
<1>1. DOMAIN Cursor!Threads = SyncThreads /\ \A x \in SyncThreads : Cursor!Threads[x] = StepsNow[x]
  BY DEF Cursor!Threads, SyncThreads, StepsNow
<1>2. {t \in DOMAIN Cursor!Threads : Cursor!Threads[t] = Cursor!Step("post", s)} = Posting(StepsNow, s)
  BY <1>1 DEF Posting
<1>3. \A S : Cursor!Cardinality(S) = Cardinality(S)
  BY Zenon DEF Cursor!Cardinality, Cardinality
<1>4. Cursor!Tasks(s) = Cardinality(Posting(StepsNow, s)) + Cardinality(Waiting(syncQ, s))
                          + Cardinality(Applying(applying, s))
  BY <1>3, <1>2 DEF Cursor!Tasks, Waiting, Applying
<1>5. Cardinality({}) = 0 /\ \A x : Cardinality({x}) = 1
  BY FS_EmptySet, FS_Singleton
<1>6. ASSUME OneTask(StepsNow, syncQ, applying, s) PROVE Cursor!Tasks(s) = 1
  <2> DEFINE P == Posting(StepsNow, s)
             W == Waiting(syncQ, s)
             A == Applying(applying, s)
  <2>1. \/ (\E x : P = {x}) /\ W = {} /\ A = {}
        \/ P = {} /\ (\E i : W = {i}) /\ A = {}
        \/ P = {} /\ W = {} /\ (\E c : A = {c})
    BY <1>6 DEF OneTask
  <2>2. Cursor!Tasks(s) = Cardinality(P) + Cardinality(W) + Cardinality(A)
    BY <1>4
  <2> HIDE DEF P, W, A
  <2>3. \/ Cardinality(P) = 1 /\ Cardinality(W) = 0 /\ Cardinality(A) = 0
        \/ Cardinality(P) = 0 /\ Cardinality(W) = 1 /\ Cardinality(A) = 0
        \/ Cardinality(P) = 0 /\ Cardinality(W) = 0 /\ Cardinality(A) = 1
    BY <1>5, <2>1, Zenon
  <2> QED
    BY <2>2, <2>3
<1>7. ASSUME NoTask(StepsNow, syncQ, applying, s) PROVE Cursor!Tasks(s) = 0
  BY <1>4, <1>5, <1>7 DEF NoTask
<1> QED
  BY <1>6, <1>7

LEMMA CursorAccounted ==
  CursorInv => Cursor!TypeOK /\ Cursor!OneApplyPending /\ Cursor!NewestCursorApplied
<1> SUFFICES ASSUME CursorInv
             PROVE  Cursor!OneApplyPending /\ Cursor!NewestCursorApplied
  BY DEF CursorInv
<1>1. cursor_sync_pending \in BOOLEAN
  BY DEF CursorInv, Cursor!TypeOK
<1>2. Cursor!OneApplyPending
  BY <1>1, Counted DEF CursorInv, MarkExact, Cursor!OneApplyPending
<1>3. DOMAIN Cursor!Threads = SyncThreads /\ \A x \in SyncThreads : Cursor!Threads[x] = StepsNow[x]
  BY DEF Cursor!Threads, SyncThreads, StepsNow
<1>4. Cursor!NewestCursorApplied
  <2>1. {desired_cursor} # {}
    OBVIOUS
  <2> QED
    BY <1>3, <2>1 DEF CursorInv, Newest, Cursor!NewestCursorApplied
<1> QED
  BY <1>2, <1>4

(* Whatever the threads, the backend and a failing executor do, there is   *)
(* one task for the cursor when the mark says so and none otherwise, and   *)
(* the newest cursor is applied, refused or on its way.                    *)
THEOREM NewestCursorKept ==
  Cursor!Init /\ [][Cursor!Next]_<<running, cursorVars>>
    => [](Cursor!TypeOK /\ Cursor!OneApplyPending /\ Cursor!NewestCursorApplied)
BY InitCursor, NextCursor, CursorAccounted, PTL
-----------------------------------------------------------------------------
(***************************************************************************)
(* Both services of one host: they share only `running`, which neither     *)
(* sets again once it is cleared.                                          *)
(***************************************************************************)
ServicesInv ==
  /\ ClipboardInv /\ CursorInv
  /\ explored = "cursor" => holder = Free

LEMMA ClipboardStops ==
  ASSUME Next, running' PROVE running
<1> USE DEF StopWith
<1>1. CASE Holder
  BY <1>1 DEF Holder, PostShutdown, PostRequest, PostCompletion, EraseCompleted, PostCanceled
<1>2. CASE Backend
  BY <1>2 DEF Backend, BackendReturns, BackendThrows, complete_clipboard, state
<1>3. CASE RunRequest \/ DeliverCompletion \/ FinishUiTask \/ ReleaseBackend \/ reset_delegate
  BY <1>3 DEF RunRequest, DeliverCompletion, FinishUiTask, ReleaseBackend, reset_delegate, state
<1>4. CASE shutdown \/ StartRequest \/ bind_delegate \/ \E b \in BOOLEAN : set_clipboard_backend(b)
  BY <1>4 DEF shutdown, StartRequest, bind_delegate, set_clipboard_backend
<1> QED
  BY <1>1, <1>2, <1>3, <1>4 DEF Next

LEMMA CursorStops ==
  ASSUME Cursor!Next, running' PROVE running
<1>1. CASE Cursor!UiThread \/ Cursor!DriverThread \/ Cursor!TaskThread
  BY <1>1 DEF Cursor!UiThread, Cursor!DriverThread, Cursor!TaskThread, Cursor!Schedule, Cursor!Post,
              Cursor!Stop, Cursor!StopHost
<1>2. CASE Cursor!shutdown \/ Cursor!ReleaseBackend \/ Cursor!BeginSync
  BY <1>2 DEF Cursor!shutdown, Cursor!ReleaseBackend, Cursor!BeginSync
<1>3. ASSUME NEW ok \in BOOLEAN, Cursor!EndSync(ok) PROVE running
  BY <1>3 DEF Cursor!EndSync
<1>4. ASSUME NEW c \in CursorsUsed, Cursor!set_cursor(c) PROVE running
  BY <1>4 DEF Cursor!set_cursor
<1>5. ASSUME NEW b \in BOOLEAN, Cursor!set_cursor_backend(b) PROVE running
  BY <1>5 DEF Cursor!set_cursor_backend
<1> QED
  BY <1>1, <1>2, <1>3, <1>4, <1>5 DEF Cursor!Next

(* The clipboard rests, with dispatch_mutex free, while the host may stop. *)
LEMMA ClipboardRests ==
  ASSUME ClipboardInv, holder = Free, running' \in BOOLEAN, running' => running,
         UNCHANGED clipboardVars
  PROVE  ClipboardInv'
<1> USE DEF clipboardVars, tasks, ghosts
<1>1. TypeOK' /\ BackendServed'
  <2>1. TypeOK'
    BY DEF ClipboardInv, TypeOK
  <2> QED
    BY <2>1 DEF ClipboardInv, BackendServed
<1>2. HolderFits'
  <2>1. holder'.pc = "free"
    BY DEF Free
  <2> QED
    BY <2>1 DEF HolderFits
<1>3. StopLast'
  BY DEF ClipboardInv, StopLast
<1>4. Distinct(clipboard_requests)' /\ CarriedOnce(uiQ)'
  BY DEF ClipboardInv
<1>5. ASSUME NEW r \in Request PROVE OneRequest(r)'
  <2>1. OneRequest(r)
    BY DEF ClipboardInv
  <2> QED
    BY <2>1 DEF OneRequest, Took, Answering, Done, In, Carried
<1> QED
  BY <1>1, <1>2, <1>3, <1>4, <1>5 DEF ClipboardInv

(* The cursor service rests. *)
LEMMA CursorRests ==
  ASSUME CursorInv, running' \in BOOLEAN, running' => running, UNCHANGED cursorVars
  PROVE  CursorInv'
<1>1. CASE running'
  <2>1. UNCHANGED <<running, cursorVars>>
    BY <1>1 DEF CursorInv, Cursor!TypeOK
  <2> QED
    BY <2>1, NextCursor
<1>2. CASE ~running'
  <2>1. StepsNow' = StepsNow
    BY DEF StepsNow, cursorVars
  <2>2. Cursor!TypeOK'
    BY DEF CursorInv, Cursor!TypeOK, cursorVars
  <2>3. UNCHANGED <<cursor_service_generation, syncQ, applying>>
    BY DEF cursorVars
  <2> QED
    BY <1>2, <2>1, <2>2, <2>3, StoppedKeeps
<1> QED
  BY <1>1, <1>2

LEMMA NextServices ==
  ServicesInv /\ [ServicesNext]_<<vars, cursorVars, explored>> => ServicesInv'
<1> SUFFICES ASSUME ServicesInv, [ServicesNext]_<<vars, cursorVars, explored>> PROVE ServicesInv'
  OBVIOUS
<1>1. CASE explored = "clipboard" /\ Next /\ UNCHANGED cursorVars /\ UNCHANGED explored
  <2>1. ClipboardInv'
    BY <1>1, NextClipboard DEF ServicesInv
  <2>2. running' \in BOOLEAN
    BY <2>1 DEF ClipboardInv, TypeOK
  <2>3. CursorInv'
    BY <1>1, <2>2, ClipboardStops, CursorRests DEF ServicesInv
  <2> QED
    BY <1>1, <2>1, <2>3 DEF ServicesInv
<1>2. CASE explored = "cursor" /\ Cursor!Next /\ UNCHANGED clipboardVars /\ UNCHANGED explored
  <2>1. CursorInv'
    BY <1>2, NextCursor DEF ServicesInv
  <2>2. running' \in BOOLEAN
    BY <2>1 DEF CursorInv, Cursor!TypeOK
  <2>3. ClipboardInv'
    BY <1>2, <2>2, CursorStops, ClipboardRests DEF ServicesInv
  <2> QED
    BY <1>2, <2>1, <2>3 DEF ServicesInv, clipboardVars
<1>3. CASE UNCHANGED <<vars, cursorVars, explored>>
  <2>1. ClipboardInv' /\ CursorInv'
    <3>1. UNCHANGED <<running, cursorVars>>
      BY <1>3 DEF vars, state
    <3> QED
      BY <1>3, <3>1, NextClipboard, NextCursor DEF ServicesInv
  <2> QED
    BY <1>3, <2>1 DEF ServicesInv, vars
<1> QED
  BY <1>1, <1>2, <1>3 DEF ServicesNext

(* Types, counters within their limits and the exact cursor mark, for both *)
(* services.                                                               *)
THEOREM ServicesTyped == ServicesSpec => []ServicesTypeOK
<1>1. ServicesInit => ServicesInv
  BY InitClipboard, InitCursor DEF ServicesInit, ServicesInv, Init
<1>2. ServicesInv => ServicesTypeOK
  BY ClipboardAccounted, CursorAccounted DEF ServicesInv, ServicesTypeOK
<1> QED
  BY <1>1, <1>2, NextServices, PTL DEF ServicesSpec

(* Nothing either service accepted is forgotten or done twice. *)
THEOREM ServicesKeepAccount == ServicesSpec => []ServicesAccounted
<1>1. ServicesInit => ServicesInv
  BY InitClipboard, InitCursor DEF ServicesInit, ServicesInv, Init
<1>2. ServicesInv => ServicesAccounted
  BY ClipboardAccounted, CursorAccounted DEF ServicesInv, ServicesAccounted
<1> QED
  BY <1>1, <1>2, NextServices, PTL DEF ServicesSpec
=============================================================================
