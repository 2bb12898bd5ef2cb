-------------------------- MODULE ExecutiveProofs ---------------------------
(***************************************************************************)
(* Proofs about Executive, for any number of decisions and any length of the *)
(* queue.                                                                   *)
(*                                                                          *)
(* The climb of an entry is a recursion over the halves of a position: what  *)
(* it computes follows from the least position for which it would not hold.  *)
(* From what a climb is, a push keeps the order of the heap and every entry. *)
(***************************************************************************)
EXTENDS Executive, FiniteSetTheorems, WellFoundedInduction, TLAPS
-----------------------------------------------------------------------------
(* The least element, from the well-founded order of the naturals.           *)

\* A set of naturals that is not empty has a least element.
LEMMA LeastNatural ==
  ASSUME NEW T, T \subseteq Nat, T # {}
  PROVE  \E x \in T : \A y \in T : x <= y
<1> DEFINE R == {p \in Nat \X Nat : p[1] < p[2]}
<1>1. IsWellFoundedOn(R, Nat)
  BY NatLessThanWellFounded, Zenon DEF OpToRel
<1>2. \A x, y \in Nat : y < x => <<y, x>> \in R
  OBVIOUS
<1> HIDE DEF R
<1>3. PICK x \in T : \A y \in T : <<y, x>> \notin R
  BY <1>1, WFMin
<1>4. ASSUME NEW y \in T PROVE x <= y
  <2>1. x \in Nat /\ y \in Nat
    BY <1>3
  <2>2. ~(y < x)
    BY <1>2, <1>3, <2>1, Zenon
  <2> QED
    BY <2>1, <2>2
<1> QED
  BY <1>4

-----------------------------------------------------------------------------
(* The climb.                                                                *)

LEMMA Halves ==
  ASSUME NEW i \in Nat, i > 1
  PROVE  i \div 2 \in Nat /\ i \div 2 >= 1 /\ i \div 2 < i
OBVIOUS

\* What the recursive function in Climb has to be, up to the position n.
Climbs(u, h, e, n) ==
  u = [i \in 1..n |->
         {i} \cup IF i > 1 /\ Before(e, h[i \div 2]) THEN u[i \div 2] ELSE {}]

LEMMA ClimbsExist == \A h, e : \A n \in Nat : \E u : Climbs(u, h, e, n)
<1> SUFFICES ASSUME NEW h, NEW e, NEW n \in Nat, ~ \E u : Climbs(u, h, e, n)
             PROVE  FALSE
  OBVIOUS
<1> DEFINE T == {k \in Nat : ~ \E u : Climbs(u, h, e, k)}
<1>1. PICK m \in T : \A k \in T : m <= k
  <2>1. T \subseteq Nat /\ T # {}
    OBVIOUS
  <2> HIDE DEF T
  <2> QED
    BY <2>1, LeastNatural
<1>2. CASE m = 0
  <2> DEFINE v == [i \in 1..0 |-> {}]
  <2>1. Climbs(v, h, e, 0)
    BY DEF Climbs
  <2> QED
    BY <1>2, <2>1
<1>3. CASE m # 0
  <2>1. m - 1 \in Nat /\ m \in Nat /\ m - 1 \notin T
    BY <1>1, <1>3
  <2>2. PICK u : Climbs(u, h, e, m - 1)
    BY <2>1
  <2> DEFINE v == [i \in 1..m |->
                     IF i < m THEN u[i]
                     ELSE {i} \cup IF i > 1 /\ Before(e, h[i \div 2]) THEN u[i \div 2] ELSE {}]
  <2>3. ASSUME NEW i \in 1..m
        PROVE  v[i] = {i} \cup IF i > 1 /\ Before(e, h[i \div 2]) THEN v[i \div 2] ELSE {}
    <3>1. CASE i > 1
      <4>1. i \div 2 \in 1..(m - 1)
        BY <3>1, <2>1, Halves
      <4> QED
        BY <2>1, <2>2, <4>1 DEF Climbs
    <3>2. CASE i = 1
      BY <2>1, <2>2, <3>2 DEF Climbs
    <3> QED
      BY <3>1, <3>2
  <2>4. Climbs(v, h, e, m)
    BY <2>3 DEF Climbs
  <2> QED
    BY <1>1, <2>4
<1> QED
  BY <1>2, <1>3

LEMMA ClimbIsLast ==
  ASSUME NEW h, Len(h) \in Nat, NEW e
  PROVE  \E u : Climbs(u, h, e, Len(h) + 1) /\ Climb(h, e) = u[Len(h) + 1]
<1> DEFINE u == CHOOSE v : Climbs(v, h, e, Len(h) + 1)
<1>1. Climbs(u, h, e, Len(h) + 1)
  <2>1. Len(h) + 1 \in Nat
    OBVIOUS
  <2>2. \E v : Climbs(v, h, e, Len(h) + 1)
    BY <2>1, ClimbsExist
  <2> QED
    BY <2>2
<1>2. Climb(h, e) = u[Len(h) + 1]
  BY DEF Climb, Climbs
<1> QED
  BY <1>1, <1>2

\* A way up from i: it goes on from k to the half of k exactly while the entry is
\* before what is there, and it ends at its least position.
IsWay(way, h, e, i) ==
  /\ way \subseteq 1..i /\ i \in way
  /\ \A k \in way : IF k > 1 /\ Before(e, h[k \div 2]) THEN k \div 2 \in way
                    ELSE \A m \in way : k <= m
  /\ \A k \in way \ {i} : \E m \in way : m > 1 /\ m \div 2 = k /\ Before(e, h[k])

LEMMA WaysUp ==
  ASSUME NEW h, NEW e, NEW n \in Nat, NEW u, Climbs(u, h, e, n)
  PROVE  \A i \in 1..n : IsWay(u[i], h, e, i)
<1> DEFINE T == {k \in 1..n : ~IsWay(u[k], h, e, k)}
<1> SUFFICES ASSUME T # {} PROVE FALSE
  OBVIOUS
<1>1. PICK i \in T : \A k \in T : i <= k
  <2>1. T \subseteq Nat
    OBVIOUS
  <2> HIDE DEF T
  <2> QED
    BY <2>1, LeastNatural
<1>2. i \in 1..n /\ ~IsWay(u[i], h, e, i) /\ i \in Nat
  OBVIOUS
<1>3. u[i] = {i} \cup IF i > 1 /\ Before(e, h[i \div 2]) THEN u[i \div 2] ELSE {}
  BY <1>2 DEF Climbs
<1>4. CASE ~(i > 1 /\ Before(e, h[i \div 2]))
  <2>1. u[i] = {i}
    BY <1>3, <1>4
  <2> QED
    BY <1>2, <1>4, <2>1 DEF IsWay
<1>5. CASE i > 1 /\ Before(e, h[i \div 2])
  <2> DEFINE j == i \div 2
             rest == u[j]
  <2>1. j \in Nat /\ j >= 1 /\ j < i /\ j \in 1..n
    BY <1>2, <1>5, Halves
  <2>2. IsWay(rest, h, e, j)
    BY <1>1, <1>2, <2>1
  <2>3. u[i] = {i} \cup rest /\ i > 1 /\ Before(e, h[j]) /\ i \div 2 = j
    BY <1>3, <1>5
  <2> HIDE DEF j, rest
  <2>4. j \in rest /\ rest \subseteq 1..j
    BY <2>2 DEF IsWay
  <2>5. u[i] \subseteq 1..i /\ i \in u[i]
    <3>1. 1..j \subseteq 1..i /\ i \in 1..i
      BY <1>2, <2>1
    <3> QED
      BY <2>3, <2>4, <3>1
  <2>6. ASSUME NEW k \in u[i]
        PROVE  IF k > 1 /\ Before(e, h[k \div 2]) THEN k \div 2 \in u[i]
               ELSE \A m \in u[i] : k <= m
    <3>1. CASE k = i
      BY <2>3, <2>4, <3>1
    <3>2. CASE k \in rest
      <4>1. IF k > 1 /\ Before(e, h[k \div 2]) THEN k \div 2 \in rest
            ELSE \A m \in rest : k <= m
        BY <2>2, <3>2 DEF IsWay
      <4>2. k <= i
        BY <1>2, <2>1, <2>4, <3>2
      <4> QED
        BY <2>3, <4>1, <4>2
    <3> QED
      BY <2>3, <3>1, <3>2
  <2>7. ASSUME NEW k \in u[i] \ {i}
        PROVE  \E m \in u[i] : m > 1 /\ m \div 2 = k /\ Before(e, h[k])
    <3>1. CASE k = j
      BY <2>3, <2>5, <3>1
    <3>2. CASE k # j
      <4>1. \E m \in rest : m > 1 /\ m \div 2 = k /\ Before(e, h[k])
        BY <2>2, <2>3, <3>2 DEF IsWay
      <4> QED
        BY <2>3, <4>1
    <3> QED
      BY <3>1, <3>2
  <2> QED
    BY <1>2, <2>5, <2>6, <2>7 DEF IsWay
<1> QED
  BY <1>4, <1>5

\* The way of a pushed entry, and where it ends.
LEMMA ClimbIsWay ==
  ASSUME NEW h, Len(h) \in Nat, NEW e
  PROVE  /\ IsWay(Climb(h, e), h, e, Len(h) + 1)
         /\ Slot(h, e) \in Climb(h, e)
         /\ \A k \in Climb(h, e) : Slot(h, e) <= k
         /\ ~(Slot(h, e) > 1 /\ Before(e, h[Slot(h, e) \div 2]))
<1> DEFINE n == Len(h) + 1
           way == Climb(h, e)
           slot == Slot(h, e)
<1>1. IsWay(way, h, e, n)
  <2>1. PICK u : Climbs(u, h, e, n) /\ way = u[n]
    BY ClimbIsLast
  <2>2. n \in Nat /\ n \in 1..n
    OBVIOUS
  <2> HIDE DEF n, way
  <2>3. \A i \in 1..n : IsWay(u[i], h, e, i)
    BY <2>1, <2>2, WaysUp
  <2> QED
    BY <2>1, <2>2, <2>3
<1>2. way \subseteq 1..n /\ way # {} /\ n \in Nat
  BY <1>1 DEF IsWay
<1>3. \E c \in way : \A k \in way : c <= k
  <2>1. way \subseteq Nat
    BY <1>2
  <2> HIDE DEF way
  <2> QED
    BY <1>2, <2>1, LeastNatural
<1>4. slot \in way /\ \A k \in way : slot <= k
  <2> HIDE DEF way
  <2>1. slot = CHOOSE c \in way : \A k \in way : c <= k
    BY DEF Slot, Min, way
  <2> HIDE DEF slot
  <2> QED
    BY <1>3, <2>1
<1> HIDE DEF way, slot, n
<1>5. ~(slot > 1 /\ Before(e, h[slot \div 2]))
  <2> SUFFICES ASSUME slot > 1, Before(e, h[slot \div 2]) PROVE FALSE
    OBVIOUS
  <2>1. slot \div 2 \in way
    BY <1>1, <1>4 DEF IsWay
  <2>2. slot \in Nat
    BY <1>2, <1>4
  <2>3. slot \div 2 < slot /\ slot \div 2 \in Nat
    BY <2>2, Halves
  <2> QED
    BY <1>4, <2>1, <2>2, <2>3
<1> QED
  BY <1>1, <1>4, <1>5 DEF way, slot, n
-----------------------------------------------------------------------------
(* What a push does to the heap.                                             *)

\* Before orders the entries by two numbers.
LEMMA BeforeOrders ==
  ASSUME NEW e \in Entries, NEW f \in Entries, NEW g \in Entries
  PROVE  /\ Before(e, f) => ~Before(f, e)
         /\ ~Before(e, f) /\ ~Before(f, g) => ~Before(e, g)
         /\ ~Before(e, f) /\ Before(g, f) => ~Before(e, g)
BY DEF Before, Entries

\* Every entry comes no earlier than its parent.
Ordered(h) == \A k \in 2..Len(h) : ~Before(h[k], h[k \div 2])

LEMMA PushIs ==
  ASSUME NEW h \in Seq(Entries), NEW e \in Entries
  PROVE  /\ Push(h, e) \in Seq(Entries) /\ Len(Push(h, e)) = Len(h) + 1
         /\ \A k \in 1..Len(h) + 1 :
              Push(h, e)[k] = IF k = Slot(h, e) THEN e
                              ELSE IF k \in Climb(h, e) THEN h[k \div 2] ELSE h[k]
<1> DEFINE n == Len(h) + 1
           g == Push(h, e)
<1>1. /\ IsWay(Climb(h, e), h, e, n) /\ Slot(h, e) \in Climb(h, e)
      /\ \A k \in Climb(h, e) : Slot(h, e) <= k
  BY ClimbIsWay
<1>2. g = [k \in 1..n |-> IF k = Slot(h, e) THEN e
                          ELSE IF k \in Climb(h, e) THEN h[k \div 2] ELSE h[k]]
  BY DEF Push
<1>3. n \in Nat /\ n = Len(h) + 1 /\ \A k \in 1..Len(h) : h[k] \in Entries
  OBVIOUS
<1> HIDE DEF n, g
<1>4. ASSUME NEW k \in 1..n PROVE g[k] \in Entries
  <2>1. CASE k = Slot(h, e)
    BY <1>2, <2>1
  <2>2. CASE k # Slot(h, e) /\ k \in Climb(h, e)
    <3>1. k > 1
      BY <1>1, <1>3, <2>2 DEF IsWay
    <3>2. k \div 2 \in 1..Len(h)
      BY <1>3, <3>1, Halves
    <3> QED
      BY <1>2, <1>3, <2>2, <3>2
  <2>3. CASE k \notin Climb(h, e)
    <3>1. k # n
      BY <1>1, <2>3 DEF IsWay
    <3> QED
      BY <1>1, <1>2, <1>3, <2>3, <3>1
  <2> QED
    BY <2>1, <2>2, <2>3
<1>5. g \in [1..n -> Entries]
  BY <1>2, <1>4
<1>6. g \in Seq(Entries) /\ Len(g) = n
  BY <1>3, <1>5
<1> QED
  BY <1>2, <1>3, <1>6 DEF n, g

\* A push keeps the order, whether or not two entries could not be compared.
LEMMA PushOrders ==
  ASSUME NEW h \in Seq(Entries), NEW e \in Entries, Ordered(h)
  PROVE  Ordered(Push(h, e))
<1> DEFINE n == Len(h) + 1
           g == Push(h, e)
           way == Climb(h, e)
           slot == Slot(h, e)
<1>1. /\ IsWay(way, h, e, n) /\ slot \in way /\ \A k \in way : slot <= k
      /\ ~(slot > 1 /\ Before(e, h[slot \div 2]))
  BY ClimbIsWay
<1>2. /\ g \in Seq(Entries) /\ Len(g) = n
      /\ \A k \in 1..n : g[k] = IF k = slot THEN e
                              ELSE IF k \in way THEN h[k \div 2] ELSE h[k]
  BY PushIs
<1>3. n \in Nat /\ n = Len(h) + 1 /\ \A k \in 1..Len(h) : h[k] \in Entries
  OBVIOUS
<1> HIDE DEF n, g, way, slot
<1>4. way \subseteq 1..n /\ n \in way
  BY <1>1 DEF IsWay
<1>5. ASSUME NEW k \in way, k # slot
      PROVE  k > 1 /\ k \div 2 \in way /\ Before(e, h[k \div 2])
  <2>1. ~(\A m \in way : k <= m)
    BY <1>1, <1>3, <1>4, <1>5
  <2> QED
    BY <1>1, <2>1 DEF IsWay
<1>6. ASSUME NEW k \in 2..n PROVE ~Before(g[k], g[k \div 2])
  <2> DEFINE p == k \div 2
  <2>1. p \in 1..Len(h) /\ p < k /\ p \in 1..n /\ k \in 1..n
    BY <1>3, Halves
  <2> HIDE DEF p
  <2>2. CASE k = slot
    <3>1. p \notin way
      BY <1>1, <1>4, <2>1, <2>2
    <3>2. g[p] = h[p] /\ g[k] = e
      BY <1>1, <1>2, <2>1, <2>2, <3>1
    <3> QED
      BY <1>1, <2>2, <3>2 DEF p
  <2>3. CASE k # slot /\ k \in way
    <3>1. p \in way /\ Before(e, h[p]) /\ g[k] = h[p]
      BY <1>2, <1>5, <2>1, <2>3 DEF p
    <3>2. CASE p = slot
      BY <1>2, <1>3, <2>1, <3>1, <3>2, BeforeOrders DEF p
    <3>3. CASE p # slot
      <4>1. p > 1 /\ g[p] = h[p \div 2]
        BY <1>2, <1>5, <2>1, <3>1, <3>3
      <4>2. p \in 2..Len(h)
        BY <2>1, <4>1
      <4> QED
        BY <3>1, <4>1, <4>2 DEF Ordered, p
    <3> QED
      BY <3>2, <3>3
  <2>4. CASE k \notin way
    <3>1. k # n /\ k \in 2..Len(h) /\ k # slot
      BY <1>1, <1>3, <1>4, <2>4
    <3>2. g[k] = h[k] /\ ~Before(h[k], h[p]) /\ h[k] \in Entries /\ h[p] \in Entries
      BY <1>2, <1>3, <2>1, <2>4, <3>1 DEF Ordered, p
    <3>3. CASE p \notin way
      <4>1. g[p] = h[p]
        BY <1>1, <1>2, <2>1, <3>3
      <4> QED
        BY <3>2, <4>1 DEF p
    <3>4. CASE p = slot
      <4>1. p # n
        BY <1>3, <2>1
      <4>2. Before(e, h[p])
        BY <1>1, <3>4, <4>1 DEF IsWay
      <4>3. g[p] = e
        BY <1>2, <2>1, <3>4
      <4> QED
        BY <3>2, <4>2, <4>3, BeforeOrders DEF p
    <3>5. CASE p \in way /\ p # slot
      <4>1. p > 1 /\ g[p] = h[p \div 2]
        BY <1>2, <1>5, <2>1, <3>5
      <4>2. p \in 2..Len(h) /\ p \div 2 \in 1..Len(h)
        BY <2>1, <4>1, Halves
      <4>3. ~Before(h[p], h[p \div 2]) /\ h[p \div 2] \in Entries
        BY <1>3, <4>2 DEF Ordered
      <4>4. ~Before(h[k], h[p \div 2])
        BY <3>2, <4>3, BeforeOrders
      <4> QED
        BY <3>2, <4>1, <4>4 DEF p
    <3> QED
      BY <3>3, <3>4, <3>5
  <2> QED
    BY <2>2, <2>3, <2>4
<1>7. Ordered(g)
  BY <1>2, <1>6 DEF Ordered
<1> QED
  BY <1>7 DEF g

\* The entries of a heap that are of one decision.
EntriesOf(h, d) == {k \in 1..Len(h) : h[k].decision = d}

\* A push keeps every entry and adds the new one: each old entry is found at its
\* place, or one below it on the way.
LEMMA PushAdds ==
  ASSUME NEW h \in Seq(Entries), NEW e \in Entries, NEW d
  PROVE  /\ Cardinality(EntriesOf(h, d)) \in Nat
         /\ Cardinality(EntriesOf(Push(h, e), d)) \in Nat
         /\ Cardinality(EntriesOf(Push(h, e), d))
              >= Cardinality(EntriesOf(h, d)) + (IF e.decision = d THEN 1 ELSE 0)
<1> DEFINE n == Len(h) + 1
           g == Push(h, e)
           way == Climb(h, e)
           slot == Slot(h, e)
<1>1. IsWay(way, h, e, n) /\ slot \in way /\ \A k \in way : slot <= k
  BY ClimbIsWay
<1>2. /\ Len(g) = n
      /\ \A k \in 1..n : g[k] = IF k = slot THEN e
                              ELSE IF k \in way THEN h[k \div 2] ELSE h[k]
  BY PushIs
<1>3. n \in Nat /\ n = Len(h) + 1 /\ Len(h) \in Nat
  OBVIOUS
<1> HIDE DEF n, g, way, slot
<1>4. way \subseteq 1..n /\ n \in way
  BY <1>1 DEF IsWay
<1> DEFINE T == EntriesOf(h, d)
           U == EntriesOf(g, d)
           S == U \ {slot}
           old == [k \in S |-> IF k \in way THEN k \div 2 ELSE k]
<1>5. ASSUME NEW k \in S PROVE old[k] \in T
  <2>1. k \in 1..n /\ k # slot /\ g[k].decision = d
    BY <1>2 DEF EntriesOf
  <2>2. CASE k \in way
    <3>1. k > 1
      BY <1>1, <1>4, <2>1, <2>2
    <3>2. k \div 2 \in 1..Len(h)
      BY <1>3, <2>1, <3>1, Halves
    <3> QED
      BY <1>2, <2>1, <2>2, <3>2 DEF EntriesOf
  <2>3. CASE k \notin way
    <3>1. k \in 1..Len(h)
      BY <1>3, <1>4, <2>1, <2>3
    <3> QED
      BY <1>2, <2>1, <2>3, <3>1 DEF EntriesOf
  <2> QED
    BY <2>2, <2>3
<1>6. ASSUME NEW j \in T PROVE \E k \in S : old[k] = j
  <2>1. j \in 1..Len(h) /\ h[j].decision = d /\ j \in 1..n /\ j # n
    BY <1>3 DEF EntriesOf
  <2>2. CASE j \notin way
    <3>1. g[j] = h[j] /\ j # slot
      BY <1>1, <1>2, <2>1, <2>2
    <3>2. j \in S
      BY <1>2, <2>1, <3>1 DEF EntriesOf
    <3> QED
      BY <2>2, <3>2
  <2>3. CASE j \in way
    <3>1. PICK m \in way : m > 1 /\ m \div 2 = j
      BY <1>1, <2>1, <2>3 DEF IsWay
    <3>2. m \in 1..n /\ m # slot
      BY <1>1, <1>4, <2>3, <3>1, Halves
    <3>3. g[m] = h[j]
      BY <1>2, <3>1, <3>2
    <3>4. m \in S
      BY <1>2, <2>1, <3>2, <3>3 DEF EntriesOf
    <3> QED
      BY <3>1, <3>4
  <2> QED
    BY <2>2, <2>3
<1>7. old \in Surjection(S, T)
  <2> HIDE DEF S, T
  <2>1. old \in [S -> T]
    BY <1>5
  <2> HIDE DEF old
  <2> QED
    BY <1>6, <2>1 DEF Surjection
<1>8. IsFiniteSet(U) /\ IsFiniteSet(S)
  <2>1. IsFiniteSet(1..n)
    BY <1>3, FS_Interval
  <2>2. U \subseteq 1..n
    BY <1>2 DEF EntriesOf
  <2>3. S \subseteq U
    OBVIOUS
  <2> HIDE DEF U, S
  <2> QED
    BY <2>1, <2>2, <2>3, FS_Subset
<1>9. slot \in U <=> e.decision = d
  BY <1>1, <1>2, <1>4 DEF EntriesOf
<1> HIDE DEF T, U, old
<1>10. Cardinality(S) = IF slot \in U THEN Cardinality(U) - 1 ELSE Cardinality(U)
  BY <1>8, FS_RemoveElement
<1> HIDE DEF S
<1>11. IsFiniteSet(T) /\ Cardinality(T) <= Cardinality(S)
  BY <1>7, <1>8, FS_Surjection
<1>12. Cardinality(T) \in Nat /\ Cardinality(U) \in Nat /\ Cardinality(S) \in Nat
  BY <1>8, <1>11, FS_CardinalityType
<1>13. Cardinality(U) >= Cardinality(T) + (IF e.decision = d THEN 1 ELSE 0)
  BY <1>9, <1>10, <1>11, <1>12
<1> QED
  BY <1>12, <1>13 DEF T, U, g
-----------------------------------------------------------------------------
(* Every variable keeps its type.                                            *)

LEMMA TypeInit == Init => TypeOK
BY BoundsAssumption DEF Init, TypeOK

\* A decision that is found was made.
LEMMA EntryType ==
  ASSUME TypeOK, NEW d \in 1..sequence
  PROVE  Entry(d) \in Entries /\ Entry(d).decision = d
<1>1. record[d] \in Decisions
  BY DEF TypeOK
<1>2. record[d].priority \in 0..100
  BY <1>1, PrioritiesAssumption DEF Decisions
<1>3. 100 - record[d].priority \in 0..100
  BY <1>2
<1>4. sequence \in Nat /\ d \in Nat
  BY BoundsAssumption DEF TypeOK
<1> QED
  BY <1>3, <1>4 DEF Entry, Entries

LEMMA LatestType ==
  ASSUME NEW S, NEW s \in Seq(S)
  PROVE  Latest(s) \in Seq(S) /\ Len(Latest(s)) <= MaxHistory
<1> DEFINE n == Len(s)
<1>1. n \in Nat /\ MaxHistory \in Nat /\ MaxHistory > 0
  BY BoundsAssumption
<1>2. CASE n <= MaxHistory
  BY <1>2 DEF Latest
<1>3. CASE n > MaxHistory
  <2>1. Latest(s) = SubSeq(s, n - MaxHistory + 1, n)
    BY <1>1, <1>3 DEF Latest
  <2>2. n - MaxHistory + 1 \in 1..n
    BY <1>1, <1>3
  <2>3. \A k \in (n - MaxHistory + 1)..n : s[k] \in S
    BY <1>1, <2>2
  <2>4. /\ SubSeq(s, n - MaxHistory + 1, n) \in Seq(S)
        /\ Len(SubSeq(s, n - MaxHistory + 1, n)) = MaxHistory
    BY <1>1, <1>3, <2>2, <2>3
  <2> QED
    BY <1>1, <2>1, <2>4
<1> QED
  BY <1>1, <1>2, <1>3

LEMMA DecideType ==
  ASSUME TypeOK, NEW action \in Actions, NEW priority \in Priorities, NEW override,
         Decide(action, priority, override)
  PROVE  TypeOK'
<1>1. sequence' \in 0..MaxDecisions /\ sequence' = sequence + 1 /\ sequence \in Nat
  BY BoundsAssumption DEF Decide, TypeOK
<1>2. record' \in Seq(Decisions) /\ Len(record') = sequence'
  <2>1. PICK decision \in Decisions : record' = Append(record, decision)
    <3> DEFINE required == IF override = "none" THEN action \in HighImpact ELSE override = "yes"
    <3>1. required \in BOOLEAN
      <4>1. (action \in HighImpact) \in BOOLEAN /\ (override = "yes") \in BOOLEAN
        OBVIOUS
      <4>2. CASE override = "none"
        BY <4>1, <4>2
      <4>3. CASE override # "none"
        BY <4>1, <4>3
      <4> QED
        BY <4>2, <4>3
    <3> HIDE DEF required
    <3>2. [action |-> action, priority |-> priority, approval_required |-> required,
           approved |-> ~required] \in Decisions
      BY <3>1 DEF Decisions
    <3> QED
      BY <3>2 DEF Decide, required
  <2> QED
    BY <1>1, <2>1 DEF TypeOK
<1>3. decisions' \in Seq(1..sequence') /\ Len(decisions') <= MaxHistory
  <2>1. Append(decisions, sequence') \in Seq(1..sequence')
    BY <1>1 DEF TypeOK
  <2> QED
    BY <2>1, LatestType DEF Decide
<1>4. answered' \in Seq(Nat) /\ Len(answered') = sequence'
  BY <1>1 DEF Decide, TypeOK
<1> QED
  BY <1>1, <1>2, <1>3, <1>4 DEF Decide, TypeOK

LEMMA TypeStep == TypeOK /\ [Next]_vars => TypeOK'
<1> SUFFICES ASSUME TypeOK, [Next]_vars PROVE TypeOK'
  OBVIOUS
<1>1. ASSUME NEW action \in Actions, NEW priority \in Priorities,
             NEW override \in {"none", "yes", "no"}, Decide(action, priority, override)
      PROVE  TypeOK'
  BY <1>1, DecideType
<1>2. ASSUME NEW d \in 1..sequence, Approve(d) PROVE TypeOK'
  <2>1. record' \in Seq(Decisions) /\ Len(record') = Len(record)
    <3>1. record \in Seq(Decisions) /\ d \in 1..Len(record)
      BY DEF TypeOK
    <3>2. \A r \in Decisions : [r EXCEPT !.approved = TRUE] \in Decisions
      BY DEF Decisions
    <3>3. record' = [record EXCEPT ![d] = [record[d] EXCEPT !.approved = TRUE]]
      BY <1>2 DEF Approve
    <3> QED
      BY <3>1, <3>2, <3>3
  <2> QED
    BY <1>2, <2>1 DEF Approve, TypeOK
<1>3. ASSUME NEW d \in 1..sequence, Dispatch(d) PROVE TypeOK'
  <2>1. queue' \in Seq(Entries)
    BY <1>3, EntryType, PushIs DEF Dispatch, TypeOK
  <2>2. answered' \in Seq(Nat) /\ Len(answered') = Len(answered)
    BY <1>3 DEF Dispatch, TypeOK
  <2> QED
    BY <1>3, <2>1, <2>2 DEF Dispatch, TypeOK
<1>4. CASE UNCHANGED vars
  BY <1>4 DEF vars, TypeOK
<1> QED
  BY <1>1, <1>2, <1>3, <1>4 DEF Next

\* The decisions, the history, the queue and the answers keep their types.
THEOREM TypeCorrect == Spec => []TypeOK
BY TypeInit, TypeStep, PTL DEF Spec
-----------------------------------------------------------------------------
(* The queue.                                                                *)

LEMMA OrderedStep == TypeOK /\ Ordered(queue) /\ [Next]_vars => Ordered(queue')
<1> SUFFICES ASSUME TypeOK, Ordered(queue), [Next]_vars PROVE Ordered(queue')
  OBVIOUS
<1>1. CASE UNCHANGED queue
  BY <1>1
<1>2. ASSUME NEW d \in 1..sequence, Dispatch(d) PROVE Ordered(queue')
  <2>1. queue \in Seq(Entries) /\ Entry(d) \in Entries
    BY EntryType DEF TypeOK
  <2> QED
    BY <1>2, <2>1, PushOrders DEF Dispatch
<1> QED
  BY <1>1, <1>2 DEF Next, Decide, Approve, vars

\* The queue is a heap after any sequence of pushes, those that raised TypeError
\* on the way included: no entry comes before its parent.
THEOREM QueueOrdered == Spec => []HeapOrdered
<1>1. Init => Ordered(queue)
  BY DEF Init, Ordered
<1>2. Ordered(queue) <=> HeapOrdered
  BY DEF Ordered, HeapOrdered
<1>3. HeapOrdered /\ TypeOK /\ [Next]_vars => HeapOrdered'
  BY <1>2, OrderedStep DEF Ordered, HeapOrdered
<1> QED
  BY <1>1, <1>2, <1>3, TypeCorrect, PTL DEF Spec

LEMMA QueuedInit == Init => AnsweredIsQueued
BY DEF Init, AnsweredIsQueued

LEMMA QueuedStep ==
  ASSUME TypeOK, AnsweredIsQueued, [Next]_vars
  PROVE  AnsweredIsQueued'
<1> DEFINE Count(h, d) == Cardinality(EntriesOf(h, d))
<1>1. \A d : Cardinality(Queued(d)) = Count(queue, d)
  BY DEF Queued, EntriesOf
<1>2. \A d : Cardinality(Queued(d))' = Count(queue', d)
  BY DEF Queued, EntriesOf
<1>3. \A d \in 1..sequence : Count(queue, d) >= answered[d]
  BY <1>1 DEF AnsweredIsQueued
<1>4. /\ sequence \in Nat /\ queue \in Seq(Entries) /\ answered \in Seq(Nat)
      /\ Len(answered) = sequence
  BY BoundsAssumption DEF TypeOK
<1>5. ASSUME NEW d PROVE Count(queue, d) \in Nat
  <2>1. IsFiniteSet(1..Len(queue)) /\ EntriesOf(queue, d) \subseteq 1..Len(queue)
    BY <1>4, FS_Interval DEF EntriesOf
  <2>2. IsFiniteSet(EntriesOf(queue, d))
    BY <2>1, FS_Subset
  <2> QED
    BY <2>2, FS_CardinalityType
<1> SUFFICES ASSUME NEW d \in 1..sequence' PROVE Count(queue', d) >= answered'[d]
  BY <1>2 DEF AnsweredIsQueued
<1> HIDE DEF Count
<1>6. ASSUME NEW action \in Actions, NEW priority \in Priorities,
             NEW override \in {"none", "yes", "no"}, Decide(action, priority, override)
      PROVE  Count(queue', d) >= answered'[d]
  <2>1. sequence' = sequence + 1 /\ answered' = Append(answered, 0) /\ queue' = queue
    BY <1>6 DEF Decide
  <2>2. CASE d = sequence + 1
    BY <1>4, <1>5, <2>1, <2>2
  <2>3. CASE d # sequence + 1
    BY <1>3, <1>4, <2>1, <2>3
  <2> QED
    BY <2>2, <2>3
<1>7. ASSUME NEW c \in 1..sequence, Dispatch(c)
      PROVE  Count(queue', d) >= answered'[d]
  <2>1. /\ queue' = Push(queue, Entry(c)) /\ sequence' = sequence
        /\ answered' = answered \/ answered' = [answered EXCEPT ![c] = @ + 1]
    BY <1>7 DEF Dispatch
  <2>2. Entry(c) \in Entries /\ Entry(c).decision = c
    BY EntryType
  <2>3. /\ Count(queue', d) \in Nat
        /\ Count(queue', d) >= Count(queue, d) + (IF d = c THEN 1 ELSE 0)
    BY <1>4, <2>1, <2>2, PushAdds DEF Count
  <2>4. answered'[d] <= answered[d] + (IF d = c THEN 1 ELSE 0) /\ answered[d] \in Nat
        /\ answered'[d] \in Nat
    <3>1. d \in 1..Len(answered) /\ c \in 1..Len(answered) /\ answered[d] \in Nat
      BY <1>4, <2>1
    <3>2. CASE answered' = answered
      BY <3>1, <3>2
    <3>3. CASE answered' = [answered EXCEPT ![c] = @ + 1]
      <4>1. answered'[d] = IF d = c THEN answered[d] + 1 ELSE answered[d]
        BY <1>4, <3>1, <3>3
      <4> QED
        BY <3>1, <4>1
    <3> QED
      BY <2>1, <3>2, <3>3
  <2> QED
    BY <1>3, <1>5, <2>1, <2>3, <2>4
<1>8. ASSUME UNCHANGED <<sequence, queue, answered>>
      PROVE  Count(queue', d) >= answered'[d]
  BY <1>3, <1>8
<1> QED
  BY <1>6, <1>7, <1>8 DEF Next, Approve, vars

\* A decision whose dispatch was answered ok is in the queue, at least once for
\* every answer: no later push loses an entry.
THEOREM AnsweredQueued == Spec => []AnsweredIsQueued
<1>1. TypeOK /\ AnsweredIsQueued /\ [Next]_vars => AnsweredIsQueued'
  BY QueuedStep
<1> QED
  BY <1>1, QueuedInit, TypeCorrect, PTL DEF Spec
=============================================================================
