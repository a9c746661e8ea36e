-------------------------- MODULE CoordinatorProofs --------------------------
(***************************************************************************)
(* Proofs about Coordinator, for every number of runs, sessions, slots and *)
(* ceilings: its invariants, what a started call may rely on, that it      *)
(* implements the admission contract of module Admission, and how fair the *)
(* rotation between the sessions is.                                       *)
(*                                                                         *)
(* The invariant speaks of a state of the object, Good(s), because the     *)
(* loop of #pump passes through states between two steps.  One turn of the *)
(* loop keeps it and moves one run (PumpOneStep); the whole loop is the    *)
(* iteration of its turns, by induction over their number (PumpEffect).    *)
(***************************************************************************)
EXTENDS CoordinatorRotation, FiniteSetTheorems, SequenceTheorems, WellFoundedInduction, TLAPS

-----------------------------------------------------------------------------
(* Induction and iteration.  The induction theorems of the library take    *)
(* the property as an operator; these take a set, and follow from the      *)
(* well-foundedness of the naturals.                                       *)

\* Every non-empty set of naturals has a least element.
LEMMA LeastNatural ==
  ASSUME NEW T \in SUBSET Nat, T # {}
  PROVE  \E x \in T : \A y \in T : ~(y < x)
<1> DEFINE R == OpToRel(<, Nat)
<1>1. IsWellFoundedOn(R, Nat)
  BY NatLessThanWellFounded
<1>2. \A x, y \in Nat : y < x => <<y, x>> \in R
  BY Zenon DEF OpToRel
<1> HIDE DEF R
<1>3. PICK x \in T : \A y \in T : <<y, x>> \notin R
  BY <1>1, WFMin
<1>4. QED
  BY <1>2, <1>3

\* Induction over the naturals, for a set of numbers.
LEMMA SetInduction ==
  ASSUME NEW S, 0 \in S, \A n \in Nat : n \in S => n + 1 \in S
  PROVE  \A n \in Nat : n \in S
<1> DEFINE T == Nat \ S
<1>1. SUFFICES ASSUME T # {} PROVE FALSE
  OBVIOUS
<1>2. PICK x \in T : \A y \in T : ~(y < x)
  BY <1>1, LeastNatural
<1>3. x \in Nat /\ x # 0 /\ x \notin S
  BY <1>2
<1>4. x - 1 \in Nat /\ x - 1 < x /\ (x - 1) + 1 = x
  BY <1>3
<1>5. x - 1 \in S
  BY <1>2, <1>4
<1>6. QED
  BY <1>3, <1>4, <1>5

\* h lists the first n iterates of G from x.
IteratesUpto(G, X, x, n, h) ==
  /\ h \in [0..n -> X] /\ h[0] = x
  /\ \A i \in 0..n : i + 1 \in 0..n => h[i + 1] = G[h[i]]

\* Lists of iterates exist, for every length ...
LEMMA IteratesExist ==
  ASSUME NEW X, NEW G \in [X -> X], NEW x \in X, NEW n \in Nat
  PROVE  \E h : IteratesUpto(G, X, x, n, h)
<1> DEFINE S == {m \in Nat : \E h : IteratesUpto(G, X, x, m, h)}
<1>1. 0 \in S
  <2> DEFINE h == [i \in 0..0 |-> x]
  <2>1. IteratesUpto(G, X, x, 0, h)
    BY DEF IteratesUpto
  <2>2. QED
    BY <2>1
<1>2. ASSUME NEW m \in Nat, m \in S PROVE m + 1 \in S
  <2>1. PICK g : IteratesUpto(G, X, x, m, g)
    BY <1>2
  <2> DEFINE h == [i \in 0..(m + 1) |-> IF i = m + 1 THEN G[g[m]] ELSE g[i]]
  <2>2. g[m] \in X /\ G[g[m]] \in X
    BY <2>1 DEF IteratesUpto
  <2>3. h \in [0..(m + 1) -> X] /\ h[0] = x
    BY <2>1, <2>2 DEF IteratesUpto
  <2>4. ASSUME NEW i \in 0..(m + 1), i + 1 \in 0..(m + 1) PROVE h[i + 1] = G[h[i]]
    BY <2>1, <2>4 DEF IteratesUpto
  <2>5. IteratesUpto(G, X, x, m + 1, h)
    BY <2>3, <2>4 DEF IteratesUpto
  <2>6. QED
    BY <2>5
<1> HIDE DEF S
<1>3. n \in S
  BY <1>1, <1>2, SetInduction
<1>4. QED
  BY <1>3 DEF S

\* ... and a longer one agrees with a shorter one.
LEMMA IteratesAgree ==
  ASSUME NEW X, NEW G \in [X -> X], NEW x \in X, NEW n \in Nat, NEW m \in Nat, n <= m,
         NEW g, NEW h, IteratesUpto(G, X, x, n, g), IteratesUpto(G, X, x, m, h)
  PROVE  g[n] = h[n]
<1> DEFINE S == {k \in Nat : k <= n => g[k] = h[k]}
<1>1. 0 \in S
  BY DEF IteratesUpto
<1>2. ASSUME NEW k \in Nat, k \in S PROVE k + 1 \in S
  <2>1. SUFFICES ASSUME k + 1 <= n PROVE g[k + 1] = h[k + 1]
    OBVIOUS
  <2>2. g[k + 1] = G[g[k]] /\ h[k + 1] = G[h[k]]
    BY <2>1 DEF IteratesUpto
  <2>3. QED
    BY <1>2, <2>1, <2>2
<1> HIDE DEF S
<1>3. n \in S
  BY <1>1, <1>2, SetInduction
<1>4. QED
  BY <1>3 DEF S

\* A function on a set can be iterated without end.
Iterates(G, X, x, h) == h \in [Nat -> X] /\ h[0] = x /\ \A n \in Nat : h[n + 1] = G[h[n]]

LEMMA Iteration ==
  ASSUME NEW X, NEW G \in [X -> X], NEW x \in X
  PROVE  \E h : Iterates(G, X, x, h)
<1> DEFINE part == [n \in Nat |-> CHOOSE h : IteratesUpto(G, X, x, n, h)]
           all == [n \in Nat |-> part[n][n]]
<1>1. \A n \in Nat : IteratesUpto(G, X, x, n, part[n])
  BY IteratesExist
<1> HIDE DEF part
<1>2. all \in [Nat -> X] /\ all[0] = x
  BY <1>1 DEF IteratesUpto
<1>3. ASSUME NEW n \in Nat PROVE all[n + 1] = G[all[n]]
  <2>1. part[n][n] = part[n + 1][n]
    BY <1>1, IteratesAgree
  <2>2. part[n + 1][n + 1] = G[part[n + 1][n]]
    BY <1>1 DEF IteratesUpto
  <2>3. QED
    BY <2>1, <2>2
<1>4. Iterates(G, X, x, all)
  BY <1>2, <1>3 DEF Iterates
<1>5. QED
  BY <1>4

-----------------------------------------------------------------------------
(* Lists that hold each element of a set once: the queues and their order. *)

Lists(q, T) == q \in Seq(T) /\ IsInjective(q) /\ ToSet(q) = T

LEMMA ListsDef ==
  ASSUME NEW T, NEW q
  PROVE  Lists(q, T) <=> /\ Len(q) \in Nat /\ q \in [1..Len(q) -> T] /\ q \in Seq(T)
                         /\ \A i, j \in 1..Len(q) : q[i] = q[j] => i = j
                         /\ \A x \in T : \E i \in 1..Len(q) : q[i] = x
<1>1. ASSUME Lists(q, T)
      PROVE  /\ Len(q) \in Nat /\ q \in [1..Len(q) -> T] /\ q \in Seq(T)
             /\ \A i, j \in 1..Len(q) : q[i] = q[j] => i = j
             /\ \A x \in T : \E i \in 1..Len(q) : q[i] = x
  <2>1. Len(q) \in Nat /\ q \in [1..Len(q) -> T] /\ DOMAIN q = 1..Len(q)
    BY <1>1, LenProperties DEF Lists
  <2>2. \A x \in T : \E i \in DOMAIN q : q[i] = x
    BY <1>1 DEF Lists, ToSet
  <2>3. \A i, j \in DOMAIN q : q[i] = q[j] => i = j
    BY <1>1 DEF Lists, IsInjective
  <2>4. QED
    BY <1>1, <2>1, <2>2, <2>3 DEF Lists
<1>2. ASSUME Len(q) \in Nat, q \in [1..Len(q) -> T], q \in Seq(T),
             \A i, j \in 1..Len(q) : q[i] = q[j] => i = j,
             \A x \in T : \E i \in 1..Len(q) : q[i] = x
      PROVE  Lists(q, T)
  <2>1. DOMAIN q = 1..Len(q)
    BY <1>2
  <2>2. ToSet(q) = T
    BY <1>2, <2>1 DEF ToSet
  <2>3. IsInjective(q)
    BY <1>2, <2>1 DEF IsInjective
  <2>4. QED
    BY <1>2, <2>2, <2>3 DEF Lists
<1>3. QED
  BY <1>1, <1>2

LEMMA ListsEmpty ==
  ASSUME NEW T, NEW q, Lists(q, T)
  PROVE  q = <<>> <=> T = {}
<1>1. q = <<>> <=> Len(q) = 0
  BY ListsDef
<1>2. QED
  BY <1>1, ListsDef

LEMMA ListsNothing == Lists(<<>>, {})
<1>1. Len(<<>>) = 0 /\ <<>> \in Seq({}) /\ <<>> \in [1..0 -> {}]
  OBVIOUS
<1>2. QED
  BY <1>1, ListsDef

LEMMA ListsAppend ==
  ASSUME NEW T, NEW q, Lists(q, T), NEW x, x \notin T
  PROVE  Lists(Append(q, x), T \cup {x})
<1> DEFINE U == T \cup {x}
           a == Append(q, x)
<1>0. /\ Len(q) \in Nat /\ q \in [1..Len(q) -> T] /\ q \in Seq(T)
      /\ \A i, j \in 1..Len(q) : q[i] = q[j] => i = j
      /\ \A y \in T : \E i \in 1..Len(q) : q[i] = y
  BY ListsDef
<1>1. q \in Seq(U) /\ x \in U
  BY ListsDef, SeqMonotonic, T \subseteq U
<1>2. /\ a \in Seq(U) /\ Len(a) = Len(q) + 1 /\ a[Len(q) + 1] = x
      /\ \A i \in 1..Len(q) : a[i] = q[i]
  BY <1>1, AppendProperties
<1>3. Len(a) \in Nat /\ a \in [1..Len(a) -> U]
  BY <1>2, LenProperties
<1> HIDE DEF a
<1>4. \A i, j \in 1..Len(a) : a[i] = a[j] => i = j
  <2>1. \A i \in 1..Len(a) : i \in 1..Len(q) \/ i = Len(q) + 1
    BY <1>0, <1>2
  <2>2. \A i \in 1..Len(q) : a[i] \in T /\ a[i] # x
    BY <1>0, <1>2
  <2>3. QED
    BY <1>0, <1>2, <2>1, <2>2
<1>5. \A y \in U : \E i \in 1..Len(a) : a[i] = y
  <2>1. Len(q) + 1 \in 1..Len(a)
    BY <1>2, ListsDef
  <2>2. \A y \in T : \E i \in 1..Len(a) : a[i] = y
    BY <1>2, ListsDef
  <2>3. QED
    BY <1>2, <2>1, <2>2
<1>6. Lists(a, U)
  BY <1>2, <1>3, <1>4, <1>5, ListsDef
<1>7. QED
  BY <1>6 DEF a

LEMMA ListsTail ==
  ASSUME NEW T, NEW q, Lists(q, T), q # <<>>
  PROVE  Head(q) \in T /\ Lists(Tail(q), T \ {Head(q)})
<1> DEFINE U == T \ {Head(q)}
           t == Tail(q)
<1>0. /\ Len(q) \in Nat /\ q \in [1..Len(q) -> T] /\ q \in Seq(T)
      /\ \A i, j \in 1..Len(q) : q[i] = q[j] => i = j
      /\ \A y \in T : \E i \in 1..Len(q) : q[i] = y
  BY ListsDef
<1>1. q \in Seq(T) /\ Len(q) \in Nat /\ Len(q) # 0 /\ Head(q) = q[1] /\ 1 \in 1..Len(q)
  BY ListsDef
<1>2. /\ Head(q) \in T /\ t \in Seq(T) /\ Len(t) = Len(q) - 1
      /\ \A i \in 1..Len(t) : t[i] = q[i + 1]
  BY <1>1, HeadTailProperties
<1>3. t \in [1..Len(t) -> T]
  BY <1>2, LenProperties
<1> HIDE DEF t
<1>4. \A i \in 1..Len(t) : i + 1 \in 1..Len(q) /\ i + 1 # 1
  BY <1>0, <1>2
<1>5. \A i \in 1..Len(t) : t[i] \in U
  <2>2. ASSUME NEW i \in 1..Len(t) PROVE t[i] \in U
    <3>1. i + 1 \in 1..Len(q) /\ i + 1 # 1 /\ t[i] = q[i + 1]
      BY <1>2, <1>4
    <3>2. q[i + 1] \in T /\ q[i + 1] # q[1]
      BY <1>0, <1>1, <3>1
    <3>3. QED
      BY <1>1, <3>1, <3>2
  <2>3. QED
    BY <2>2
<1>6. t \in [1..Len(t) -> U] /\ Len(t) \in Nat
  BY <1>1, <1>2, <1>3, <1>5
<1>7. t \in Seq(U)
  BY <1>6
<1>8. ASSUME NEW i \in 1..Len(t), NEW j \in 1..Len(t), t[i] = t[j] PROVE i = j
  <2>1. i + 1 \in 1..Len(q) /\ j + 1 \in 1..Len(q)
    BY <1>4
  <2>2. q[i + 1] = q[j + 1]
    BY <1>2, <1>8
  <2>3. i + 1 = j + 1
    BY <1>0, <2>1, <2>2
  <2>4. QED
    BY <2>3
<1>9. ASSUME NEW y \in U PROVE \E i \in 1..Len(t) : t[i] = y
  <2>1. PICK i \in 1..Len(q) : q[i] = y
    BY ListsDef
  <2>2. i - 1 \in 1..Len(t) /\ (i - 1) + 1 = i
    BY <1>1, <1>2, <2>1
  <2>3. QED
    BY <1>2, <2>1, <2>2
<1>10. Lists(t, U)
  BY <1>6, <1>7, <1>8, <1>9, ListsDef
<1>11. QED
  BY <1>2, <1>10 DEF t

LEMMA ListsWithout ==
  ASSUME NEW T, NEW q, Lists(q, T), NEW x, x \notin T
  PROVE  RemoveFirst(q, x) = q
<1>1. ~ \E i \in 1..Len(q) : q[i] = x
  BY ListsDef
<1>2. QED
  BY <1>1 DEF RemoveFirst

\* f is q without the element at place k: the later ones move up by one place.
Closes(f, q, k) ==
  /\ Len(f) = Len(q) - 1 /\ Len(f) \in Nat
  /\ \A i \in 1..Len(f) : f[i] = IF i < k THEN q[i] ELSE q[i + 1]

LEMMA RemovePlaces ==
  ASSUME NEW T, NEW q, Lists(q, T), NEW k \in 1..Len(q), NEW x, q[k] = x,
         NEW f, f = RemoveFirst(q, x)
  PROVE  f \in Seq(T \ {x}) /\ f \in [1..Len(f) -> T \ {x}] /\ Closes(f, q, k)
<1> DEFINE U == T \ {x}
           I == {i \in 1..Len(q) : q[i] = x}
<1>1. k \in 1..Len(q) /\ q[k] = x
  OBVIOUS
<1>2. Len(q) \in Nat /\ q \in Seq(T)
  BY ListsDef
<1>3. I # {}
  BY <1>1
<1>4. I = {k}
  BY <1>1, ListsDef
<1>5. SelectInSeq(q, LAMBDA v : v = x) = Min(I)
  BY <1>3 DEF SelectInSeq
<1>6. Min(I) = k
  BY <1>4 DEF Min
<1>7. f = SubSeq(q, 1, k - 1) \o SubSeq(q, k + 1, Len(q))
  BY <1>1, <1>5, <1>6 DEF RemoveFirst, RemoveAt
<1> DEFINE a == SubSeq(q, 1, k - 1)
           b == SubSeq(q, k + 1, Len(q))
<1>8. \A i \in 1..Len(q) : i # k => q[i] \in U
  BY <1>1, ListsDef
<1>9. k - 1 \in Int /\ k + 1 \in Int /\ 1 \in Int /\ Len(q) \in Int
  BY <1>2, <1>1
<1>10. /\ a \in Seq(U) /\ Len(a) = k - 1
      /\ \A i \in 1..(k - 1) : a[i] = q[i]
  <2>1. \A i \in 1..(k - 1) : q[i] \in U
    BY <1>2, <1>1, <1>8
  <2>2. /\ a \in Seq(U) /\ Len(a) = IF 1 <= k - 1 THEN (k - 1) - 1 + 1 ELSE 0
        /\ \A i \in 1..((k - 1) - 1 + 1) : a[i] = q[1 + i - 1]
    BY <1>9, <2>1, SubSeqProperties
  <2> HIDE DEF a
  <2>3. QED
    BY <1>1, <2>2
<1>11. /\ b \in Seq(U) /\ Len(b) = Len(q) - k
      /\ \A i \in 1..(Len(q) - k) : b[i] = q[i + k]
  <2>1. \A i \in (k + 1)..Len(q) : q[i] \in U
    BY <1>2, <1>1, <1>8
  <2>2. /\ b \in Seq(U)
        /\ Len(b) = IF k + 1 <= Len(q) THEN Len(q) - (k + 1) + 1 ELSE 0
        /\ \A i \in 1..(Len(q) - (k + 1) + 1) : b[i] = q[(k + 1) + i - 1]
    BY <1>9, <2>1, SubSeqProperties
  <2> HIDE DEF b
  <2>3. \A i \in 1..(Len(q) - k) : (k + 1) + i - 1 = i + k /\ i \in 1..(Len(q) - (k + 1) + 1)
    BY <1>2, <1>1
  <2>4. Len(b) = Len(q) - k
    BY <1>2, <1>1, <2>2
  <2>5. QED
    BY <2>2, <2>3, <2>4
<1> HIDE DEF a, b, U
<1>12. /\ f \in Seq(U) /\ Len(f) = Len(a) + Len(b)
       /\ \A i \in 1..(Len(a) + Len(b)) : f[i] = IF i <= Len(a) THEN a[i] ELSE b[i - Len(a)]
  <2> DEFINE g == a \o b
  <2>1. /\ g \in Seq(U) /\ Len(g) = Len(a) + Len(b)
        /\ \A i \in 1..(Len(a) + Len(b)) : g[i] = IF i <= Len(a) THEN a[i] ELSE b[i - Len(a)]
    BY <1>10, <1>11, ConcatProperties
  <2>2. f = g
    BY <1>7 DEF a, b
  <2> HIDE DEF g
  <2>3. QED
    BY <2>1, <2>2
<1>13. Len(f) = Len(q) - 1 /\ Len(f) \in Nat /\ f \in [1..Len(f) -> U]
  BY <1>2, <1>1, <1>10, <1>11, <1>12, LenProperties
<1>14. \A i \in 1..Len(f) : f[i] = IF i < k THEN q[i] ELSE q[i + 1]
  <2>1. SUFFICES ASSUME NEW i \in 1..Len(f) PROVE f[i] = IF i < k THEN q[i] ELSE q[i + 1]
    OBVIOUS
  <2>2. CASE i < k
    <3>1. i \in 1..(k - 1) /\ i <= Len(a) /\ i \in 1..(Len(a) + Len(b))
      BY <1>2, <1>1, <1>10, <1>11, <1>13, <2>2
    <3>2. QED
      BY <1>10, <1>12, <2>2, <3>1
  <2>3. CASE ~(i < k)
    <3>1. /\ i - Len(a) \in 1..(Len(q) - k) /\ ~(i <= Len(a))
          /\ i \in 1..(Len(a) + Len(b)) /\ (i - Len(a)) + k = i + 1
      BY <1>2, <1>1, <1>10, <1>11, <1>13, <2>3
    <3>2. f[i] = b[i - Len(a)]
      BY <1>12, <3>1
    <3>3. b[i - Len(a)] = q[i + 1]
      BY <1>11, <3>1
    <3>4. QED
      BY <2>3, <3>2, <3>3
  <2>4. QED
    BY <2>2, <2>3
<1>15. QED
  BY <1>12, <1>13, <1>14 DEF U, Closes

LEMMA ListsRemove ==
  ASSUME NEW T, NEW q, Lists(q, T), NEW x
  PROVE  Lists(RemoveFirst(q, x), T \ {x})
<1> DEFINE U == T \ {x}
           I == {i \in 1..Len(q) : q[i] = x}
           f == RemoveFirst(q, x)
<1>0. Len(q) \in Nat /\ q \in Seq(T)
  BY ListsDef
<1>1. CASE I = {}
  <2>1. f = q
    BY <1>1 DEF RemoveFirst
  <2>2. T = U
    BY <1>1, ListsDef
  <2>3. QED
    BY <2>1, <2>2
<1>2. CASE I # {}
  <2>1. PICK k \in 1..Len(q) : q[k] = x
    BY <1>2
  <2>2. /\ f \in Seq(U) /\ f \in [1..Len(f) -> U]
        /\ Len(f) = Len(q) - 1 /\ Len(f) \in Nat
        /\ \A i \in 1..Len(f) : f[i] = IF i < k THEN q[i] ELSE q[i + 1]
    <3>1. f = RemoveFirst(q, x)
      OBVIOUS
    <3> HIDE DEF f
    <3>2. f \in Seq(U) /\ f \in [1..Len(f) -> U] /\ Closes(f, q, k)
      BY <2>1, <3>1, RemovePlaces
    <3>3. QED
      BY <3>2 DEF Closes
  <2> HIDE DEF f, U
  <2>3. ASSUME NEW i \in 1..Len(f), NEW j \in 1..Len(f), f[i] = f[j] PROVE i = j
    <3> DEFINE at(n) == IF n < k THEN n ELSE n + 1
    <3>1. at(i) \in 1..Len(q) /\ at(j) \in 1..Len(q) /\ f[i] = q[at(i)] /\ f[j] = q[at(j)]
      BY <1>0, <2>1, <2>2
    <3>2. at(i) = at(j)
      <4> HIDE DEF at
      <4> QED BY <2>3, <3>1, ListsDef
    <3>3. QED
      BY <2>1, <3>2
  <2>4. ASSUME NEW y \in U PROVE \E i \in 1..Len(f) : f[i] = y
    <3>1. y \in T /\ y # x
      BY DEF U
    <3>2. PICK i \in 1..Len(q) : q[i] = y
      BY <3>1, ListsDef
    <3>3. CASE i < k
      <4>1. i \in 1..Len(f)
        BY <1>0, <2>1, <2>2, <3>3
      <4>2. QED
        BY <2>2, <3>2, <3>3, <4>1
    <3>4. CASE i > k
      <4>1. i - 1 \in 1..Len(f) /\ ~(i - 1 < k) /\ (i - 1) + 1 = i
        BY <1>0, <2>1, <2>2, <3>4
      <4>2. QED
        BY <2>2, <3>2, <4>1
    <3>5. i # k
      BY <2>1, <3>1, <3>2
    <3>6. QED
      BY <2>1, <3>3, <3>4, <3>5
  <2>5. Lists(f, U)
    BY <2>2, <2>3, <2>4, ListsDef
  <2>6. QED
    BY <2>5 DEF f, U
<1>3. QED
  BY <1>1, <1>2

LEMMA ListsLen ==
  ASSUME NEW T, NEW q, Lists(q, T)
  PROVE  IsFiniteSet(T) /\ Cardinality(T) = Len(q) /\ Len(q) \in Nat
<1>1. Len(q) \in Nat
  BY ListsDef
<1>2. q \in Bijection(1..Len(q), T)
  BY ListsDef DEF Bijection, Injection, Surjection, IsInjective
<1>3. IsFiniteSet(1..Len(q)) /\ Cardinality(1..Len(q)) = Len(q)
  <2>1. /\ IsFiniteSet(1..Len(q))
        /\ Cardinality(1..Len(q)) = IF 1 > Len(q) THEN 0 ELSE Len(q) - 1 + 1
    BY <1>1, FS_Interval, 1 \in Int, Len(q) \in Int
  <2>2. QED
    BY <1>1, <2>1
<1>4. QED
  BY <1>1, <1>2, <1>3, FS_Bijection DEF ExistsBijection

-----------------------------------------------------------------------------
(* The methods of the object, field by field.                              *)

AnyPhase == Phases \cup {"illegal"}
Races == {"idle", "open", "ok", "failed", "threw", "aborted"}

State ==
  [ phase : [Run -> AnyPhase], outcome : [Run -> Outcomes],
    queues : [Session -> Seq(Run)], order : Seq(Session), cursor : Nat, inflight : Nat,
    turnCalls : [Turn -> Nat], sessionCalls : [Session -> Nat],
    settled : SUBSET Key, race : [Run -> Races], local : SUBSET Run ]

SameQueues(s, t) == t.queues = s.queues /\ t.order = s.order /\ t.cursor = s.cursor
SameLedger(s, t) == t.turnCalls = s.turnCalls /\ t.sessionCalls = s.sessionCalls
SameCalls(s, t)  == t.race = s.race /\ t.local = s.local

LEMMA AdvanceType == \A p, n : Advance(p, n) \in AnyPhase
BY DEF Advance, AnyPhase, Phases, NextPhases

LEMMA ToFields ==
  ASSUME NEW s \in State, NEW r \in Run, NEW next
  PROVE  LET t == To(s, r, next)
         IN  /\ t \in State
             /\ t.phase = [s.phase EXCEPT ![r] = Advance(s.phase[r], next)]
             /\ t.outcome = s.outcome /\ t.settled = s.settled /\ t.inflight = s.inflight
             /\ SameQueues(s, t) /\ SameLedger(s, t) /\ SameCalls(s, t)
<1>1. Advance(s.phase[r], next) \in AnyPhase
  BY AdvanceType
<1> DEFINE p == [s.phase EXCEPT ![r] = Advance(s.phase[r], next)]
<1>2. p \in [Run -> AnyPhase]
  BY <1>1 DEF State
<1>3. To(s, r, next) = [s EXCEPT !.phase = p]
  BY DEF To, State
<1> HIDE DEF p
<1>4. QED
  BY <1>2, <1>3 DEF State, SameQueues, SameLedger, SameCalls, p

\* The edges of the NEXT table that the coordinator takes.
LEMMA LegalSteps ==
  /\ Advance("created", "snapshotted") = "snapshotted"
  /\ Advance("snapshotted", "admitted") = "admitted"
  /\ \A n \in {"queued", "running", "cancelled", "timed_out", "failed"} : Advance("admitted", n) = n
  /\ \A n \in {"running", "cancelled", "timed_out", "failed"} : Advance("queued", n) = n
  /\ \A n \in {"observed", "cancelled", "timed_out", "failed"} : Advance("running", n) = n
  /\ Advance("observed", "validated") = "validated"
  /\ \A n \in {"policy_applied", "failed", "stale"} : Advance("validated", n) = n
  /\ \A p \in {"policy_applied", "cancelled", "timed_out", "failed", "stale"} :
       Advance(p, "recorded") = "recorded"
BY DEF Advance, Phases, NextPhases

LEMMA FinishFields ==
  ASSUME NEW s \in State, NEW r \in Run, NEW last, NEW out \in Outcomes
  PROVE  LET t == Finish(s, r, last, out)
         IN  /\ t \in State
             /\ t.phase = [s.phase EXCEPT ![r] = Advance(Advance(s.phase[r], last), "recorded")]
             /\ t.outcome = [s.outcome EXCEPT ![r] = out] /\ t.inflight = s.inflight
             /\ t.settled = s.settled \cup {KeyOf[r]}
             /\ SameQueues(s, t) /\ SameLedger(s, t) /\ SameCalls(s, t)
<1> DEFINE u == To(s, r, last)
           v == To(u, r, "recorded")
           o == [s.outcome EXCEPT ![r] = out]
           k == s.settled \cup {KeyOf[r]}
<1>1. /\ u \in State
      /\ u.phase = [s.phase EXCEPT ![r] = Advance(s.phase[r], last)]
      /\ u.outcome = s.outcome /\ u.settled = s.settled /\ u.inflight = s.inflight
      /\ SameQueues(s, u) /\ SameLedger(s, u) /\ SameCalls(s, u)
  BY ToFields
<1>2. /\ v \in State
      /\ v.phase = [u.phase EXCEPT ![r] = Advance(u.phase[r], "recorded")]
      /\ v.outcome = u.outcome /\ v.settled = u.settled /\ v.inflight = u.inflight
      /\ SameQueues(u, v) /\ SameLedger(u, v) /\ SameCalls(u, v)
  <2> HIDE DEF u
  <2> QED BY <1>1, ToFields
<1>3. Finish(s, r, last, out) = [v EXCEPT !.settled = k, !.outcome = o]
  <2>1. v.settled = s.settled /\ v.outcome = s.outcome
    BY <1>1, <1>2
  <2> HIDE DEF u
  <2>2. Finish(s, r, last, out) = [v EXCEPT !.settled = @ \cup {KeyOf[r]}, !.outcome[r] = out]
    BY DEF Finish, u
  <2> HIDE DEF v
  <2>3. QED
    BY <1>2, <2>1, <2>2 DEF State
<1>4. o \in [Run -> Outcomes] /\ k \in SUBSET Key
  BY CoordinatorAssumption DEF State
<1>5. v.phase = [s.phase EXCEPT ![r] = Advance(Advance(s.phase[r], last), "recorded")]
  <2> HIDE DEF u, v
  <2>1. s.phase \in [Run -> AnyPhase]
    BY DEF State
  <2>2. QED
    BY <1>1, <1>2, <2>1
<1>6. SameQueues(s, v) /\ SameLedger(s, v) /\ SameCalls(s, v) /\ v.inflight = s.inflight
  <2> HIDE DEF u, v
  <2> QED BY <1>1, <1>2 DEF SameQueues, SameLedger, SameCalls
<1> HIDE DEF u, v, o, k
<1>7. QED
  BY <1>2, <1>3, <1>4, <1>5, <1>6 DEF State, SameQueues, SameLedger, SameCalls, o, k

LEMMA RefundFields ==
  ASSUME NEW s \in State, NEW r \in Run
  PROVE  LET t == Refund(s, r)
         IN  /\ t \in State
             /\ t.turnCalls = [s.turnCalls EXCEPT ![TurnOf[r]] = Decrement(@)]
             /\ t.sessionCalls = [s.sessionCalls EXCEPT ![SessionOf[r]] = Decrement(@)]
             /\ t.phase = s.phase /\ t.outcome = s.outcome /\ t.settled = s.settled
             /\ t.inflight = s.inflight /\ SameQueues(s, t) /\ SameCalls(s, t)
<1> DEFINE a == [s.turnCalls EXCEPT ![TurnOf[r]] = Decrement(@)]
           b == [s.sessionCalls EXCEPT ![SessionOf[r]] = Decrement(@)]
<1>1. a \in [Turn -> Nat] /\ b \in [Session -> Nat]
  BY CoordinatorAssumption DEF State, Decrement
<1>2. Refund(s, r) = [s EXCEPT !.turnCalls = a, !.sessionCalls = b]
  BY DEF Refund, State
<1> HIDE DEF a, b
<1>3. QED
  BY <1>1, <1>2 DEF State, SameQueues, SameCalls, a, b

LEMMA ReserveFields ==
  ASSUME NEW s \in State, NEW r \in Run
  PROVE  LET t == Reserve(s, r)
         IN  /\ t \in State
             /\ t.turnCalls = [s.turnCalls EXCEPT ![TurnOf[r]] = @ + 1]
             /\ t.sessionCalls = [s.sessionCalls EXCEPT ![SessionOf[r]] = @ + 1]
             /\ t.phase = s.phase /\ t.outcome = s.outcome /\ t.settled = s.settled
             /\ t.inflight = s.inflight /\ SameQueues(s, t) /\ SameCalls(s, t)
<1> DEFINE a == [s.turnCalls EXCEPT ![TurnOf[r]] = @ + 1]
           b == [s.sessionCalls EXCEPT ![SessionOf[r]] = @ + 1]
<1>1. a \in [Turn -> Nat] /\ b \in [Session -> Nat]
  BY CoordinatorAssumption DEF State
<1>2. Reserve(s, r) = [s EXCEPT !.turnCalls = a, !.sessionCalls = b]
  BY DEF Reserve, State
<1> HIDE DEF a, b
<1>3. QED
  BY <1>1, <1>2 DEF State, SameQueues, SameCalls, a, b

LEMMA InflightFields ==
  ASSUME NEW s \in State, NEW n \in Nat
  PROVE  LET t == [s EXCEPT !.inflight = n]
         IN  /\ t \in State /\ t.inflight = n
             /\ t.phase = s.phase /\ t.outcome = s.outcome /\ t.settled = s.settled
             /\ SameQueues(s, t) /\ SameLedger(s, t) /\ SameCalls(s, t)
BY DEF State, SameQueues, SameLedger, SameCalls

LEMMA ReleaseFields ==
  ASSUME NEW s \in State
  PROVE  LET t == Release(s)
         IN  /\ t \in State /\ t.inflight = Decrement(s.inflight)
             /\ t.phase = s.phase /\ t.outcome = s.outcome /\ t.settled = s.settled
             /\ SameQueues(s, t) /\ SameLedger(s, t) /\ SameCalls(s, t)
<1>1. Decrement(s.inflight) \in Nat
  BY DEF Decrement, State
<1>2. Release(s) = [s EXCEPT !.inflight = Decrement(s.inflight)]
  BY DEF Release, State
<1>3. QED
  BY <1>1, <1>2, InflightFields

LEMMA EvaluateFields ==
  ASSUME NEW s \in State, NEW r \in Run
  PROVE  LET t == Evaluate(s, r)
         IN  /\ t \in State
             /\ t.phase = [s.phase EXCEPT ![r] = Advance(s.phase[r], "running")]
             /\ t.race = [s.race EXCEPT ![r] = "open"] /\ t.local = s.local
             /\ t.outcome = s.outcome /\ t.settled = s.settled /\ t.inflight = s.inflight
             /\ SameQueues(s, t) /\ SameLedger(s, t)
<1> DEFINE u == To(s, r, "running")
           a == [s.race EXCEPT ![r] = "open"]
<1>1. /\ u \in State
      /\ u.phase = [s.phase EXCEPT ![r] = Advance(s.phase[r], "running")]
      /\ u.outcome = s.outcome /\ u.settled = s.settled /\ u.inflight = s.inflight
      /\ SameQueues(s, u) /\ SameLedger(s, u) /\ SameCalls(s, u)
  BY ToFields
<1>2. a \in [Run -> Races]
  BY DEF State, Races
<1>3. Evaluate(s, r) = [u EXCEPT !.race = a]
  <2>1. u.race = s.race
    BY <1>1 DEF SameCalls
  <2>2. Evaluate(s, r) = [u EXCEPT !.race[r] = "open"]
    BY DEF Evaluate
  <2> HIDE DEF u
  <2>3. QED
    BY <1>1, <2>1, <2>2 DEF State
<1> HIDE DEF u, a
<1>4. QED
  BY <1>1, <1>2, <1>3 DEF State, SameQueues, SameLedger, SameCalls, a

-----------------------------------------------------------------------------
(* The queues.                                                             *)

WithWaiters(s) == {k \in Session : s.queues[k] # <<>>}
OfSession(W, k) == {r \in W : SessionOf[r] = k}

\* The Map holds the runs of W, each once and under its session, and its keys
\* are the sessions that have one.
Holds(s, W) ==
  /\ Lists(s.order, WithWaiters(s))
  /\ \A k \in Session : Lists(s.queues[k], OfSession(W, k))

LEMMA SetQueueFields ==
  ASSUME NEW s \in State, Lists(s.order, WithWaiters(s)), NEW k \in Session, NEW list \in Seq(Run)
  PROVE  LET t == SetQueue(s, k, list)
         IN  /\ t \in State
             /\ t.queues = [s.queues EXCEPT ![k] = list] /\ Lists(t.order, WithWaiters(t))
             /\ t.phase = s.phase /\ t.outcome = s.outcome /\ t.settled = s.settled
             /\ t.inflight = s.inflight /\ SameLedger(s, t) /\ SameCalls(s, t)
             /\ t.cursor = s.cursor
             /\ t.order = IF list = <<>> THEN RemoveFirst(s.order, k)
                          ELSE IF k \in WithWaiters(s) THEN s.order ELSE Append(s.order, k)
<1> DEFINE q == [s.queues EXCEPT ![k] = list]
           o == IF list = <<>> THEN RemoveFirst(s.order, k)
                ELSE IF k \in ToSet(s.order) THEN s.order ELSE Append(s.order, k)
           t == SetQueue(s, k, list)
           N == {j \in Session : q[j] # <<>>}
<1>1. t = [s EXCEPT !.queues = q, !.order = o]
  BY DEF SetQueue, State
<1>2. q \in [Session -> Seq(Run)] /\ q[k] = list /\ \A j \in Session : j # k => q[j] = s.queues[j]
  BY DEF State
<1>3. ToSet(s.order) = WithWaiters(s)
  BY DEF Lists
<1>4. Lists(o, N)
  <2>1. CASE list = <<>>
    <3>1. N = WithWaiters(s) \ {k}
      BY <1>2, <2>1 DEF WithWaiters
    <3>2. o = RemoveFirst(s.order, k)
      BY <2>1
    <3> HIDE DEF o, N
    <3>3. QED
      BY <3>1, <3>2, ListsRemove
  <2>2. CASE list # <<>> /\ k \in WithWaiters(s)
    <3>1. N = WithWaiters(s)
      BY <1>2, <2>2 DEF WithWaiters
    <3>2. o = s.order
      BY <1>3, <2>2
    <3> HIDE DEF o, N
    <3>3. QED
      BY <3>1, <3>2
  <2>3. CASE list # <<>> /\ k \notin WithWaiters(s)
    <3>1. N = WithWaiters(s) \cup {k}
      BY <1>2, <2>3 DEF WithWaiters
    <3>2. o = Append(s.order, k)
      BY <1>3, <2>3
    <3> HIDE DEF o, N
    <3>3. QED
      BY <2>3, <3>1, <3>2, ListsAppend
  <2>4. QED
    BY <2>1, <2>2, <2>3
<1>5. o \in Seq(Session)
  <2>1. o \in Seq(N) /\ N \subseteq Session
    <3> HIDE DEF o
    <3> QED BY <1>4 DEF Lists
  <2> HIDE DEF o, N
  <2>2. QED
    BY <2>1, SeqMonotonic
<1> HIDE DEF q, o
<1>6. t.queues = q /\ t.order = o /\ t \in State
  BY <1>1, <1>2, <1>5 DEF State
<1>7. WithWaiters(t) = N
  BY <1>6 DEF WithWaiters
<1>8. Lists(t.order, WithWaiters(t))
  <2> HIDE DEF t, N
  <2> QED BY <1>4, <1>6, <1>7
<1>9. /\ t.phase = s.phase /\ t.outcome = s.outcome /\ t.settled = s.settled
      /\ t.inflight = s.inflight /\ SameLedger(s, t) /\ SameCalls(s, t)
      /\ t.cursor = s.cursor
  BY <1>1 DEF State, SameLedger, SameCalls
<1>10. o = IF list = <<>> THEN RemoveFirst(s.order, k)
           ELSE IF k \in WithWaiters(s) THEN s.order ELSE Append(s.order, k)
  BY <1>3 DEF o
<1>11. QED
  <2> HIDE DEF t
  <2> QED BY <1>6, <1>8, <1>9, <1>10 DEF t, q

LEMMA HoldsNothing ==
  ASSUME NEW s \in State, NEW W \in SUBSET Run, Holds(s, W)
  PROVE  s.order = <<>> <=> W = {}
<1>1. s.order = <<>> <=> WithWaiters(s) = {}
  BY ListsEmpty DEF Holds
<1>2. \A k \in Session : s.queues[k] = <<>> <=> OfSession(W, k) = {}
  BY ListsEmpty DEF Holds
<1>3. \A r \in W : SessionOf[r] \in Session /\ r \in OfSession(W, SessionOf[r])
  BY CoordinatorAssumption DEF OfSession
<1>4. \A k : OfSession(W, k) \subseteq W
  BY DEF OfSession
<1>5. QED
  BY <1>1, <1>2, <1>3, <1>4 DEF WithWaiters

\* Replacing the list of one session changes what the Map holds of it.
LEMMA HoldsSetQueue ==
  ASSUME NEW s \in State, NEW W \in SUBSET Run, Holds(s, W),
         NEW k \in Session, NEW list, NEW V \in SUBSET Run,
         Lists(list, OfSession(V, k)),
         \A j \in Session : j # k => OfSession(V, j) = OfSession(W, j)
  PROVE  /\ SetQueue(s, k, list) \in State
         /\ Holds(SetQueue(s, k, list), V)
<1> DEFINE t == SetQueue(s, k, list)
<1>1. list \in Seq(Run)
  <2>1. list \in Seq(OfSession(V, k)) /\ OfSession(V, k) \subseteq Run
    BY DEF Lists, OfSession
  <2>2. QED
    BY <2>1, SeqMonotonic
<1>2. t \in State /\ t.queues = [s.queues EXCEPT ![k] = list] /\ Lists(t.order, WithWaiters(t))
  BY <1>1, SetQueueFields DEF Holds
<1> HIDE DEF t
<1>3. ASSUME NEW j \in Session PROVE Lists(t.queues[j], OfSession(V, j))
  <2>1. CASE j = k
    <3>1. t.queues[j] = list
      BY <1>2, <2>1 DEF State
    <3>2. QED
      BY <2>1, <3>1
  <2>2. CASE j # k
    <3>1. t.queues[j] = s.queues[j]
      BY <1>2, <2>2 DEF State
    <3>2. OfSession(V, j) = OfSession(W, j)
      BY <2>2
    <3>3. QED
      BY <3>1, <3>2 DEF Holds
  <2>3. QED
    BY <2>1, <2>2
<1>4. QED
  BY <1>2, <1>3 DEF Holds, t

\* The waiter r is taken in its session's turn, and t has moved on past it.
NextSession(s) == s.order[NextIndex(s) + 1]
Rotates(s, t, r) ==
  /\ SessionOf[r] = NextSession(s)
  /\ t.order \in {s.order, RemoveFirst(s.order, NextSession(s))}
  /\ t.cursor = (NextIndex(s) + 1) % Len(s.order)
SamePlace(s, t) == t.order = s.order /\ t.cursor = s.cursor

LEMMA TakeWaiterEffect ==
  ASSUME NEW s \in State, NEW W \in SUBSET Run, Holds(s, W), s.order # <<>>
  PROVE  LET t == TakeWaiter(s)
             r == NextWaiter(s)
         IN  /\ r \in W /\ t \in State /\ Holds(t, W \ {r})
             /\ t.phase = s.phase /\ t.outcome = s.outcome /\ t.settled = s.settled
             /\ t.inflight = s.inflight /\ SameLedger(s, t) /\ SameCalls(s, t)
             /\ Rotates(s, t, r)
<1> DEFINE n == Len(s.order)
           i == NextIndex(s)
           k == s.order[i + 1]
           r == NextWaiter(s)
           list == Tail(s.queues[k])
           u == SetQueue(s, k, list)
           c == (i + 1) % n
           V == W \ {r}
<1>1. n \in Nat \ {0} /\ s.cursor \in Nat /\ \A j \in 1..n : s.order[j] \in WithWaiters(s)
  <2>1. /\ n \in Nat /\ s.order \in [1..n -> WithWaiters(s)] /\ s.order \in Seq(WithWaiters(s))
    BY ListsDef DEF Holds
  <2>2. n # 0
    BY <2>1
  <2>3. QED
    BY <2>1, <2>2 DEF State
<1>2. i \in 0..(n - 1) /\ c \in Nat
  <2>1. i = s.cursor % n
    BY DEF NextIndex
  <2> HIDE DEF n, i
  <2>2. i \in 0..(n - 1)
    BY <1>1, <2>1
  <2>3. QED
    BY <1>1, <2>2
<1>3. k \in Session /\ s.queues[k] # <<>>
  <2>1. i + 1 \in 1..n
    BY <1>1, <1>2
  <2> HIDE DEF i, n
  <2>2. QED
    BY <1>1, <2>1 DEF WithWaiters
<1>4. r = Head(s.queues[k])
  BY DEF NextWaiter
<1>5. Lists(s.queues[k], OfSession(W, k))
  <2> HIDE DEF k
  <2> QED BY <1>3 DEF Holds
<1> HIDE DEF k, r, c
<1>6. r \in OfSession(W, k) /\ Lists(list, OfSession(W, k) \ {r})
  BY <1>3, <1>4, <1>5, ListsTail
<1>7. r \in W /\ SessionOf[r] = k
  BY <1>6 DEF OfSession
<1>8. OfSession(V, k) = OfSession(W, k) \ {r}
  BY DEF OfSession
<1>9. \A j \in Session : j # k => OfSession(V, j) = OfSession(W, j)
  BY <1>7 DEF OfSession
<1> HIDE DEF list
<1>10. Lists(list, OfSession(V, k))
  BY <1>6, <1>8
<1>11. V \in SUBSET Run
  OBVIOUS
<1>12. list \in Seq(Run)
  <2>1. list \in Seq(OfSession(V, k)) /\ OfSession(V, k) \subseteq Run
    BY <1>10 DEF Lists, OfSession
  <2>2. QED
    BY <2>1, SeqMonotonic
<1>13. u \in State /\ Holds(u, V)
  <2> HIDE DEF V
  <2> QED BY <1>3, <1>9, <1>10, <1>11, HoldsSetQueue
<1>14. /\ u.phase = s.phase /\ u.outcome = s.outcome /\ u.settled = s.settled
       /\ u.inflight = s.inflight /\ SameLedger(s, u) /\ SameCalls(s, u)
      /\ u.order \in {s.order, RemoveFirst(s.order, k)}
  <2>1. k \in WithWaiters(s) /\ Lists(s.order, WithWaiters(s))
    BY <1>3 DEF WithWaiters, Holds
  <2>2. QED
    BY <1>3, <1>12, <2>1, SetQueueFields
<1>15. TakeWaiter(s) = [u EXCEPT !.cursor = c]
  BY DEF TakeWaiter, c, k, list
<1> HIDE DEF u, V
<1> DEFINE t == TakeWaiter(s)
<1>16. /\ t \in State /\ t.queues = u.queues /\ t.order = u.order /\ t.cursor = c
       /\ t.phase = u.phase /\ t.outcome = u.outcome /\ t.settled = u.settled
       /\ t.inflight = u.inflight /\ SameLedger(u, t) /\ SameCalls(u, t)
  BY <1>2, <1>13, <1>15 DEF State, SameLedger, SameCalls
<1> HIDE DEF t
<1>17. Holds(t, V)
  <2>1. WithWaiters(t) = WithWaiters(u)
    BY <1>16 DEF WithWaiters
  <2>2. QED
    BY <1>13, <1>16, <2>1 DEF Holds
<1>18. QED
  <2>1. SameLedger(s, t) /\ SameCalls(s, t)
    BY <1>14, <1>16 DEF SameLedger, SameCalls
  <2>2. /\ r \in W /\ t \in State /\ Holds(t, W \ {r})
        /\ t.phase = s.phase /\ t.outcome = s.outcome /\ t.settled = s.settled
        /\ t.inflight = s.inflight
    BY <1>7, <1>14, <1>16, <1>17 DEF V
  <2>3. Rotates(s, t, r)
    BY <1>7, <1>14, <1>16 DEF Rotates, NextSession, k, c
  <2>4. QED
    BY <2>1, <2>2, <2>3 DEF t, r

LEMMA HoldsRemove ==
  ASSUME NEW s \in State, NEW W \in SUBSET Run, Holds(s, W), NEW r \in Run
  PROVE  LET k == SessionOf[r]
             list == RemoveFirst(s.queues[k], r)
         IN  k \in Session /\ list \in Seq(Run) /\ Holds(SetQueue(s, k, list), W \ {r})
<1> DEFINE k == SessionOf[r]
           list == RemoveFirst(s.queues[k], r)
           V == W \ {r}
<1>1. k \in Session
  BY CoordinatorAssumption
<1>2. Lists(list, OfSession(W, k) \ {r})
  BY <1>1, ListsRemove DEF Holds
<1>3. OfSession(V, k) = OfSession(W, k) \ {r}
  BY DEF OfSession
<1>4. \A j \in Session : j # k => OfSession(V, j) = OfSession(W, j)
  BY DEF OfSession
<1> HIDE DEF k, list
<1>5. V \in SUBSET Run /\ Lists(list, OfSession(V, k))
  BY <1>2, <1>3
<1>6. list \in Seq(Run)
  <2>1. list \in Seq(OfSession(V, k)) /\ OfSession(V, k) \subseteq Run
    BY <1>5 DEF Lists, OfSession
  <2>2. QED
    BY <2>1, SeqMonotonic
<1> HIDE DEF V
<1>7. Holds(SetQueue(s, k, list), V)
  BY <1>1, <1>4, <1>5, HoldsSetQueue
<1>8. QED
  BY <1>1, <1>6, <1>7 DEF k, list, V

LEMMA HoldsAppend ==
  ASSUME NEW s \in State, NEW W \in SUBSET Run, Holds(s, W), NEW r \in Run, r \notin W
  PROVE  LET k == SessionOf[r]
             list == Append(s.queues[k], r)
         IN  k \in Session /\ list \in Seq(Run) /\ Holds(SetQueue(s, k, list), W \cup {r})
<1> DEFINE k == SessionOf[r]
           list == Append(s.queues[k], r)
           V == W \cup {r}
<1>1. k \in Session
  BY CoordinatorAssumption
<1>2. Lists(list, OfSession(W, k) \cup {r})
  BY <1>1, ListsAppend DEF Holds, OfSession
<1>3. OfSession(V, k) = OfSession(W, k) \cup {r}
  BY DEF OfSession
<1>4. \A j \in Session : j # k => OfSession(V, j) = OfSession(W, j)
  BY DEF OfSession
<1> HIDE DEF k, list
<1>5. V \in SUBSET Run /\ Lists(list, OfSession(V, k))
  BY <1>2, <1>3
<1>6. list \in Seq(Run)
  <2>1. list \in Seq(OfSession(V, k)) /\ OfSession(V, k) \subseteq Run
    BY <1>5 DEF Lists, OfSession
  <2>2. QED
    BY <2>1, SeqMonotonic
<1> HIDE DEF V
<1>7. Holds(SetQueue(s, k, list), V)
  BY <1>1, <1>4, <1>5, HoldsSetQueue
<1>8. QED
  BY <1>1, <1>6, <1>7 DEF k, list, V

\* The lengths that #queued adds up are the number of waiting runs.
LEMMA QueuedCount ==
  ASSUME NEW s \in State, NEW W \in SUBSET Run, Holds(s, W)
  PROVE  /\ Queued(s) = Cardinality(W) /\ IsFiniteSet(W)
         /\ \A k \in Session : Len(s.queues[k]) = Cardinality(OfSession(W, k))
<1> DEFINE P == UNION {{k} \X DOMAIN s.queues[k] : k \in ToSet(s.order)}
           f == [p \in P |-> s.queues[p[1]][p[2]]]
<1>1. ToSet(s.order) = WithWaiters(s)
  BY DEF Holds, Lists
<1>2. \A k \in Session : /\ s.queues[k] \in [1..Len(s.queues[k]) -> OfSession(W, k)]
                         /\ \A i, j \in 1..Len(s.queues[k]) : s.queues[k][i] = s.queues[k][j] => i = j
                         /\ \A x \in OfSession(W, k) : \E i \in 1..Len(s.queues[k]) : s.queues[k][i] = x
  BY ListsDef DEF Holds
<1>3. IsFiniteSet(W)
  BY CoordinatorAssumption, FS_Subset
<1>4. \A p \in P : /\ p = <<p[1], p[2]>> /\ p[1] \in Session /\ p[2] \in 1..Len(s.queues[p[1]])
                   /\ f[p] \in OfSession(W, p[1])
  <2>1. SUFFICES ASSUME NEW k \in ToSet(s.order), NEW p \in {k} \X DOMAIN s.queues[k]
                 PROVE  /\ p = <<p[1], p[2]>> /\ p[1] \in Session
                        /\ p[2] \in 1..Len(s.queues[p[1]])
                        /\ s.queues[p[1]][p[2]] \in OfSession(W, p[1])
    OBVIOUS
  <2>2. k \in Session /\ DOMAIN s.queues[k] = 1..Len(s.queues[k])
    BY <1>1, <1>2 DEF WithWaiters
  <2>3. p = <<p[1], p[2]>> /\ p[1] = k /\ p[2] \in DOMAIN s.queues[k]
    OBVIOUS
  <2>4. QED
    BY <1>2, <2>2, <2>3
<1>5. \A k \in Session : \A i \in 1..Len(s.queues[k]) : <<k, i>> \in P /\ f[<<k, i>>] = s.queues[k][i]
  <2>1. SUFFICES ASSUME NEW k \in Session, NEW i \in 1..Len(s.queues[k])
                 PROVE  <<k, i>> \in P
    OBVIOUS
  <2>2. DOMAIN s.queues[k] = 1..Len(s.queues[k])
    BY <1>2
  <2>3. s.queues[k] # <<>>
    BY <2>2
  <2>4. k \in ToSet(s.order)
    BY <1>1, <2>3 DEF WithWaiters
  <2>5. QED
    BY <2>2, <2>4
<1> HIDE DEF P
<1>6. f \in [P -> W]
  BY <1>4 DEF OfSession
<1>7. ASSUME NEW p \in P, NEW u \in P, f[p] = f[u] PROVE p = u
  <2>1. p[1] = u[1]
    BY <1>4, <1>7 DEF OfSession
  <2>2. p[2] = u[2]
    BY <1>2, <1>4, <1>7, <2>1
  <2>3. QED
    BY <1>4, <2>1, <2>2
<1>8. ASSUME NEW x \in W PROVE \E p \in P : f[p] = x
  <2> DEFINE k == SessionOf[x]
  <2>1. k \in Session /\ x \in OfSession(W, k)
    BY CoordinatorAssumption DEF OfSession
  <2>2. PICK i \in 1..Len(s.queues[k]) : s.queues[k][i] = x
    BY <1>2, <2>1
  <2>3. QED
    BY <1>5, <2>1, <2>2
<1>9. f \in Injection(P, W) /\ f \in Surjection(P, W)
  BY <1>6, <1>7, <1>8 DEF Injection, Surjection, IsInjective
<1>10. Cardinality(P) = Cardinality(W)
  BY <1>3, <1>9, FS_Injection
<1>11. Queued(s) = Cardinality(P)
  BY DEF Queued, P
<1>12. \A k \in Session : Len(s.queues[k]) = Cardinality(OfSession(W, k))
  BY ListsLen DEF Holds
<1>13. QED
  BY <1>3, <1>10, <1>11, <1>12

-----------------------------------------------------------------------------
(* The invariant of the object.                                            *)

InPhase(s, p) == {r \in Run : s.phase[r] = p}

\* Runs that hold a reservation: queued, or handed to the provider.
Charged(s) == {r \in Run : s.phase[r] = "queued" \/ s.race[r] # "idle"}

\* How many runs of C each key has.
Count(C, keyOf, K) == [k \in K |-> Cardinality({r \in C : keyOf[r] = k})]

\* What phase, outcome and race may be together.  The first two are seen between
\* steps; "recorded" says by its outcome how far the run had come.
Life(p, out, c) ==
  \/ p = "created" /\ out \in {"none", "closed"} /\ c = "idle"
  \/ p = "admitted" /\ out = "duplicate" /\ c = "idle"
  \/ p = "queued" /\ out = "none" /\ c = "idle"
  \/ p = "running" /\ out = "none" /\ c \in Races \ {"idle"}
  \/ p = "validated" /\ out = "response" /\ c = "ok"
  \/ /\ p = "recorded" /\ out \in Outcomes \ {"none", "closed", "duplicate"}
     /\ c \in Races \ {"open"}
     /\ out = "failed" => c \in {"failed", "threw"}
     /\ out = "response" => c = "ok"
     /\ out \in QueueOutcomes => c = "idle"

\* Every remembered key is the key of a run that was answered.
Remembered(s) == \A k \in s.settled : \E q \in Run : KeyOf[q] = k /\ s.outcome[q] # "none"

Good(s) ==
  /\ s \in State
  /\ Holds(s, InPhase(s, "queued"))
  /\ s.inflight = Cardinality(InPhase(s, "running"))
  /\ s.sessionCalls = Count(Charged(s), SessionOf, Session)
  /\ s.turnCalls = Count(Charged(s), TurnOf, Turn)
  /\ \A r \in Run : Life(s.phase[r], s.outcome[r], s.race[r])
  /\ Remembered(s)

LEMMA FiniteRuns ==
  ASSUME NEW C \in SUBSET Run
  PROVE  IsFiniteSet(C) /\ Cardinality(C) \in Nat
BY CoordinatorAssumption, FS_Subset, FS_CardinalityType

\* One run more, or one run less, moves the count of its key by one.
LEMMA CountMore ==
  ASSUME NEW K, NEW f, \A x \in Run : f[x] \in K,
         NEW C \in SUBSET Run, NEW r \in Run \ C
  PROVE  [Count(C, f, K) EXCEPT ![f[r]] = @ + 1] = Count(C \cup {r}, f, K)
<1> DEFINE D == C \cup {r}
           At(X, k) == {x \in X : f[x] = k}
<1>1. ASSUME NEW k \in K
      PROVE  Cardinality(At(D, k)) = IF k = f[r] THEN Cardinality(At(C, k)) + 1
                                     ELSE Cardinality(At(C, k))
  <2>1. CASE k = f[r]
    <3>1. At(D, k) = At(C, k) \cup {r} /\ r \notin At(C, k)
      BY <2>1
    <3>2. IsFiniteSet(At(C, k))
      BY FiniteRuns
    <3> HIDE DEF At
    <3>3. QED
      BY <2>1, <3>1, <3>2, FS_AddElement
  <2>2. CASE k # f[r]
    <3>1. At(D, k) = At(C, k)
      BY <2>2
    <3> HIDE DEF At
    <3>2. QED
      BY <2>2, <3>1
  <2>3. QED
    BY <2>1, <2>2
<1>2. Count(C, f, K) = [k \in K |-> Cardinality(At(C, k))]
  BY DEF Count
<1>3. Count(D, f, K) = [k \in K |-> Cardinality(At(D, k))]
  BY DEF Count
<1> HIDE DEF At, D
<1>4. [Count(C, f, K) EXCEPT ![f[r]] = @ + 1] = Count(D, f, K)
  BY <1>1, <1>2, <1>3
<1>5. QED
  BY <1>4 DEF D

LEMMA CountLess ==
  ASSUME NEW K, NEW f, \A x \in Run : f[x] \in K,
         NEW C \in SUBSET Run, NEW r \in C
  PROVE  [Count(C, f, K) EXCEPT ![f[r]] = Decrement(@)] = Count(C \ {r}, f, K)
<1> DEFINE D == C \ {r}
           At(X, k) == {x \in X : f[x] = k}
<1>1. ASSUME NEW k \in K
      PROVE  Cardinality(At(D, k)) = IF k = f[r] THEN Decrement(Cardinality(At(C, k)))
                                     ELSE Cardinality(At(C, k))
  <2>1. CASE k = f[r]
    <3>1. At(D, k) = At(C, k) \ {r} /\ r \in At(C, k)
      BY <2>1
    <3>2. IsFiniteSet(At(C, k)) /\ Cardinality(At(C, k)) \in Nat
      BY FiniteRuns
    <3>3. IsFiniteSet(At(D, k)) /\ Cardinality(At(D, k)) \in Nat
      BY FiniteRuns
    <3> HIDE DEF At
    <3>4. Cardinality(At(D, k)) = Cardinality(At(C, k)) - 1
      <4>1. At(C, k) = At(D, k) \cup {r} /\ r \notin At(D, k)
        BY <3>1
      <4>2. Cardinality(At(C, k)) = Cardinality(At(D, k)) + 1
        BY <3>3, <4>1, FS_AddElement
      <4>3. QED
        BY <3>2, <3>3, <4>2
    <3>5. QED
      BY <2>1, <3>2, <3>3, <3>4 DEF Decrement
  <2>2. CASE k # f[r]
    <3>1. At(D, k) = At(C, k)
      BY <2>2
    <3> HIDE DEF At
    <3>2. QED
      BY <2>2, <3>1
  <2>3. QED
    BY <2>1, <2>2
<1>2. Count(C, f, K) = [k \in K |-> Cardinality(At(C, k))]
  BY DEF Count
<1>3. Count(D, f, K) = [k \in K |-> Cardinality(At(D, k))]
  BY DEF Count
<1> HIDE DEF At, D
<1>4. [Count(C, f, K) EXCEPT ![f[r]] = Decrement(@)] = Count(D, f, K)
  BY <1>1, <1>2, <1>3
<1>5. QED
  BY <1>4 DEF D

-----------------------------------------------------------------------------
(* What a step does to one run.                                            *)

\* t is s with run r put into phase p, with outcome out and race c.
RunBecomes(s, t, r, p, out, c) ==
  /\ t.phase = [s.phase EXCEPT ![r] = p]
  /\ t.outcome = [s.outcome EXCEPT ![r] = out]
  /\ t.race = [s.race EXCEPT ![r] = c]
  /\ t.local = s.local

LedgerLess(s, t, r) ==
  /\ t.sessionCalls = [s.sessionCalls EXCEPT ![SessionOf[r]] = Decrement(@)]
  /\ t.turnCalls = [s.turnCalls EXCEPT ![TurnOf[r]] = Decrement(@)]

\* A waiting run is ended without having been started.
Dropped(s, t, r, out) ==
  /\ r \in InPhase(s, "queued") /\ out \in {"cancelled", "timed-out-queue", "timed-out-inference"}
  /\ t \in State /\ Holds(t, InPhase(s, "queued") \ {r})
  /\ RunBecomes(s, t, r, "recorded", out, "idle")
  /\ LedgerLess(s, t, r) /\ t.inflight = s.inflight
  /\ t.settled = s.settled \cup {KeyOf[r]}

\* A waiting run is handed to the provider.
Launched(s, t, r) ==
  /\ r \in InPhase(s, "queued") /\ r \notin cancelled /\ ~(age[r] >= Deadline)
  /\ t \in State /\ Holds(t, InPhase(s, "queued") \ {r})
  /\ RunBecomes(s, t, r, "running", "none", "open")
  /\ SameLedger(s, t) /\ t.inflight = s.inflight + 1
  /\ t.settled = s.settled

LEMMA RememberedStays ==
  ASSUME NEW s \in State, NEW t \in State, Remembered(s), NEW r \in Run,
         \A q \in Run : s.outcome[q] # "none" => t.outcome[q] # "none",
         \/ t.settled = s.settled
         \/ t.settled = s.settled \cup {KeyOf[r]} /\ t.outcome[r] # "none"
  PROVE  Remembered(t)
BY DEF Remembered

LEMMA DroppedGood ==
  ASSUME NEW s, Good(s), NEW t, NEW r, NEW out, Dropped(s, t, r, out)
  PROVE  /\ Good(t)
         /\ InPhase(t, "queued") = InPhase(s, "queued") \ {r}
         /\ InPhase(t, "running") = InPhase(s, "running")
         /\ Charged(t) = Charged(s) \ {r}
<1>1. /\ s \in State /\ t \in State /\ r \in Run /\ s.phase[r] = "queued" /\ s.race[r] = "idle"
      /\ s.outcome[r] = "none"
  BY DEF Good, Dropped, InPhase, Life
<1>2. /\ t.phase[r] = "recorded" /\ t.outcome[r] = out /\ t.race[r] = "idle"
      /\ \A q \in Run : q # r => /\ t.phase[q] = s.phase[q] /\ t.outcome[q] = s.outcome[q]
                                 /\ t.race[q] = s.race[q]
  BY <1>1 DEF Dropped, RunBecomes, State
<1>3. /\ InPhase(t, "queued") = InPhase(s, "queued") \ {r}
      /\ InPhase(t, "running") = InPhase(s, "running")
  BY <1>1, <1>2 DEF InPhase
<1>4. Charged(t) = Charged(s) \ {r} /\ r \in Charged(s) /\ Charged(s) \in SUBSET Run
  BY <1>1, <1>2 DEF Charged
<1>5. t.sessionCalls = Count(Charged(t), SessionOf, Session)
  <2>1. t.sessionCalls = [Count(Charged(s), SessionOf, Session) EXCEPT ![SessionOf[r]] = Decrement(@)]
    BY DEF Dropped, LedgerLess, Good
  <2>2. \A x \in Run : SessionOf[x] \in Session
    BY CoordinatorAssumption
  <2>3. QED
    BY <1>4, <2>1, <2>2, CountLess
<1>6. t.turnCalls = Count(Charged(t), TurnOf, Turn)
  <2>1. t.turnCalls = [Count(Charged(s), TurnOf, Turn) EXCEPT ![TurnOf[r]] = Decrement(@)]
    BY DEF Dropped, LedgerLess, Good
  <2>2. \A x \in Run : TurnOf[x] \in Turn
    BY CoordinatorAssumption
  <2>3. QED
    BY <1>4, <2>1, <2>2, CountLess
<1>7. out \in {"cancelled", "timed-out-queue", "timed-out-inference"}
  BY DEF Dropped
<1>8. ASSUME NEW q \in Run PROVE Life(t.phase[q], t.outcome[q], t.race[q])
  <2>1. CASE q = r
    BY <1>2, <1>7, <2>1 DEF Life, Outcomes, QueueOutcomes, Races
  <2>2. CASE q # r
    BY <1>2, <2>2 DEF Good
  <2>3. QED
    BY <2>1, <2>2
<1>9. Remembered(t)
  <2>1. Remembered(s) /\ t.settled = s.settled \cup {KeyOf[r]}
    BY DEF Good, Dropped
  <2>2. t.outcome[r] # "none" /\ \A q \in Run : s.outcome[q] # "none" => t.outcome[q] # "none"
    BY <1>2, <1>7
  <2>3. QED
    BY <1>1, <2>1, <2>2, RememberedStays
<1>10. t.inflight = Cardinality(InPhase(t, "running")) /\ Holds(t, InPhase(t, "queued"))
  BY <1>3 DEF Dropped, Good
<1>11. QED
  BY <1>1, <1>3, <1>4, <1>5, <1>6, <1>8, <1>9, <1>10 DEF Good

LEMMA LaunchedGood ==
  ASSUME NEW s, Good(s), NEW t, NEW r, Launched(s, t, r)
  PROVE  /\ Good(t)
         /\ InPhase(t, "queued") = InPhase(s, "queued") \ {r}
         /\ InPhase(t, "running") = InPhase(s, "running") \cup {r}
         /\ Charged(t) = Charged(s)
<1>1. /\ s \in State /\ t \in State /\ r \in Run /\ s.phase[r] = "queued" /\ s.race[r] = "idle"
      /\ s.outcome[r] = "none"
  BY DEF Good, Launched, InPhase, Life
<1>2. /\ t.phase[r] = "running" /\ t.outcome[r] = "none" /\ t.race[r] = "open"
      /\ \A q \in Run : q # r => /\ t.phase[q] = s.phase[q] /\ t.outcome[q] = s.outcome[q]
                                 /\ t.race[q] = s.race[q]
  BY <1>1 DEF Launched, RunBecomes, State
<1>3. /\ InPhase(t, "queued") = InPhase(s, "queued") \ {r}
      /\ InPhase(t, "running") = InPhase(s, "running") \cup {r}
      /\ r \notin InPhase(s, "running")
  BY <1>1, <1>2 DEF InPhase
<1>4. Charged(t) = Charged(s)
  BY <1>1, <1>2 DEF Charged
<1>5. /\ t.sessionCalls = Count(Charged(t), SessionOf, Session)
      /\ t.turnCalls = Count(Charged(t), TurnOf, Turn)
  BY <1>4 DEF Launched, SameLedger, Good
<1>6. ASSUME NEW q \in Run PROVE Life(t.phase[q], t.outcome[q], t.race[q])
  <2>1. CASE q = r
    BY <1>2, <2>1 DEF Life, Races
  <2>2. CASE q # r
    BY <1>2, <2>2 DEF Good
  <2>3. QED
    BY <2>1, <2>2
<1>7. Remembered(t)
  <2>1. Remembered(s) /\ t.settled = s.settled
    BY DEF Good, Launched
  <2>2. \A q \in Run : s.outcome[q] # "none" => t.outcome[q] # "none"
    BY <1>1, <1>2
  <2>3. QED
    BY <1>1, <2>1, <2>2, RememberedStays
<1>8. t.inflight = Cardinality(InPhase(t, "running"))
  <2>1. IsFiniteSet(InPhase(s, "running"))
    BY FiniteRuns DEF InPhase
  <2>2. t.inflight = Cardinality(InPhase(s, "running")) + 1
    BY DEF Launched, Good
  <2>3. QED
    BY <1>3, <2>1, <2>2, FS_AddElement
<1>9. Holds(t, InPhase(t, "queued"))
  BY <1>3 DEF Launched
<1>10. QED
  BY <1>1, <1>3, <1>4, <1>5, <1>6, <1>7, <1>8, <1>9 DEF Good

-----------------------------------------------------------------------------
(* One turn of the pump.                                                   *)

DropOutcomes == {"cancelled", "timed-out-queue", "timed-out-inference"}

\* run.to(last).to('recorded') after a refund, for a run that was waiting and
\* has been taken out of the Map.
LEMMA RefundedAndFinished ==
  ASSUME NEW s, Good(s), NEW r \in InPhase(s, "queued"),
         NEW u \in State, Holds(u, InPhase(s, "queued") \ {r}),
         u.phase = s.phase, u.outcome = s.outcome, u.settled = s.settled,
         u.inflight = s.inflight, SameLedger(s, u), SameCalls(s, u),
         NEW last \in {"cancelled", "timed_out"}, NEW out \in DropOutcomes
  PROVE  /\ Dropped(s, Finish(Refund(u, r), r, last, out), r, out)
         /\ SamePlace(u, Finish(Refund(u, r), r, last, out))
<1> DEFINE v == Refund(u, r)
           t == Finish(v, r, last, out)
<1>1. /\ s \in State /\ r \in Run /\ s.phase[r] = "queued" /\ s.race[r] = "idle"
  BY DEF Good, InPhase, Life
<1>2. /\ v \in State
      /\ v.turnCalls = [u.turnCalls EXCEPT ![TurnOf[r]] = Decrement(@)]
      /\ v.sessionCalls = [u.sessionCalls EXCEPT ![SessionOf[r]] = Decrement(@)]
      /\ v.phase = u.phase /\ v.outcome = u.outcome /\ v.settled = u.settled
      /\ v.inflight = u.inflight /\ SameQueues(u, v) /\ SameCalls(u, v)
  BY <1>1, RefundFields
<1>3. out \in Outcomes
  BY DEF DropOutcomes, Outcomes, QueueOutcomes
<1> HIDE DEF v
<1>4. /\ t \in State
      /\ t.phase = [v.phase EXCEPT ![r] = Advance(Advance(v.phase[r], last), "recorded")]
      /\ t.outcome = [v.outcome EXCEPT ![r] = out] /\ t.inflight = v.inflight
      /\ t.settled = v.settled \cup {KeyOf[r]}
      /\ SameQueues(v, t) /\ SameLedger(v, t) /\ SameCalls(v, t)
  BY <1>1, <1>2, <1>3, FinishFields, SMTT(30)
<1>5. Advance(Advance("queued", last), "recorded") = "recorded"
  BY LegalSteps
<1> HIDE DEF t
<1>6. RunBecomes(s, t, r, "recorded", out, "idle")
  <2>1. t.phase = [s.phase EXCEPT ![r] = "recorded"]
    BY <1>1, <1>2, <1>4, <1>5
  <2>2. t.outcome = [s.outcome EXCEPT ![r] = out]
    BY <1>2, <1>4
  <2>3. t.race = s.race /\ t.local = s.local
    BY <1>2, <1>4 DEF SameCalls
  <2>4. s.race = [s.race EXCEPT ![r] = "idle"]
    BY <1>1 DEF State
  <2>5. QED
    BY <2>1, <2>2, <2>3, <2>4 DEF RunBecomes
<1>7. LedgerLess(s, t, r)
  BY <1>2, <1>4 DEF SameLedger, LedgerLess
<1>8. Holds(t, InPhase(s, "queued") \ {r})
  <2>1. t.queues = u.queues /\ t.order = u.order
    BY <1>2, <1>4 DEF SameQueues
  <2>2. WithWaiters(t) = WithWaiters(u)
    BY <2>1 DEF WithWaiters
  <2>3. QED
    BY <2>1, <2>2 DEF Holds
<1>9. t.inflight = s.inflight /\ t.settled = s.settled \cup {KeyOf[r]}
  BY <1>2, <1>4
<1>10. SamePlace(u, t)
  BY <1>2, <1>4 DEF SameQueues, SamePlace
<1>11. QED
  BY <1>4, <1>6, <1>7, <1>8, <1>9, <1>10 DEF Dropped, t, v, DropOutcomes

\* #abortWaiter up to its pump, whether or not the Map still holds the run.
LEMMA AbortedEffect ==
  ASSUME NEW s, Good(s), NEW r \in InPhase(s, "queued"),
         NEW u \in State, NEW V \in SUBSET Run, Holds(u, V), V \ {r} = InPhase(s, "queued") \ {r},
         u.phase = s.phase, u.outcome = s.outcome, u.settled = s.settled,
         u.inflight = s.inflight, SameLedger(s, u), SameCalls(s, u)
  PROVE  /\ Dropped(s, Aborted(u, r), r, "cancelled")
         /\ r \notin V => SamePlace(u, Aborted(u, r))
<1> DEFINE k == SessionOf[r]
           list == RemoveFirst(u.queues[k], r)
           w == SetQueue(u, k, list)
<1>1. s \in State /\ r \in Run /\ s.phase[r] = "queued"
  BY DEF Good, InPhase
<1>2. k \in Session /\ list \in Seq(Run) /\ Holds(w, V \ {r})
  BY <1>1, HoldsRemove
<1>3. Aborted(u, r) = Finish(Refund(w, r), r, "cancelled", "cancelled")
  BY <1>1 DEF Aborted, ClosedPhases
<1> HIDE DEF k, list
<1>4. /\ w \in State
      /\ w.phase = u.phase /\ w.outcome = u.outcome /\ w.settled = u.settled
      /\ w.inflight = u.inflight /\ SameLedger(u, w) /\ SameCalls(u, w)
  <2>1. Lists(u.order, WithWaiters(u))
    BY DEF Holds
  <2>2. k \in Session /\ list \in Seq(Run)
    BY <1>2
  <2>3. w \in State /\ w.phase = u.phase /\ w.outcome = u.outcome /\ w.settled = u.settled
    BY <2>1, <2>2, SetQueueFields
  <2>4. w.inflight = u.inflight /\ SameLedger(u, w) /\ SameCalls(u, w)
    BY <2>1, <2>2, SetQueueFields
  <2>5. QED
    BY <2>3, <2>4
<1> HIDE DEF w
<1>5. SameLedger(s, w) /\ SameCalls(s, w)
  BY <1>4 DEF SameLedger, SameCalls
<1>6. Dropped(s, Finish(Refund(w, r), r, "cancelled", "cancelled"), r, "cancelled")
           /\ SamePlace(w, Finish(Refund(w, r), r, "cancelled", "cancelled"))
  BY <1>2, <1>4, <1>5, RefundedAndFinished DEF DropOutcomes
<1>7. ASSUME r \notin V PROVE SamePlace(u, w)
  <2>1. Lists(u.queues[k], OfSession(V, k)) /\ r \notin OfSession(V, k)
    BY <1>2, <1>7 DEF Holds, OfSession
  <2>2. list = u.queues[k]
    BY <2>1, ListsWithout DEF list
  <2>3. Lists(u.order, WithWaiters(u)) /\ (k \in WithWaiters(u) <=> u.queues[k] # <<>>)
    BY <1>2 DEF Holds, WithWaiters
  <2>4. /\ w.cursor = u.cursor
        /\ w.order = IF list = <<>> THEN RemoveFirst(u.order, k)
                     ELSE IF k \in WithWaiters(u) THEN u.order ELSE Append(u.order, k)
    BY <1>2, <2>3, SetQueueFields DEF w
  <2>5. list = <<>> => RemoveFirst(u.order, k) = u.order
    BY <2>2, <2>3, ListsWithout
  <2>6. QED
    BY <2>2, <2>3, <2>4, <2>5 DEF SamePlace
<1>8. QED
  BY <1>3, <1>6, <1>7 DEF SamePlace

\* The synchronous part of #execute, for a run that was waiting ...
LEMMA StartedEffect ==
  ASSUME NEW s, Good(s), NEW r \in InPhase(s, "queued"), ~(age[r] >= Deadline),
         NEW u \in State, Holds(u, InPhase(s, "queued") \ {r}),
         u.phase = s.phase, u.outcome = s.outcome, u.settled = s.settled,
         u.inflight = s.inflight, SameLedger(s, u), SameCalls(s, u),
         NEW X, NEW slip \in [X -> Slips]
  PROVE  LET t == Started([u EXCEPT !.inflight = @ + 1], r, slip)
         IN  /\ \/ Launched(s, t, r)
                \/ \E out \in DropOutcomes :
                     Dropped(s, t, r, out) /\ (out = "cancelled" => r \in cancelled)
             /\ SamePlace(u, t)
<1> DEFINE v == [u EXCEPT !.inflight = @ + 1]
           w == Release(v)
           t == Started(v, r, slip)
<1>1. /\ s \in State /\ r \in Run /\ s.phase[r] = "queued" /\ s.race[r] = "idle"
      /\ s.outcome[r] = "none"
  BY DEF Good, InPhase, Life
<1>2. /\ v \in State /\ v.inflight = u.inflight + 1
      /\ v.phase = u.phase /\ v.outcome = u.outcome /\ v.settled = u.settled
      /\ SameQueues(u, v) /\ SameLedger(u, v) /\ SameCalls(u, v)
  <2>1. u.inflight \in Nat /\ u.inflight + 1 \in Nat
    BY DEF State
  <2>2. v = [u EXCEPT !.inflight = u.inflight + 1]
    OBVIOUS
  <2> HIDE DEF v
  <2>3. QED
    BY <2>1, <2>2, InflightFields
<1> HIDE DEF v
<1>3. /\ w \in State /\ w.inflight = Decrement(v.inflight)
      /\ w.phase = v.phase /\ w.outcome = v.outcome /\ w.settled = v.settled
      /\ SameQueues(v, w) /\ SameLedger(v, w) /\ SameCalls(v, w)
  BY <1>2, ReleaseFields
<1> HIDE DEF w
<1>4. w.inflight = s.inflight /\ SameLedger(s, w) /\ SameCalls(s, w) /\ SameLedger(s, v)
  <2>1. u.inflight \in Nat
    BY DEF State
  <2>2. QED
    BY <1>2, <1>3, <2>1 DEF Decrement, SameLedger, SameCalls
<1>5. Holds(w, InPhase(s, "queued") \ {r}) /\ Holds(v, InPhase(s, "queued") \ {r})
  <2>1. w.queues = u.queues /\ w.order = u.order /\ v.queues = u.queues /\ v.order = u.order
    BY <1>2, <1>3 DEF SameQueues
  <2>2. WithWaiters(w) = WithWaiters(u) /\ WithWaiters(v) = WithWaiters(u)
    BY <2>1 DEF WithWaiters
  <2>3. QED
    BY <2>1, <2>2 DEF Holds
<1>6. ASSUME NEW last \in {"cancelled", "timed_out"}, NEW out \in DropOutcomes
      PROVE  /\ Dropped(s, Finish(Refund(w, r), r, last, out), r, out)
             /\ SamePlace(u, Finish(Refund(w, r), r, last, out))
  <2>1. SamePlace(u, w)
    BY <1>2, <1>3 DEF SameQueues, SamePlace
  <2>2. /\ Dropped(s, Finish(Refund(w, r), r, last, out), r, out)
        /\ SamePlace(w, Finish(Refund(w, r), r, last, out))
    BY <1>2, <1>3, <1>4, <1>5, RefundedAndFinished
  <2>3. QED
    BY <2>1, <2>2 DEF SamePlace
<1>7. CASE r \in cancelled
  <2>1. t = Finish(Refund(w, r), r, "cancelled", "cancelled")
    BY <1>7 DEF Started, w
  <2>2. "cancelled" \in DropOutcomes
    BY DEF DropOutcomes
  <2> HIDE DEF t
  <2>3. QED
    BY <1>6, <1>7, <2>1, <2>2 DEF t, v
<1>8. CASE r \notin cancelled /\ SlipOf(slip, r) # "none"
  <2>1. t = Finish(Refund(w, r), r, "timed_out", SlipOf(slip, r))
    BY <1>8 DEF Started, w
  <2>2. SlipOf(slip, r) \in DropOutcomes /\ SlipOf(slip, r) # "cancelled"
    BY <1>8 DEF SlipOf, Slips, DropOutcomes
  <2> HIDE DEF t
  <2>3. QED
    BY <1>6, <2>1, <2>2 DEF t, v
<1>9. CASE r \notin cancelled /\ ~(SlipOf(slip, r) # "none")
  <2>1. t = Evaluate(v, r)
    BY <1>9 DEF Started
  <2> HIDE DEF t
  <2>2. /\ t \in State
        /\ t.phase = [v.phase EXCEPT ![r] = Advance(v.phase[r], "running")]
        /\ t.race = [v.race EXCEPT ![r] = "open"] /\ t.local = v.local
        /\ t.outcome = v.outcome /\ t.settled = v.settled /\ t.inflight = v.inflight
        /\ SameQueues(v, t) /\ SameLedger(v, t)
    BY <1>1, <1>2, <2>1, EvaluateFields
  <2>3. RunBecomes(s, t, r, "running", "none", "open")
    <3>1. Advance("queued", "running") = "running"
      BY LegalSteps
    <3>2. s.outcome = [s.outcome EXCEPT ![r] = "none"]
      BY <1>1 DEF State
    <3>3. t.phase = [s.phase EXCEPT ![r] = "running"]
      BY <1>1, <1>2, <2>2, <3>1
    <3>4. t.race = [s.race EXCEPT ![r] = "open"] /\ t.local = s.local
      BY <1>2, <2>2 DEF SameCalls
    <3>5. t.outcome = s.outcome
      BY <1>2, <2>2
    <3>6. QED
      BY <3>2, <3>3, <3>4, <3>5 DEF RunBecomes
  <2>4. Holds(t, InPhase(s, "queued") \ {r})
    <3>1. t.queues = v.queues /\ t.order = v.order
      BY <2>2 DEF SameQueues
    <3>2. WithWaiters(t) = WithWaiters(v)
      BY <3>1 DEF WithWaiters
    <3>3. QED
      BY <1>5, <3>1, <3>2 DEF Holds
  <2>5. SameLedger(s, t) /\ t.inflight = s.inflight + 1 /\ t.settled = s.settled
    BY <1>2, <1>4, <2>2 DEF SameLedger
  <2>6. Launched(s, t, r)
    BY <1>9, <2>2, <2>3, <2>4, <2>5 DEF Launched
  <2>7. SamePlace(u, t)
    BY <1>2, <2>2 DEF SameQueues, SamePlace
  <2>8. QED
    BY <2>6, <2>7 DEF t, v
<1>10. QED
  BY <1>7, <1>8, <1>9

\* One turn of the loop moves one waiter, or is past the loop's end.
LEMMA PumpOneStep ==
  ASSUME NEW s, Good(s), NEW X, NEW slip \in [X -> Slips]
  PROVE  LET t == PumpOne(s, slip)
         IN  \/ t = s /\ (s.inflight >= MaxConcurrent \/ s.order = <<>>)
             \/ /\ ~(s.inflight >= MaxConcurrent \/ s.order = <<>>)
                /\ \E r \in InPhase(s, "queued") :
                     /\ Rotates(s, t, r)
                     /\ \/ Launched(s, t, r)
                        \/ \E out \in DropOutcomes :
                             Dropped(s, t, r, out) /\ (out = "cancelled" => r \in cancelled)
<1> DEFINE r == NextWaiter(s)
           u == TakeWaiter(s)
           t == PumpOne(s, slip)
<1>1. CASE s.inflight >= MaxConcurrent \/ s.order = <<>>
  BY <1>1 DEF PumpOne
<1>2. CASE ~(s.inflight >= MaxConcurrent \/ s.order = <<>>)
  <2>1. InPhase(s, "queued") \in SUBSET Run /\ s \in State /\ Holds(s, InPhase(s, "queued"))
    BY DEF InPhase, Good
  <2>2. /\ r \in InPhase(s, "queued") /\ u \in State /\ Holds(u, InPhase(s, "queued") \ {r})
        /\ u.phase = s.phase /\ u.outcome = s.outcome /\ u.settled = s.settled
        /\ u.inflight = s.inflight /\ SameLedger(s, u) /\ SameCalls(s, u)
        /\ Rotates(s, u, r)
    BY <1>2, <2>1, TakeWaiterEffect
  <2>3. t = IF r \in cancelled THEN Aborted(u, r)
            ELSE IF age[r] >= Deadline THEN Finish(Refund(u, r), r, "timed_out", "timed-out-queue")
            ELSE Started([u EXCEPT !.inflight = @ + 1], r, slip)
    BY <1>2 DEF PumpOne
  <2> HIDE DEF r, u, t
  <2>a. ASSUME SamePlace(u, t) PROVE Rotates(s, t, r)
    BY <2>2, <2>a DEF SamePlace, Rotates
  <2>4. CASE r \in cancelled
    <3>1. Dropped(s, Aborted(u, r), r, "cancelled") /\ SamePlace(u, Aborted(u, r))
      BY <2>1, <2>2, AbortedEffect
    <3>2. Dropped(s, t, r, "cancelled") /\ "cancelled" \in DropOutcomes /\ Rotates(s, t, r)
      BY <2>3, <2>4, <2>a, <3>1 DEF DropOutcomes
    <3>3. QED
      BY <1>2, <2>2, <2>4, <3>2 DEF t
  <2>5. CASE r \notin cancelled /\ age[r] >= Deadline
    <3>1. "timed-out-queue" \in DropOutcomes
      BY DEF DropOutcomes
    <3>2. /\ Dropped(s, Finish(Refund(u, r), r, "timed_out", "timed-out-queue"), r, "timed-out-queue")
          /\ SamePlace(u, Finish(Refund(u, r), r, "timed_out", "timed-out-queue"))
      BY <2>2, <3>1, RefundedAndFinished
    <3>3. Dropped(s, t, r, "timed-out-queue") /\ Rotates(s, t, r)
      BY <2>3, <2>5, <2>a, <3>2
    <3>4. QED
      BY <1>2, <2>2, <3>1, <3>3 DEF t
  <2>6. CASE r \notin cancelled /\ ~(age[r] >= Deadline)
    <3>1. /\ \/ Launched(s, Started([u EXCEPT !.inflight = @ + 1], r, slip), r)
             \/ \E out \in DropOutcomes :
                  /\ Dropped(s, Started([u EXCEPT !.inflight = @ + 1], r, slip), r, out)
                  /\ out = "cancelled" => r \in cancelled
          /\ SamePlace(u, Started([u EXCEPT !.inflight = @ + 1], r, slip))
      BY <2>2, <2>6, StartedEffect
    <3>2. t = Started([u EXCEPT !.inflight = @ + 1], r, slip)
      BY <2>3, <2>6
    <3>3. Rotates(s, t, r)
      BY <2>a, <3>1, <3>2
    <3>4. QED
      BY <1>2, <2>2, <3>1, <3>2, <3>3 DEF t
  <2>7. QED
    BY <2>4, <2>5, <2>6
<1>3. QED
  BY <1>1, <1>2

-----------------------------------------------------------------------------
(* The whole loop.                                                         *)

\* What the pump does to a run: a waiter is left, dropped or started, and the
\* rest are left alone.
Kept(s, t, q) ==
  t.phase[q] = s.phase[q] /\ t.outcome[q] = s.outcome[q] /\ t.race[q] = s.race[q]
Ended(t, q) ==
  /\ t.phase[q] = "recorded" /\ t.race[q] = "idle"
  /\ t.outcome[q] \in DropOutcomes /\ (t.outcome[q] = "cancelled" => q \in cancelled)
Begun(t, q) ==
  /\ q \notin cancelled /\ ~(age[q] >= Deadline)
  /\ t.phase[q] = "running" /\ t.outcome[q] = "none" /\ t.race[q] = "open"
Moved(s, t, q) == Kept(s, t, q) \/ (s.phase[q] = "queued" /\ (Ended(t, q) \/ Begun(t, q)))

Handed(s, t) == t.local = s.local /\ \A q \in Run : Moved(s, t, q)

AtEnd(s) == s.inflight >= MaxConcurrent \/ s.order = <<>>

LEMMA HandedTrans ==
  ASSUME NEW s, NEW t, NEW u, Handed(s, t), Handed(t, u)
  PROVE  Handed(s, u)
<1>1. ASSUME NEW q \in Run, Moved(s, t, q), Moved(t, u, q) PROVE Moved(s, u, q)
  <2>1. CASE t.phase[q] = "queued"
    <3>1. Kept(s, t, q)
      BY <1>1, <2>1 DEF Moved, Ended, Begun
    <3>2. QED
      BY <1>1, <3>1 DEF Moved, Kept
  <2>2. CASE t.phase[q] # "queued"
    <3>1. Kept(t, u, q)
      BY <1>1, <2>2 DEF Moved
    <3>2. QED
      BY <1>1, <3>1 DEF Moved, Kept, Ended, Begun
  <2>3. QED
    BY <2>1, <2>2
<1>2. QED
  BY <1>1, Zenon DEF Handed

LEMMA PumpOneEffect ==
  ASSUME NEW s, Good(s), s.inflight <= MaxConcurrent, NEW X, NEW slip \in [X -> Slips]
  PROVE  LET t == PumpOne(s, slip)
         IN  /\ Good(t) /\ t.inflight <= MaxConcurrent /\ Handed(s, t)
             /\ \/ AtEnd(s) /\ t = s
                \/ /\ ~AtEnd(s)
                   /\ \E r \in InPhase(s, "queued") :
                        InPhase(t, "queued") = InPhase(s, "queued") \ {r} /\ Rotates(s, t, r)
<1> DEFINE t == PumpOne(s, slip)
<1>1. \/ t = s /\ (s.inflight >= MaxConcurrent \/ s.order = <<>>)
      \/ /\ ~(s.inflight >= MaxConcurrent \/ s.order = <<>>)
         /\ \E r \in InPhase(s, "queued") :
              /\ Rotates(s, t, r)
              /\ \/ Launched(s, t, r)
                 \/ \E out \in DropOutcomes :
                      Dropped(s, t, r, out) /\ (out = "cancelled" => r \in cancelled)
  BY PumpOneStep
<1>2. s \in State /\ s.inflight \in Nat /\ MaxConcurrent \in Nat
  BY CoordinatorAssumption DEF Good, State
<1> HIDE DEF t
<1>3. CASE t = s /\ (s.inflight >= MaxConcurrent \/ s.order = <<>>)
  BY <1>3 DEF Handed, Moved, Kept, AtEnd, t
<1>4. ASSUME ~(s.inflight >= MaxConcurrent), NEW r \in InPhase(s, "queued"), Launched(s, t, r)
      PROVE  /\ Good(t) /\ t.inflight <= MaxConcurrent /\ Handed(s, t)
             /\ InPhase(t, "queued") = InPhase(s, "queued") \ {r}
  <2>1. Good(t) /\ InPhase(t, "queued") = InPhase(s, "queued") \ {r}
    BY <1>4, LaunchedGood
  <2>2. t.inflight <= MaxConcurrent
    BY <1>2, <1>4 DEF Launched
  <2>3. Handed(s, t)
    <3>1. t.local = s.local
      BY <1>4 DEF Launched, RunBecomes
    <3>2. /\ t.phase[r] = "running" /\ t.outcome[r] = "none" /\ t.race[r] = "open"
          /\ \A q \in Run : q # r => /\ t.phase[q] = s.phase[q] /\ t.outcome[q] = s.outcome[q]
                                     /\ t.race[q] = s.race[q]
      BY <1>2, <1>4 DEF Launched, RunBecomes, State, InPhase
    <3>3. s.phase[r] = "queued" /\ r \notin cancelled /\ ~(age[r] >= Deadline)
      BY <1>4 DEF Launched, InPhase
    <3>4. QED
      BY <3>1, <3>2, <3>3, Zenon DEF Handed, Moved, Kept, Ended, Begun
  <2>4. QED
    BY <2>1, <2>2, <2>3
<1>5. ASSUME ~(s.inflight >= MaxConcurrent), NEW r \in InPhase(s, "queued"), NEW out \in DropOutcomes,
             Dropped(s, t, r, out), out = "cancelled" => r \in cancelled
      PROVE  /\ Good(t) /\ t.inflight <= MaxConcurrent /\ Handed(s, t)
             /\ InPhase(t, "queued") = InPhase(s, "queued") \ {r}
  <2>1. Good(t) /\ InPhase(t, "queued") = InPhase(s, "queued") \ {r}
    BY <1>5, DroppedGood
  <2>2. t.inflight <= MaxConcurrent
    BY <1>2, <1>5 DEF Dropped
  <2>3. Handed(s, t)
    <3>1. t.local = s.local
      BY <1>5 DEF Dropped, RunBecomes
    <3>2. /\ t.phase[r] = "recorded" /\ t.outcome[r] = out /\ t.race[r] = "idle"
          /\ \A q \in Run : q # r => /\ t.phase[q] = s.phase[q] /\ t.outcome[q] = s.outcome[q]
                                     /\ t.race[q] = s.race[q]
      BY <1>2, <1>5 DEF Dropped, RunBecomes, State, InPhase
    <3>3. s.phase[r] = "queued" /\ out \in DropOutcomes /\ (out = "cancelled" => r \in cancelled)
      BY <1>5 DEF InPhase
    <3>4. QED
      BY <3>1, <3>2, <3>3, Zenon DEF Handed, Moved, Kept, Ended, Begun
  <2>4. QED
    BY <2>1, <2>2, <2>3
<1>6. QED
  BY <1>1, <1>3, <1>4, <1>5, Zenon DEF t, AtEnd

\* The turns are the iterates of one turn.
LEMMA PumpIterates ==
  ASSUME NEW s, Good(s), s.inflight <= MaxConcurrent, NEW X, NEW slip \in [X -> Slips]
  PROVE  \E h : h[0] = s /\ \A n \in Nat : h[n + 1] = PumpOne(h[n], slip)
<1> DEFINE Y == {y \in State : Good(y) /\ y.inflight <= MaxConcurrent}
           G == [y \in Y |-> PumpOne(y, slip)]
<1>1. \A y \in Y : PumpOne(y, slip) \in Y
  <2>1. SUFFICES ASSUME NEW y \in Y PROVE PumpOne(y, slip) \in Y
    OBVIOUS
  <2>2. Good(PumpOne(y, slip)) /\ PumpOne(y, slip).inflight <= MaxConcurrent
    BY PumpOneEffect
  <2>3. QED
    BY <2>2 DEF Good
<1>2. s \in Y
  BY DEF Good
<1>3. G \in [Y -> Y]
  BY <1>1
<1>4. \A y \in Y : G[y] = PumpOne(y, slip)
  OBVIOUS
<1> HIDE DEF Y, G
<1>5. PICK h : Iterates(G, Y, s, h)
  BY <1>2, <1>3, Iteration
<1>6. QED
  BY <1>4, <1>5 DEF Iterates

LEMMA PumpTurnsEq ==
  ASSUME NEW s, Good(s), s.inflight <= MaxConcurrent, NEW X, NEW slip \in [X -> Slips]
  PROVE  /\ PumpTurns(s, slip)[0] = s
         /\ \A n \in Nat : PumpTurns(s, slip)[n + 1] = PumpOne(PumpTurns(s, slip)[n], slip)
<1> DEFINE Is(h) == h = [n \in Nat |-> IF n = 0 THEN s ELSE PumpOne(h[n - 1], slip)]
<1>1. \E h : Is(h)
  <2> HIDE DEF Is
  <2>1. PICK h : h[0] = s /\ \A n \in Nat : h[n + 1] = PumpOne(h[n], slip)
    BY PumpIterates
  <2> DEFINE g == [n \in Nat |-> h[n]]
  <2>2. ASSUME NEW n \in Nat PROVE g[n] = IF n = 0 THEN s ELSE PumpOne(g[n - 1], slip)
    <3>1. CASE n = 0
      BY <2>1, <3>1
    <3>2. CASE n # 0
      <4>1. n - 1 \in Nat /\ (n - 1) + 1 = n
        BY <3>2
      <4>2. h[(n - 1) + 1] = PumpOne(h[n - 1], slip)
        BY <2>1, <4>1
      <4>3. QED
        BY <3>2, <4>1, <4>2
    <3>3. QED
      BY <3>1, <3>2
  <2>3. g = [n \in Nat |-> g[n]]
    OBVIOUS
  <2> HIDE DEF g
  <2>4. Is(g)
    BY <2>2, <2>3 DEF Is
  <2>5. QED
    BY <2>4
<1>2. PumpTurns(s, slip) = CHOOSE h : Is(h)
  BY DEF PumpTurns
<1> HIDE DEF Is
<1>3. Is(PumpTurns(s, slip))
  BY <1>1, <1>2
<1> DEFINE f == PumpTurns(s, slip)
<1> HIDE DEF f
<1>4. f = [n \in Nat |-> IF n = 0 THEN s ELSE PumpOne(f[n - 1], slip)]
  BY <1>3 DEF Is, f
<1>5. f[0] = s
  BY <1>4
<1>6. ASSUME NEW n \in Nat PROVE f[n + 1] = PumpOne(f[n], slip)
  <2>1. n + 1 \in Nat /\ n + 1 # 0 /\ (n + 1) - 1 = n
    OBVIOUS
  <2>2. f[n + 1] = PumpOne(f[(n + 1) - 1], slip)
    BY <1>4, <2>1
  <2>3. QED
    BY <2>1, <2>2
<1>7. QED
  BY <1>5, <1>6 DEF f

\* The loop ends with every slot taken or nobody waiting, whatever the clock,
\* the signals and the cursor did, within as many turns as there are runs.
LEMMA PumpEffect ==
  ASSUME NEW s, Good(s), s.inflight <= MaxConcurrent, NEW X, NEW slip \in [X -> Slips]
  PROVE  LET t == Pump(s, slip)
         IN  Good(t) /\ t.inflight <= MaxConcurrent /\ Handed(s, t) /\ AtEnd(t)
<1> DEFINE f == PumpTurns(s, slip)
           Q(n) == InPhase(f[n], "queued")
           S == {n \in Nat : /\ Good(f[n]) /\ f[n].inflight <= MaxConcurrent /\ Handed(s, f[n])
                             /\ AtEnd(f[n]) \/ Cardinality(Q(n)) + n <= Cardinality(Run)}
<1>1. f[0] = s /\ \A n \in Nat : f[n + 1] = PumpOne(f[n], slip)
  BY PumpTurnsEq
<1> HIDE DEF f
<1>2. \A n : IsFiniteSet(Q(n)) /\ Cardinality(Q(n)) \in Nat /\ Cardinality(Q(n)) <= Cardinality(Run)
  <2>1. \A n : Q(n) \subseteq Run
    BY DEF InPhase
  <2>2. QED
    BY <2>1, CoordinatorAssumption, FiniteRuns, FS_Subset
<1>3. Cardinality(Run) \in Nat
  BY FiniteRuns
<1>4. 0 \in S
  <2>1. Handed(s, s)
    BY DEF Handed, Moved, Kept
  <2> HIDE DEF Q
  <2>2. Cardinality(Q(0)) + 0 <= Cardinality(Run)
    BY <1>2, <1>3
  <2>3. QED
    BY <1>1, <2>1, <2>2
<1>5. ASSUME NEW n \in Nat, n \in S PROVE n + 1 \in S
  <2>0. /\ Good(f[n]) /\ f[n].inflight <= MaxConcurrent /\ Handed(s, f[n])
        /\ AtEnd(f[n]) \/ Cardinality(Q(n)) + n <= Cardinality(Run)
    BY <1>5
  <2>1. /\ Good(f[n + 1]) /\ f[n + 1].inflight <= MaxConcurrent /\ Handed(f[n], f[n + 1])
        /\ \/ AtEnd(f[n]) /\ f[n + 1] = f[n]
           \/ \E r \in Q(n) : Q(n + 1) = Q(n) \ {r}
    BY <1>1, <2>0, PumpOneEffect
  <2>2. Handed(s, f[n + 1])
    BY <2>0, <2>1, HandedTrans
  <2>3. AtEnd(f[n + 1]) \/ Cardinality(Q(n + 1)) + (n + 1) <= Cardinality(Run)
    <3>1. CASE AtEnd(f[n])
      <4>1. f[n + 1] = f[n]
        BY <1>1, <3>1 DEF PumpOne, AtEnd
      <4>2. QED
        BY <3>1, <4>1
    <3>2. CASE ~AtEnd(f[n])
      <4> HIDE DEF Q
      <4>1. PICK r \in Q(n) : Q(n + 1) = Q(n) \ {r}
        BY <2>1, <3>2
      <4>2. Cardinality(Q(n) \ {r}) = Cardinality(Q(n)) - 1
        BY <1>2, FS_RemoveElement
      <4>3. Cardinality(Q(n)) + n <= Cardinality(Run)
        BY <2>0, <3>2
      <4>4. Cardinality(Q(n)) \in Nat /\ Cardinality(Q(n + 1)) = Cardinality(Q(n)) - 1
        BY <1>2, <4>1, <4>2
      <4>5. QED
        BY <1>3, <4>3, <4>4
    <3>3. QED
      BY <3>1, <3>2
  <2> HIDE DEF Q
  <2>4. QED
    BY <2>1, <2>2, <2>3
<1> HIDE DEF S
<1>6. Cardinality(Run) \in S
  BY <1>3, <1>4, <1>5, SetInduction
<1> DEFINE t == f[Cardinality(Run)]
<1>7. Good(t) /\ t.inflight <= MaxConcurrent /\ Handed(s, t)
      /\ (AtEnd(t) \/ Cardinality(InPhase(t, "queued")) + Cardinality(Run) <= Cardinality(Run))
  BY <1>6 DEF S
<1>8. t = Pump(s, slip)
  BY DEF Pump, f
<1>9. AtEnd(t)
  <2>1. SUFFICES ASSUME ~AtEnd(t) PROVE FALSE
    OBVIOUS
  <2>2. Cardinality(InPhase(t, "queued")) = 0 /\ IsFiniteSet(InPhase(t, "queued"))
    <3>1. Cardinality(Q(Cardinality(Run))) = 0
      <4>1. Cardinality(Q(Cardinality(Run))) + Cardinality(Run) <= Cardinality(Run)
        BY <1>7, <2>1
      <4> HIDE DEF Q
      <4>2. QED
        BY <1>2, <1>3, <4>1
    <3>2. QED
      BY <1>2, <3>1
  <2>3. InPhase(t, "queued") = {}
    BY <2>2, FS_EmptySet
  <2>4. InPhase(t, "queued") \in SUBSET Run
    BY DEF InPhase
  <2> HIDE DEF t
  <2>5. t.order = <<>>
    BY <1>7, <2>3, <2>4, HoldsNothing DEF Good
  <2>6. QED
    BY <2>1, <2>5 DEF AtEnd
<1>10. QED
  BY <1>7, <1>8, <1>9

\* A pump finds nothing to do while every slot is taken, or nobody waits.
LEMMA PumpIdle ==
  ASSUME NEW s, Good(s), s.inflight <= MaxConcurrent, AtEnd(s), NEW X, NEW slip \in [X -> Slips]
  PROVE  Pump(s, slip) = s
<1> DEFINE f == PumpTurns(s, slip)
           S == {n \in Nat : f[n] = s}
<1>1. f[0] = s /\ \A n \in Nat : f[n + 1] = PumpOne(f[n], slip)
  BY PumpTurnsEq
<1>2. PumpOne(s, slip) = s
  BY DEF PumpOne, AtEnd
<1> HIDE DEF f
<1>3. 0 \in S /\ \A n \in Nat : n \in S => n + 1 \in S
  BY <1>1, <1>2
<1> HIDE DEF S
<1>4. Cardinality(Run) \in S
  BY <1>3, FiniteRuns, SetInduction
<1>5. QED
  BY <1>4 DEF S, Pump, f

-----------------------------------------------------------------------------
(* The inductive invariant.                                                *)

Results == {"applied", "stale", "already-applied"}
Decided == {"applied", "stale"}

\* Nothing can wait unless every slot is taken, nor after close(): so every
\* pump but the one that follows a released slot finds nothing to do.
Slots ==
  /\ co.inflight <= MaxConcurrent /\ AtEnd(co)
  /\ closed \in BOOLEAN /\ (closed => co.order = <<>>)

Clock ==
  /\ cancelled \in SUBSET Run /\ age \in [Run -> 0..Deadline]
  /\ \A r \in Run : ~Pending(co, r) => age[r] = 0

\* A `cancelled` outcome has a cause outside the coordinator; an aborted race
\* and an inference timeout have the local controller's abort.
Cause(r) ==
  /\ co.outcome[r] = "cancelled" => Stopped(r)
  /\ co.race[r] = "aborted" => r \in co.local
  /\ co.outcome[r] = "timed-out-inference" /\ co.race[r] # "idle" => r \in co.local

\* A result that decides the run records it, so that only refusals follow.
OnceApplied(r) ==
  \A i \in DOMAIN applied[r] :
    applied[r][i] \in Decided =>
      /\ co.phase[r] = "recorded"
      /\ \A j \in DOMAIN applied[r] : i < j => applied[r][j] = "already-applied"

Inv ==
  /\ Good(co) /\ Slots /\ Clock
  /\ \A r \in Run : Cause(r)
  /\ applied \in [Run -> Seq(Results)] /\ \A r \in Run : OnceApplied(r)

-----------------------------------------------------------------------------
(* Submission.                                                             *)

LedgerMore(s, t, r) ==
  /\ t.sessionCalls = [s.sessionCalls EXCEPT ![SessionOf[r]] = @ + 1]
  /\ t.turnCalls = [s.turnCalls EXCEPT ![TurnOf[r]] = @ + 1]

\* A new run is answered at once, in phase p.
Refused(s, t, r, p, out) ==
  /\ t \in State /\ SameQueues(s, t) /\ SameLedger(s, t) /\ t.inflight = s.inflight
  /\ RunBecomes(s, t, r, p, out, "idle")
  /\ t.settled \in {s.settled, s.settled \cup {KeyOf[r]}}

\* A new run is handed to the provider.
Begins(s, t, r) ==
  /\ t \in State /\ SameQueues(s, t) /\ LedgerMore(s, t, r) /\ t.inflight = s.inflight + 1
  /\ RunBecomes(s, t, r, "running", "none", "open") /\ t.settled = s.settled

\* A new run is queued.
Joins(s, t, r) ==
  /\ t \in State /\ Holds(t, InPhase(s, "queued") \cup {r})
  /\ t.cursor = s.cursor
  /\ t.order = IF SessionOf[r] \in WithWaiters(s) THEN s.order ELSE Append(s.order, SessionOf[r])
  /\ LedgerMore(s, t, r) /\ t.inflight = s.inflight
  /\ RunBecomes(s, t, r, "queued", "none", "idle") /\ t.settled = s.settled

Rejections == {"budget-session", "budget-turn", "queue-full-global", "queue-full-session"}

Rejected(p, out) ==
  \/ p = "created" /\ out = "closed"
  \/ p = "admitted" /\ out = "duplicate"
  \/ p = "recorded" /\ out \in Rejections \cup DropOutcomes

LEMMA HoldsSame ==
  ASSUME NEW s, NEW t, NEW W, Holds(s, W), t.queues = s.queues, t.order = s.order
  PROVE  Holds(t, W)
<1>1. WithWaiters(t) = WithWaiters(s)
  BY DEF WithWaiters
<1>2. QED
  BY <1>1 DEF Holds

LEMMA RefusedGood ==
  ASSUME NEW s, Good(s), NEW r \in Run, s.phase[r] = "created", s.outcome[r] = "none",
         NEW t, NEW p, NEW out, Rejected(p, out), Refused(s, t, r, p, out)
  PROVE  /\ Good(t) /\ InPhase(t, "queued") = InPhase(s, "queued")
         /\ InPhase(t, "running") = InPhase(s, "running") /\ Charged(t) = Charged(s)
         /\ t.order = s.order
<1>1. s \in State /\ t \in State /\ s.race[r] = "idle"
  BY DEF Good, Refused, Life
<1>2. /\ t.phase[r] = p /\ t.outcome[r] = out /\ t.race[r] = "idle"
      /\ \A q \in Run : q # r => /\ t.phase[q] = s.phase[q] /\ t.outcome[q] = s.outcome[q]
                                 /\ t.race[q] = s.race[q]
  BY <1>1 DEF Refused, RunBecomes, State
<1>3. p # "queued" /\ p # "running" /\ out # "none" /\ Life(p, out, "idle")
  BY Zenon DEF Rejected, Rejections, DropOutcomes, Life, Outcomes, QueueOutcomes, Races
<1>4. /\ InPhase(t, "queued") = InPhase(s, "queued")
      /\ InPhase(t, "running") = InPhase(s, "running") /\ Charged(t) = Charged(s)
  BY <1>1, <1>2, <1>3 DEF InPhase, Charged
<1>5. /\ t.sessionCalls = Count(Charged(t), SessionOf, Session)
      /\ t.turnCalls = Count(Charged(t), TurnOf, Turn)
      /\ t.inflight = Cardinality(InPhase(t, "running"))
  BY <1>4 DEF Refused, SameLedger, Good
<1>6. Holds(t, InPhase(t, "queued"))
  BY <1>4, HoldsSame DEF Good, Refused, SameQueues
<1>7. ASSUME NEW q \in Run PROVE Life(t.phase[q], t.outcome[q], t.race[q])
  <2>1. CASE q = r
    BY <1>2, <1>3, <2>1
  <2>2. CASE q # r
    BY <1>2, <2>2 DEF Good
  <2>3. QED
    BY <2>1, <2>2
<1>8. Remembered(t)
  <2>1. Remembered(s) /\ (t.settled = s.settled \/ t.settled = s.settled \cup {KeyOf[r]})
    BY DEF Good, Refused
  <2>2. t.outcome[r] # "none" /\ \A q \in Run : s.outcome[q] # "none" => t.outcome[q] # "none"
    BY <1>2, <1>3
  <2>3. QED
    BY <1>1, <2>1, <2>2, RememberedStays
<1>9. t.order = s.order
  BY DEF Refused, SameQueues
<1>10. QED
  BY <1>1, <1>4, <1>5, <1>6, <1>7, <1>8, <1>9 DEF Good

Placed(s, t, r, p, c) ==
  \/ p = "queued" /\ c = "idle" /\ t.inflight = s.inflight
     /\ Holds(t, InPhase(s, "queued") \cup {r})
  \/ p = "running" /\ c = "open" /\ t.inflight = s.inflight + 1
     /\ Holds(t, InPhase(s, "queued"))

\* One run more is charged, and it waits or runs.
LEMMA ChargedGood ==
  ASSUME NEW s, Good(s), NEW r \in Run, s.phase[r] = "created", s.outcome[r] = "none",
         NEW t \in State, LedgerMore(s, t, r), t.settled = s.settled,
         NEW p, NEW c, RunBecomes(s, t, r, p, "none", c),
         Placed(s, t, r, p, c)
  PROVE  /\ Good(t) /\ Charged(t) = Charged(s) \cup {r} /\ r \notin Charged(s)
         /\ p = "queued" => /\ InPhase(t, "queued") = InPhase(s, "queued") \cup {r}
                            /\ InPhase(t, "running") = InPhase(s, "running")
         /\ p = "running" => /\ InPhase(t, "queued") = InPhase(s, "queued")
                             /\ InPhase(t, "running") = InPhase(s, "running") \cup {r}
<1>1. s \in State /\ s.race[r] = "idle"
  BY DEF Good, Life
<1>2. /\ t.phase[r] = p /\ t.outcome[r] = "none" /\ t.race[r] = c
      /\ \A q \in Run : q # r => /\ t.phase[q] = s.phase[q] /\ t.outcome[q] = s.outcome[q]
                                 /\ t.race[q] = s.race[q]
  BY <1>1 DEF RunBecomes, State
<1>3. (p = "queued" /\ c = "idle") \/ (p = "running" /\ c = "open")
  BY DEF Placed
<1>4. Charged(t) = Charged(s) \cup {r} /\ r \notin Charged(s) /\ Charged(s) \in SUBSET Run
  BY <1>1, <1>2, <1>3 DEF Charged
<1>5. /\ p = "queued" => /\ InPhase(t, "queued") = InPhase(s, "queued") \cup {r}
                         /\ InPhase(t, "running") = InPhase(s, "running")
      /\ p = "running" => /\ InPhase(t, "queued") = InPhase(s, "queued")
                          /\ InPhase(t, "running") = InPhase(s, "running") \cup {r}
  BY <1>2 DEF InPhase
<1>6. t.sessionCalls = Count(Charged(t), SessionOf, Session)
  <2>1. t.sessionCalls = [Count(Charged(s), SessionOf, Session) EXCEPT ![SessionOf[r]] = @ + 1]
    BY DEF LedgerMore, Good
  <2>2. \A x \in Run : SessionOf[x] \in Session
    BY CoordinatorAssumption
  <2>3. QED
    BY <1>4, <2>1, <2>2, CountMore
<1>7. t.turnCalls = Count(Charged(t), TurnOf, Turn)
  <2>1. t.turnCalls = [Count(Charged(s), TurnOf, Turn) EXCEPT ![TurnOf[r]] = @ + 1]
    BY DEF LedgerMore, Good
  <2>2. \A x \in Run : TurnOf[x] \in Turn
    BY CoordinatorAssumption
  <2>3. QED
    BY <1>4, <2>1, <2>2, CountMore
<1>8. t.inflight = Cardinality(InPhase(t, "running")) /\ Holds(t, InPhase(t, "queued"))
  <2>1. CASE p = "queued"
    BY <1>5, <2>1 DEF Good, Placed
  <2>2. CASE p = "running"
    <3>1. IsFiniteSet(InPhase(s, "running")) /\ r \notin InPhase(s, "running")
      BY FiniteRuns DEF InPhase
    <3>2. t.inflight = Cardinality(InPhase(s, "running")) + 1
      BY <2>2 DEF Good, Placed
    <3>3. Holds(t, InPhase(s, "queued"))
      BY <2>2 DEF Placed
    <3>4. QED
      BY <1>5, <2>2, <3>1, <3>2, <3>3, FS_AddElement
  <2>3. QED
    BY <1>3, <2>1, <2>2
<1>9. ASSUME NEW q \in Run PROVE Life(t.phase[q], t.outcome[q], t.race[q])
  <2>1. CASE q = r
    BY <1>2, <1>3, <2>1 DEF Life, Races
  <2>2. CASE q # r
    BY <1>2, <2>2 DEF Good
  <2>3. QED
    BY <2>1, <2>2
<1>10. Remembered(t)
  <2>1. Remembered(s) /\ t.settled = s.settled
    BY DEF Good
  <2>2. \A q \in Run : s.outcome[q] # "none" => t.outcome[q] # "none"
    BY <1>2
  <2>3. QED
    BY <1>1, <2>1, <2>2, RememberedStays
<1>11. QED
  BY <1>4, <1>5, <1>6, <1>7, <1>8, <1>9, <1>10 DEF Good

LEMMA JoinsGood ==
  ASSUME NEW s, Good(s), NEW r \in Run, s.phase[r] = "created", s.outcome[r] = "none",
         NEW t, Joins(s, t, r)
  PROVE  /\ Good(t) /\ Charged(t) = Charged(s) \cup {r} /\ r \notin Charged(s)
         /\ InPhase(t, "queued") = InPhase(s, "queued") \cup {r}
         /\ InPhase(t, "running") = InPhase(s, "running")
<1>1. /\ t \in State /\ LedgerMore(s, t, r) /\ t.settled = s.settled
      /\ RunBecomes(s, t, r, "queued", "none", "idle")
  BY DEF Joins
<1>2. Placed(s, t, r, "queued", "idle")
  BY DEF Joins, Placed
<1>3. QED
  BY <1>1, <1>2, ChargedGood

LEMMA BeginsGood ==
  ASSUME NEW s, Good(s), NEW r \in Run, s.phase[r] = "created", s.outcome[r] = "none",
         NEW t, Begins(s, t, r)
  PROVE  /\ Good(t) /\ Charged(t) = Charged(s) \cup {r} /\ r \notin Charged(s)
         /\ InPhase(t, "queued") = InPhase(s, "queued")
         /\ InPhase(t, "running") = InPhase(s, "running") \cup {r}
         /\ t.order = s.order
<1>1. Holds(t, InPhase(s, "queued")) /\ t.order = s.order
  BY HoldsSame DEF Begins, Good, SameQueues
<1>2. /\ t \in State /\ LedgerMore(s, t, r) /\ t.settled = s.settled
      /\ RunBecomes(s, t, r, "running", "none", "open")
  BY DEF Begins
<1>3. Placed(s, t, r, "running", "open")
  BY <1>1 DEF Begins, Placed
<1>4. QED
  BY <1>1, <1>2, <1>3, ChargedGood

\* run.to('snapshotted').to('admitted')
LEMMA AdmittedFields ==
  ASSUME NEW s \in State, NEW r \in Run, s.phase[r] = "created"
  PROVE  LET t == To(To(s, r, "snapshotted"), r, "admitted")
         IN  /\ t \in State /\ t.phase = [s.phase EXCEPT ![r] = "admitted"]
             /\ t.outcome = s.outcome /\ t.settled = s.settled /\ t.inflight = s.inflight
             /\ SameQueues(s, t) /\ SameLedger(s, t) /\ SameCalls(s, t)
<1> DEFINE u == To(s, r, "snapshotted")
           t == To(u, r, "admitted")
<1>1. /\ u \in State /\ u.phase = [s.phase EXCEPT ![r] = Advance(s.phase[r], "snapshotted")]
      /\ u.outcome = s.outcome /\ u.settled = s.settled /\ u.inflight = s.inflight
      /\ SameQueues(s, u) /\ SameLedger(s, u) /\ SameCalls(s, u)
  BY ToFields
<1> HIDE DEF u
<1>2. /\ t \in State /\ t.phase = [u.phase EXCEPT ![r] = Advance(u.phase[r], "admitted")]
      /\ t.outcome = u.outcome /\ t.settled = u.settled /\ t.inflight = u.inflight
      /\ SameQueues(u, t) /\ SameLedger(u, t) /\ SameCalls(u, t)
  BY <1>1, ToFields
<1> HIDE DEF t
<1>3. t.phase = [s.phase EXCEPT ![r] = "admitted"]
  <2>1. s.phase \in [Run -> AnyPhase]
    BY DEF State
  <2>2. u.phase = [s.phase EXCEPT ![r] = "snapshotted"]
    BY <1>1, LegalSteps
  <2>3. t.phase = [u.phase EXCEPT ![r] = "admitted"]
    BY <1>2, <2>1, <2>2, LegalSteps
  <2>4. QED
    BY <2>1, <2>2, <2>3
<1>4. QED
  BY <1>1, <1>2, <1>3 DEF SameQueues, SameLedger, SameCalls, t, u

\* A refund undoes a reservation.
LEMMA RefundUndoes ==
  ASSUME NEW K, NEW f \in [K -> Nat], NEW k \in K
  PROVE  [[f EXCEPT ![k] = @ + 1] EXCEPT ![k] = Decrement(@)] = f
<1>1. f[k] + 1 > 0 /\ (f[k] + 1) - 1 = f[k] /\ f[k] \in Nat
  OBVIOUS
<1>2. Decrement(f[k] + 1) = f[k]
  BY <1>1 DEF Decrement
<1>3. QED
  BY <1>2

\* s with r admitted, before or after its reservation.
Admitted(s, u, r) ==
  /\ u \in State /\ u.phase = [s.phase EXCEPT ![r] = "admitted"]
  /\ u.outcome = s.outcome /\ u.settled = s.settled /\ u.inflight = s.inflight
  /\ SameQueues(s, u) /\ SameCalls(s, u)

\* Every path that gives the reservation back leaves the ledger as it was.
LEMMA RefundedAndRefused ==
  ASSUME NEW s, Good(s), NEW r \in Run, s.phase[r] = "created", s.outcome[r] = "none",
         NEW u, Admitted(s, u, r), LedgerMore(s, u, r)
  PROVE  /\ Admitted(s, Refund(u, r), r) /\ SameLedger(s, Refund(u, r))
         /\ \A last \in {"cancelled", "timed_out", "failed"}, out \in Outcomes :
              Refused(s, Finish(Refund(u, r), r, last, out), r, "recorded", out)
<1> DEFINE v == Refund(u, r)
<1>1. s \in State /\ u \in State /\ s.race[r] = "idle"
  BY DEF Good, Admitted, Life
<1>2. /\ v \in State
      /\ v.turnCalls = [u.turnCalls EXCEPT ![TurnOf[r]] = Decrement(@)]
      /\ v.sessionCalls = [u.sessionCalls EXCEPT ![SessionOf[r]] = Decrement(@)]
      /\ v.phase = u.phase /\ v.outcome = u.outcome /\ v.settled = u.settled
      /\ v.inflight = u.inflight /\ SameQueues(u, v) /\ SameCalls(u, v)
  BY <1>1, RefundFields
<1> HIDE DEF v
<1>3. SameLedger(s, v)
  <2>1. /\ s.turnCalls \in [Turn -> Nat] /\ s.sessionCalls \in [Session -> Nat]
        /\ TurnOf[r] \in Turn /\ SessionOf[r] \in Session
    BY <1>1, CoordinatorAssumption DEF State
  <2>2. v.turnCalls = s.turnCalls
    BY <1>2, <2>1, RefundUndoes DEF LedgerMore
  <2>3. v.sessionCalls = s.sessionCalls
    BY <1>2, <2>1, RefundUndoes DEF LedgerMore
  <2>4. QED
    BY <2>2, <2>3 DEF SameLedger
<1>4. Admitted(s, v, r)
  BY <1>2 DEF Admitted, SameQueues, SameCalls
<1>5. ASSUME NEW last \in {"cancelled", "timed_out", "failed"}, NEW out \in Outcomes
      PROVE  Refused(s, Finish(v, r, last, out), r, "recorded", out)
  <2> DEFINE t == Finish(v, r, last, out)
  <2>1. /\ t \in State
        /\ t.phase = [v.phase EXCEPT ![r] = Advance(Advance(v.phase[r], last), "recorded")]
        /\ t.outcome = [v.outcome EXCEPT ![r] = out] /\ t.inflight = v.inflight
        /\ t.settled = v.settled \cup {KeyOf[r]}
        /\ SameQueues(v, t) /\ SameLedger(v, t) /\ SameCalls(v, t)
    BY <1>2, FinishFields, SMTT(30)
  <2> HIDE DEF t
  <2>2. Advance(Advance("admitted", last), "recorded") = "recorded"
    BY LegalSteps
  <2>3. v.phase[r] = "admitted" /\ s.phase \in [Run -> AnyPhase]
    BY <1>1, <1>4 DEF Admitted, State
  <2>4. t.phase = [s.phase EXCEPT ![r] = "recorded"]
    BY <1>4, <2>1, <2>2, <2>3 DEF Admitted
  <2>5. t.race = [s.race EXCEPT ![r] = "idle"] /\ t.local = s.local
    BY <1>1, <1>4, <2>1 DEF Admitted, SameCalls, State
  <2>6. t.outcome = [s.outcome EXCEPT ![r] = out] /\ t.inflight = s.inflight
        /\ t.settled = s.settled \cup {KeyOf[r]}
    BY <1>4, <2>1 DEF Admitted
  <2>7. SameQueues(s, t) /\ SameLedger(s, t)
    BY <1>3, <1>4, <2>1 DEF Admitted, SameQueues, SameLedger
  <2>8. QED
    BY <2>1, <2>4, <2>5, <2>6, <2>7 DEF Refused, RunBecomes, t
<1>6. QED
  BY <1>3, <1>4, <1>5 DEF v

\* The synchronous part of #execute, for a run that was just submitted.
LEMMA StartedFresh ==
  ASSUME NEW s, Good(s), NEW r \in Run, s.phase[r] = "created", s.outcome[r] = "none",
         NEW u, Admitted(s, u, r), LedgerMore(s, u, r),
         NEW X, NEW slip \in [X -> Slips]
  PROVE  LET t == Started([u EXCEPT !.inflight = @ + 1], r, slip)
         IN  \/ Begins(s, t, r) /\ r \notin cancelled
             \/ \E out \in DropOutcomes :
                  Refused(s, t, r, "recorded", out) /\ (out = "cancelled" => r \in cancelled)
<1> DEFINE v == [u EXCEPT !.inflight = @ + 1]
           w == Release(v)
           t == Started(v, r, slip)
<1>1. s \in State /\ u \in State /\ s.race[r] = "idle"
  BY DEF Good, Admitted, Life
<1>2. /\ v \in State /\ v.inflight = u.inflight + 1
      /\ v.phase = u.phase /\ v.outcome = u.outcome /\ v.settled = u.settled
      /\ SameQueues(u, v) /\ SameLedger(u, v) /\ SameCalls(u, v)
  <2>1. u.inflight \in Nat /\ u.inflight + 1 \in Nat
    BY <1>1 DEF State
  <2>2. v = [u EXCEPT !.inflight = u.inflight + 1]
    OBVIOUS
  <2> HIDE DEF v
  <2>3. QED
    BY <1>1, <2>1, <2>2, InflightFields
<1> HIDE DEF v
<1>3. /\ w \in State /\ w.inflight = Decrement(v.inflight)
      /\ w.phase = v.phase /\ w.outcome = v.outcome /\ w.settled = v.settled
      /\ SameQueues(v, w) /\ SameLedger(v, w) /\ SameCalls(v, w)
  BY <1>2, ReleaseFields
<1> HIDE DEF w
<1>4. Admitted(s, w, r) /\ LedgerMore(s, w, r)
  <2>1. u.inflight \in Nat
    BY <1>1 DEF State
  <2>2. w.inflight = u.inflight
    BY <1>2, <1>3, <2>1 DEF Decrement
  <2>3. QED
    BY <1>2, <1>3, <2>2 DEF Admitted, LedgerMore, SameQueues, SameLedger, SameCalls
<1>5. ASSUME NEW last \in {"cancelled", "timed_out", "failed"}, NEW out \in DropOutcomes
      PROVE  Refused(s, Finish(Refund(w, r), r, last, out), r, "recorded", out)
  <2>1. out \in Outcomes
    BY DEF DropOutcomes, Outcomes, QueueOutcomes
  <2>2. QED
    BY <1>4, <2>1, RefundedAndRefused
<1>6. CASE r \in cancelled
  <2>1. t = Finish(Refund(w, r), r, "cancelled", "cancelled")
    BY <1>6 DEF Started, w
  <2>2. "cancelled" \in DropOutcomes
    BY DEF DropOutcomes
  <2> HIDE DEF t
  <2>3. QED
    BY <1>5, <1>6, <2>1, <2>2 DEF t, v
<1>7. CASE r \notin cancelled /\ SlipOf(slip, r) # "none"
  <2>1. t = Finish(Refund(w, r), r, "timed_out", SlipOf(slip, r))
    BY <1>7 DEF Started, w
  <2>2. SlipOf(slip, r) \in DropOutcomes /\ SlipOf(slip, r) # "cancelled"
    BY <1>7 DEF SlipOf, Slips, DropOutcomes
  <2> HIDE DEF t
  <2>3. QED
    BY <1>5, <2>1, <2>2 DEF t, v
<1>8. CASE r \notin cancelled /\ ~(SlipOf(slip, r) # "none")
  <2>1. t = Evaluate(v, r)
    BY <1>8 DEF Started
  <2> HIDE DEF t
  <2>2. /\ t \in State
        /\ t.phase = [v.phase EXCEPT ![r] = Advance(v.phase[r], "running")]
        /\ t.race = [v.race EXCEPT ![r] = "open"] /\ t.local = v.local
        /\ t.outcome = v.outcome /\ t.settled = v.settled /\ t.inflight = v.inflight
        /\ SameQueues(v, t) /\ SameLedger(v, t)
    BY <1>1, <1>2, <2>1, EvaluateFields
  <2>3. RunBecomes(s, t, r, "running", "none", "open")
    <3>1. Advance("admitted", "running") = "running"
      BY LegalSteps
    <3>2. s.outcome = [s.outcome EXCEPT ![r] = "none"] /\ s.phase \in [Run -> AnyPhase]
      BY <1>1 DEF State
    <3>3. v.phase = [s.phase EXCEPT ![r] = "admitted"] /\ v.phase[r] = "admitted"
      BY <1>2, <3>2 DEF Admitted
    <3>4. t.phase = [s.phase EXCEPT ![r] = "running"]
      BY <2>2, <3>1, <3>2, <3>3
    <3>5. t.race = [s.race EXCEPT ![r] = "open"] /\ t.local = s.local
      BY <1>2, <2>2 DEF SameCalls, Admitted
    <3>6. t.outcome = s.outcome
      BY <1>2, <2>2 DEF Admitted
    <3>7. QED
      BY <3>2, <3>4, <3>5, <3>6 DEF RunBecomes
  <2>4. /\ SameQueues(s, t) /\ LedgerMore(s, t, r) /\ t.inflight = s.inflight + 1
        /\ t.settled = s.settled
    BY <1>2, <2>2 DEF SameQueues, SameLedger, LedgerMore, Admitted
  <2>5. Begins(s, t, r)
    BY <2>2, <2>3, <2>4 DEF Begins
  <2>6. QED
    BY <1>8, <2>5 DEF t, v
<1>9. QED
  BY <1>6, <1>7, <1>8

Room(r) == Queued(co) < MaxQueue /\ Len(co.queues[SessionOf[r]]) < MaxQueuePerSession

\* Why a new run is answered at once.
Refusal(r, p, out) ==
  \/ closed /\ p = "created" /\ out = "closed"
  \/ ~closed /\ p = "admitted" /\ out = "duplicate" /\ KeyOf[r] \in co.settled
  \/ ~closed /\ p = "recorded" /\ BudgetRefusal(co, r) = out /\ out # "none"
  \/ /\ ~closed /\ p = "recorded" /\ BudgetRefusal(co, r) = "none"
     /\ co.inflight < MaxConcurrent
     /\ out \in DropOutcomes /\ (out = "cancelled" => r \in cancelled)
  \/ /\ ~closed /\ p = "recorded" /\ BudgetRefusal(co, r) = "none"
     /\ ~(co.inflight < MaxConcurrent) /\ ~Room(r)
     /\ out \in {"queue-full-global", "queue-full-session"}

\* ... and what submit() comes to in all: since nobody waits while a slot is
\* free, the pump of a run that is dropped at its start finds nothing to do.
LEMMA SubmittedEffect ==
  ASSUME Good(co), Slots, NEW r \in Run, co.phase[r] = "created", co.outcome[r] = "none",
         NEW X, NEW slip \in [X -> Slips]
  PROVE  LET t == Submitted(r, slip)
         IN  \/ \E p, out : Refused(co, t, r, p, out) /\ Refusal(r, p, out)
             \/ /\ Begins(co, t, r) /\ ~closed /\ r \notin cancelled
                /\ BudgetRefusal(co, r) = "none" /\ co.inflight < MaxConcurrent
             \/ /\ Joins(co, t, r) /\ ~closed
                /\ BudgetRefusal(co, r) = "none" /\ ~(co.inflight < MaxConcurrent) /\ Room(r)
<1> DEFINE s == To(To(co, r, "snapshotted"), r, "admitted")
           k == SessionOf[r]
           reserved == Reserve(s, r)
           t == Submitted(r, slip)
           b == BudgetRefusal(co, r)
<1>1. co \in State /\ co.race[r] = "idle" /\ co.inflight \in Nat /\ MaxConcurrent \in Nat
  BY CoordinatorAssumption DEF Good, Life, State
<1>2. /\ s \in State /\ s.phase = [co.phase EXCEPT ![r] = "admitted"]
      /\ s.outcome = co.outcome /\ s.settled = co.settled /\ s.inflight = co.inflight
      /\ SameQueues(co, s) /\ SameLedger(co, s) /\ SameCalls(co, s)
  BY <1>1, AdmittedFields
<1> HIDE DEF s
<1>3. Admitted(co, s, r)
  BY <1>2 DEF Admitted
<1>4. /\ reserved \in State
      /\ reserved.turnCalls = [s.turnCalls EXCEPT ![TurnOf[r]] = @ + 1]
      /\ reserved.sessionCalls = [s.sessionCalls EXCEPT ![SessionOf[r]] = @ + 1]
      /\ reserved.phase = s.phase /\ reserved.outcome = s.outcome /\ reserved.settled = s.settled
      /\ reserved.inflight = s.inflight /\ SameQueues(s, reserved) /\ SameCalls(s, reserved)
  BY <1>2, ReserveFields
<1> HIDE DEF reserved
<1>5. Admitted(co, reserved, r) /\ LedgerMore(co, reserved, r)
  BY <1>2, <1>4 DEF Admitted, LedgerMore, SameLedger, SameQueues, SameCalls
<1>6. b = BudgetRefusal(s, r)
  BY <1>2 DEF BudgetRefusal, SameLedger
<1>7. b \in {"none", "budget-session", "budget-turn"}
  BY DEF BudgetRefusal
<1> HIDE DEF b
<1>8. CASE closed
  <2>1. t = [co EXCEPT !.outcome[r] = "closed"]
    BY <1>8 DEF Submitted
  <2> DEFINE o == [co.outcome EXCEPT ![r] = "closed"]
  <2>2. o \in [Run -> Outcomes] /\ t = [co EXCEPT !.outcome = o]
    BY <1>1, <2>1 DEF State, Outcomes
  <2> HIDE DEF t, o
  <2>3. /\ t \in State /\ SameQueues(co, t) /\ SameLedger(co, t) /\ t.inflight = co.inflight
        /\ t.phase = co.phase /\ t.outcome = o /\ t.race = co.race /\ t.local = co.local
        /\ t.settled = co.settled
    BY <1>1, <2>2 DEF State, SameQueues, SameLedger
  <2>4. co.phase = [co.phase EXCEPT ![r] = "created"] /\ co.race = [co.race EXCEPT ![r] = "idle"]
    BY <1>1 DEF State
  <2>5. Refused(co, t, r, "created", "closed")
    BY <2>3, <2>4 DEF Refused, RunBecomes, o
  <2>6. Refusal(r, "created", "closed")
    BY <1>8 DEF Refusal
  <2>7. QED
    BY <2>5, <2>6 DEF t
<1>9. CASE ~closed /\ KeyOf[r] \in co.settled
  <2>1. t = [s EXCEPT !.outcome[r] = "duplicate"]
    BY <1>9 DEF Submitted, s
  <2> DEFINE o == [co.outcome EXCEPT ![r] = "duplicate"]
  <2>2. o \in [Run -> Outcomes] /\ t = [s EXCEPT !.outcome = o]
    BY <1>1, <1>2, <2>1 DEF State, Outcomes
  <2> HIDE DEF t, o
  <2>3. /\ t \in State /\ SameQueues(s, t) /\ SameLedger(s, t) /\ t.inflight = s.inflight
        /\ t.phase = s.phase /\ t.outcome = o /\ t.race = s.race /\ t.local = s.local
        /\ t.settled = s.settled
    BY <1>2, <2>2 DEF State, SameQueues, SameLedger
  <2>4. co.race = [co.race EXCEPT ![r] = "idle"]
    BY <1>1 DEF State
  <2>5. SameQueues(co, t) /\ SameLedger(co, t) /\ t.race = co.race /\ t.local = co.local
    BY <1>2, <2>3 DEF SameQueues, SameLedger, SameCalls
  <2>6. Refused(co, t, r, "admitted", "duplicate")
    BY <1>2, <2>3, <2>4, <2>5 DEF Refused, RunBecomes, o
  <2>7. Refusal(r, "admitted", "duplicate")
    BY <1>9 DEF Refusal
  <2>8. QED
    BY <2>6, <2>7 DEF t
<1>10. CASE ~closed /\ KeyOf[r] \notin co.settled /\ b # "none"
  <2>1. t = Finish(s, r, "failed", b)
    BY <1>6, <1>10 DEF Submitted, s
  <2>2. b \in Outcomes
    BY <1>7 DEF Outcomes
  <2> HIDE DEF t
  <2>3. /\ t \in State
        /\ t.phase = [s.phase EXCEPT ![r] = Advance(Advance(s.phase[r], "failed"), "recorded")]
        /\ t.outcome = [s.outcome EXCEPT ![r] = b] /\ t.inflight = s.inflight
        /\ t.settled = s.settled \cup {KeyOf[r]}
        /\ SameQueues(s, t) /\ SameLedger(s, t) /\ SameCalls(s, t)
    BY <1>2, <2>1, <2>2, FinishFields, SMTT(30)
  <2>4. t.phase = [co.phase EXCEPT ![r] = "recorded"]
    <3>1. Advance(Advance("admitted", "failed"), "recorded") = "recorded"
      BY LegalSteps
    <3>2. s.phase[r] = "admitted" /\ co.phase \in [Run -> AnyPhase]
      BY <1>1, <1>2 DEF State
    <3>3. QED
      BY <1>2, <2>3, <3>1, <3>2
  <2>5. t.race = [co.race EXCEPT ![r] = "idle"] /\ t.local = co.local
    BY <1>1, <1>2, <2>3 DEF SameCalls, State
  <2>6. SameQueues(co, t) /\ SameLedger(co, t)
    BY <1>2, <2>3 DEF SameQueues, SameLedger
  <2>7. Refused(co, t, r, "recorded", b)
    BY <1>2, <2>3, <2>4, <2>5, <2>6 DEF Refused, RunBecomes
  <2>8. Refusal(r, "recorded", b)
    BY <1>10 DEF Refusal, b
  <2>9. QED
    BY <2>7, <2>8 DEF t
<1>11. CASE ~closed /\ KeyOf[r] \notin co.settled /\ b = "none" /\ co.inflight < MaxConcurrent
  <2> DEFINE u == Started([reserved EXCEPT !.inflight = @ + 1], r, slip)
  <2>1. t = IF u.phase[r] = "running" THEN u ELSE Pump(u, slip)
    BY <1>6, <1>11 DEF Submitted, Execute, s, reserved
  <2>2. \/ Begins(co, u, r) /\ r \notin cancelled
        \/ \E out \in DropOutcomes :
             Refused(co, u, r, "recorded", out) /\ (out = "cancelled" => r \in cancelled)
    BY <1>5, StartedFresh
  <2> HIDE DEF t, u
  <2>3. ASSUME Begins(co, u, r), r \notin cancelled
        PROVE  Begins(co, t, r) /\ r \notin cancelled
    <3>1. u.phase[r] = "running"
      BY <1>1, <2>3 DEF Begins, RunBecomes, State
    <3>2. QED
      BY <2>1, <2>3, <3>1
  <2>4. ASSUME NEW out \in DropOutcomes, Refused(co, u, r, "recorded", out)
        PROVE  Refused(co, t, r, "recorded", out)
    <3>1. u.phase[r] # "running"
      BY <1>1, <2>4 DEF Refused, RunBecomes, State
    <3>2. Rejected("recorded", out)
      BY DEF Rejected
    <3>3. Good(u) /\ u.order = co.order
      BY <2>4, <3>2, RefusedGood
    <3>4. AtEnd(u) /\ u.inflight <= MaxConcurrent
      BY <1>1, <1>11, <2>4, <3>3 DEF Slots, AtEnd, Refused
    <3>5. Pump(u, slip) = u
      BY <3>3, <3>4, PumpIdle
    <3>6. QED
      BY <2>1, <2>4, <3>1, <3>5
  <2>5. \A out \in DropOutcomes : (out = "cancelled" => r \in cancelled) => Refusal(r, "recorded", out)
    BY <1>11 DEF Refusal, b
  <2>6. QED
    BY <1>11, <2>2, <2>3, <2>4, <2>5 DEF t, b
<1>12. CASE ~closed /\ KeyOf[r] \notin co.settled /\ b = "none" /\ ~(co.inflight < MaxConcurrent)
            /\ ~Room(r)
  <2> DEFINE v == Refund(reserved, r)
             w == To(v, r, "queued")
  <2>1. PICK out \in {"queue-full-global", "queue-full-session"} : t = Finish(w, r, "failed", out)
    <3>1. MaxQueue \in Nat /\ MaxQueuePerSession \in Nat
      BY CoordinatorAssumption
    <3>2. Queued(co) \in Nat /\ Len(co.queues[k]) \in Nat
      <4>1. InPhase(co, "queued") \in SUBSET Run /\ Holds(co, InPhase(co, "queued")) /\ k \in Session
        BY CoordinatorAssumption DEF InPhase, Good
      <4>2. OfSession(InPhase(co, "queued"), k) \in SUBSET Run
        BY DEF OfSession, InPhase
      <4>3. QED
        BY <1>1, <4>1, <4>2, QueuedCount, FiniteRuns
    <3>3. Queued(co) >= MaxQueue \/ Len(co.queues[k]) >= MaxQueuePerSession
      BY <1>12, <3>1, <3>2 DEF Room
    <3>4. CASE Queued(co) >= MaxQueue
      BY <1>6, <1>12, <3>4 DEF Submitted, s, reserved
    <3>5. CASE ~(Queued(co) >= MaxQueue) /\ Len(co.queues[k]) >= MaxQueuePerSession
      BY <1>6, <1>12, <3>5 DEF Submitted, s, reserved
    <3>6. QED
      BY <3>3, <3>4, <3>5
  <2> HIDE DEF t
  <2>2. Admitted(co, v, r) /\ SameLedger(co, v)
    BY <1>5, RefundedAndRefused
  <2> HIDE DEF v
  <2>3. /\ w \in State /\ w.phase = [v.phase EXCEPT ![r] = Advance(v.phase[r], "queued")]
        /\ w.outcome = v.outcome /\ w.settled = v.settled /\ w.inflight = v.inflight
        /\ SameQueues(v, w) /\ SameLedger(v, w) /\ SameCalls(v, w)
    BY <2>2, ToFields DEF Admitted
  <2> HIDE DEF w
  <2>4. out \in Outcomes
    BY DEF Outcomes, QueueOutcomes
  <2>5. /\ t \in State
        /\ t.phase = [w.phase EXCEPT ![r] = Advance(Advance(w.phase[r], "failed"), "recorded")]
        /\ t.outcome = [w.outcome EXCEPT ![r] = out] /\ t.inflight = w.inflight
        /\ t.settled = w.settled \cup {KeyOf[r]}
        /\ SameQueues(w, t) /\ SameLedger(w, t) /\ SameCalls(w, t)
    BY <2>1, <2>3, <2>4, FinishFields, SMTT(30)
  <2>6. t.phase = [co.phase EXCEPT ![r] = "recorded"]
    <3>1. co.phase \in [Run -> AnyPhase]
      BY <1>1 DEF State
    <3>2. v.phase = [co.phase EXCEPT ![r] = "admitted"] /\ v.phase[r] = "admitted"
      BY <2>2, <3>1 DEF Admitted
    <3>3. w.phase = [co.phase EXCEPT ![r] = "queued"] /\ w.phase[r] = "queued"
      BY <2>3, <3>1, <3>2, LegalSteps
    <3>4. Advance(Advance("queued", "failed"), "recorded") = "recorded"
      BY LegalSteps
    <3>5. QED
      BY <2>5, <3>1, <3>3, <3>4
  <2>7. t.race = [co.race EXCEPT ![r] = "idle"] /\ t.local = co.local
    BY <1>1, <2>2, <2>3, <2>5 DEF SameCalls, State, Admitted
  <2>8. SameQueues(co, t) /\ SameLedger(co, t)
    BY <2>2, <2>3, <2>5 DEF SameQueues, SameLedger, Admitted
  <2>9. t.outcome = [co.outcome EXCEPT ![r] = out] /\ t.inflight = co.inflight
        /\ t.settled = co.settled \cup {KeyOf[r]}
    BY <2>2, <2>3, <2>5 DEF Admitted
  <2>10. Refused(co, t, r, "recorded", out)
    BY <2>5, <2>6, <2>7, <2>8, <2>9 DEF Refused, RunBecomes
  <2>11. Refusal(r, "recorded", out)
    BY <1>12 DEF Refusal, b
  <2>12. QED
    BY <2>10, <2>11 DEF t
<1>13. CASE ~closed /\ KeyOf[r] \notin co.settled /\ b = "none" /\ ~(co.inflight < MaxConcurrent)
            /\ Room(r)
  <2> DEFINE v == To(reserved, r, "queued")
             list == Append(co.queues[k], r)
             W == InPhase(co, "queued")
  <2>1. ~(Queued(co) >= MaxQueue) /\ ~(Len(co.queues[k]) >= MaxQueuePerSession)
    <3>1. MaxQueue \in Nat /\ MaxQueuePerSession \in Nat
      BY CoordinatorAssumption
    <3>2. W \in SUBSET Run /\ Holds(co, W) /\ k \in Session /\ OfSession(W, k) \in SUBSET Run
      BY CoordinatorAssumption DEF InPhase, Good, OfSession
    <3>3. Queued(co) \in Nat /\ Len(co.queues[k]) \in Nat
      BY <1>1, <3>2, QueuedCount, FiniteRuns
    <3>4. QED
      BY <1>13, <3>1, <3>3 DEF Room
  <2>2. t = SetQueue(v, k, list)
    BY <1>6, <1>13, <2>1 DEF Submitted, s, reserved
  <2> HIDE DEF t
  <2>3. /\ v \in State /\ v.phase = [reserved.phase EXCEPT ![r] = Advance(reserved.phase[r], "queued")]
        /\ v.outcome = reserved.outcome /\ v.settled = reserved.settled
        /\ v.inflight = reserved.inflight
        /\ SameQueues(reserved, v) /\ SameLedger(reserved, v) /\ SameCalls(reserved, v)
    BY <1>4, ToFields
  <2> HIDE DEF v
  <2>4. W \in SUBSET Run /\ r \notin W /\ Holds(co, W)
    BY DEF InPhase, Good
  <2>5. Holds(v, W) /\ list = Append(v.queues[k], r)
    BY <1>5, <2>3, <2>4, HoldsSame DEF SameQueues, Admitted
  <2> HIDE DEF W, list
  <2>6. k \in Session /\ list \in Seq(Run) /\ Holds(t, W \cup {r})
    BY <2>2, <2>3, <2>4, <2>5, HoldsAppend
  <2>7. /\ t \in State /\ t.phase = v.phase /\ t.outcome = v.outcome /\ t.settled = v.settled
        /\ t.inflight = v.inflight /\ SameLedger(v, t) /\ SameCalls(v, t)
        /\ t.cursor = v.cursor
        /\ t.order = IF k \in WithWaiters(v) THEN v.order ELSE Append(v.order, k)
    <3>1. Lists(v.order, WithWaiters(v)) /\ list # <<>>
      <4>1. Len(list) # 0
        <5>1. co.queues[k] \in Seq(Run)
          BY <1>1, <2>6 DEF State
        <5>2. QED
          BY <5>1 DEF list
      <4>2. QED
        BY <2>5, <4>1 DEF Holds
    <3> HIDE DEF k
    <3> DEFINE u == SetQueue(v, k, list)
    <3>6. v \in State /\ k \in Session /\ list \in Seq(Run) /\ Lists(v.order, WithWaiters(v))
      BY <2>3, <2>6, <3>1
    <3>2. u \in State
      BY <3>6, SetQueueFields
    <3>3. /\ u.phase = v.phase /\ u.outcome = v.outcome /\ u.settled = v.settled
          /\ u.inflight = v.inflight /\ u.cursor = v.cursor
      <4>1. u.phase = v.phase
        BY <3>6, SetQueueFields
      <4>2. u.outcome = v.outcome
        BY <3>6, SetQueueFields
      <4>3. u.settled = v.settled
        BY <3>6, SetQueueFields
      <4>4. u.inflight = v.inflight
        BY <3>6, SetQueueFields
      <4>5. u.cursor = v.cursor
        BY <3>6, SetQueueFields
      <4>6. QED
        BY <4>1, <4>2, <4>3, <4>4, <4>5
    <3>4. SameLedger(v, u) /\ SameCalls(v, u)
      BY <3>6, SetQueueFields
    <3>5. u.order = IF list = <<>> THEN RemoveFirst(v.order, k)
                   ELSE IF k \in WithWaiters(v) THEN v.order ELSE Append(v.order, k)
      BY <3>6, SetQueueFields
    <3> HIDE DEF u
    <3>7. u = t
      BY <2>2 DEF u
    <3>8. QED
      BY <3>1, <3>2, <3>3, <3>4, <3>5, <3>7
  <2>8. t.phase = [co.phase EXCEPT ![r] = "queued"]
    <3>1. co.phase \in [Run -> AnyPhase]
      BY <1>1 DEF State
    <3>2. reserved.phase = [co.phase EXCEPT ![r] = "admitted"] /\ reserved.phase[r] = "admitted"
      BY <1>5, <3>1 DEF Admitted
    <3>3. QED
      BY <2>3, <2>7, <3>1, <3>2, LegalSteps
  <2>9. t.race = [co.race EXCEPT ![r] = "idle"] /\ t.local = co.local
    BY <1>1, <1>5, <2>3, <2>7 DEF SameCalls, State, Admitted
  <2>10. t.outcome = [co.outcome EXCEPT ![r] = "none"]
    BY <1>1, <1>5, <2>3, <2>7 DEF State, Admitted
  <2>11. LedgerMore(co, t, r) /\ t.inflight = co.inflight /\ t.settled = co.settled
    BY <1>5, <2>3, <2>7 DEF SameLedger, LedgerMore, Admitted
  <2>a. /\ t.cursor = co.cursor
        /\ t.order = IF k \in WithWaiters(co) THEN co.order ELSE Append(co.order, k)
    <3>1. v.queues = co.queues /\ v.order = co.order /\ v.cursor = co.cursor
      BY <1>5, <2>3 DEF SameQueues, Admitted
    <3>2. WithWaiters(v) = WithWaiters(co)
      BY <3>1 DEF WithWaiters
    <3>3. QED
      BY <2>7, <3>1, <3>2
  <2>12. Joins(co, t, r)
    BY <2>6, <2>7, <2>8, <2>9, <2>10, <2>11, <2>a DEF Joins, RunBecomes, W
  <2>13. QED
    BY <1>13, <2>12 DEF t, b
<1>14. QED
  BY <1>8, <1>9, <1>10, <1>11, <1>12, <1>13

-----------------------------------------------------------------------------
(* Cancellation of a waiter, and close().                                  *)

\* While every slot is taken the pump of #abortWaiter starts nothing.
LEMMA AbortWaiterEffect ==
  ASSUME NEW s, Good(s), s.inflight <= MaxConcurrent, s.inflight >= MaxConcurrent,
         NEW r \in InPhase(s, "queued"),
         NEW u \in State, NEW V \in SUBSET Run, Holds(u, V), V \ {r} = InPhase(s, "queued") \ {r},
         u.phase = s.phase, u.outcome = s.outcome, u.settled = s.settled,
         u.inflight = s.inflight, SameLedger(s, u), SameCalls(s, u)
  PROVE  Dropped(s, AbortWaiter(u, r), r, "cancelled")
<1> DEFINE t == Aborted(u, r)
<1>1. Dropped(s, t, r, "cancelled")
  BY AbortedEffect
<1>2. AbortWaiter(u, r) = Pump(t, NoSlip)
  BY DEF AbortWaiter, ClosedPhases, InPhase
<1> HIDE DEF t
<1>3. NoSlip \in [{} -> Slips]
  BY DEF NoSlip
<1>4. Good(t)
  BY <1>1, DroppedGood
<1>5. t.inflight <= MaxConcurrent /\ AtEnd(t)
  BY <1>1 DEF Dropped, AtEnd
<1>6. Pump(t, NoSlip) = t
  BY <1>3, <1>4, <1>5, PumpIdle
<1>7. QED
  BY <1>1, <1>2, <1>6

\* close() ends the waiters and touches nobody else.
Swept(s, t) ==
  /\ t.local = s.local /\ t.inflight = s.inflight
  /\ \A q \in Run :
       \/ Kept(s, t, q)
       \/ /\ s.phase[q] = "queued" /\ t.phase[q] = "recorded"
          /\ t.outcome[q] = "cancelled" /\ t.race[q] = "idle"

Closable(s) == Good(s) /\ s.inflight <= MaxConcurrent /\ AtEnd(s)

LEMMA DrainOneEffect ==
  ASSUME NEW s, Closable(s)
  PROVE  LET t == DrainOne(s)
         IN  /\ Closable(t) /\ Swept(s, t)
             /\ \/ s.order = <<>> /\ t = s
                \/ \E r \in InPhase(s, "queued") : InPhase(t, "queued") = InPhase(s, "queued") \ {r}
<1> DEFINE r == NextWaiter(s)
           u == TakeWaiter(s)
           W == InPhase(s, "queued")
           t == DrainOne(s)
<1>1. Good(s) /\ s \in State /\ W \in SUBSET Run /\ Holds(s, W) /\ s.inflight <= MaxConcurrent
  BY DEF Closable, Good, InPhase
<1>2. CASE s.order = <<>>
  BY <1>2 DEF DrainOne, Swept, Kept
<1>3. CASE s.order # <<>>
  <2> HIDE DEF W
  <2>1. /\ r \in W /\ u \in State /\ Holds(u, W \ {r})
        /\ u.phase = s.phase /\ u.outcome = s.outcome /\ u.settled = s.settled
        /\ u.inflight = s.inflight /\ SameLedger(s, u) /\ SameCalls(s, u)
    BY <1>1, <1>3, TakeWaiterEffect
  <2>2. t = AbortWaiter(u, r)
    BY <1>3 DEF DrainOne
  <2>3. s.inflight >= MaxConcurrent
    BY <1>3 DEF Closable, AtEnd
  <2> HIDE DEF r, u, t
  <2>4. W \ {r} \in SUBSET Run /\ (W \ {r}) \ {r} = W \ {r}
    BY <1>1
  <2>5. Dropped(s, t, r, "cancelled")
    BY <1>1, <2>1, <2>2, <2>3, <2>4, AbortWaiterEffect DEF W
  <2>6. Good(t) /\ InPhase(t, "queued") = W \ {r}
    BY <1>1, <2>5, DroppedGood DEF W
  <2>7. t.inflight = s.inflight /\ t.local = s.local
    BY <2>5 DEF Dropped, RunBecomes
  <2>8. Closable(t)
    BY <1>1, <2>3, <2>6, <2>7 DEF Closable, AtEnd
  <2>9. Swept(s, t)
    <3>1. /\ s.phase[r] = "queued" /\ t.phase[r] = "recorded" /\ t.outcome[r] = "cancelled"
          /\ t.race[r] = "idle"
          /\ \A q \in Run : q # r => /\ t.phase[q] = s.phase[q] /\ t.outcome[q] = s.outcome[q]
                                     /\ t.race[q] = s.race[q]
      BY <1>1, <2>5 DEF Dropped, RunBecomes, State, InPhase
    <3>2. QED
      BY <2>7, <3>1, Zenon DEF Swept, Kept
  <2>10. QED
    BY <2>1, <2>6, <2>8, <2>9 DEF t, W
<1>4. QED
  BY <1>2, <1>3

LEMMA DrainIterates ==
  ASSUME NEW s, Closable(s)
  PROVE  \E h : h[0] = s /\ \A n \in Nat : h[n + 1] = DrainOne(h[n])
<1> DEFINE Y == {y \in State : Closable(y)}
           G == [y \in Y |-> DrainOne(y)]
<1>1. \A y \in Y : DrainOne(y) \in Y
  BY DrainOneEffect DEF Closable, Good
<1>2. s \in Y
  BY DEF Closable, Good
<1>3. G \in [Y -> Y]
  BY <1>1
<1>4. \A y \in Y : G[y] = DrainOne(y)
  OBVIOUS
<1> HIDE DEF Y, G
<1>5. PICK h : Iterates(G, Y, s, h)
  BY <1>2, <1>3, Iteration
<1>6. QED
  BY <1>4, <1>5 DEF Iterates

LEMMA DrainTurnsEq ==
  ASSUME NEW s, Closable(s)
  PROVE  /\ DrainTurns(s)[0] = s
         /\ \A n \in Nat : DrainTurns(s)[n + 1] = DrainOne(DrainTurns(s)[n])
<1> DEFINE Is(h) == h = [n \in Nat |-> IF n = 0 THEN s ELSE DrainOne(h[n - 1])]
<1>1. \E h : Is(h)
  <2> HIDE DEF Is
  <2>1. PICK h : h[0] = s /\ \A n \in Nat : h[n + 1] = DrainOne(h[n])
    BY DrainIterates
  <2> DEFINE g == [n \in Nat |-> h[n]]
  <2>2. ASSUME NEW n \in Nat PROVE g[n] = IF n = 0 THEN s ELSE DrainOne(g[n - 1])
    <3>1. CASE n = 0
      BY <2>1, <3>1
    <3>2. CASE n # 0
      <4>1. n - 1 \in Nat /\ (n - 1) + 1 = n
        BY <3>2
      <4>2. h[(n - 1) + 1] = DrainOne(h[n - 1])
        BY <2>1, <4>1
      <4>3. QED
        BY <3>2, <4>1, <4>2
    <3>3. QED
      BY <3>1, <3>2
  <2>3. g = [n \in Nat |-> g[n]]
    OBVIOUS
  <2> HIDE DEF g
  <2>4. Is(g)
    BY <2>2, <2>3 DEF Is
  <2>5. QED
    BY <2>4
<1>2. DrainTurns(s) = CHOOSE h : Is(h)
  BY DEF DrainTurns
<1> HIDE DEF Is
<1>3. Is(DrainTurns(s))
  BY <1>1, <1>2
<1> DEFINE f == DrainTurns(s)
<1> HIDE DEF f
<1>4. f = [n \in Nat |-> IF n = 0 THEN s ELSE DrainOne(f[n - 1])]
  BY <1>3 DEF Is, f
<1>5. f[0] = s
  BY <1>4
<1>6. ASSUME NEW n \in Nat PROVE f[n + 1] = DrainOne(f[n])
  <2>1. n + 1 \in Nat /\ n + 1 # 0 /\ (n + 1) - 1 = n
    OBVIOUS
  <2>2. f[n + 1] = DrainOne(f[(n + 1) - 1])
    BY <1>4, <2>1
  <2>3. QED
    BY <2>1, <2>2
<1>7. QED
  BY <1>5, <1>6 DEF f

LEMMA SweptTrans ==
  ASSUME NEW s, NEW t, NEW u, Swept(s, t), Swept(t, u)
  PROVE  Swept(s, u)
<1> DEFINE Out(y, q) ==
             y.phase[q] = "recorded" /\ y.outcome[q] = "cancelled" /\ y.race[q] = "idle"
           Go(x, y, q) == Kept(x, y, q) \/ (x.phase[q] = "queued" /\ Out(y, q))
<1>1. \A x, y : Swept(x, y) <=>
        y.local = x.local /\ y.inflight = x.inflight /\ \A q \in Run : Go(x, y, q)
  BY DEF Swept
<1>2. ASSUME NEW q \in Run, Go(s, t, q), Go(t, u, q) PROVE Go(s, u, q)
  <2>1. CASE t.phase[q] = "queued"
    <3>1. Kept(s, t, q)
      BY <1>2, <2>1
    <3>2. QED
      BY <1>2, <3>1 DEF Kept
  <2>2. CASE t.phase[q] # "queued"
    <3>1. Kept(t, u, q)
      BY <1>2, <2>2
    <3>2. QED
      BY <1>2, <3>1 DEF Kept
  <2>3. QED
    BY <2>1, <2>2
<1> HIDE DEF Go
<1>3. QED
  BY <1>1, <1>2

\* close() leaves nobody waiting.
LEMMA DrainEffect ==
  ASSUME NEW s, Closable(s)
  PROVE  LET t == Drain(s) IN Closable(t) /\ Swept(s, t) /\ t.order = <<>>
<1> DEFINE f == DrainTurns(s)
           Q(n) == InPhase(f[n], "queued")
           S == {n \in Nat : /\ Closable(f[n]) /\ Swept(s, f[n])
                             /\ f[n].order = <<>> \/ Cardinality(Q(n)) + n <= Cardinality(Run)}
<1>1. f[0] = s /\ \A n \in Nat : f[n + 1] = DrainOne(f[n])
  BY DrainTurnsEq
<1> HIDE DEF f
<1>2. \A n : IsFiniteSet(Q(n)) /\ Cardinality(Q(n)) \in Nat /\ Cardinality(Q(n)) <= Cardinality(Run)
  <2>1. \A n : Q(n) \subseteq Run
    BY DEF InPhase
  <2>2. QED
    BY <2>1, CoordinatorAssumption, FiniteRuns, FS_Subset
<1>3. Cardinality(Run) \in Nat
  BY FiniteRuns
<1>4. 0 \in S
  <2>1. Swept(s, s)
    BY DEF Swept, Kept
  <2> HIDE DEF Q
  <2>2. Cardinality(Q(0)) + 0 <= Cardinality(Run)
    BY <1>2, <1>3
  <2>3. QED
    BY <1>1, <2>1, <2>2
<1>5. ASSUME NEW n \in Nat, n \in S PROVE n + 1 \in S
  <2>0. /\ Closable(f[n]) /\ Swept(s, f[n])
        /\ f[n].order = <<>> \/ Cardinality(Q(n)) + n <= Cardinality(Run)
    BY <1>5
  <2>1. /\ Closable(f[n + 1]) /\ Swept(f[n], f[n + 1])
        /\ \/ f[n].order = <<>> /\ f[n + 1] = f[n]
           \/ \E r \in Q(n) : Q(n + 1) = Q(n) \ {r}
    BY <1>1, <2>0, DrainOneEffect
  <2>2. Swept(s, f[n + 1])
    BY <2>0, <2>1, SweptTrans
  <2>3. f[n + 1].order = <<>> \/ Cardinality(Q(n + 1)) + (n + 1) <= Cardinality(Run)
    <3>1. CASE f[n].order = <<>>
      <4>1. f[n + 1] = f[n]
        BY <1>1, <3>1 DEF DrainOne
      <4>2. QED
        BY <3>1, <4>1
    <3>2. CASE f[n].order # <<>>
      <4> HIDE DEF Q
      <4>1. PICK r \in Q(n) : Q(n + 1) = Q(n) \ {r}
        BY <2>1, <3>2
      <4>2. Cardinality(Q(n) \ {r}) = Cardinality(Q(n)) - 1
        BY <1>2, FS_RemoveElement
      <4>3. Cardinality(Q(n)) + n <= Cardinality(Run)
        BY <2>0, <3>2
      <4>4. Cardinality(Q(n)) \in Nat /\ Cardinality(Q(n + 1)) = Cardinality(Q(n)) - 1
        BY <1>2, <4>1, <4>2
      <4>5. QED
        BY <1>3, <4>3, <4>4
    <3>3. QED
      BY <3>1, <3>2
  <2> HIDE DEF Q
  <2>4. QED
    BY <2>1, <2>2, <2>3
<1> HIDE DEF S
<1>6. Cardinality(Run) \in S
  BY <1>3, <1>4, <1>5, SetInduction
<1> DEFINE t == f[Cardinality(Run)]
<1>7. /\ Closable(t) /\ Swept(s, t)
      /\ t.order = <<>> \/ Cardinality(InPhase(t, "queued")) + Cardinality(Run) <= Cardinality(Run)
  BY <1>6 DEF S
<1>8. t = Drain(s)
  BY DEF Drain, f
<1>9. t.order = <<>>
  <2>1. SUFFICES ASSUME t.order # <<>> PROVE FALSE
    OBVIOUS
  <2>2. Cardinality(InPhase(t, "queued")) = 0 /\ IsFiniteSet(InPhase(t, "queued"))
    <3>1. Cardinality(Q(Cardinality(Run))) = 0
      <4>1. Cardinality(Q(Cardinality(Run))) + Cardinality(Run) <= Cardinality(Run)
        BY <1>7, <2>1
      <4> HIDE DEF Q
      <4>2. QED
        BY <1>2, <1>3, <4>1
    <3>2. QED
      BY <1>2, <3>1
  <2>3. InPhase(t, "queued") = {} /\ InPhase(t, "queued") \in SUBSET Run
    BY <2>2, FS_EmptySet
  <2> HIDE DEF t
  <2>4. t.order = <<>>
    BY <1>7, <2>3, HoldsNothing DEF Good, Closable
  <2>5. QED
    BY <2>1, <2>4
<1>10. QED
  BY <1>7, <1>8, <1>9

-----------------------------------------------------------------------------
(* Running calls.                                                          *)

\* Only open races are decided, and nothing else moves.
Redecided(s, t) ==
  /\ t \in State /\ SameQueues(s, t) /\ SameLedger(s, t) /\ t.inflight = s.inflight
  /\ t.phase = s.phase /\ t.outcome = s.outcome /\ t.settled = s.settled
  /\ \A q \in Run : \/ t.race[q] = s.race[q]
                    \/ s.race[q] = "open" /\ t.race[q] \in Races \ {"idle", "open"}

LEMMA RedecidedGood ==
  ASSUME NEW s, Good(s), NEW t, Redecided(s, t)
  PROVE  /\ Good(t) /\ Charged(t) = Charged(s) /\ t.order = s.order
         /\ InPhase(t, "queued") = InPhase(s, "queued")
         /\ InPhase(t, "running") = InPhase(s, "running")
<1>1. InPhase(t, "queued") = InPhase(s, "queued") /\ InPhase(t, "running") = InPhase(s, "running")
  BY DEF Redecided, InPhase
<1>2. Charged(t) = Charged(s)
  <2>1. ASSUME NEW q \in Run PROVE t.race[q] # "idle" <=> s.race[q] # "idle"
    BY DEF Redecided
  <2>2. QED
    BY <2>1 DEF Charged, Redecided
<1>3. ASSUME NEW q \in Run PROVE Life(t.phase[q], t.outcome[q], t.race[q])
  <2>1. t.phase[q] = s.phase[q] /\ t.outcome[q] = s.outcome[q]
        /\ Life(s.phase[q], s.outcome[q], s.race[q])
    BY DEF Redecided, Good
  <2>2. CASE t.race[q] = s.race[q]
    BY <2>1, <2>2
  <2>3. CASE s.race[q] = "open" /\ t.race[q] \in Races \ {"idle", "open"}
    <3>1. s.phase[q] = "running" /\ s.outcome[q] = "none"
      BY <2>1, <2>3 DEF Life
    <3>2. QED
      BY <2>1, <2>3, <3>1 DEF Life
  <2>4. QED
    BY <2>2, <2>3 DEF Redecided
<1>4. /\ t.sessionCalls = Count(Charged(t), SessionOf, Session)
      /\ t.turnCalls = Count(Charged(t), TurnOf, Turn)
      /\ t.inflight = Cardinality(InPhase(t, "running"))
  BY <1>1, <1>2 DEF Redecided, SameLedger, Good
<1>5. Holds(t, InPhase(t, "queued")) /\ t.order = s.order
  BY <1>1, HoldsSame DEF Good, Redecided, SameQueues
<1>6. Remembered(t)
  BY DEF Good, Redecided, Remembered
<1>7. t \in State
  BY DEF Redecided
<1>8. QED
  BY <1>1, <1>2, <1>3, <1>4, <1>5, <1>6, <1>7 DEF Good

LEMMA AbortLocalEffect ==
  ASSUME NEW s, Good(s), NEW r \in Run
  PROVE  LET t == AbortLocal(s, r)
         IN  /\ Redecided(s, t) /\ t.local = s.local \cup {r}
             /\ \A q \in Run : t.race[q] = "aborted" => s.race[q] = "aborted" \/ q = r
<1> DEFINE l == s.local \cup {r}
           c == [s.race EXCEPT ![r] = IF s.race[r] = "open" THEN "aborted" ELSE s.race[r]]
           t == AbortLocal(s, r)
<1>1. s \in State
  BY DEF Good
<1>2. t = [s EXCEPT !.local = l, !.race = c]
  BY <1>1 DEF AbortLocal, State
<1>3. l \in SUBSET Run /\ c \in [Run -> Races]
  BY <1>1 DEF State, Races
<1>4. \A q \in Run : c[q] = IF q = r /\ s.race[r] = "open" THEN "aborted" ELSE s.race[q]
  BY <1>1 DEF State
<1> HIDE DEF l, c, t
<1>5. /\ t \in State /\ SameQueues(s, t) /\ SameLedger(s, t) /\ t.inflight = s.inflight
      /\ t.phase = s.phase /\ t.outcome = s.outcome /\ t.settled = s.settled
      /\ t.race = c /\ t.local = l
  BY <1>1, <1>2, <1>3 DEF State, SameQueues, SameLedger
<1>6. Redecided(s, t)
  BY <1>4, <1>5 DEF Redecided, Races
<1>7. QED
  BY <1>4, <1>5, <1>6 DEF l, t

\* close() after it has drained the queues.
LEMMA AbortAllEffect ==
  ASSUME NEW s, Good(s), NEW t,
         t = [s EXCEPT !.local = @ \cup {r \in Run : s.phase[r] = "running"},
                       !.race = [r \in Run |-> IF @[r] = "open" THEN "aborted" ELSE @[r]]]
  PROVE  /\ Redecided(s, t) /\ t.local = s.local \cup InPhase(s, "running")
         /\ \A q \in Run : t.race[q] = "aborted" => s.race[q] = "aborted" \/ q \in InPhase(s, "running")
<1> DEFINE l == s.local \cup InPhase(s, "running")
           c == [r \in Run |-> IF s.race[r] = "open" THEN "aborted" ELSE s.race[r]]
<1>1. s \in State
  BY DEF Good
<1>2. t = [s EXCEPT !.local = l, !.race = c]
  BY <1>1 DEF InPhase, State
<1>3. l \in SUBSET Run /\ c \in [Run -> Races]
  BY <1>1 DEF State, Races, InPhase
<1>4. \A q \in Run : c[q] = IF s.race[q] = "open" THEN "aborted" ELSE s.race[q]
  OBVIOUS
<1> HIDE DEF l, c
<1>5. /\ t \in State /\ SameQueues(s, t) /\ SameLedger(s, t) /\ t.inflight = s.inflight
      /\ t.phase = s.phase /\ t.outcome = s.outcome /\ t.settled = s.settled
      /\ t.race = c /\ t.local = l
  BY <1>1, <1>2, <1>3 DEF State, SameQueues, SameLedger
<1>6. Redecided(s, t)
  BY <1>4, <1>5 DEF Redecided, Races
<1>7. ASSUME NEW q \in Run, s.race[q] = "open" PROVE q \in InPhase(s, "running")
  BY <1>7 DEF Good, Life, InPhase
<1>8. QED
  BY <1>4, <1>5, <1>6, <1>7 DEF l

\* A call is over: its slot is free, its charge is kept.
Concluded(s, t, r, p, out) ==
  /\ t \in State /\ SameQueues(s, t) /\ SameLedger(s, t) /\ SameCalls(s, t)
  /\ t.inflight = s.inflight - 1
  /\ t.phase = [s.phase EXCEPT ![r] = p] /\ t.outcome = [s.outcome EXCEPT ![r] = out]
  /\ t.settled = s.settled \cup {KeyOf[r]}

\* Which end the race led to.
Verdict(r, p, out) ==
  \/ p = "validated" /\ out = "response" /\ co.race[r] = "ok"
  \/ p = "recorded" /\ out = "failed" /\ co.race[r] \in {"failed", "threw"}
  \/ p = "recorded" /\ out = "cancelled" /\ Stopped(r) /\ co.race[r] \in {"aborted", "threw"}
  \/ p = "recorded" /\ out = "timed-out-inference" /\ r \in co.local
     /\ co.race[r] \in {"aborted", "threw"}

LEMMA ConcludedGood ==
  ASSUME Good(co), NEW r \in Run, co.phase[r] = "running", NEW p, NEW out, Verdict(r, p, out),
         NEW t, Concluded(co, t, r, p, out)
  PROVE  /\ Good(t) /\ Charged(t) = Charged(co) /\ t.order = co.order
         /\ InPhase(t, "queued") = InPhase(co, "queued")
         /\ InPhase(t, "running") = InPhase(co, "running") \ {r}
<1>1. co \in State /\ t \in State
  BY DEF Good, Concluded
<1>2. /\ t.phase[r] = p /\ t.outcome[r] = out /\ t.race[r] = co.race[r]
      /\ \A q \in Run : q # r => /\ t.phase[q] = co.phase[q] /\ t.outcome[q] = co.outcome[q]
                                 /\ t.race[q] = co.race[q]
  BY <1>1 DEF Concluded, State, SameCalls
<1>3. p # "queued" /\ p # "running" /\ out # "none" /\ Life(p, out, co.race[r])
  BY Zenon DEF Verdict, Life, Outcomes, QueueOutcomes, Races
<1>4. /\ InPhase(t, "queued") = InPhase(co, "queued")
      /\ InPhase(t, "running") = InPhase(co, "running") \ {r}
  BY <1>2, <1>3 DEF InPhase
<1>5. Charged(t) = Charged(co)
  <2>1. co.race[r] # "idle"
    BY DEF Verdict
  <2>2. QED
    BY <1>2, <1>3, <2>1 DEF Charged
<1>6. t.inflight = Cardinality(InPhase(t, "running"))
  <2>1. IsFiniteSet(InPhase(co, "running")) /\ r \in InPhase(co, "running")
    BY FiniteRuns DEF InPhase
  <2>2. t.inflight = Cardinality(InPhase(co, "running")) - 1
    BY DEF Concluded, Good
  <2>3. Cardinality(InPhase(co, "running") \ {r}) = Cardinality(InPhase(co, "running")) - 1
    BY <2>1, FS_RemoveElement
  <2>4. QED
    BY <1>4, <2>2, <2>3
<1>7. /\ t.sessionCalls = Count(Charged(t), SessionOf, Session)
      /\ t.turnCalls = Count(Charged(t), TurnOf, Turn)
  BY <1>5 DEF Concluded, SameLedger, Good
<1>8. Holds(t, InPhase(t, "queued")) /\ t.order = co.order
  BY <1>4, HoldsSame DEF Good, Concluded, SameQueues
<1>9. ASSUME NEW q \in Run PROVE Life(t.phase[q], t.outcome[q], t.race[q])
  <2>1. CASE q = r
    BY <1>2, <1>3, <2>1
  <2>2. CASE q # r
    BY <1>2, <2>2 DEF Good
  <2>3. QED
    BY <2>1, <2>2
<1>10. Remembered(t)
  <2>1. Remembered(co) /\ t.settled = co.settled \cup {KeyOf[r]}
    BY DEF Good, Concluded
  <2>2. t.outcome[r] # "none" /\ \A q \in Run : co.outcome[q] # "none" => t.outcome[q] # "none"
    BY <1>2, <1>3
  <2>3. QED
    BY <1>1, <2>1, <2>2, RememberedStays
<1>11. QED
  BY <1>1, <1>4, <1>5, <1>6, <1>7, <1>8, <1>9, <1>10 DEF Good

\* The continuation of the await, and the release of the slot.
LEMMA SettledEffect ==
  ASSUME Good(co), NEW r \in Run, Cause(r), co.phase[r] = "running", co.race[r] # "open"
  PROVE  \E p, out : Verdict(r, p, out) /\ Concluded(co, Release(Settled(r)), r, p, out)
<1> DEFINE o == To(co, r, "observed")
           v == To(o, r, "validated")
           s == Settled(r)
           c == co.race[r]
<1>1. co \in State /\ c \in Races \ {"idle", "open"}
  BY DEF Good, Life
<1>2. /\ o \in State /\ o.phase = [co.phase EXCEPT ![r] = Advance(co.phase[r], "observed")]
      /\ o.outcome = co.outcome /\ o.settled = co.settled /\ o.inflight = co.inflight
      /\ SameQueues(co, o) /\ SameLedger(co, o) /\ SameCalls(co, o)
  BY <1>1, ToFields
<1> HIDE DEF o
<1>3. /\ v \in State /\ v.phase = [o.phase EXCEPT ![r] = Advance(o.phase[r], "validated")]
      /\ v.outcome = o.outcome /\ v.settled = o.settled /\ v.inflight = o.inflight
      /\ SameQueues(o, v) /\ SameLedger(o, v) /\ SameCalls(o, v)
  BY <1>2, ToFields
<1> HIDE DEF v
<1>4. v.phase = [co.phase EXCEPT ![r] = "validated"]
  <2>1. co.phase \in [Run -> AnyPhase]
    BY <1>1 DEF State
  <2>2. o.phase = [co.phase EXCEPT ![r] = "observed"] /\ o.phase[r] = "observed"
    BY <1>2, <2>1, LegalSteps
  <2>3. QED
    BY <1>3, <2>1, <2>2, LegalSteps
<1>5. SameQueues(co, v) /\ SameLedger(co, v) /\ SameCalls(co, v)
      /\ v.outcome = co.outcome /\ v.settled = co.settled /\ v.inflight = co.inflight
  BY <1>2, <1>3 DEF SameQueues, SameLedger, SameCalls
\* The run that settled, before its slot is released.
<1> DEFINE Over(t, p, out) ==
             /\ t \in State /\ SameQueues(co, t) /\ SameLedger(co, t) /\ SameCalls(co, t)
             /\ t.inflight = co.inflight
             /\ t.phase = [co.phase EXCEPT ![r] = p] /\ t.outcome = [co.outcome EXCEPT ![r] = out]
             /\ t.settled = co.settled \cup {KeyOf[r]}
<1>6. ASSUME NEW last \in {"cancelled", "timed_out", "failed"}, NEW out \in Outcomes
      PROVE  Over(Finish(co, r, last, out), "recorded", out)
  <2> DEFINE t == Finish(co, r, last, out)
  <2>1. /\ t \in State
        /\ t.phase = [co.phase EXCEPT ![r] = Advance(Advance(co.phase[r], last), "recorded")]
        /\ t.outcome = [co.outcome EXCEPT ![r] = out] /\ t.inflight = co.inflight
        /\ t.settled = co.settled \cup {KeyOf[r]}
        /\ SameQueues(co, t) /\ SameLedger(co, t) /\ SameCalls(co, t)
    BY <1>1, FinishFields, SMTT(30)
  <2> HIDE DEF t
  <2>2. Advance(Advance("running", last), "recorded") = "recorded"
    BY LegalSteps
  <2>3. Over(t, "recorded", out)
    BY <2>1, <2>2
  <2>4. QED
    BY <2>3 DEF t
<1>7. Over(Finish(v, r, "failed", "failed"), "recorded", "failed")
  <2> DEFINE t == Finish(v, r, "failed", "failed")
  <2>0. "failed" \in Outcomes
    BY DEF Outcomes
  <2>1. /\ t \in State
        /\ t.phase = [v.phase EXCEPT ![r] = Advance(Advance(v.phase[r], "failed"), "recorded")]
        /\ t.outcome = [v.outcome EXCEPT ![r] = "failed"] /\ t.inflight = v.inflight
        /\ t.settled = v.settled \cup {KeyOf[r]}
        /\ SameQueues(v, t) /\ SameLedger(v, t) /\ SameCalls(v, t)
    BY <1>3, <2>0, FinishFields, SMTT(30)
  <2> HIDE DEF t
  <2>2. t.phase = [co.phase EXCEPT ![r] = "recorded"]
    <3>1. Advance(Advance("validated", "failed"), "recorded") = "recorded"
      BY LegalSteps
    <3>2. co.phase \in [Run -> AnyPhase] /\ v.phase[r] = "validated"
      BY <1>1, <1>4 DEF State
    <3>3. QED
      BY <1>4, <2>1, <3>1, <3>2
  <2>3. SameQueues(co, t) /\ SameLedger(co, t) /\ SameCalls(co, t)
    BY <1>5, <2>1 DEF SameQueues, SameLedger, SameCalls
  <2>4. Over(t, "recorded", "failed")
    BY <1>5, <2>1, <2>2, <2>3
  <2>5. QED
    BY <2>4 DEF t
<1>8. ASSUME NEW t, t = [v EXCEPT !.settled = @ \cup {KeyOf[r]}, !.outcome[r] = "response"]
      PROVE  Over(t, "validated", "response")
  <2> DEFINE k == co.settled \cup {KeyOf[r]}
             a == [co.outcome EXCEPT ![r] = "response"]
  <2>1. k \in SUBSET Key /\ a \in [Run -> Outcomes] /\ t = [v EXCEPT !.settled = k, !.outcome = a]
    BY <1>1, <1>3, <1>5, <1>8, CoordinatorAssumption DEF State, Outcomes
  <2> HIDE DEF k, a
  <2>2. /\ t \in State /\ SameQueues(v, t) /\ SameLedger(v, t) /\ SameCalls(v, t)
        /\ t.inflight = v.inflight /\ t.phase = v.phase /\ t.outcome = a /\ t.settled = k
    BY <1>3, <2>1 DEF State, SameQueues, SameLedger, SameCalls
  <2>3. SameQueues(co, t) /\ SameLedger(co, t) /\ SameCalls(co, t)
    BY <1>5, <2>2 DEF SameQueues, SameLedger, SameCalls
  <2>4. QED
    BY <1>4, <1>5, <2>2, <2>3 DEF k, a
<1> HIDE DEF Over
<1>9. \E p, out : Verdict(r, p, out) /\ Over(s, p, out)
  <2>1. CASE c = "ok"
    <3>1. s = [v EXCEPT !.settled = @ \cup {KeyOf[r]}, !.outcome[r] = "response"]
      BY <2>1 DEF Settled, v, o
    <3>2. Over(s, "validated", "response")
      BY <1>8, <3>1
    <3>3. Verdict(r, "validated", "response")
      BY <2>1 DEF Verdict
    <3>4. QED
      BY <3>2, <3>3
  <2>2. CASE c = "failed"
    <3>1. s = Finish(v, r, "failed", "failed")
      BY <2>2 DEF Settled, v, o
    <3>2. Verdict(r, "recorded", "failed")
      BY <2>2 DEF Verdict
    <3>3. QED
      BY <1>7, <3>1, <3>2
  <2>3. CASE c \in {"aborted", "threw"} /\ Stopped(r)
    <3>1. s = Finish(co, r, "cancelled", "cancelled")
      BY <2>3 DEF Settled
    <3>2. Verdict(r, "recorded", "cancelled") /\ "cancelled" \in Outcomes
      BY <2>3 DEF Verdict, Outcomes
    <3>3. QED
      BY <1>6, <3>1, <3>2
  <2>4. CASE c \in {"aborted", "threw"} /\ ~Stopped(r) /\ r \in co.local
    <3>1. s = Finish(co, r, "timed_out", "timed-out-inference")
      BY <2>4 DEF Settled
    <3>2. Verdict(r, "recorded", "timed-out-inference") /\ "timed-out-inference" \in Outcomes
      BY <2>4 DEF Verdict, Outcomes
    <3>3. QED
      BY <1>6, <3>1, <3>2
  <2>5. CASE c \in {"aborted", "threw"} /\ ~Stopped(r) /\ r \notin co.local
    <3>1. s = Finish(co, r, "failed", "failed")
      BY <2>5 DEF Settled
    <3>2. c = "threw"
      BY <2>5 DEF Cause
    <3>3. Verdict(r, "recorded", "failed") /\ "failed" \in Outcomes
      BY <3>2 DEF Verdict, Outcomes
    <3>4. QED
      BY <1>6, <3>1, <3>3
  <2>6. QED
    BY <1>1, <2>1, <2>2, <2>3, <2>4, <2>5 DEF Races
<1>10. PICK p, out : Verdict(r, p, out) /\ Over(s, p, out)
  BY <1>9
<1> DEFINE t == Release(s)
<1> HIDE DEF s
<1>11. /\ t \in State /\ t.inflight = Decrement(s.inflight)
       /\ t.phase = s.phase /\ t.outcome = s.outcome /\ t.settled = s.settled
       /\ SameQueues(s, t) /\ SameLedger(s, t) /\ SameCalls(s, t)
  BY <1>10, ReleaseFields DEF Over
<1>12. Decrement(co.inflight) = co.inflight - 1
  <2>1. co.inflight = Cardinality(InPhase(co, "running")) /\ r \in InPhase(co, "running")
    BY DEF Good, InPhase
  <2>2. IsFiniteSet(InPhase(co, "running")) /\ Cardinality(InPhase(co, "running")) \in Nat
    BY FiniteRuns DEF InPhase
  <2>3. Cardinality(InPhase(co, "running")) # 0
    BY <2>1, <2>2, FS_EmptySet
  <2>4. QED
    BY <2>1, <2>2, <2>3 DEF Decrement
<1>13. Concluded(co, t, r, p, out)
  BY <1>10, <1>11, <1>12 DEF Over, Concluded, SameQueues, SameLedger, SameCalls
<1>14. QED
  BY <1>10, <1>13 DEF s

\* apply() records a run that was validated, and moves nothing else.
Consumed(s, t, r) ==
  /\ t \in State /\ SameQueues(s, t) /\ SameLedger(s, t) /\ SameCalls(s, t)
  /\ t.inflight = s.inflight /\ t.outcome = s.outcome /\ t.settled = s.settled
  /\ t.phase = [s.phase EXCEPT ![r] = "recorded"]

LEMMA ConsumedGood ==
  ASSUME NEW s, Good(s), NEW r \in Run, s.phase[r] = "validated", NEW t, Consumed(s, t, r)
  PROVE  /\ Good(t) /\ Charged(t) = Charged(s) /\ t.order = s.order
         /\ InPhase(t, "queued") = InPhase(s, "queued")
         /\ InPhase(t, "running") = InPhase(s, "running")
<1>1. s \in State /\ t \in State /\ s.outcome[r] = "response" /\ s.race[r] = "ok"
  BY DEF Good, Consumed, Life
<1>2. /\ t.phase[r] = "recorded" /\ t.race = s.race /\ t.outcome = s.outcome
      /\ \A q \in Run : q # r => t.phase[q] = s.phase[q]
  BY <1>1 DEF Consumed, State, SameCalls
<1>3. /\ InPhase(t, "queued") = InPhase(s, "queued")
      /\ InPhase(t, "running") = InPhase(s, "running") /\ Charged(t) = Charged(s)
  BY <1>1, <1>2 DEF InPhase, Charged
<1>4. /\ t.sessionCalls = Count(Charged(t), SessionOf, Session)
      /\ t.turnCalls = Count(Charged(t), TurnOf, Turn)
      /\ t.inflight = Cardinality(InPhase(t, "running"))
  BY <1>3 DEF Consumed, SameLedger, Good
<1>5. Holds(t, InPhase(t, "queued")) /\ t.order = s.order
  BY <1>3, HoldsSame DEF Good, Consumed, SameQueues
<1>6. ASSUME NEW q \in Run PROVE Life(t.phase[q], t.outcome[q], t.race[q])
  <2>1. CASE q = r
    BY <1>1, <1>2, <2>1 DEF Life, Outcomes, QueueOutcomes, Races
  <2>2. CASE q # r
    BY <1>2, <2>2 DEF Good
  <2>3. QED
    BY <2>1, <2>2
<1>7. Remembered(t)
  BY DEF Good, Consumed, Remembered
<1>8. QED
  BY <1>1, <1>3, <1>4, <1>5, <1>6, <1>7 DEF Good

LEMMA ApplyEffect ==
  ASSUME Good(co), NEW r \in Run, co.phase[r] = "validated",
         NEW mid \in {"policy_applied", "stale"}
  PROVE  Consumed(co, To(To(co, r, mid), r, "recorded"), r)
<1> DEFINE u == To(co, r, mid)
           t == To(u, r, "recorded")
<1>1. co \in State
  BY DEF Good
<1>2. /\ u \in State /\ u.phase = [co.phase EXCEPT ![r] = Advance(co.phase[r], mid)]
      /\ u.outcome = co.outcome /\ u.settled = co.settled /\ u.inflight = co.inflight
      /\ SameQueues(co, u) /\ SameLedger(co, u) /\ SameCalls(co, u)
  BY <1>1, ToFields
<1> HIDE DEF u
<1>3. /\ t \in State /\ t.phase = [u.phase EXCEPT ![r] = Advance(u.phase[r], "recorded")]
      /\ t.outcome = u.outcome /\ t.settled = u.settled /\ t.inflight = u.inflight
      /\ SameQueues(u, t) /\ SameLedger(u, t) /\ SameCalls(u, t)
  BY <1>2, ToFields
<1> HIDE DEF t
<1>4. t.phase = [co.phase EXCEPT ![r] = "recorded"]
  <2>1. co.phase \in [Run -> AnyPhase]
    BY <1>1 DEF State
  <2>2. u.phase = [co.phase EXCEPT ![r] = mid] /\ u.phase[r] = mid
    BY <1>2, <2>1, LegalSteps
  <2>3. QED
    BY <1>3, <2>1, <2>2, LegalSteps
<1>5. QED
  BY <1>2, <1>3, <1>4 DEF Consumed, SameQueues, SameLedger, SameCalls, t, u

\* apply() leaves the coordinator alone or consumes the validated response.
LEMMA AppliesOrNot ==
  ASSUME Good(co), NEW r \in Run, NEW fresh \in BOOLEAN, Apply(r, fresh)
  PROVE  \/ co' = co
         \/ co.phase[r] = "validated" /\ Consumed(co, co', r)
<1> DEFINE Done == "applied" \in ToSet(applied[r]) \/ co.phase[r] \in ClosedPhases
<1>1. co.outcome[r] = "response" /\ Life(co.phase[r], co.outcome[r], co.race[r])
  BY Zenon DEF Good, Apply
<1>2. co.phase[r] \in {"validated", "recorded"}
  BY <1>1 DEF Life
<1>3. \/ co' = co
      \/ ~Done /\ \E mid \in {"policy_applied", "stale"} : co' = To(To(co, r, mid), r, "recorded")
  <2>1. CASE Done
    BY <2>1 DEF Apply
  <2>2. CASE ~Done /\ fresh
    <3>1. co' = To(To(co, r, "policy_applied"), r, "recorded")
      BY <2>2 DEF Apply
    <3>2. QED
      BY <2>2, <3>1
  <2>3. CASE ~Done /\ ~fresh
    <3>1. co' = To(To(co, r, "stale"), r, "recorded")
      BY <2>3 DEF Apply
    <3>2. QED
      BY <2>3, <3>1
  <2>4. QED
    BY <2>1, <2>2, <2>3
<1>4. ASSUME ~Done, NEW mid \in {"policy_applied", "stale"},
             co' = To(To(co, r, mid), r, "recorded")
      PROVE  co.phase[r] = "validated" /\ Consumed(co, co', r)
  <2>1. co.phase[r] = "validated"
    BY <1>2, <1>4 DEF ClosedPhases
  <2>2. QED
    BY <1>4, <2>1, ApplyEffect
<1> HIDE DEF Done
<1>5. QED
  BY <1>3, <1>4

-----------------------------------------------------------------------------
(* The invariant is inductive: one lemma per action.                       *)

LEMMA InitInv == Init => Inv
<1> SUFFICES ASSUME Init PROVE Inv
  OBVIOUS
<1>1. /\ \A k : {x \in {} : SessionOf[x] = k} = {} /\ {x \in {} : TurnOf[x] = k} = {}
      /\ Cardinality({}) = 0
  BY FS_EmptySet
<1>2. co \in State
  <2>1. MaxConcurrent \in Nat
    BY CoordinatorAssumption
  <2>2. <<>> \in Seq(Run) /\ <<>> \in Seq(Session)
    OBVIOUS
  <2>3. /\ co.phase = [r \in Run |-> "created"] /\ co.outcome = [r \in Run |-> "none"]
        /\ co.race = [r \in Run |-> "idle"]
    BY DEF Init
  <2>4. "created" \in AnyPhase /\ "none" \in Outcomes /\ "idle" \in Races
    BY DEF AnyPhase, Phases, NextPhases, Outcomes, Races
  <2>5. QED
    BY <2>2, <2>4 DEF Init, State
<1>3. InPhase(co, "queued") = {} /\ InPhase(co, "running") = {} /\ Charged(co) = {}
  BY DEF Init, InPhase, Charged
<1>4. Holds(co, {})
  <2>1. WithWaiters(co) = {} /\ co.order = <<>> /\ \A k \in Session : co.queues[k] = <<>>
    BY DEF Init, WithWaiters
  <2>2. \A k : OfSession({}, k) = {}
    BY DEF OfSession
  <2>3. QED
    BY <2>1, <2>2, ListsNothing DEF Holds
<1>5. /\ co.sessionCalls = Count({}, SessionOf, Session) /\ co.turnCalls = Count({}, TurnOf, Turn)
      /\ co.inflight = Cardinality({})
  BY <1>1 DEF Init, Count
<1>6. \A r \in Run : Life(co.phase[r], co.outcome[r], co.race[r])
  BY DEF Init, Life
<1>7. Remembered(co)
  BY DEF Init, Remembered
<1>8. Good(co)
  BY <1>2, <1>3, <1>4, <1>5, <1>6, <1>7 DEF Good
<1>9. Slots
  <2>1. co.inflight = 0 /\ co.order = <<>> /\ closed = FALSE
    BY DEF Init
  <2>2. 0 <= MaxConcurrent
    BY CoordinatorAssumption
  <2>3. QED
    BY <2>1, <2>2 DEF Slots, AtEnd
<1>10. Clock
  BY CoordinatorAssumption DEF Init, Clock
<1>11. \A r \in Run : Cause(r) /\ OnceApplied(r)
  BY DEF Init, Cause, OnceApplied
<1>12. applied \in [Run -> Seq(Results)]
  BY DEF Init
<1>13. QED
  BY <1>8, <1>9, <1>10, <1>11, <1>12 DEF Inv

\* The clock of a run is read only while the run is pending.
LEMMA AgesFollowClock ==
  ASSUME Clock, AgesFollow, cancelled' \in SUBSET Run
  PROVE  Clock'
<1>1. Deadline \in Nat
  BY CoordinatorAssumption
<1>2. QED
  BY <1>1 DEF Clock, AgesFollow, Pending

LEMMA CauseKept ==
  ASSUME NEW q \in Run, Cause(q), co'.outcome[q] = co.outcome[q], co'.race[q] = co.race[q],
         co.local \subseteq co'.local, cancelled \subseteq cancelled', closed => closed'
  PROVE  Cause(q)'
BY DEF Cause, Stopped

\* What was recorded stays recorded, and so do its results.
LEMMA AppliedKept ==
  ASSUME \A q \in Run : OnceApplied(q), applied \in [Run -> Seq(Results)], applied' = applied,
         \A q \in Run : co.phase[q] = "recorded" => co'.phase[q] = "recorded"
  PROVE  /\ (applied \in [Run -> Seq(Results)])'
         /\ \A q \in Run : OnceApplied(q)'
<1>1. ASSUME NEW q \in Run PROVE OnceApplied(q)'
  <2>1. OnceApplied(q) /\ applied'[q] = applied[q]
    OBVIOUS
  <2>2. QED
    BY <2>1 DEF OnceApplied
<1>2. QED
  BY <1>1

LEMMA SubmitInv ==
  ASSUME Inv, NEW r \in Run, Submit(r)
  PROVE  Inv'
<1>1. /\ Good(co) /\ Slots /\ Clock /\ (\A q \in Run : Cause(q))
      /\ applied \in [Run -> Seq(Results)] /\ (\A q \in Run : OnceApplied(q))
  BY DEF Inv
<1>2. PICK slip \in [Edge(r) -> Slips] : co' = Submitted(r, slip)
  BY DEF Submit
<1>3. /\ co.phase[r] = "created" /\ co.outcome[r] = "none"
      /\ AgesFollow /\ closed' = closed /\ cancelled' = cancelled /\ applied' = applied
  BY DEF Submit
<1>4. /\ co \in State /\ co.inflight \in Nat /\ MaxConcurrent \in Nat
      /\ closed \in BOOLEAN /\ co.inflight <= MaxConcurrent
  BY <1>1, CoordinatorAssumption DEF Good, State, Slots
<1> DEFINE Effect ==
             /\ Good(co') /\ co'.inflight <= MaxConcurrent /\ AtEnd(co')
             /\ closed => co'.order = <<>>
             /\ co'.local = co.local
             /\ \A q \in Run : q # r => /\ co'.phase[q] = co.phase[q]
                                        /\ co'.outcome[q] = co.outcome[q]
                                        /\ co'.race[q] = co.race[q]
             /\ co'.outcome[r] = "cancelled" => r \in cancelled
             /\ co'.race[r] \in {"idle", "open"}
             /\ co'.outcome[r] = "timed-out-inference" => co'.race[r] = "idle"
<1>5. ASSUME NEW p, NEW out, Refused(co, co', r, p, out), Refusal(r, p, out)
      PROVE  Effect
  <2>1. Rejected(p, out)
    BY <1>5, Zenon DEF Refusal, Rejected, Rejections, BudgetRefusal
  <2>2. Good(co') /\ co'.order = co.order
    BY <1>1, <1>3, <1>5, <2>1, RefusedGood
  <2>3. co'.inflight = co.inflight
    BY <1>5 DEF Refused
  <2>4. /\ co'.outcome[r] = out /\ co'.race[r] = "idle" /\ co'.local = co.local
        /\ \A q \in Run : q # r => /\ co'.phase[q] = co.phase[q] /\ co'.outcome[q] = co.outcome[q]
                                   /\ co'.race[q] = co.race[q]
    BY <1>4, <1>5 DEF Refused, RunBecomes, State
  <2>5. out = "cancelled" => r \in cancelled
    BY <1>5, Zenon DEF Refusal, BudgetRefusal
  <2>6. QED
    BY <1>1, <2>2, <2>3, <2>4, <2>5 DEF Slots, AtEnd
<1>6. ASSUME Begins(co, co', r), co.inflight < MaxConcurrent PROVE Effect
  <2>1. Good(co') /\ co'.order = co.order
    BY <1>1, <1>3, <1>6, BeginsGood
  <2>2. co.order = <<>> /\ co'.inflight <= MaxConcurrent
    BY <1>1, <1>4, <1>6 DEF Slots, AtEnd, Begins
  <2>3. /\ co'.outcome[r] = "none" /\ co'.race[r] = "open" /\ co'.local = co.local
        /\ \A q \in Run : q # r => /\ co'.phase[q] = co.phase[q] /\ co'.outcome[q] = co.outcome[q]
                                   /\ co'.race[q] = co.race[q]
    BY <1>4, <1>6 DEF Begins, RunBecomes, State
  <2>4. QED
    BY <2>1, <2>2, <2>3 DEF AtEnd
<1>7. ASSUME Joins(co, co', r), ~closed, ~(co.inflight < MaxConcurrent) PROVE Effect
  <2>1. Good(co')
    BY <1>1, <1>3, <1>7, JoinsGood
  <2>2. co'.inflight <= MaxConcurrent /\ co'.inflight >= MaxConcurrent
    BY <1>4, <1>7 DEF Joins
  <2>3. /\ co'.outcome[r] = "none" /\ co'.race[r] = "idle" /\ co'.local = co.local
        /\ \A q \in Run : q # r => /\ co'.phase[q] = co.phase[q] /\ co'.outcome[q] = co.outcome[q]
                                   /\ co'.race[q] = co.race[q]
    BY <1>4, <1>7 DEF Joins, RunBecomes, State
  <2>4. QED
    BY <1>7, <2>1, <2>2, <2>3 DEF AtEnd
<1>8. Effect
  <2>1. \/ \E p, out : Refused(co, co', r, p, out) /\ Refusal(r, p, out)
        \/ Begins(co, co', r) /\ co.inflight < MaxConcurrent
        \/ Joins(co, co', r) /\ ~closed /\ ~(co.inflight < MaxConcurrent)
    BY <1>1, <1>2, <1>3, SubmittedEffect
  <2> HIDE DEF Effect
  <2>2. QED
    BY <1>5, <1>6, <1>7, <2>1
<1>9. Slots'
  BY <1>3, <1>4, <1>8 DEF Slots
<1>10. Clock'
  BY <1>1, <1>3, AgesFollowClock DEF Clock
<1>11. \A q \in Run : Cause(q)'
  <2>1. ASSUME NEW q \in Run, q # r PROVE Cause(q)'
    BY <1>1, <1>3, <1>8, <2>1, CauseKept
  <2>2. Cause(r)'
    BY <1>3, <1>8 DEF Cause, Stopped
  <2>3. QED
    BY <2>1, <2>2
<1>12. (applied \in [Run -> Seq(Results)])' /\ \A q \in Run : OnceApplied(q)'
  <2>1. \A q \in Run : co.phase[q] = "recorded" => co'.phase[q] = "recorded"
    BY <1>3, <1>8
  <2>2. QED
    BY <1>1, <1>3, <2>1, AppliedKept
<1>13. Good(co')
  BY <1>8
<1>14. QED
  BY <1>9, <1>10, <1>11, <1>12, <1>13 DEF Inv

\* A caller's signal ends a waiter or aborts a local controller.
LEMMA CancelInv ==
  ASSUME Inv, NEW r \in Run, Cancel(r)
  PROVE  Inv'
<1>1. /\ Good(co) /\ Slots /\ Clock /\ (\A q \in Run : Cause(q))
      /\ applied \in [Run -> Seq(Results)] /\ (\A q \in Run : OnceApplied(q))
  BY DEF Inv
<1>2. /\ AgesFollow /\ closed' = closed /\ cancelled' = cancelled \cup {r} /\ applied' = applied
      /\ cancelled' \in SUBSET Run
  BY <1>1 DEF Cancel, Clock
<1>3. /\ co \in State /\ co.inflight \in Nat /\ MaxConcurrent \in Nat
      /\ closed \in BOOLEAN /\ co.inflight <= MaxConcurrent
  BY <1>1, CoordinatorAssumption DEF Good, State, Slots
<1> DEFINE Effect ==
             /\ Good(co') /\ co'.inflight = co.inflight
             /\ co'.inflight >= MaxConcurrent \/ co'.order = co.order
             /\ closed => co'.order = <<>>
             /\ co.local \subseteq co'.local
             /\ \A q \in Run : q # r => /\ co'.phase[q] = co.phase[q]
                                        /\ co'.outcome[q] = co.outcome[q]
                                        /\ co'.race[q] = co.race[q]
             /\ co.phase[r] = "recorded" => co'.phase[r] = "recorded"
             /\ Cause(r)'
<1>4. ASSUME co.phase[r] = "queued" PROVE Effect
  <2>1. co' = AbortWaiter(co, r)
    BY <1>4 DEF Cancel
  <2>2. r \in InPhase(co, "queued") /\ InPhase(co, "queued") \in SUBSET Run
        /\ Holds(co, InPhase(co, "queued"))
    BY <1>1, <1>4 DEF InPhase, Good
  <2>3. co.order # <<>>
    BY <1>3, <2>2, HoldsNothing
  <2>4. co.inflight >= MaxConcurrent
    BY <1>1, <2>3 DEF Slots, AtEnd
  <2>5. SameLedger(co, co) /\ SameCalls(co, co)
    BY DEF SameLedger, SameCalls
  <2>6. Dropped(co, co', r, "cancelled")
    BY <1>1, <1>3, <2>1, <2>2, <2>4, <2>5, AbortWaiterEffect
  <2>7. Good(co')
    BY <1>1, <2>6, DroppedGood
  <2>8. /\ co'.phase[r] = "recorded" /\ co'.outcome[r] = "cancelled" /\ co'.race[r] = "idle"
        /\ co'.local = co.local /\ co'.inflight = co.inflight
        /\ \A q \in Run : q # r => /\ co'.phase[q] = co.phase[q] /\ co'.outcome[q] = co.outcome[q]
                                   /\ co'.race[q] = co.race[q]
    BY <1>3, <2>6 DEF Dropped, RunBecomes, State
  <2>9. Cause(r)'
    BY <1>2, <2>8 DEF Cause, Stopped
  <2>10. ~closed
    BY <1>1, <2>3 DEF Slots
  <2>11. QED
    BY <2>4, <2>7, <2>8, <2>9, <2>10
<1>5. ASSUME co.phase[r] = "running" PROVE Effect
  <2>1. co' = AbortLocal(co, r)
    BY <1>5 DEF Cancel
  <2>2. /\ Redecided(co, co') /\ co'.local = co.local \cup {r}
        /\ \A q \in Run : co'.race[q] = "aborted" => co.race[q] = "aborted" \/ q = r
    <3> HIDE DEF Effect
    <3> QED BY <1>1, <2>1, AbortLocalEffect
  <2>3. Good(co') /\ co'.order = co.order
    BY <1>1, <2>2, RedecidedGood
  <2>4. co'.inflight = co.inflight /\ co'.phase = co.phase /\ co'.outcome = co.outcome
    BY <2>2 DEF Redecided
  <2>5. \A q \in Run : q # r => co'.race[q] = co.race[q]
    <3>1. \A q \in Run : q # r => [co.race EXCEPT ![r] = IF @ = "open" THEN "aborted" ELSE @][q] = co.race[q]
      BY <1>3 DEF State
    <3>2. co'.race = [co.race EXCEPT ![r] = IF @ = "open" THEN "aborted" ELSE @]
      BY <1>3, <2>1 DEF AbortLocal, State
    <3>3. QED
      BY <3>1, <3>2
  <2>6. Cause(r)'
    BY <1>2, <2>2, <2>4, <1>1 DEF Cause, Stopped
  <2>7. closed => co'.order = <<>>
    BY <1>1, <2>3 DEF Slots
  <2>8. QED
    BY <2>2, <2>3, <2>4, <2>5, <2>6, <2>7
<1>6. ASSUME co.phase[r] \notin {"queued", "running"} PROVE Effect
  <2>1. co' = co
    BY <1>6 DEF Cancel
  <2>2. Cause(r)'
    BY <1>1, <1>2, <2>1 DEF Cause, Stopped
  <2>3. QED
    BY <1>1, <2>1, <2>2 DEF Slots
<1>7. Effect
  <2> HIDE DEF Effect
  <2> QED BY <1>4, <1>5, <1>6
<1>8. Slots'
  BY <1>1, <1>2, <1>3, <1>7 DEF Slots, AtEnd
<1>9. Clock'
  BY <1>1, <1>2, AgesFollowClock
<1>10. \A q \in Run : Cause(q)'
  <2>1. ASSUME NEW q \in Run, q # r PROVE Cause(q)'
    BY <1>1, <1>2, <1>7, <2>1, CauseKept
  <2>2. QED
    BY <1>7, <2>1
<1>11. (applied \in [Run -> Seq(Results)])' /\ \A q \in Run : OnceApplied(q)'
  <2>1. \A q \in Run : co.phase[q] = "recorded" => co'.phase[q] = "recorded"
    BY <1>7
  <2>2. QED
    BY <1>1, <1>2, <2>1, AppliedKept
<1>12. QED
  BY <1>7, <1>8, <1>9, <1>10, <1>11 DEF Inv

\* An open race is decided; local controllers may be aborted.
LEMMA RaceInv ==
  ASSUME Inv, Redecided(co, co'), co.local \subseteq co'.local,
         \A q \in Run : co'.race[q] = "aborted" => co.race[q] = "aborted" \/ q \in co'.local,
         UNCHANGED <<closed, cancelled, age, applied>>
  PROVE  Inv'
<1>1. /\ Good(co) /\ Slots /\ Clock /\ (\A q \in Run : Cause(q))
      /\ applied \in [Run -> Seq(Results)] /\ (\A q \in Run : OnceApplied(q))
  BY DEF Inv
<1>2. Good(co') /\ co'.order = co.order
  BY <1>1, RedecidedGood
<1>3. co'.inflight = co.inflight /\ co'.phase = co.phase /\ co'.outcome = co.outcome
  BY DEF Redecided
<1>4. Slots'
  BY <1>1, <1>2, <1>3 DEF Slots, AtEnd
<1>5. Clock'
  BY <1>1, <1>3 DEF Clock, Pending
<1>6. ASSUME NEW q \in Run PROVE Cause(q)'
  <2>1. /\ co.outcome[q] = "cancelled" => Stopped(q)
        /\ co.race[q] = "aborted" => q \in co.local
        /\ co.outcome[q] = "timed-out-inference" /\ co.race[q] # "idle" => q \in co.local
    BY <1>1 DEF Cause
  <2>2. co'.race[q] = "aborted" => q \in co'.local
    BY <2>1
  <2>3. co'.race[q] # "idle" => co.race[q] # "idle"
    BY DEF Redecided
  <2>4. Stopped(q)' <=> Stopped(q)
    BY DEF Stopped
  <2>5. QED
    BY <1>3, <2>1, <2>2, <2>3, <2>4 DEF Cause
<1>7. (applied \in [Run -> Seq(Results)])' /\ \A q \in Run : OnceApplied(q)'
  BY <1>1, <1>3, AppliedKept
<1>8. QED
  BY <1>2, <1>4, <1>5, <1>6, <1>7 DEF Inv

LEMMA DeadlineFiresInv ==
  ASSUME Inv, NEW r \in Run, DeadlineFires(r)
  PROVE  Inv'
<1>1. Good(co) /\ co' = AbortLocal(co, r)
  BY DEF Inv, DeadlineFires
<1>2. /\ Redecided(co, co') /\ co'.local = co.local \cup {r}
      /\ \A q \in Run : co'.race[q] = "aborted" => co.race[q] = "aborted" \/ q = r
  BY <1>1, AbortLocalEffect
<1>3. UNCHANGED <<closed, cancelled, age, applied>>
  BY DEF DeadlineFires
<1>4. QED
  BY <1>2, <1>3, RaceInv

LEMMA ProviderAnswersInv ==
  ASSUME Inv, NEW r \in Run, NEW how \in Answers, ProviderAnswers(r, how)
  PROVE  Inv'
<1>1. Good(co) /\ co \in State
  BY DEF Inv, Good
<1>2. UNCHANGED <<closed, cancelled, age, applied>>
  BY DEF ProviderAnswers
<1>3. how \in Races \ {"idle", "open", "aborted"}
  BY DEF Answers, Races
<1>4. CASE co.race[r] = "open"
  <2> DEFINE c == [co.race EXCEPT ![r] = how]
  <2>1. c \in [Run -> Races] /\ \A q \in Run : c[q] = IF q = r THEN how ELSE co.race[q]
    BY <1>1, <1>3 DEF State
  <2>2. co' = [co EXCEPT !.race = c]
    BY <1>4 DEF ProviderAnswers
  <2> HIDE DEF c
  <2>3. /\ co' \in State /\ SameQueues(co, co') /\ SameLedger(co, co')
        /\ co'.inflight = co.inflight /\ co'.phase = co.phase /\ co'.outcome = co.outcome
        /\ co'.settled = co.settled /\ co'.race = c /\ co'.local = co.local
    BY <1>1, <2>1, <2>2 DEF State, SameQueues, SameLedger
  <2>4. Redecided(co, co')
    BY <1>3, <1>4, <2>1, <2>3 DEF Redecided
  <2>5. \A q \in Run : co'.race[q] = "aborted" => co.race[q] = "aborted"
    BY <1>3, <2>1, <2>3
  <2>6. QED
    BY <1>2, <2>3, <2>4, <2>5, RaceInv
<1>5. CASE co.race[r] # "open"
  <2>1. co' = co
    BY <1>5 DEF ProviderAnswers
  <2>2. Redecided(co, co')
    BY <1>1, <2>1 DEF Redecided, SameQueues, SameLedger
  <2>3. QED
    BY <1>2, <2>1, <2>2, RaceInv
<1>6. QED
  BY <1>4, <1>5

LEMMA SettleInv ==
  ASSUME Inv, NEW r \in Run, Settle(r)
  PROVE  Inv'
<1>1. /\ Good(co) /\ Slots /\ Clock /\ (\A q \in Run : Cause(q))
      /\ applied \in [Run -> Seq(Results)] /\ (\A q \in Run : OnceApplied(q))
  BY DEF Inv
<1>2. PICK slip \in [Edge(r) -> Slips] : co' = Pump(Release(Settled(r)), slip)
  BY DEF Settle
<1>3. /\ co.phase[r] = "running" /\ co.race[r] # "open" /\ AgesFollow
      /\ closed' = closed /\ cancelled' = cancelled /\ applied' = applied
  BY DEF Settle
<1> DEFINE u == Release(Settled(r))
<1>4. PICK p, out : Verdict(r, p, out) /\ Concluded(co, u, r, p, out)
  BY <1>1, <1>3, SettledEffect
<1>5. co' = Pump(u, slip)
  BY <1>2
<1> HIDE DEF u
<1>6. /\ co \in State /\ co.inflight \in Nat /\ MaxConcurrent \in Nat
      /\ closed \in BOOLEAN /\ co.inflight <= MaxConcurrent
  BY <1>1, CoordinatorAssumption DEF Good, State, Slots
<1>7. /\ Good(u) /\ u.order = co.order /\ u.inflight <= MaxConcurrent
  <2>1. Good(u) /\ u.order = co.order
    BY <1>1, <1>3, <1>4, ConcludedGood
  <2>2. u.inflight = co.inflight - 1
    BY <1>4 DEF Concluded
  <2>3. QED
    BY <1>6, <2>1, <2>2
<1>8. Good(co') /\ co'.inflight <= MaxConcurrent /\ Handed(u, co') /\ AtEnd(co')
  BY <1>5, <1>7, PumpEffect
<1>9. closed => co'.order = <<>>
  <2>1. ASSUME closed PROVE co'.order = <<>>
    <3>1. AtEnd(u) /\ u.order = <<>>
      BY <1>1, <1>7, <2>1 DEF Slots, AtEnd
    <3>2. co' = u
      BY <1>5, <1>7, <3>1, PumpIdle
    <3>3. QED
      BY <3>1, <3>2
  <2>2. QED
    BY <2>1
<1>10. Slots'
  BY <1>3, <1>6, <1>8, <1>9 DEF Slots
<1>11. Clock'
  BY <1>1, <1>3, AgesFollowClock DEF Clock
<1>12. /\ u.phase[r] = p /\ u.outcome[r] = out /\ u.race[r] = co.race[r] /\ u.local = co.local
       /\ \A q \in Run : q # r => /\ u.phase[q] = co.phase[q] /\ u.outcome[q] = co.outcome[q]
                                  /\ u.race[q] = co.race[q]
  BY <1>4, <1>6 DEF Concluded, SameCalls, State
<1>13. co'.local = co.local /\ \A q \in Run : Moved(u, co', q)
  BY <1>8, <1>12 DEF Handed
<1>14. \A q \in Run : Cause(q)'
  <2>1. ASSUME NEW q \in Run, q # r PROVE Cause(q)'
    <3>1. CASE Kept(u, co', q)
      BY <1>1, <1>3, <1>12, <1>13, <2>1, <3>1, CauseKept DEF Kept
    <3>2. CASE Ended(co', q)
      BY <1>3, <3>2 DEF Ended, Cause, Stopped
    <3>3. CASE Begun(co', q)
      BY <3>3 DEF Begun, Cause
    <3>4. QED
      BY <1>13, <3>1, <3>2, <3>3 DEF Moved
  <2>2. Cause(r)'
    <3>1. p # "queued"
      BY <1>4 DEF Verdict
    <3>2. Kept(u, co', r)
      BY <1>12, <1>13, <3>1 DEF Moved
    <3>3. co'.outcome[r] = out /\ co'.race[r] = co.race[r]
      BY <1>12, <3>2 DEF Kept
    <3>4. out = "cancelled" => Stopped(r)
      BY <1>4, Zenon DEF Verdict
    <3>5. out = "timed-out-inference" => r \in co.local
      BY <1>4, Zenon DEF Verdict
    <3>6. co.race[r] = "aborted" => r \in co.local
      BY <1>1 DEF Cause
    <3>7. QED
      BY <1>3, <1>13, <3>3, <3>4, <3>5, <3>6 DEF Cause, Stopped
  <2>3. QED
    BY <2>1, <2>2
<1>15. (applied \in [Run -> Seq(Results)])' /\ \A q \in Run : OnceApplied(q)'
  <2>1. ASSUME NEW q \in Run, co.phase[q] = "recorded" PROVE co'.phase[q] = "recorded"
    <3>1. u.phase[q] = "recorded"
      BY <1>3, <1>12, <2>1
    <3>2. QED
      BY <1>13, <3>1 DEF Moved, Kept
  <2>2. QED
    BY <1>1, <1>3, <2>1, AppliedKept
<1>16. QED
  BY <1>8, <1>10, <1>11, <1>14, <1>15 DEF Inv

LEMMA ApplyInv ==
  ASSUME Inv, NEW r \in Run, NEW fresh \in BOOLEAN, Apply(r, fresh)
  PROVE  Inv'
<1>1. /\ Good(co) /\ Slots /\ Clock /\ (\A q \in Run : Cause(q))
      /\ applied \in [Run -> Seq(Results)] /\ (\A q \in Run : OnceApplied(q)) /\ co \in State
  BY DEF Inv, Good
<1> DEFINE Done == "applied" \in ToSet(applied[r]) \/ co.phase[r] \in ClosedPhases
           With(x) == [applied EXCEPT ![r] = Append(@, x)]
<1>2. closed' = closed /\ cancelled' = cancelled /\ age' = age /\ co.outcome[r] = "response"
  BY Zenon DEF Apply
<1>3. \/ co' = co /\ applied' = With("already-applied")
      \/ /\ ~Done /\ applied' = With("applied")
         /\ co' = To(To(co, r, "policy_applied"), r, "recorded")
      \/ /\ ~Done /\ applied' = With("stale")
         /\ co' = To(To(co, r, "stale"), r, "recorded")
  <2>1. CASE Done
    BY <2>1 DEF Apply
  <2>2. CASE ~Done /\ fresh
    BY <2>2 DEF Apply
  <2>3. CASE ~Done /\ ~fresh
    BY <2>3 DEF Apply
  <2>4. QED
    BY <2>1, <2>2, <2>3
<1>4. co.phase[r] \in {"validated", "recorded"}
  <2>1. Life(co.phase[r], co.outcome[r], co.race[r])
    BY <1>1 DEF Good
  <2>2. QED
    BY <1>2, <2>1 DEF Life
<1>5. CASE co' = co /\ applied' = With("already-applied")
  <2>1. Slots' /\ Clock' /\ Good(co') /\ \A q \in Run : Cause(q)'
    BY <1>1, <1>2, <1>5 DEF Slots, Clock, Pending, Cause, Stopped, AtEnd
  <2>2. applied' \in [Run -> Seq(Results)]
    BY <1>1, <1>5 DEF Results
  <2>3. ASSUME NEW q \in Run PROVE OnceApplied(q)'
    <3>1. CASE q # r
      <4>1. applied'[q] = applied[q] /\ OnceApplied(q)
        BY <1>1, <1>5, <3>1
      <4>2. QED
        BY <1>5, <4>1 DEF OnceApplied
    <3>2. CASE q = r
      <4> DEFINE a == applied[r]
                 b == applied'[r]
      <4>1. a \in Seq(Results) /\ b = Append(a, "already-applied") /\ OnceApplied(r)
        BY <1>1, <1>5
      <4>2. /\ DOMAIN a = 1..Len(a) /\ DOMAIN b = 1..(Len(a) + 1) /\ Len(a) \in Nat
            /\ b[Len(a) + 1] = "already-applied" /\ \A i \in 1..Len(a) : b[i] = a[i]
        BY <4>1 DEF Results
      <4>3. \A i \in 1..(Len(a) + 1) : i \in 1..Len(a) \/ i = Len(a) + 1
        BY <4>2
      <4>4. /\ \A i \in 1..Len(a) : a[i] \in Decided =>
                 co.phase[r] = "recorded" /\ \A j \in 1..Len(a) : i < j => a[j] = "already-applied"
        BY <4>1, <4>2 DEF OnceApplied
      <4> HIDE DEF a, b
      <4>5. ASSUME NEW i \in 1..(Len(a) + 1), b[i] \in Decided
            PROVE  /\ co.phase[r] = "recorded"
                   /\ \A j \in 1..(Len(a) + 1) : i < j => b[j] = "already-applied"
        <5>1. i \in 1..Len(a) /\ a[i] \in Decided
          BY <4>2, <4>3, <4>5 DEF Decided
        <5>2. QED
          BY <4>2, <4>3, <4>4, <5>1
      <4>6. QED
        BY <1>5, <3>2, <4>2, <4>5 DEF OnceApplied, b
    <3>3. QED
      BY <3>1, <3>2
  <2>4. QED
    BY <2>1, <2>2, <2>3 DEF Inv
<1>6. ASSUME NEW x \in Decided, NEW mid \in {"policy_applied", "stale"},
             ~Done, applied' = With(x), co' = To(To(co, r, mid), r, "recorded")
      PROVE  Inv'
  <2>1. co.phase[r] = "validated"
    BY <1>4, <1>6 DEF ClosedPhases
  <2>2. Consumed(co, co', r)
    BY <1>1, <1>6, <2>1, ApplyEffect
  <2>3. Good(co') /\ co'.order = co.order
    BY <1>1, <2>1, <2>2, ConsumedGood
  <2>4. /\ co'.inflight = co.inflight /\ co'.outcome = co.outcome /\ co'.race = co.race
        /\ co'.local = co.local /\ co'.phase[r] = "recorded"
        /\ \A q \in Run : q # r => co'.phase[q] = co.phase[q]
    BY <1>1, <2>2 DEF Consumed, SameCalls, State
  <2>5. Slots'
    BY <1>1, <1>2, <2>3, <2>4 DEF Slots, AtEnd
  <2>6. Clock'
    <3>1. ~Pending(co, r)
      BY <2>1 DEF Pending
    <3>2. \A q \in Run : ~Pending(co', q) => ~Pending(co, q)
      BY <2>4, <3>1 DEF Pending
    <3>3. QED
      BY <1>1, <1>2, <3>2 DEF Clock
  <2>7. \A q \in Run : Cause(q)'
    BY <1>1, <1>2, <2>4, CauseKept
  <2>8. applied' \in [Run -> Seq(Results)]
    BY <1>1, <1>6 DEF Results, Decided
  <2>9. ASSUME NEW q \in Run PROVE OnceApplied(q)'
    <3>1. CASE q # r
      <4>1. applied'[q] = applied[q] /\ OnceApplied(q) /\ co'.phase[q] = co.phase[q]
        BY <1>1, <1>6, <2>4, <3>1
      <4>2. QED
        BY <4>1 DEF OnceApplied
    <3>2. CASE q = r
      <4> DEFINE a == applied[r]
                 b == applied'[r]
      <4>1. a \in Seq(Results) /\ b = Append(a, x) /\ OnceApplied(r)
        BY <1>1, <1>6
      <4>2. /\ DOMAIN a = 1..Len(a) /\ DOMAIN b = 1..(Len(a) + 1) /\ Len(a) \in Nat
            /\ \A i \in 1..Len(a) : b[i] = a[i]
        BY <4>1 DEF Results, Decided
      <4>3. \A i \in 1..(Len(a) + 1) : i \in 1..Len(a) \/ i = Len(a) + 1
        BY <4>2
      <4>4. \A i \in 1..Len(a) : a[i] \notin Decided
        BY <2>1, <4>1, <4>2 DEF OnceApplied
      <4> HIDE DEF a, b
      <4>5. \A i \in 1..(Len(a) + 1) : b[i] \in Decided =>
              \A j \in 1..(Len(a) + 1) : i < j => b[j] = "already-applied"
        BY <4>2, <4>3, <4>4
      <4>6. QED
        BY <2>4, <3>2, <4>2, <4>5 DEF OnceApplied, b
    <3>3. QED
      BY <3>1, <3>2
  <2>10. QED
    BY <2>3, <2>5, <2>6, <2>7, <2>8, <2>9 DEF Inv
<1>7. QED
  <2>1. "applied" \in Decided /\ "stale" \in Decided
    BY DEF Decided
  <2> HIDE DEF Done, With
  <2>2. QED
    BY <1>3, <1>5, <1>6, <2>1

LEMMA CloseInv ==
  ASSUME Inv, Close
  PROVE  Inv'
<1> DEFINE s == Drain(co)
<1>1. /\ Good(co) /\ Slots /\ Clock /\ (\A q \in Run : Cause(q)) /\ co \in State
      /\ applied \in [Run -> Seq(Results)] /\ (\A q \in Run : OnceApplied(q))
  BY DEF Inv, Good
<1>2. /\ closed' = TRUE /\ AgesFollow /\ cancelled' = cancelled /\ applied' = applied
      /\ co' = [s EXCEPT !.local = @ \cup {r \in Run : s.phase[r] = "running"},
                         !.race = [r \in Run |-> IF @[r] = "open" THEN "aborted" ELSE @[r]]]
  BY DEF Close
<1>3. Closable(s) /\ Swept(co, s) /\ s.order = <<>>
  BY <1>1, DrainEffect DEF Slots, Closable
<1> HIDE DEF s
<1>4. /\ Redecided(s, co') /\ co'.local = s.local \cup InPhase(s, "running")
      /\ \A q \in Run : co'.race[q] = "aborted" => s.race[q] = "aborted" \/ q \in InPhase(s, "running")
  BY <1>2, <1>3, AbortAllEffect DEF Closable
<1>5. Good(co') /\ co'.order = <<>>
  BY <1>3, <1>4, RedecidedGood DEF Closable
<1>6. co'.inflight = co.inflight /\ co'.phase = s.phase /\ co'.outcome = s.outcome /\ s.local = co.local
  BY <1>3, <1>4 DEF Redecided, Swept
<1>7. Slots'
  BY <1>1, <1>2, <1>5, <1>6 DEF Slots, AtEnd
<1>8. Clock'
  BY <1>1, <1>2, AgesFollowClock DEF Clock
<1>9. ASSUME NEW q \in Run PROVE Cause(q)'
  <2>1. Stopped(q)'
    BY <1>2 DEF Stopped
  <2>2. co'.race[q] = "aborted" => q \in co'.local
    <3>1. s.race[q] = "aborted" => q \in co.local
      BY <1>1, <1>3 DEF Swept, Kept, Cause
    <3>2. QED
      BY <1>4, <1>6, <3>1
  <2>3. co'.outcome[q] = "timed-out-inference" /\ co'.race[q] # "idle" => q \in co'.local
    <3>1. s.outcome[q] = "timed-out-inference" /\ s.race[q] # "idle" => q \in co.local
      BY <1>1, <1>3 DEF Swept, Kept, Cause
    <3>2. co'.race[q] # "idle" => s.race[q] # "idle"
      BY <1>4 DEF Redecided
    <3>3. QED
      BY <1>4, <1>6, <3>1, <3>2
  <2>4. QED
    BY <2>1, <2>2, <2>3 DEF Cause
<1>10. (applied \in [Run -> Seq(Results)])' /\ \A q \in Run : OnceApplied(q)'
  <2>1. \A q \in Run : co.phase[q] = "recorded" => co'.phase[q] = "recorded"
    BY <1>3, <1>6 DEF Swept, Kept
  <2>2. QED
    BY <1>1, <1>2, <2>1, AppliedKept
<1>11. QED
  BY <1>5, <1>7, <1>8, <1>9, <1>10 DEF Inv

LEMMA TickInv ==
  ASSUME Inv, Tick
  PROVE  Inv'
<1>1. /\ Good(co) /\ Slots /\ Clock /\ (\A q \in Run : Cause(q))
      /\ applied \in [Run -> Seq(Results)] /\ (\A q \in Run : OnceApplied(q))
  BY DEF Inv
<1>2. /\ co' = co /\ closed' = closed /\ cancelled' = cancelled /\ applied' = applied
      /\ age' = [r \in Run |-> IF Pending(co, r) /\ age[r] < Deadline THEN age[r] + 1 ELSE age[r]]
  BY DEF Tick
<1>3. Clock'
  <2>1. Deadline \in Nat
    BY CoordinatorAssumption
  <2>2. \A r \in Run : age[r] \in 0..Deadline /\ (~Pending(co, r) => age[r] = 0)
    BY <1>1 DEF Clock
  <2>3. ASSUME NEW r \in Run PROVE age'[r] \in 0..Deadline /\ (~Pending(co, r) => age'[r] = 0)
    <3>1. CASE Pending(co, r) /\ age[r] < Deadline
      BY <1>2, <2>1, <2>2, <3>1
    <3>2. CASE ~(Pending(co, r) /\ age[r] < Deadline)
      BY <1>2, <2>2, <3>2
    <3>3. QED
      BY <3>1, <3>2
  <2>4. age' \in [Run -> 0..Deadline]
    BY <1>2, <2>3
  <2>5. QED
    BY <1>1, <1>2, <2>3, <2>4 DEF Clock, Pending
<1>4. Slots' /\ \A q \in Run : Cause(q)'
  BY <1>1, <1>2 DEF Slots, Cause, Stopped, AtEnd
<1>5. (applied \in [Run -> Seq(Results)])' /\ \A q \in Run : OnceApplied(q)'
  BY <1>1, <1>2, AppliedKept
<1>6. QED
  BY <1>1, <1>2, <1>3, <1>4, <1>5 DEF Inv

LEMMA NextInv == Inv /\ [Next]_vars => Inv'
<1> SUFFICES ASSUME Inv, [Next]_vars PROVE Inv'
  OBVIOUS
<1>1. CASE UNCHANGED vars
  BY <1>1 DEF vars, Inv, Slots, Clock, Cause, Stopped, OnceApplied, Pending, AtEnd
<1>2. CASE Next
  BY <1>2, SubmitInv, CancelInv, DeadlineFiresInv, SettleInv, ProviderAnswersInv, ApplyInv,
     TickInv, CloseInv, Zenon DEF Next
<1>3. QED
  BY <1>1, <1>2

\* What every state of the coordinator satisfies.
THEOREM CoordinatorInvariant == Spec => []Inv
BY InitInv, NextInv, PTL DEF Spec

-----------------------------------------------------------------------------
(* The invariants that the runs check.                                     *)

LEMMA InvType == Inv => TypeOK
<1> SUFFICES ASSUME Inv PROVE TypeOK
  OBVIOUS
<1>1. co \in State /\ Clock /\ closed \in BOOLEAN /\ applied \in [Run -> Seq(Results)]
  BY DEF Inv, Good, Slots
<1>2. \A r \in Run : ToSet(applied[r]) \subseteq Results
  <2>1. SUFFICES ASSUME NEW r \in Run, NEW x \in ToSet(applied[r]) PROVE x \in Results
    OBVIOUS
  <2>2. applied[r] \in Seq(Results)
    BY <1>1
  <2>3. PICK i \in DOMAIN applied[r] : applied[r][i] = x
    BY DEF ToSet
  <2> DEFINE a == applied[r]
  <2> HIDE DEF a
  <2>4. a[i] \in Results
    BY <2>2, <2>3 DEF a
  <2>5. QED
    BY <2>3, <2>4 DEF a
<1>3. QED
  BY <1>1, <1>2 DEF TypeOK, State, Clock, AnyPhase, Races, Results

\* Every field of the object keeps its type, in every state of every instance.
THEOREM TypeCorrect == Spec => []TypeOK
BY CoordinatorInvariant, InvType, PTL

\* Run.to never throws: no order of cancellations, deadlines, answers, close()
\* and apply() takes a run along an edge that the NEXT table lacks.
THEOREM LifecycleLegal == Spec => []NoIllegalTransition
<1>1. Inv => NoIllegalTransition
  BY DEF Inv, Good, Life, NoIllegalTransition
<1>2. QED
  BY <1>1, CoordinatorInvariant, PTL

\* The queues hold exactly the queued runs, each once, under the session it
\* belongs to, and the Map has no key without a waiter: a cancellation that
\* takes a run from the middle of a list never loses or repeats another.
THEOREM QueuesWellFormed == Spec => []QueueWellFormed
<1>1. Inv => QueueWellFormed
  <2> SUFFICES ASSUME Inv PROVE QueueWellFormed
    OBVIOUS
  <2>1. Holds(co, InPhase(co, "queued"))
    BY DEF Inv, Good
  <2>2. IsInjective(co.order) /\ ToSet(co.order) = WithWaiters(co)
    BY <2>1 DEF Holds, Lists
  <2>3. ASSUME NEW k \in Session
        PROVE  /\ k \in ToSet(co.order) <=> co.queues[k] # <<>>
               /\ IsInjective(co.queues[k])
               /\ ToSet(co.queues[k]) = {r \in Run : SessionOf[r] = k /\ co.phase[r] = "queued"}
    <3>1. IsInjective(co.queues[k]) /\ ToSet(co.queues[k]) = OfSession(InPhase(co, "queued"), k)
      BY <2>1 DEF Holds, Lists
    <3>2. OfSession(InPhase(co, "queued"), k)
            = {r \in Run : SessionOf[r] = k /\ co.phase[r] = "queued"}
      BY DEF OfSession, InPhase
    <3>3. k \in ToSet(co.order) <=> co.queues[k] # <<>>
      BY <2>2 DEF WithWaiters
    <3>4. QED
      BY <3>1, <3>2, <3>3
  <2>4. QED
    BY <2>2, <2>3 DEF QueueWellFormed
<1>2. QED
  BY <1>1, CoordinatorInvariant, PTL

\* An outcome names its cause: `cancelled` has a signal or close() behind it,
\* `failed` the provider, an inference timeout the local controller's abort.
THEOREM OutcomesHonest == Spec => []OutcomeHonest
<1>1. Inv => OutcomeHonest
  <2> SUFFICES ASSUME Inv, NEW r \in Run
               PROVE  /\ co.outcome[r] = "cancelled" => Stopped(r)
                      /\ co.outcome[r] = "failed" => co.race[r] \in {"failed", "threw"}
                      /\ co.outcome[r] = "response" => co.race[r] = "ok"
                      /\ co.outcome[r] = "timed-out-inference" /\ co.race[r] # "idle" => r \in co.local
                      /\ co.outcome[r] \in QueueOutcomes => co.race[r] = "idle"
    BY DEF OutcomeHonest
  <2>1. Life(co.phase[r], co.outcome[r], co.race[r]) /\ Cause(r)
    BY DEF Inv, Good
  <2>2. QED
    BY <2>1 DEF Life, Cause, QueueOutcomes
<1>2. QED
  BY <1>1, CoordinatorInvariant, PTL

\* However often the caller invokes apply(), at most one call decides, and all
\* that follow it are refused.
THEOREM AppliesOnce == Spec => []AppliedOnce
<1>1. Inv => AppliedOnce
  BY DEF Inv, OnceApplied, AppliedOnce, Decided
<1>2. QED
  BY <1>1, CoordinatorInvariant, PTL

-----------------------------------------------------------------------------
(* What a call of the provider may rely on.                                *)

Wanted(r) == r \notin cancelled /\ age[r] < Deadline /\ ~closed

\* A pump that starts a waiter has looked at its signal and its clock, and
\* after close() there is no waiter to start.
LEMMA StartsAreWanted ==
  ASSUME Inv, [Next]_vars, NEW r \in Run, co.race[r] = "idle", co'.race[r] # "idle"
  PROVE  Wanted(r)
<1>1. /\ Good(co) /\ Slots /\ Clock /\ Cause(r) /\ co \in State /\ Deadline \in Nat \ {0}
  BY CoordinatorAssumption DEF Inv, Good
<1>2. ~(age[r] >= Deadline) => age[r] < Deadline
  BY <1>1 DEF Clock
<1>3. ~Redecided(co, co')
  BY DEF Redecided
<1>4. ASSUME NEW q \in Run, Submit(q) PROVE Wanted(r)
  <2>1. PICK slip \in [Edge(q) -> Slips] : co' = Submitted(q, slip)
    BY <1>4 DEF Submit
  <2>2. co.phase[q] = "created" /\ co.outcome[q] = "none"
    BY <1>4 DEF Submit
  <2>3. \/ \E p, out : Refused(co, co', q, p, out)
        \/ Begins(co, co', q) /\ ~closed /\ q \notin cancelled
        \/ Joins(co, co', q)
    BY <1>1, <2>1, <2>2, SubmittedEffect
  <2>4. ASSUME NEW p, NEW out, Refused(co, co', q, p, out) PROVE FALSE
    BY <1>1, <2>4 DEF Refused, RunBecomes, State
  <2>5. ~Joins(co, co', q)
    BY <1>1 DEF Joins, RunBecomes, State
  <2>6. q = r /\ ~closed /\ q \notin cancelled
    BY <1>1, <2>3, <2>4, <2>5 DEF Begins, RunBecomes, State
  <2>7. age[r] = 0
    BY <1>1, <2>2, <2>6 DEF Clock, Pending
  <2>8. QED
    BY <1>1, <2>6, <2>7 DEF Wanted
<1>5. ASSUME NEW q \in Run, Settle(q) PROVE Wanted(r)
  <2> DEFINE u == Release(Settled(q))
  <2>1. PICK slip \in [Edge(q) -> Slips] : co' = Pump(u, slip)
    BY <1>5 DEF Settle
  <2>2. co.phase[q] = "running" /\ co.race[q] # "open" /\ Cause(q)
    BY <1>5 DEF Settle, Inv
  <2>3. PICK p, out : Verdict(q, p, out) /\ Concluded(co, u, q, p, out)
    BY <1>1, <2>2, SettledEffect
  <2> HIDE DEF u
  <2>4. Good(u) /\ u.order = co.order /\ u.race = co.race /\ u.inflight = co.inflight - 1
    BY <1>1, <2>2, <2>3, ConcludedGood DEF Concluded, SameCalls
  <2>5. u.inflight <= MaxConcurrent
    BY <1>1, <2>4, CoordinatorAssumption DEF Slots, State
  <2>6. Handed(u, co')
    BY <2>1, <2>4, <2>5, PumpEffect
  <2>7. Begun(co', r)
    BY <2>4, <2>6 DEF Handed, Moved, Kept, Ended
  <2>8. ~closed
    <3>1. SUFFICES ASSUME closed PROVE FALSE
      OBVIOUS
    <3>2. AtEnd(u)
      BY <1>1, <2>4, <3>1 DEF Slots, AtEnd
    <3>3. co' = u
      BY <2>1, <2>4, <2>5, <3>2, PumpIdle
    <3>4. QED
      BY <2>4, <3>3
  <2>9. QED
    BY <1>2, <2>7, <2>8 DEF Begun, Wanted
<1>6. ASSUME NEW q \in Run, Cancel(q) PROVE FALSE
  <2>1. CASE co.phase[q] = "queued"
    <3>1. co' = AbortWaiter(co, q)
      BY <1>6, <2>1 DEF Cancel
    <3>2. /\ q \in InPhase(co, "queued") /\ InPhase(co, "queued") \in SUBSET Run
          /\ Holds(co, InPhase(co, "queued"))
      BY <1>1, <2>1 DEF InPhase, Good
    <3>3. co.order # <<>>
      BY <1>1, <3>2, HoldsNothing
    <3>4. co.inflight >= MaxConcurrent /\ co.inflight <= MaxConcurrent
      BY <1>1, <3>3 DEF Slots, AtEnd
    <3>5. SameLedger(co, co) /\ SameCalls(co, co)
      BY DEF SameLedger, SameCalls
    <3>6. Dropped(co, co', q, "cancelled")
      BY <1>1, <3>1, <3>2, <3>4, <3>5, AbortWaiterEffect
    <3>7. QED
      BY <1>1, <3>6 DEF Dropped, RunBecomes, State
  <2>2. CASE co.phase[q] = "running"
    <3>1. co' = AbortLocal(co, q)
      BY <1>6, <2>2 DEF Cancel
    <3>2. QED
      BY <1>1, <1>3, <3>1, AbortLocalEffect
  <2>3. CASE co.phase[q] \notin {"queued", "running"}
    BY <1>6, <2>3 DEF Cancel
  <2>4. QED
    BY <2>1, <2>2, <2>3
<1>7. ASSUME NEW q \in Run, DeadlineFires(q) PROVE FALSE
  BY <1>1, <1>3, <1>7, AbortLocalEffect DEF DeadlineFires
<1>8. ASSUME NEW q \in Run, NEW how \in Answers, ProviderAnswers(q, how) PROVE FALSE
  BY <1>1, <1>8 DEF ProviderAnswers, State
<1>9. ASSUME NEW q \in Run, NEW fresh \in BOOLEAN, Apply(q, fresh) PROVE FALSE
  <2>1. \/ co' = co
        \/ co.phase[q] = "validated" /\ Consumed(co, co', q)
    BY <1>1, <1>9, AppliesOrNot
  <2>2. co'.race = co.race
    BY <2>1 DEF Consumed, SameCalls
  <2>3. QED
    BY <2>2
<1>10. ASSUME Close PROVE FALSE
  <2> DEFINE s == Drain(co)
  <2>1. co' = [s EXCEPT !.local = @ \cup {q \in Run : s.phase[q] = "running"},
                       !.race = [q \in Run |-> IF @[q] = "open" THEN "aborted" ELSE @[q]]]
    BY <1>10 DEF Close
  <2>2. Closable(s) /\ Swept(co, s)
    BY <1>1, DrainEffect DEF Slots, Closable
  <2> HIDE DEF s
  <2>3. Redecided(s, co')
    BY <2>1, <2>2, AbortAllEffect DEF Closable
  <2>4. s.race[r] = "idle"
    BY <2>2 DEF Swept, Kept
  <2>5. QED
    BY <2>3, <2>4 DEF Redecided
<1>11. ~Tick /\ ~UNCHANGED vars
  BY DEF Tick, vars
<1>12. Next
  BY <1>11
<1>13. QED
  BY <1>4, <1>5, <1>6, <1>7, <1>8, <1>9, <1>10, <1>11, <1>12, Zenon DEF Next

\* The provider is called only for a run whose caller has not given up, whose
\* deadline is not spent and whose coordinator is not closed, also when the
\* pump reaches it long after it was queued.
THEOREM CallsAreWanted == Spec => ProviderCallWanted
<1>1. Inv /\ [Next]_vars
        => [\A r \in Run : co.race[r] = "idle" /\ co'.race[r] # "idle" =>
              r \notin cancelled /\ age[r] < Deadline /\ ~closed]_vars
  BY StartsAreWanted DEF Wanted
<1>2. QED
  BY <1>1, CoordinatorInvariant, PTL DEF ProviderCallWanted, Spec

-----------------------------------------------------------------------------
(* The coordinator implements the admission contract.                      *)

\* The contract counts as this module does.
LEMMA SameCardinality == \A S : Contract!Cardinality(S) = Cardinality(S)
BY DEF Contract!Cardinality, Cardinality

\* The contract's sets, read in the object.
LEMMA Mapping ==
  /\ Contract!Waiting = InPhase(co, "queued")
  /\ Contract!Running = InPhase(co, "running")
  /\ Contract!Charged = Charged(co)
  /\ \A C, k : Contract!InSession(C, k) = {x \in C : SessionOf[x] = k}
  /\ \A C, k : Contract!InTurn(C, k) = {x \in C : TurnOf[x] = k}
<1>1. \A r \in Run : /\ StageOf(r) = "waiting" <=> co.phase[r] = "queued"
                     /\ StageOf(r) = "running" <=> co.phase[r] = "running"
  BY DEF StageOf
<1>2. Contract!Waiting = InPhase(co, "queued") /\ Contract!Running = InPhase(co, "running")
  <2> DEFINE stage == [r \in Run |-> StageOf(r)]
  <2>1. \A r \in Run : stage[r] = StageOf(r)
    OBVIOUS
  <2>2. /\ Contract!Waiting = {r \in Run : stage[r] = "waiting"}
        /\ Contract!Running = {r \in Run : stage[r] = "running"}
    BY DEF Contract!Waiting, Contract!Running
  <2> HIDE DEF stage
  <2>3. /\ {r \in Run : stage[r] = "waiting"} = {r \in Run : co.phase[r] = "queued"}
        /\ {r \in Run : stage[r] = "running"} = {r \in Run : co.phase[r] = "running"}
    <3>1. \A r \in Run : /\ stage[r] = "waiting" <=> co.phase[r] = "queued"
                         /\ stage[r] = "running" <=> co.phase[r] = "running"
      BY <1>1, <2>1
    <3>2. QED
      BY <3>1, Zenon
  <2>4. QED
    BY <2>2, <2>3, Zenon DEF InPhase
<1>3. Contract!Charged = Charged(co)
  BY <1>2 DEF Contract!Charged, Charged, InPhase
<1>4. QED
  BY <1>2, <1>3 DEF Contract!InSession, Contract!InTurn

CountedOut(C, D, f, K) ==
  Count(C \ D, f, K) = [k \in K |-> Count(C, f, K)[k] - Cardinality({x \in D : f[x] = k})]

\* Taking runs out of a set takes as many from the count of each key.
LEMMA CountMinus ==
  ASSUME NEW K, NEW f, NEW C \in SUBSET Run, NEW D \in SUBSET C
  PROVE  CountedOut(C, D, f, K)
<1> DEFINE At(X, k) == {x \in X : f[x] = k}
<1>1. ASSUME NEW k \in K
      PROVE  Cardinality(At(C \ D, k)) = Cardinality(At(C, k)) - Cardinality(At(D, k))
  <2>1. /\ IsFiniteSet(At(C, k)) /\ IsFiniteSet(At(D, k)) /\ IsFiniteSet(At(C \ D, k))
        /\ Cardinality(At(C, k)) \in Nat /\ Cardinality(At(D, k)) \in Nat
        /\ Cardinality(At(C \ D, k)) \in Nat
    BY FiniteRuns
  <2>2. At(C, k) = At(C \ D, k) \cup At(D, k) /\ At(C \ D, k) \cap At(D, k) = {}
    OBVIOUS
  <2> HIDE DEF At
  <2> DEFINE X == At(C \ D, k)
             Y == At(D, k)
  <2> HIDE DEF X, Y
  <2>5. Cardinality(X \cup Y) = Cardinality(X) + Cardinality(Y) - Cardinality(X \cap Y)
    BY <2>1, FS_Union DEF X, Y
  <2>6. X \cap Y = {} /\ Cardinality({}) = 0
    BY <2>2, FS_EmptySet DEF X, Y
  <2>7. X \cup Y = At(C, k)
    BY <2>2 DEF X, Y
  <2>3. Cardinality(At(C, k)) = Cardinality(At(C \ D, k)) + Cardinality(At(D, k))
    <3>1. Cardinality(X) \in Nat /\ Cardinality(Y) \in Nat
      BY <2>1, Zenon DEF X, Y
    <3>2. Cardinality(X \cup Y) = Cardinality(X) + Cardinality(Y)
      <4>1. Cardinality(X \cap Y) = 0
        BY <2>6
      <4>2. QED
        BY <2>5, <3>1, <4>1
    <3>3. QED
      BY <2>7, <3>2, Zenon DEF X, Y
  <2>4. QED
    BY <2>1, <2>3
<1>2. /\ Count(C, f, K) = [k \in K |-> Cardinality(At(C, k))]
      /\ Count(C \ D, f, K) = [k \in K |-> Cardinality(At(C \ D, k))]
  BY DEF Count
<1>3. \A k \in K : Cardinality({x \in D : f[x] = k}) = Cardinality(At(D, k))
  OBVIOUS
<1> HIDE DEF At
<1>4. QED
  BY <1>1, <1>2, <1>3 DEF CountedOut

\* The ledger of the contract follows from the runs that are charged.
LEMMA RefundStep ==
  ASSUME Good(co), Good(co'), NEW D \in SUBSET Charged(co), Charged(co') = Charged(co) \ D
  PROVE  Contract!Refund(D)
<1>1. /\ co.sessionCalls = Count(Charged(co), SessionOf, Session)
      /\ co.turnCalls = Count(Charged(co), TurnOf, Turn)
      /\ co'.sessionCalls = Count(Charged(co) \ D, SessionOf, Session)
      /\ co'.turnCalls = Count(Charged(co) \ D, TurnOf, Turn)
      /\ Charged(co) \in SUBSET Run
  BY DEF Good, Charged
<1>2. CountedOut(Charged(co), D, SessionOf, Session) /\ CountedOut(Charged(co), D, TurnOf, Turn)
  BY <1>1, CountMinus
<1>3. /\ co'.sessionCalls
           = [k \in Session |-> co.sessionCalls[k] - Cardinality({x \in D : SessionOf[x] = k})]
      /\ co'.turnCalls
           = [k \in Turn |-> co.turnCalls[k] - Cardinality({x \in D : TurnOf[x] = k})]
  BY <1>1, <1>2 DEF CountedOut
<1>4. /\ \A k : Contract!InSession(D, k) = {x \in D : SessionOf[x] = k}
      /\ \A k : Contract!InTurn(D, k) = {x \in D : TurnOf[x] = k}
  BY DEF Contract!InSession, Contract!InTurn
<1>5. QED
  BY <1>3, <1>4, SameCardinality DEF Contract!Refund

\* What a run looks like to the contract.
LEMMA StageFacts ==
  ASSUME NEW q \in Run
  PROVE  /\ co.phase[q] = "queued" => StageOf(q) = "waiting"
         /\ co.phase[q] = "running" => StageOf(q) = "running"
         /\ co.phase[q] = "created" /\ co.outcome[q] = "none" => StageOf(q) = "new"
         /\ co.phase[q] \in {"admitted", "validated", "recorded"} => StageOf(q) = "ended"
         /\ co.phase[q] = "created" /\ co.outcome[q] # "none" => StageOf(q) = "ended"
BY DEF StageOf

LEMMA StageFactsNext ==
  ASSUME NEW q \in Run
  PROVE  /\ co'.phase[q] = "queued" => StageOf(q)' = "waiting"
         /\ co'.phase[q] = "running" => StageOf(q)' = "running"
         /\ co'.phase[q] \in {"admitted", "validated", "recorded"} => StageOf(q)' = "ended"
         /\ co'.phase[q] = "created" /\ co'.outcome[q] # "none" => StageOf(q)' = "ended"
         /\ co'.phase[q] = co.phase[q] /\ co'.outcome[q] = co.outcome[q] => StageOf(q)' = StageOf(q)
BY DEF StageOf

LEMMA OutcomeFacts ==
  /\ AdmissionOutcome("none") = "none" /\ AdmissionOutcome("closed") = "closed"
  /\ AdmissionOutcome("duplicate") = "duplicate" /\ AdmissionOutcome("cancelled") = "cancelled"
  /\ AdmissionOutcome("response") = "response" /\ AdmissionOutcome("failed") = "failed"
  /\ \A out \in {"budget-session", "budget-turn"} : AdmissionOutcome(out) = "budget-exceeded"
  /\ \A out \in {"queue-full-global", "queue-full-session"} : AdmissionOutcome(out) = "queue-full"
  /\ \A out \in {"timed-out-queue", "timed-out-inference"} : AdmissionOutcome(out) = "timed-out"
BY DEF AdmissionOutcome

\* A run that is answered at once.
LEMMA RefusedStep ==
  ASSUME Good(co), NEW r \in Run, co.phase[r] = "created", co.outcome[r] = "none",
         NEW p, NEW out, Rejected(p, out), Refused(co, co', r, p, out), closed' = closed
  PROVE  Contract!Refuse(r, AdmissionOutcome(out))
<1>1. co \in State /\ co.race[r] = "idle"
  BY DEF Good, Life
<1>2. /\ co'.phase[r] = p /\ co'.outcome[r] = out /\ co'.race = co.race
      /\ \A q \in Run : q # r => co'.phase[q] = co.phase[q] /\ co'.outcome[q] = co.outcome[q]
  BY <1>1 DEF Refused, RunBecomes, State
<1>3. StageOf(r) = "new" /\ StageOf(r)' = "ended"
  BY <1>2, StageFacts, StageFactsNext DEF Rejected
<1>4. \A q \in Run : q # r => StageOf(q)' = StageOf(q)
  BY <1>2, StageFactsNext
<1>5. /\ co'.inflight = co.inflight /\ co'.turnCalls = co.turnCalls
      /\ co'.sessionCalls = co.sessionCalls
  BY DEF Refused, SameLedger
<1>6. [q \in Run |-> StageOf(q)]' = [[q \in Run |-> StageOf(q)] EXCEPT ![r] = "ended"]
  BY <1>3, <1>4
<1>7. [q \in Run |-> AdmissionOutcome(co.outcome[q])]'
        = [[q \in Run |-> AdmissionOutcome(co.outcome[q])] EXCEPT ![r] = AdmissionOutcome(out)]
  BY <1>2
<1>8. [q \in Run |-> StageOf(q)][r] = "new"
  BY <1>3
<1>9. QED
  BY <1>2, <1>5, <1>6, <1>7, <1>8 DEF Contract!Refuse

\* The steps the contract does not see.
LEMMA Stutters ==
  ASSUME co'.inflight = co.inflight, SameLedger(co, co'), closed' = closed,
         \A q \in Run : /\ StageOf(q)' = StageOf(q) /\ co'.outcome[q] = co.outcome[q]
                        /\ co'.race[q] # "idle" <=> co.race[q] # "idle"
  PROVE  UNCHANGED Contract!vars
<1>1. [q \in Run |-> StageOf(q)]' = [q \in Run |-> StageOf(q)]
  <2>1. \A q \in Run : StageOf(q)' = StageOf(q)
    OBVIOUS
  <2>2. QED
    BY <2>1
<1>2. [q \in Run |-> AdmissionOutcome(co.outcome[q])]'
        = [q \in Run |-> AdmissionOutcome(co.outcome[q])]
  <2>1. \A q \in Run : co'.outcome[q] = co.outcome[q]
    OBVIOUS
  <2>2. QED
    BY <2>1
<1>3. {q \in Run : co.race[q] # "idle"}' = {q \in Run : co.race[q] # "idle"}
  <2>1. \A q \in Run : co'.race[q] # "idle" <=> co.race[q] # "idle"
    OBVIOUS
  <2>2. QED
    BY <2>1
<1>4. co'.turnCalls = co.turnCalls /\ co'.sessionCalls = co.sessionCalls
  BY DEF SameLedger
<1>5. QED
  BY <1>1, <1>2, <1>3, <1>4 DEF Contract!vars

\* The two ceilings are tested in turn; the contract asks for both.
LEMMA BudgetMapping ==
  ASSUME Good(co), NEW r \in Run
  PROVE  BudgetRefusal(co, r) = "none" <=> Contract!WithinBudget(r)
<1> DEFINE m == co.sessionCalls[SessionOf[r]]
           n == co.turnCalls[TurnOf[r]]
<1>1. m \in Nat /\ n \in Nat /\ PerSessionCalls \in Nat /\ PerTurnCalls \in Nat
  BY CoordinatorAssumption DEF Good, State
<1>2. Contract!WithinBudget(r) <=> m < PerSessionCalls /\ n < PerTurnCalls
  BY DEF Contract!WithinBudget
<1>3. BudgetRefusal(co, r) = IF m >= PerSessionCalls THEN "budget-session"
                              ELSE IF n >= PerTurnCalls THEN "budget-turn" ELSE "none"
  BY DEF BudgetRefusal
<1> HIDE DEF m, n
<1>4. QED
  BY <1>1, <1>2, <1>3

\* The queue is empty exactly when nobody waits.
LEMMA NobodyWaits ==
  ASSUME NEW s, Good(s)
  PROVE  s.order = <<>> <=> InPhase(s, "queued") = {}
<1>1. Holds(s, InPhase(s, "queued")) /\ InPhase(s, "queued") \in SUBSET Run /\ s \in State
  BY DEF Good, InPhase
<1>2. QED
  BY <1>1, HoldsNothing

\* A run is admitted to a free slot.
LEMMA StartStep ==
  ASSUME Good(co), NEW r \in Run, co.phase[r] = "created", co.outcome[r] = "none",
         Begins(co, co', r), ~closed, closed' = closed,
         BudgetRefusal(co, r) = "none", co.inflight < MaxConcurrent
  PROVE  Contract!Start(r)
<1>1. co \in State /\ co.race[r] = "idle"
  BY DEF Good, Life
<1>2. /\ co'.phase[r] = "running" /\ co'.outcome[r] = "none" /\ co'.race[r] = "open"
      /\ \A q \in Run : q # r => /\ co'.phase[q] = co.phase[q] /\ co'.outcome[q] = co.outcome[q]
                                 /\ co'.race[q] = co.race[q]
  BY <1>1 DEF Begins, RunBecomes, State
<1>3. StageOf(r) = "new" /\ StageOf(r)' = "running"
  BY <1>2, StageFacts, StageFactsNext
<1>4. \A q \in Run : q # r => StageOf(q)' = StageOf(q)
  BY <1>2, StageFactsNext
<1>5. [q \in Run |-> StageOf(q)]' = [[q \in Run |-> StageOf(q)] EXCEPT ![r] = "running"]
      /\ [q \in Run |-> StageOf(q)][r] = "new"
  BY <1>3, <1>4
<1>6. [q \in Run |-> AdmissionOutcome(co.outcome[q])]'
        = [q \in Run |-> AdmissionOutcome(co.outcome[q])]
  <2>1. \A q \in Run : co'.outcome[q] = co.outcome[q]
    BY <1>2
  <2>2. QED
    BY <2>1
<1>7. {q \in Run : co.race[q] # "idle"}' = {q \in Run : co.race[q] # "idle"} \cup {r}
  BY <1>1, <1>2
<1>8. Contract!WithinBudget(r)
  BY BudgetMapping
<1>9. Contract!Reserve(r) /\ co'.inflight = co.inflight + 1
  BY DEF Contract!Reserve, Begins, LedgerMore
<1>10. QED
  BY <1>5, <1>6, <1>7, <1>8, <1>9 DEF Contract!Start

\* The queue has room exactly when both of its limits say so.
LEMMA RoomMapping ==
  ASSUME Good(co), NEW r \in Run
  PROVE  Room(r) <=> ~Contract!QueueFull(r)
<1> DEFINE W == InPhase(co, "queued")
           m == Cardinality(W)
           n == Cardinality(OfSession(W, SessionOf[r]))
<1>1. co \in State /\ W \in SUBSET Run /\ Holds(co, W) /\ SessionOf[r] \in Session
  BY CoordinatorAssumption DEF Good, InPhase
<1>2. Queued(co) = m /\ Len(co.queues[SessionOf[r]]) = n
  BY <1>1, QueuedCount
<1>3. m \in Nat /\ n \in Nat
  BY FiniteRuns DEF InPhase, OfSession
<1>4. Contract!QueueFull(r) <=> m >= MaxQueue \/ n >= MaxQueuePerSession
  BY Mapping, SameCardinality DEF Contract!QueueFull, OfSession
<1>5. MaxQueue \in Nat /\ MaxQueuePerSession \in Nat
  BY CoordinatorAssumption
<1> HIDE DEF m, n
<1>6. QED
  BY <1>2, <1>3, <1>4, <1>5 DEF Room

\* A run is put in the queue.
LEMMA EnqueueStep ==
  ASSUME Good(co), NEW r \in Run, co.phase[r] = "created", co.outcome[r] = "none",
         Joins(co, co', r), ~closed, closed' = closed,
         BudgetRefusal(co, r) = "none", co.inflight >= MaxConcurrent, Room(r)
  PROVE  Contract!Enqueue(r)
<1>1. co \in State /\ co.race[r] = "idle"
  BY DEF Good, Life
<1>2. /\ co'.phase[r] = "queued" /\ co'.outcome[r] = "none" /\ co'.race[r] = "idle"
      /\ \A q \in Run : q # r => /\ co'.phase[q] = co.phase[q] /\ co'.outcome[q] = co.outcome[q]
                                 /\ co'.race[q] = co.race[q]
  BY <1>1 DEF Joins, RunBecomes, State
<1>3. StageOf(r) = "new" /\ StageOf(r)' = "waiting"
  BY <1>2, StageFacts, StageFactsNext
<1>4. \A q \in Run : q # r => StageOf(q)' = StageOf(q)
  BY <1>2, StageFactsNext
<1>5. [q \in Run |-> StageOf(q)]' = [[q \in Run |-> StageOf(q)] EXCEPT ![r] = "waiting"]
      /\ [q \in Run |-> StageOf(q)][r] = "new"
  BY <1>3, <1>4
<1>6. /\ [q \in Run |-> AdmissionOutcome(co.outcome[q])]'
           = [q \in Run |-> AdmissionOutcome(co.outcome[q])]
      /\ {q \in Run : co.race[q] # "idle"}' = {q \in Run : co.race[q] # "idle"}
  <2>1. \A q \in Run : co'.outcome[q] = co.outcome[q] /\ co'.race[q] = co.race[q]
    BY <1>1, <1>2
  <2>2. QED
    BY <2>1
<1>7. Contract!WithinBudget(r) /\ ~Contract!QueueFull(r)
  BY BudgetMapping, RoomMapping
<1>8. Contract!Reserve(r) /\ co'.inflight = co.inflight
  BY DEF Contract!Reserve, Joins, LedgerMore
<1>9. QED
  BY <1>5, <1>6, <1>7, <1>8 DEF Contract!Enqueue

\* What becomes of a run when D are dropped from the queue and L started.
Fate(q, D, L) ==
  \/ q \in D /\ Ended(co', q)
  \/ q \in L \ D /\ Begun(co', q) /\ co.outcome[q] = "none"
  \/ q \notin D \cup L /\ Kept(co, co', q)

\* A run ends and the pump moves others in the same step.
LEMMA EndAndPumpStep ==
  ASSUME NEW r \in Run, NEW D \in SUBSET Run, NEW L \in SUBSET Run, closed' = closed,
         co'.phase[r] \in {"validated", "recorded"},
         \A q \in Run : q # r => Fate(q, D, L), r \notin D
  PROVE  Contract!EndAndPump(r, AdmissionOutcome(co'.outcome[r]), D, L)
<1> DEFINE o == AdmissionOutcome(co'.outcome[r])
           why == [q \in D |-> AdmissionOutcome(co'.outcome[q])]
<1>1. StageOf(r)' = "ended"
  BY StageFactsNext
<1>2. ASSUME NEW q \in Run, q # r
      PROVE  /\ StageOf(q)' = IF q \in D THEN "ended"
                              ELSE IF q \in L THEN "running" ELSE StageOf(q)
             /\ AdmissionOutcome(co'.outcome[q])
                  = IF q \in D THEN AdmissionOutcome(co'.outcome[q])
                    ELSE AdmissionOutcome(co.outcome[q])
             /\ q \in D => AdmissionOutcome(co'.outcome[q]) \in {"cancelled", "timed-out"}
  <2>1. CASE q \in D /\ Ended(co', q)
    <3>1. StageOf(q)' = "ended"
      BY <2>1, StageFactsNext DEF Ended
    <3>2. AdmissionOutcome(co'.outcome[q]) \in {"cancelled", "timed-out"}
      BY <2>1, OutcomeFacts DEF Ended, DropOutcomes
    <3>3. QED
      BY <2>1, <3>1, <3>2
  <2>2. CASE q \in L \ D /\ Begun(co', q) /\ co.outcome[q] = "none"
    <3>1. StageOf(q)' = "running"
      BY <2>2, StageFactsNext DEF Begun
    <3>2. co'.outcome[q] = co.outcome[q]
      BY <2>2 DEF Begun
    <3>3. QED
      BY <2>2, <3>1, <3>2
  <2>3. CASE q \notin D \cup L /\ Kept(co, co', q)
    <3>1. co'.phase[q] = co.phase[q] /\ co'.outcome[q] = co.outcome[q]
      BY <2>3 DEF Kept
    <3>2. StageOf(q)' = StageOf(q)
      BY <3>1, StageFactsNext
    <3>3. QED
      BY <2>3, <3>1, <3>2
  <2>4. QED
    BY <1>2, <2>1, <2>2, <2>3 DEF Fate
<1>3. [q \in Run |-> StageOf(q)]'
        = [q \in Run |-> IF q = r \/ q \in D THEN "ended" ELSE IF q \in L THEN "running"
                         ELSE [x \in Run |-> StageOf(x)][q]]
  BY <1>1, <1>2
<1>4. why \in [D -> {"cancelled", "timed-out"}] /\ \A q \in D : why[q] = AdmissionOutcome(co'.outcome[q])
  BY <1>2
<1> HIDE DEF why
<1>5. [q \in Run |-> AdmissionOutcome(co.outcome[q])]'
        = [q \in Run |-> IF q = r THEN o ELSE IF q \in D THEN why[q]
                         ELSE [x \in Run |-> AdmissionOutcome(co.outcome[x])][q]]
  BY <1>2, <1>4
<1> HIDE DEF o
<1>6. Contract!EndAndPump(r, o, D, L)
  BY <1>3, <1>4, <1>5 DEF Contract!EndAndPump
<1>7. QED
  BY <1>6 DEF o

\* Calls made by such a step.
LEMMA CalledStep ==
  ASSUME NEW r \in Run, NEW D \in SUBSET InPhase(co, "queued"), NEW L \in SUBSET InPhase(co, "queued"),
         Good(co), co'.race[r] # "idle" <=> co.race[r] # "idle",
         \A q \in Run : q # r => Fate(q, D, L), r \notin D \cup L, D \cap L = {}
  PROVE  {q \in Run : co.race[q] # "idle"}' = {q \in Run : co.race[q] # "idle"} \cup L
<1>1. ASSUME NEW q \in Run PROVE co'.race[q] # "idle" <=> co.race[q] # "idle" \/ q \in L
  <2>1. CASE q = r
    BY <2>1
  <2>2. CASE q # r
    <3>1. q \in D => co.race[q] = "idle"
      BY DEF Good, Life, InPhase
    <3>2. CASE q \in D /\ Ended(co', q)
      BY <3>1, <3>2 DEF Ended
    <3>3. CASE q \in L \ D /\ Begun(co', q)
      BY <3>3 DEF Begun
    <3>4. CASE q \notin D \cup L /\ Kept(co, co', q)
      BY <3>4 DEF Kept
    <3>5. QED
      BY <2>2, <3>2, <3>3, <3>4 DEF Fate
  <2>3. QED
    BY <2>1, <2>2
<1>2. L \subseteq Run
  BY DEF InPhase
<1>3. QED
  BY <1>1, <1>2

\* Admitted to a free slot and dropped at once: nobody waits, so the pump that
\* follows hands nothing on.
LEMMA DropAtStartStep ==
  ASSUME Good(co), Slots, NEW r \in Run, co.phase[r] = "created", co.outcome[r] = "none",
         NEW out \in DropOutcomes, Refused(co, co', r, "recorded", out), ~closed, closed' = closed,
         BudgetRefusal(co, r) = "none", co.inflight < MaxConcurrent
  PROVE  Contract!DropAtStart(r)
<1>1. co \in State /\ co.race[r] = "idle" /\ co.inflight \in Nat /\ MaxConcurrent \in Nat
  BY CoordinatorAssumption DEF Good, Life, State
<1>2. /\ co'.phase[r] = "recorded" /\ co'.outcome[r] = out /\ co'.race[r] = "idle"
      /\ \A q \in Run : q # r => Kept(co, co', q)
  BY <1>1 DEF Refused, RunBecomes, State, Kept
<1>3. Rejected("recorded", out)
  BY DEF Rejected
<1>4. Good(co') /\ Charged(co') = Charged(co)
  BY <1>3, RefusedGood
<1>5. InPhase(co, "queued") = {}
  <2>1. co.order = <<>>
    BY <1>1 DEF Slots, AtEnd
  <2>2. QED
    BY <2>1, NobodyWaits
<1>6. Contract!EndAndPump(r, AdmissionOutcome(co'.outcome[r]), {}, {})
  <2>1. \A q \in Run : q # r => Fate(q, {}, {})
    BY <1>2 DEF Fate
  <2>2. QED
    BY <1>2, <2>1, EndAndPumpStep
<1>7. {q \in Run : co.race[q] # "idle"}' = {q \in Run : co.race[q] # "idle"}
  <2>1. \A q \in Run : co'.race[q] = co.race[q]
    BY <1>1, <1>2 DEF Kept
  <2>2. QED
    BY <2>1
<1>8. Contract!Pumped(co.inflight, {}, {}, {})
  <2>1. Contract!Cardinality({}) = 0
    BY SameCardinality, FS_EmptySet
  <2>2. co'.inflight = co.inflight /\ co.inflight + 0 = co.inflight
    BY <1>1 DEF Refused
  <2>3. co.inflight <= MaxConcurrent
    BY <1>1
  <2>4. QED
    BY <1>7, <2>1, <2>2, <2>3 DEF Contract!Pumped
<1>9. Contract!Refund({})
  BY <1>4, RefundStep
<1>10. AdmissionOutcome(co'.outcome[r]) \in {"cancelled", "timed-out"}
  BY <1>2, OutcomeFacts DEF DropOutcomes
<1>11. [q \in Run |-> StageOf(q)][r] = "new"
  BY StageFacts
<1>12. Contract!WithinBudget(r)
  BY BudgetMapping
<1>13. Contract!Waiting = {}
  BY <1>5, Mapping
<1>14. QED
  BY <1>6, <1>8, <1>9, <1>10, <1>11, <1>12, <1>13 DEF Contract!DropAtStart

\* Every submission is one of the contract's.
LEMMA SubmitStep ==
  ASSUME Inv, NEW r \in Run, Submit(r)
  PROVE  Contract!Submit(r)
<1>1. Good(co) /\ Slots /\ closed \in BOOLEAN
  BY DEF Inv, Slots
<1>2. PICK slip \in [Edge(r) -> Slips] : co' = Submitted(r, slip)
  BY DEF Submit
<1>3. co.phase[r] = "created" /\ co.outcome[r] = "none" /\ closed' = closed
  BY DEF Submit
<1>4. co \in State /\ co.inflight \in Nat /\ MaxConcurrent \in Nat
  BY <1>1, CoordinatorAssumption DEF Good, State
<1>5. ASSUME NEW p, NEW out, Refused(co, co', r, p, out), Refusal(r, p, out)
      PROVE  Contract!Submit(r)
  <2>1. Rejected(p, out)
    BY <1>5, Zenon DEF Refusal, Rejected, Rejections, BudgetRefusal
  <2>2. Contract!Refuse(r, AdmissionOutcome(out))
    BY <1>1, <1>3, <1>5, <2>1, RefusedStep
  <2>3. ASSUME closed, out = "closed" PROVE Contract!RefuseClosed(r)
    BY <2>2, <2>3, OutcomeFacts DEF Contract!RefuseClosed
  <2>4. ASSUME ~closed, out = "duplicate", KeyOf[r] \in co.settled PROVE Contract!RefuseDuplicate(r)
    <3>1. PICK q \in Run : KeyOf[q] = KeyOf[r] /\ co.outcome[q] # "none"
      BY <1>1, <2>4 DEF Good, Remembered
    <3>2. q \in Run \ {r}
      BY <1>3, <3>1
    <3>3. Life(co.phase[q], co.outcome[q], co.race[q])
      BY <1>1 DEF Good
    <3>4. co.phase[q] \in {"created", "admitted", "validated", "recorded"}
      BY <3>1, <3>3 DEF Life
    <3>5. StageOf(q) = "ended"
      BY <3>1, <3>4, StageFacts
    <3>6. [x \in Run |-> StageOf(x)][q] = "ended"
      BY <3>5
    <3>7. AdmissionOutcome(out) = "duplicate"
      BY <2>4, OutcomeFacts
    <3>8. QED
      BY <2>2, <2>4, <3>2, <3>6, <3>7 DEF Contract!RefuseDuplicate
  <2>5. ASSUME ~closed, BudgetRefusal(co, r) = out, out # "none" PROVE Contract!RefuseBudget(r)
    <3>1. out \in {"budget-session", "budget-turn"}
      BY <2>5 DEF BudgetRefusal
    <3>2. ~Contract!WithinBudget(r)
      BY <1>1, <2>5, BudgetMapping
    <3>3. AdmissionOutcome(out) = "budget-exceeded"
      BY <3>1, OutcomeFacts
    <3>4. QED
      BY <2>2, <2>5, <3>2, <3>3 DEF Contract!RefuseBudget
  <2>6. ASSUME ~closed, p = "recorded", BudgetRefusal(co, r) = "none", co.inflight < MaxConcurrent,
               out \in DropOutcomes
        PROVE  Contract!DropAtStart(r)
    BY <1>1, <1>3, <1>5, <2>6, DropAtStartStep
  <2>7. ASSUME ~closed, BudgetRefusal(co, r) = "none", ~(co.inflight < MaxConcurrent), ~Room(r),
               out \in {"queue-full-global", "queue-full-session"}
        PROVE  Contract!RefuseQueueFull(r)
    <3>1. Contract!WithinBudget(r) /\ Contract!QueueFull(r)
      BY <1>1, <2>7, BudgetMapping, RoomMapping
    <3>2. co.inflight >= MaxConcurrent
      BY <1>4, <2>7
    <3>3. AdmissionOutcome(out) = "queue-full"
      BY <2>7, OutcomeFacts
    <3>4. QED
      BY <2>2, <2>7, <3>1, <3>2, <3>3 DEF Contract!RefuseQueueFull
  <2>8. QED
    BY <1>5, <2>3, <2>4, <2>5, <2>6, <2>7, Zenon DEF Refusal, Contract!Submit
<1>6. ASSUME Begins(co, co', r), ~closed, BudgetRefusal(co, r) = "none", co.inflight < MaxConcurrent
      PROVE  Contract!Submit(r)
  BY <1>1, <1>3, <1>6, StartStep, Zenon DEF Contract!Submit
<1>7. ASSUME Joins(co, co', r), ~closed, BudgetRefusal(co, r) = "none",
             ~(co.inflight < MaxConcurrent), Room(r)
      PROVE  Contract!Submit(r)
  <2>1. co.inflight >= MaxConcurrent
    BY <1>4, <1>7
  <2>2. Contract!Enqueue(r)
    BY <1>1, <1>3, <1>7, <2>1, EnqueueStep
  <2>3. QED
    BY <2>2, Zenon DEF Contract!Submit
<1>8. QED
  BY <1>1, <1>2, <1>3, <1>5, <1>6, <1>7, SubmittedEffect, Zenon

\* Cancelling a waiter: every slot is taken, so its pump hands nothing on.
LEMMA CancelWaitingStep ==
  ASSUME Good(co), NEW r \in Run, Dropped(co, co', r, "cancelled"), co.inflight >= MaxConcurrent,
         closed' = closed
  PROVE  Contract!CancelWaiting(r)
<1>1. co \in State /\ co.phase[r] = "queued" /\ co.race[r] = "idle" /\ co.inflight \in Nat
      /\ MaxConcurrent \in Nat
  BY CoordinatorAssumption DEF Good, Dropped, InPhase, Life, State
<1>2. /\ co'.phase[r] = "recorded" /\ co'.outcome[r] = "cancelled" /\ co'.race[r] = "idle"
      /\ \A q \in Run : q # r => Kept(co, co', q)
  BY <1>1 DEF Dropped, RunBecomes, State, Kept
<1>3. Good(co') /\ Charged(co') = Charged(co) \ {r} /\ r \in Charged(co)
  BY <1>1, DroppedGood DEF Charged
<1>4. Contract!EndAndPump(r, AdmissionOutcome(co'.outcome[r]), {}, {})
  <2>1. \A q \in Run : q # r => Fate(q, {}, {})
    BY <1>2 DEF Fate
  <2>2. QED
    BY <1>2, <2>1, EndAndPumpStep
<1>5. {q \in Run : co.race[q] # "idle"}' = {q \in Run : co.race[q] # "idle"}
  <2>1. \A q \in Run : co'.race[q] = co.race[q]
    BY <1>1, <1>2 DEF Kept
  <2>2. QED
    BY <2>1
<1>6. Contract!Pumped(co.inflight, Contract!Waiting \ {r}, {}, {})
  <2>1. Contract!Cardinality({}) = 0
    BY SameCardinality, FS_EmptySet
  <2>2. co'.inflight = co.inflight /\ co.inflight + 0 = co.inflight
    BY <1>1 DEF Dropped
  <2>3. ~(co.inflight < MaxConcurrent)
    BY <1>1
  <2> HIDE DEF Contract!Waiting
  <2>4. QED
    BY <1>5, <2>1, <2>2, <2>3 DEF Contract!Pumped
<1>7. Contract!Refund({} \cup {r})
  <2>1. {r} \in SUBSET Charged(co) /\ {} \cup {r} = {r}
    BY <1>3
  <2>2. QED
    BY <1>3, <2>1, RefundStep
<1>8. AdmissionOutcome(co'.outcome[r]) = "cancelled"
  BY <1>2, OutcomeFacts
<1>9. [q \in Run |-> StageOf(q)][r] = "waiting"
  BY <1>1, StageFacts
<1>10. {} \in SUBSET (Contract!Waiting \ {r})
  OBVIOUS
<1>11. QED
  BY <1>4, <1>6, <1>7, <1>8, <1>9, <1>10 DEF Contract!CancelWaiting

\* A call is settled: u is the object before its pump, which drops D and
\* starts L, and stops only when the slots are taken or nobody waits.
LEMMA SettleStep ==
  ASSUME Inv, NEW r \in Run, Settle(r)
  PROVE  \E out \in Contract!Answers : Contract!Settle(r, out)
<1>1. Good(co) /\ Slots /\ (\A q \in Run : Cause(q))
  BY DEF Inv
<1>2. PICK slip \in [Edge(r) -> Slips] : co' = Pump(Release(Settled(r)), slip)
  BY DEF Settle
<1>3. co.phase[r] = "running" /\ co.race[r] # "open" /\ closed' = closed
  BY DEF Settle
<1> DEFINE u == Release(Settled(r))
           W == InPhase(co, "queued")
<1>4. PICK D, L : /\ D = {q \in W : co'.phase[q] = "recorded"}
                   /\ L = {q \in W : co'.phase[q] = "running"}
  OBVIOUS
<1>5. PICK p, out : Verdict(r, p, out) /\ Concluded(co, u, r, p, out)
  BY <1>1, <1>3, SettledEffect
<1>6. co' = Pump(u, slip)
  BY <1>2
<1> HIDE DEF u
<1>7. /\ co \in State /\ co.inflight \in Nat /\ MaxConcurrent \in Nat /\ co.inflight <= MaxConcurrent
  BY <1>1, CoordinatorAssumption DEF Good, State, Slots
<1>8. /\ Good(u) /\ u.inflight = co.inflight - 1 /\ u.inflight \in Nat
      /\ InPhase(u, "queued") = W /\ Charged(u) = Charged(co)
      /\ InPhase(u, "running") = InPhase(co, "running") \ {r}
  <2>1. u.inflight = co.inflight - 1
    BY <1>5 DEF Concluded
  <2>2. /\ Good(u) /\ InPhase(u, "queued") = W /\ Charged(u) = Charged(co)
        /\ InPhase(u, "running") = InPhase(co, "running") \ {r}
    BY <1>1, <1>3, <1>5, ConcludedGood
  <2>3. u.inflight \in Nat
    BY <2>2 DEF Good, State
  <2>4. QED
    BY <2>1, <2>2, <2>3
<1>9. Good(co') /\ co'.inflight <= MaxConcurrent /\ Handed(u, co') /\ AtEnd(co')
  <2>1. u.inflight <= MaxConcurrent
    BY <1>7, <1>8
  <2>2. QED
    BY <1>6, <1>8, <2>1, PumpEffect
<1>10. /\ u.phase[r] = p /\ u.outcome[r] = out /\ u.race[r] = co.race[r] /\ co.race[r] # "idle"
      /\ p \in {"validated", "recorded"}
      /\ \A q \in Run : q # r => Kept(co, u, q)
  BY <1>1, <1>3, <1>5, <1>7 DEF Concluded, State, SameCalls, Kept, Verdict, Good, Life
<1>11. co'.phase[r] = p /\ co'.outcome[r] = out /\ co'.race[r] = co.race[r]
  BY <1>9, <1>10 DEF Handed, Moved, Kept
<1>12. /\ D \in SUBSET W /\ L \in SUBSET W /\ D \cap L = {} /\ L \in SUBSET (W \ D)
       /\ r \notin W /\ W \in SUBSET Run
  BY <1>3, <1>4 DEF InPhase
<1>13. ASSUME NEW q \in Run, q # r PROVE Fate(q, D, L)
  <2>1. Moved(u, co', q) /\ Kept(co, u, q)
    BY <1>9, <1>10, <1>13 DEF Handed
  <2>2. CASE Kept(u, co', q)
    <3>1. Kept(co, co', q)
      BY <2>1, <2>2 DEF Kept
    <3>2. q \notin D \cup L
      BY <1>4, <3>1 DEF Kept, InPhase
    <3>3. QED
      BY <3>1, <3>2 DEF Fate
  <2>3. CASE u.phase[q] = "queued" /\ Ended(co', q)
    <3>1. q \in W
      BY <2>1, <2>3 DEF Kept, InPhase
    <3>2. QED
      BY <1>4, <2>3, <3>1 DEF Fate, Ended
  <2>4. CASE u.phase[q] = "queued" /\ Begun(co', q)
    <3>1. q \in W /\ co.outcome[q] = "none"
      BY <1>1, <2>1, <2>4 DEF Kept, InPhase, Good, Life
    <3>2. QED
      BY <1>4, <2>4, <3>1 DEF Fate, Begun
  <2>5. QED
    BY <2>1, <2>2, <2>3, <2>4 DEF Moved
<1>14. Contract!EndAndPump(r, AdmissionOutcome(co'.outcome[r]), D, L)
  <2>1. co'.phase[r] \in {"validated", "recorded"} /\ r \notin D
    BY <1>10, <1>11, <1>12
  <2>2. D \in SUBSET Run /\ L \in SUBSET Run
    BY <1>12
  <2>3. QED
    BY <1>3, <1>13, <2>1, <2>2, EndAndPumpStep
<1>15. {q \in Run : co.race[q] # "idle"}' = {q \in Run : co.race[q] # "idle"} \cup L
  <2>1. r \notin D \cup L /\ D \in SUBSET InPhase(co, "queued") /\ L \in SUBSET InPhase(co, "queued")
        /\ D \cap L = {}
    BY <1>12
  <2>2. QED
    BY <1>1, <1>11, <1>13, <2>1, CalledStep
<1>16. Charged(co') = Charged(co) \ D /\ D \in SUBSET Charged(co)
  <2>1. ASSUME NEW q \in Run PROVE q \in Charged(co') <=> q \in Charged(co) \ D
    <3>1. CASE q = r
      BY <1>10, <1>11, <1>12, <3>1 DEF Charged
    <3>2. CASE q \in D /\ Ended(co', q)
      BY <3>2 DEF Charged, Ended
    <3>3. CASE q \in L \ D /\ Begun(co', q)
      BY <3>3, <1>12 DEF Charged, Begun, InPhase
    <3>4. CASE q \notin D \cup L /\ Kept(co, co', q)
      BY <3>4 DEF Charged, Kept
    <3>5. QED
      BY <1>13, <3>1, <3>2, <3>3, <3>4 DEF Fate
  <2>2. Charged(co') \subseteq Run /\ Charged(co) \subseteq Run /\ W \subseteq Charged(co)
    BY DEF Charged, InPhase
  <2>3. QED
    BY <1>12, <2>1, <2>2
<1>17. Contract!Refund(D)
  BY <1>1, <1>9, <1>16, RefundStep
<1>18. co'.inflight = (co.inflight - 1) + Cardinality(L) /\ Cardinality(L) \in Nat
  <2> DEFINE R == InPhase(co, "running") \ {r}
  <2>1. InPhase(co', "running") = R \cup L
    <3>1. ASSUME NEW q \in Run PROVE q \in InPhase(co', "running") <=> q \in R \cup L
      <4>1. CASE q = r
        BY <1>10, <1>11, <1>12, <4>1 DEF InPhase
      <4>2. CASE q \in D /\ Ended(co', q)
        BY <4>2, <1>12 DEF InPhase, Ended
      <4>3. CASE q \in L \ D /\ Begun(co', q)
        BY <4>3, <1>12 DEF Begun, InPhase
      <4>4. CASE q # r /\ q \notin D \cup L /\ Kept(co, co', q)
        BY <4>4 DEF InPhase, Kept
      <4> HIDE DEF R
      <4>5. QED
        BY <1>13, <4>1, <4>2, <4>3, <4>4 DEF Fate
    <3>2. QED
      BY <3>1, <1>12 DEF InPhase
  <2>2. R \cap L = {} /\ IsFiniteSet(R) /\ IsFiniteSet(L)
        /\ Cardinality(R) \in Nat /\ Cardinality(L) \in Nat
    BY <1>12, FiniteRuns DEF InPhase
  <2>3. u.inflight = Cardinality(R)
    BY <1>8 DEF Good
  <2>4. co'.inflight = Cardinality(InPhase(co', "running"))
    BY <1>9 DEF Good
  <2> HIDE DEF R
  <2>5. Cardinality(R \cup L) = Cardinality(R) + Cardinality(L) - Cardinality(R \cap L)
    BY <2>2, FS_Union
  <2>6. Cardinality(R \cap L) = 0
    BY <2>2, FS_EmptySet
  <2>7. Cardinality(R \cup L) = Cardinality(R) + Cardinality(L)
    BY <2>2, <2>5, <2>6
  <2>8. QED
    BY <1>8, <2>1, <2>2, <2>3, <2>4, <2>7
<1>19. co'.inflight = MaxConcurrent \/ D \cup L = W
  <2>1. CASE co'.inflight >= MaxConcurrent
    <3>1. co'.inflight \in Nat
      BY <1>9 DEF Good, State
    <3>2. QED
      BY <1>7, <1>9, <2>1, <3>1
  <2>2. CASE co'.order = <<>>
    <3>1. InPhase(co', "queued") = {}
      BY <1>9, <2>2, NobodyWaits
    <3>2. ASSUME NEW q \in W PROVE q \in D \cup L
      <4>1. q \in Run /\ q # r /\ co.phase[q] = "queued" /\ co'.phase[q] # "queued"
        BY <1>12, <3>1, <3>2 DEF InPhase
      <4>2. ~Kept(co, co', q)
        BY <4>1 DEF Kept
      <4>3. Fate(q, D, L)
        BY <1>13, <4>1
      <4>4. QED
        BY <4>2, <4>3 DEF Fate
    <3>3. QED
      BY <1>12, <3>2
  <2>3. QED
    BY <1>9, <2>1, <2>2 DEF AtEnd
<1>20. Contract!Pumped(co.inflight - 1, W, D, L)
  <2>1. Contract!Cardinality(L) = Cardinality(L)
    BY SameCardinality
  <2>2. co.inflight - 1 < MaxConcurrent /\ ~(co.inflight - 1 >= MaxConcurrent)
        /\ (co.inflight - 1) + Cardinality(L) <= MaxConcurrent
    BY <1>7, <1>9, <1>18
  <2>3. D \in SUBSET W /\ L \in SUBSET (W \ D)
    BY <1>12
  <2> HIDE DEF W
  <2>4. QED
    BY <1>15, <1>18, <1>19, <2>1, <2>2, <2>3 DEF Contract!Pumped
<1>21. AdmissionOutcome(co'.outcome[r]) \in Contract!Answers
  BY <1>5, <1>11, OutcomeFacts DEF Verdict, Contract!Answers
<1>22. [q \in Run |-> StageOf(q)][r] = "running"
  BY <1>3, StageFacts
<1>23. Contract!Waiting = W
  BY Mapping
<1>24. Contract!Settle(r, AdmissionOutcome(co'.outcome[r]))
  <2>1. D \in SUBSET W /\ L \in SUBSET W
    BY <1>12
  <2> DEFINE o == AdmissionOutcome(co'.outcome[r])
  <2>2. /\ Contract!EndAndPump(r, o, D, L) /\ o \in Contract!Answers
        /\ Contract!Pumped(co.inflight - 1, Contract!Waiting, D, L)
        /\ D \in SUBSET Contract!Waiting /\ L \in SUBSET Contract!Waiting
    BY <1>14, <1>20, <1>21, <1>23, <2>1, Zenon
  <2> HIDE DEF W, o
  <2>3. \E X \in SUBSET Contract!Waiting, Y \in SUBSET Contract!Waiting :
          /\ Contract!Pumped(co.inflight - 1, Contract!Waiting, X, Y)
          /\ Contract!EndAndPump(r, o, X, Y)
          /\ Contract!Refund(X)
    BY <1>17, <2>2, Zenon
  <2>4. Contract!Settle(r, o)
    BY <1>22, <2>2, <2>3, Zenon DEF Contract!Settle
  <2>5. QED
    BY <2>4 DEF o
<1>25. QED
  BY <1>21, <1>24

\* close() ends every waiter and leaves the running calls to their settling.
LEMMA CloseStep ==
  ASSUME Inv, Close
  PROVE  Contract!Close
<1> DEFINE s == Drain(co)
           W == InPhase(co, "queued")
<1>1. Good(co) /\ Slots
  BY DEF Inv
<1>2. /\ ~closed /\ closed' = TRUE
      /\ co' = [s EXCEPT !.local = @ \cup {r \in Run : s.phase[r] = "running"},
                         !.race = [r \in Run |-> IF @[r] = "open" THEN "aborted" ELSE @[r]]]
  BY DEF Close
<1>3. Closable(s) /\ Swept(co, s) /\ s.order = <<>>
  BY <1>1, DrainEffect DEF Slots, Closable
<1> HIDE DEF s
<1>4. Redecided(s, co')
  BY <1>2, <1>3, AbortAllEffect DEF Closable
<1>5. Good(s) /\ Good(co') /\ Charged(co') = Charged(s)
  BY <1>3, <1>4, RedecidedGood DEF Closable
<1>6. InPhase(s, "queued") = {}
  BY <1>3, <1>5, NobodyWaits
<1>7. ASSUME NEW q \in Run
      PROVE  \/ q \notin W /\ Kept(co, s, q)
             \/ /\ q \in W /\ s.phase[q] = "recorded" /\ s.outcome[q] = "cancelled"
                /\ s.race[q] = "idle" /\ co.race[q] = "idle"
  <2>1. s.phase[q] # "queued"
    BY <1>6 DEF InPhase
  <2>2. CASE Kept(co, s, q)
    BY <2>1, <2>2 DEF Kept, InPhase
  <2>3. CASE /\ co.phase[q] = "queued" /\ s.phase[q] = "recorded"
             /\ s.outcome[q] = "cancelled" /\ s.race[q] = "idle"
    BY <1>1, <2>3 DEF InPhase, Good, Life
  <2>4. QED
    BY <1>3, <2>2, <2>3 DEF Swept
<1>8. ASSUME NEW q \in Run
      PROVE  /\ StageOf(q)' = IF q \in W THEN "ended" ELSE StageOf(q)
             /\ AdmissionOutcome(co'.outcome[q])
                  = IF q \in W THEN "cancelled" ELSE AdmissionOutcome(co.outcome[q])
             /\ co'.race[q] # "idle" <=> co.race[q] # "idle"
             /\ q \in Charged(co') <=> q \in Charged(co) \ W
  <2>1. /\ co'.phase[q] = s.phase[q] /\ co'.outcome[q] = s.outcome[q]
        /\ co'.race[q] # "idle" <=> s.race[q] # "idle"
    BY <1>4 DEF Redecided
  <2>2. q \in Charged(co') <=> co'.phase[q] = "queued" \/ co'.race[q] # "idle"
    BY DEF Charged
  <2>3. q \in Charged(co) <=> co.phase[q] = "queued" \/ co.race[q] # "idle"
    BY DEF Charged
  <2>4. CASE q \notin W /\ Kept(co, s, q)
    <3>1. co'.phase[q] = co.phase[q] /\ co'.outcome[q] = co.outcome[q] /\ s.race[q] = co.race[q]
      BY <2>1, <2>4 DEF Kept
    <3>2. StageOf(q)' = StageOf(q)
      BY <3>1, StageFactsNext
    <3>3. QED
      BY <2>1, <2>2, <2>3, <2>4, <3>1, <3>2
  <2>5. CASE /\ q \in W /\ s.phase[q] = "recorded" /\ s.outcome[q] = "cancelled"
             /\ s.race[q] = "idle" /\ co.race[q] = "idle"
    <3>1. StageOf(q)' = "ended"
      BY <2>1, <2>5, StageFactsNext
    <3>2. AdmissionOutcome(co'.outcome[q]) = "cancelled"
      BY <2>1, <2>5, OutcomeFacts
    <3>3. QED
      BY <2>1, <2>2, <2>5, <3>1, <3>2
  <2>6. QED
    BY <1>7, <2>4, <2>5
<1>9. W \in SUBSET Charged(co) /\ W \in SUBSET Run
  BY DEF InPhase, Charged
<1>10. Charged(co') = Charged(co) \ W
  BY <1>8 DEF Charged
<1>11. Contract!Refund(W)
  BY <1>1, <1>5, <1>9, <1>10, RefundStep
<1>12. Contract!Waiting = W
  BY Mapping
<1> HIDE DEF W
<1>13. [q \in Run |-> StageOf(q)]'
         = [q \in Run |-> IF q \in W THEN "ended" ELSE [x \in Run |-> StageOf(x)][q]]
  BY <1>8
<1>14. [q \in Run |-> AdmissionOutcome(co.outcome[q])]'
         = [q \in Run |-> IF q \in W THEN "cancelled"
                          ELSE [x \in Run |-> AdmissionOutcome(co.outcome[x])][q]]
  BY <1>8
<1>15. {q \in Run : co.race[q] # "idle"}' = {q \in Run : co.race[q] # "idle"}
  BY <1>8
<1>16. co'.inflight = co.inflight
  BY <1>3, <1>4 DEF Redecided, Swept
<1>17. QED
  BY <1>2, <1>11, <1>12, <1>13, <1>14, <1>15, <1>16 DEF Contract!Close

\* The steps between the start of a call and its settling, and after it.
LEMMA QuietStep ==
  ASSUME Good(co), closed' = closed,
         co' = co \/ Redecided(co, co')
           \/ \E r \in Run : co.phase[r] = "validated" /\ Consumed(co, co', r)
  PROVE  UNCHANGED Contract!vars
<1>1. CASE co' = co
  <2>1. \A q \in Run : StageOf(q)' = StageOf(q)
    BY <1>1, StageFactsNext
  <2>2. QED
    BY <1>1, <2>1, Stutters DEF SameLedger
<1>2. CASE Redecided(co, co')
  <2>1. /\ co'.inflight = co.inflight /\ SameLedger(co, co')
        /\ co'.phase = co.phase /\ co'.outcome = co.outcome
        /\ \A q \in Run : co'.race[q] # "idle" <=> co.race[q] # "idle"
    BY <1>2 DEF Redecided
  <2>2. \A q \in Run : StageOf(q)' = StageOf(q)
    BY <2>1, StageFactsNext
  <2>3. QED
    BY <2>1, <2>2, Stutters
<1>3. ASSUME NEW r \in Run, co.phase[r] = "validated", Consumed(co, co', r)
      PROVE  UNCHANGED Contract!vars
  <2>1. co \in State
    BY DEF Good
  <2>2. /\ co'.inflight = co.inflight /\ SameLedger(co, co') /\ co'.outcome = co.outcome
        /\ co'.race = co.race /\ co'.phase[r] = "recorded"
        /\ \A q \in Run : q # r => co'.phase[q] = co.phase[q]
    BY <1>3, <2>1 DEF Consumed, SameCalls, State
  <2>3. StageOf(r) = "ended" /\ StageOf(r)' = "ended"
    BY <1>3, <2>2, StageFacts, StageFactsNext
  <2>4. \A q \in Run : StageOf(q)' = StageOf(q)
    BY <2>2, <2>3, StageFactsNext
  <2>5. QED
    BY <2>2, <2>4, Stutters
<1>4. QED
  BY <1>1, <1>2, <1>3

LEMMA CancelStep ==
  ASSUME Inv, NEW r \in Run, Cancel(r)
  PROVE  Contract!CancelWaiting(r) \/ UNCHANGED Contract!vars
<1>1. Good(co) /\ Slots /\ co \in State /\ closed' = closed
  BY DEF Inv, Good, Cancel
<1>2. CASE co.phase[r] = "queued"
  <2>1. co' = AbortWaiter(co, r)
    BY <1>2 DEF Cancel
  <2>2. r \in InPhase(co, "queued") /\ InPhase(co, "queued") \in SUBSET Run
        /\ Holds(co, InPhase(co, "queued"))
    BY <1>1, <1>2 DEF InPhase, Good
  <2>3. co.order # <<>>
    BY <1>1, <2>2, HoldsNothing
  <2>4. co.inflight >= MaxConcurrent /\ co.inflight <= MaxConcurrent
    BY <1>1, <2>3 DEF Slots, AtEnd
  <2>5. SameLedger(co, co) /\ SameCalls(co, co)
    BY DEF SameLedger, SameCalls
  <2>6. Dropped(co, co', r, "cancelled")
    BY <1>1, <2>1, <2>2, <2>4, <2>5, AbortWaiterEffect
  <2>7. QED
    BY <1>1, <2>4, <2>6, CancelWaitingStep
<1>3. CASE co.phase[r] = "running"
  <2>1. co' = AbortLocal(co, r)
    BY <1>3 DEF Cancel
  <2>2. Redecided(co, co')
    BY <1>1, <2>1, AbortLocalEffect
  <2>3. QED
    BY <1>1, <2>2, QuietStep
<1>4. CASE co.phase[r] # "queued" /\ co.phase[r] # "running"
  <2>1. co' = co
    BY <1>4 DEF Cancel
  <2>2. QED
    BY <1>1, <2>1, QuietStep
<1>5. QED
  BY <1>2, <1>3, <1>4

LEMMA ApplyStep ==
  ASSUME Inv, NEW r \in Run, NEW fresh \in BOOLEAN, Apply(r, fresh)
  PROVE  UNCHANGED Contract!vars
<1>1. Good(co) /\ closed' = closed
  BY Zenon DEF Inv, Apply
<1>2. \/ co' = co
      \/ co.phase[r] = "validated" /\ Consumed(co, co', r)
  BY <1>1, AppliesOrNot
<1>3. QED
  BY <1>1, <1>2, QuietStep

\* Every step of the code is one of the contract's, or leaves its state alone.
LEMMA ContractStep == Inv /\ [Next]_vars => Contract!Next \/ UNCHANGED Contract!vars
<1> SUFFICES ASSUME Inv, [Next]_vars PROVE Contract!Next \/ UNCHANGED Contract!vars
  OBVIOUS
<1>1. Good(co) /\ co \in State
  BY DEF Inv, Good
<1>2. ASSUME NEW r \in Run, Submit(r) PROVE Contract!Next
  BY <1>2, SubmitStep, Zenon DEF Contract!Next
<1>3. ASSUME NEW r \in Run, Cancel(r) PROVE Contract!Next \/ UNCHANGED Contract!vars
  BY <1>3, CancelStep, Zenon DEF Contract!Next
<1>4. ASSUME NEW r \in Run, DeadlineFires(r) PROVE UNCHANGED Contract!vars
  <2>1. co' = AbortLocal(co, r) /\ closed' = closed
    BY <1>4 DEF DeadlineFires
  <2>2. Redecided(co, co')
    BY <1>1, <2>1, AbortLocalEffect
  <2>3. QED
    BY <1>1, <2>1, <2>2, QuietStep
<1>5. ASSUME NEW r \in Run, Settle(r) PROVE Contract!Next
  BY <1>5, SettleStep, Zenon DEF Contract!Next
<1>6. ASSUME NEW r \in Run, NEW how \in Answers, ProviderAnswers(r, how)
      PROVE  UNCHANGED Contract!vars
  <2>1. closed' = closed
    BY <1>6 DEF ProviderAnswers
  <2>2. CASE co.race[r] = "open"
    <3> DEFINE c == [co.race EXCEPT ![r] = how]
    <3>1. how \in Races \ {"idle", "open"}
      BY DEF Answers, Races
    <3>2. c \in [Run -> Races] /\ \A q \in Run : c[q] = IF q = r THEN how ELSE co.race[q]
      BY <1>1, <3>1 DEF State
    <3>3. co' = [co EXCEPT !.race = c]
      BY <1>6, <2>2 DEF ProviderAnswers
    <3> HIDE DEF c
    <3>4. /\ co' \in State /\ co'.race = c /\ co'.inflight = co.inflight
          /\ co'.phase = co.phase /\ co'.outcome = co.outcome /\ co'.settled = co.settled
          /\ SameQueues(co, co') /\ SameLedger(co, co')
      BY <1>1, <3>2, <3>3 DEF State, SameQueues, SameLedger
    <3>5. Redecided(co, co')
      BY <2>2, <3>1, <3>2, <3>4 DEF Redecided
    <3>6. QED
      BY <1>1, <2>1, <3>5, QuietStep
  <2>3. CASE co.race[r] # "open"
    <3>1. co' = co
      BY <1>6, <2>3 DEF ProviderAnswers
    <3>2. QED
      BY <1>1, <2>1, <3>1, QuietStep
  <2>4. QED
    BY <2>2, <2>3
<1>7. ASSUME NEW r \in Run, NEW fresh \in BOOLEAN, Apply(r, fresh) PROVE UNCHANGED Contract!vars
  BY <1>7, ApplyStep
<1>8. CASE Tick \/ UNCHANGED vars
  <2>1. co' = co /\ closed' = closed
    BY <1>8 DEF Tick, vars
  <2>2. QED
    BY <1>1, <2>1, QuietStep
<1>9. CASE Close
  BY <1>9, CloseStep, Zenon DEF Contract!Next
<1>10. QED
  BY <1>2, <1>3, <1>4, <1>5, <1>6, <1>7, <1>8, <1>9, Zenon DEF Next

\* The object starts as the contract does.
LEMMA ContractInit == Init => Contract!Init
<1> SUFFICES ASSUME Init PROVE Contract!Init
  OBVIOUS
<1>1. \A q \in Run : StageOf(q) = "new" /\ AdmissionOutcome(co.outcome[q]) = "none"
  <2>1. \A q \in Run : co.phase[q] = "created" /\ co.outcome[q] = "none"
    BY DEF Init
  <2>2. QED
    BY <2>1, StageFacts, OutcomeFacts
<1>2. /\ {q \in Run : co.race[q] # "idle"} = {} /\ co.inflight = 0
      /\ co.turnCalls = [t \in Turn |-> 0] /\ co.sessionCalls = [k \in Session |-> 0]
      /\ closed = FALSE
  BY DEF Init
<1>3. QED
  BY <1>1, <1>2 DEF Contract!Init

\* The code implements the admission contract: whatever the rotation chose and
\* however long the pump went on, a step of the object is one that the slots,
\* the bounded queue and the ledger of the contract allow, or one it does not
\* see.
THEOREM AdmissionImplemented == Spec => ImplementsAdmission
<1>1. Init => Contract!Init
  BY ContractInit
<1>2. Inv /\ [Next]_vars => [Contract!Next]_(Contract!vars)
  BY ContractStep
<1>3. QED
  BY <1>1, <1>2, CoordinatorInvariant, PTL DEF Spec, ImplementsAdmission, Contract!Spec

\* What the contract says of slots and ledger is true of the object's counters:
\* #inflight counts the running calls and stays within maxConcurrent, a waiter
\* exists only while every slot is taken, and the two ledger entries count the
\* runs that are queued or were handed to the provider.
THEOREM CountersExact ==
  Spec => [](Contract!SlotsExact /\ Contract!WorkConserving /\ Contract!LedgerExact)
<1>1. Inv => Contract!SlotsExact /\ Contract!WorkConserving /\ Contract!LedgerExact
  <2> SUFFICES ASSUME Inv
               PROVE  Contract!SlotsExact /\ Contract!WorkConserving /\ Contract!LedgerExact
    OBVIOUS
  <2>1. /\ Good(co) /\ Slots /\ co.inflight \in Nat /\ MaxConcurrent \in Nat
    BY CoordinatorAssumption DEF Inv, Good, State
  <2>2. Contract!SlotsExact
    <3>1. co.inflight = Cardinality(Contract!Running)
      BY <2>1, Mapping DEF Good
    <3>2. QED
      BY <2>1, <3>1, SameCardinality DEF Contract!SlotsExact, Slots
  <2>3. Contract!WorkConserving
    <3>1. ASSUME Contract!Waiting # {} PROVE co.inflight = MaxConcurrent
      <4>1. co.order # <<>>
        BY <2>1, <3>1, Mapping, NobodyWaits
      <4>2. QED
        BY <2>1, <4>1 DEF Slots, AtEnd
    <3>2. QED
      BY <3>1 DEF Contract!WorkConserving
  <2>4. Contract!LedgerExact
    <3> DEFINE C == Charged(co)
    <3>1. /\ \A k \in Session : co.sessionCalls[k] = Cardinality({x \in C : SessionOf[x] = k})
          /\ \A k \in Turn : co.turnCalls[k] = Cardinality({x \in C : TurnOf[x] = k})
      BY <2>1 DEF Good, Count
    <3>2. /\ Contract!Charged = C
          /\ \A k : Contract!InSession(C, k) = {x \in C : SessionOf[x] = k}
          /\ \A k : Contract!InTurn(C, k) = {x \in C : TurnOf[x] = k}
      BY Mapping
    <3> HIDE DEF C
    <3>3. QED
      BY <3>1, <3>2, SameCardinality DEF Contract!LedgerExact
  <2>5. QED
    BY <2>2, <2>3, <2>4
<1>2. QED
  BY <1>1, CoordinatorInvariant, PTL
-----------------------------------------------------------------------------
(* The rotation.  A session that waits sees TurnsAhead decrease with every *)
(* turn that another one has, also when that one leaves the Map and moves  *)
(* the others up under the place in the rotation, which is an index.       *)

\* How many turns of others the p-th of at most n keys may still see, when the
\* place in the rotation is c: up to n each time a key before it leaves and
\* moves it up, less those that this round has already had.
Distance(n, p, c) == IF c < p THEN n * (p - 1) - c ELSE n * p - c

\* The remainder that #nextWaiter takes, for a place within the keys.
LEMMA Wraps ==
  ASSUME NEW c \in Nat, NEW L \in Nat \ {0}, c <= L
  PROVE  c % L = IF c = L THEN 0 ELSE c
<1>1. L % L = 0
  OBVIOUS
<1>2. ASSUME c < L PROVE c % L = c
  BY <1>2
<1>3. QED
  BY <1>1, <1>2

\* Another key has its turn, the one at i, and perhaps leaves: the key at p, now
\* at q, has one turn less to see.
LEMMA TurnArithmetic ==
  ASSUME NEW n \in Nat, NEW L \in Nat, L <= n, NEW p \in 1..L, NEW c \in 0..L,
         NEW i, i = IF c = L THEN 0 ELSE c, p # i + 1,
         NEW d, d = IF i + 1 = L THEN 0 ELSE i + 1,
         NEW q, q \in {p, IF p < i + 1 THEN p ELSE p - 1}
  PROVE  Distance(n, q, d) + 1 <= Distance(n, p, c)
<1> DEFINE m == n * p
<1>1. m \in Nat /\ n * (p - 1) = m - n /\ n * (p - 2) = m - n - n /\ (p - 1) - 1 = p - 2
  OBVIOUS
<1>2. Distance(n, p, c) = IF c < p THEN m - n - c ELSE m - c
  BY <1>1 DEF Distance
<1>3. Distance(n, p, d) = IF d < p THEN m - n - d ELSE m - d
  BY <1>1 DEF Distance
<1>4. Distance(n, p - 1, d) = IF d < p - 1 THEN m - n - n - d ELSE m - n - d
  BY <1>1 DEF Distance
<1> HIDE DEF m
<1>5. CASE q = p
  BY <1>1, <1>2, <1>3, <1>5
<1>6. CASE q = p - 1 /\ ~(p < i + 1)
  BY <1>1, <1>2, <1>4, <1>6
<1>7. QED
  BY <1>5, <1>6

LEMMA DistanceBounds ==
  ASSUME NEW n \in Nat, NEW L \in Nat, L <= n, NEW p \in 1..L, NEW c \in 0..L
  PROVE  Distance(n, p, c) \in Nat /\ Distance(n, p, c) <= n * (n - 1)
<1> DEFINE m == n * p
<1>1. m \in Nat /\ n * (p - 1) = m - n
  OBVIOUS
<1>2. m >= n
  BY <1>1
<1>3. m - n >= p - 1
  <2>1. n >= 1 /\ p - 1 \in Nat
    OBVIOUS
  <2>2. n * (p - 1) >= 1 * (p - 1)
    BY <2>1
  <2>3. QED
    BY <1>1, <2>2
<1>4. n * (p - 1) <= n * (n - 1)
  <2>1. p - 1 \in Nat /\ n - 1 \in Nat /\ p - 1 <= n - 1
    OBVIOUS
  <2>2. QED
    BY <2>1
<1>5. p < n => m <= n * (n - 1)
  <2>1. ASSUME p < n PROVE n * p <= n * (n - 1)
    <3>1. p \in Nat /\ n - 1 \in Nat /\ p <= n - 1
      BY <2>1
    <3>2. QED
      BY <3>1
  <2>2. QED
    BY <2>1
<1>6. n * (n - 1) \in Nat
  <2>1. n - 1 \in Nat
    OBVIOUS
  <2>2. QED
    BY <2>1
<1> DEFINE z == n * (n - 1)
<1>7. Distance(n, p, c) = IF c < p THEN m - n - c ELSE m - c
  BY <1>1 DEF Distance
<1>8. m - n <= z /\ (p < n => m <= z) /\ z \in Nat
  BY <1>1, <1>4, <1>5, <1>6
<1> HIDE DEF m, z
<1>9. Distance(n, p, c) \in Nat /\ Distance(n, p, c) <= z
  BY <1>1, <1>2, <1>3, <1>7, <1>8
<1>10. QED
  BY <1>9 DEF z

\* Where k stands in the rotation.
PlaceOf(o, k) == CHOOSE p \in 1..Len(o) : o[p] = k

LEMMA PlaceIs ==
  ASSUME NEW T, NEW o, Lists(o, T), NEW p \in 1..Len(o), NEW k, o[p] = k
  PROVE  PlaceOf(o, k) = p
<1>1. \A q \in 1..Len(o) : o[q] = k => q = p
  BY ListsDef
<1>2. QED
  BY <1>1 DEF PlaceOf

LEMMA PlaceExists ==
  ASSUME NEW T, NEW o, Lists(o, T), NEW k \in T
  PROVE  PlaceOf(o, k) \in 1..Len(o) /\ o[PlaceOf(o, k)] = k /\ Len(o) \in Nat
<1>1. Len(o) \in Nat /\ \E p \in 1..Len(o) : o[p] = k
  BY ListsDef
<1>2. QED
  BY <1>1 DEF PlaceOf

\* A key added at the end, or the removal of another one, and k's place.
LEMMA PlaceAppend ==
  ASSUME NEW T, NEW o, Lists(o, T), NEW k \in T, NEW x, x \notin T
  PROVE  PlaceOf(Append(o, x), k) = PlaceOf(o, k)
<1> DEFINE p == PlaceOf(o, k)
           a == Append(o, x)
<1>1. p \in 1..Len(o) /\ o[p] = k /\ Len(o) \in Nat /\ o \in Seq(T)
  BY PlaceExists, ListsDef
<1> HIDE DEF p
<1>2. Lists(a, T \cup {x})
  BY ListsAppend
<1>3. Len(a) = Len(o) + 1 /\ a[p] = o[p]
  <2>1. o \in Seq(T \cup {x}) /\ x \in T \cup {x}
    BY <1>1, SeqMonotonic, T \subseteq T \cup {x}
  <2>2. QED
    BY <1>1, <2>1, AppendProperties
<1> HIDE DEF a
<1>4. p \in 1..Len(a) /\ a[p] = k
  BY <1>1, <1>3
<1>5. PlaceOf(a, k) = p
  BY <1>2, <1>4, PlaceIs
<1>6. QED
  BY <1>5 DEF a, p

LEMMA PlaceRemove ==
  ASSUME NEW T, NEW o, Lists(o, T), NEW k \in T, NEW j \in 1..Len(o), o[j] # k,
         NEW f, f = RemoveFirst(o, o[j])
  PROVE  PlaceOf(f, k) = IF PlaceOf(o, k) < j THEN PlaceOf(o, k) ELSE PlaceOf(o, k) - 1
<1> DEFINE p == PlaceOf(o, k)
           q == IF p < j THEN p ELSE p - 1
<1>1. p \in 1..Len(o) /\ o[p] = k /\ Len(o) \in Nat
  BY PlaceExists
<1> HIDE DEF p
<1>2. Closes(f, o, j)
  BY RemovePlaces
<1>3. Lists(f, T \ {o[j]})
  BY ListsRemove
<1>4. p # j
  BY <1>1
<1>5. q \in 1..Len(f) /\ f[q] = k
  BY <1>1, <1>2, <1>4 DEF Closes
<1> HIDE DEF q
<1>6. PlaceOf(f, k) = q
  BY <1>3, <1>5, PlaceIs
<1>7. QED
  BY <1>6 DEF p, q

\* How many turns of others k may still see before its own.
TurnsAhead(s, k) == Distance(Cardinality(Session), PlaceOf(s.order, k), s.cursor)

LEMMA OrderBounded ==
  ASSUME NEW s, Lists(s.order, WithWaiters(s))
  PROVE  Len(s.order) \in Nat /\ Cardinality(Session) \in Nat /\ Len(s.order) <= Cardinality(Session)
<1>1. WithWaiters(s) \subseteq Session
  BY DEF WithWaiters
<1>2. Cardinality(WithWaiters(s)) <= Cardinality(Session) /\ Cardinality(Session) \in Nat
  BY <1>1, RotationAssumption, FS_Subset, FS_CardinalityType
<1>3. QED
  BY <1>2, ListsLen

LEMMA TurnsAheadBounded ==
  ASSUME NEW s \in State, Lists(s.order, WithWaiters(s)), InRange(s), NEW k \in WithWaiters(s)
  PROVE  LET n == Cardinality(Session)
         IN  TurnsAhead(s, k) \in Nat /\ TurnsAhead(s, k) <= n * (n - 1)
<1>1. PlaceOf(s.order, k) \in 1..Len(s.order)
  BY PlaceExists
<1>2. s.cursor \in 0..Len(s.order) /\ Len(s.order) \in Nat /\ Cardinality(Session) \in Nat
      /\ Len(s.order) <= Cardinality(Session)
  BY OrderBounded DEF State, InRange
<1>3. QED
  BY <1>1, <1>2, DistanceBounds DEF TurnsAhead

\* A turn leaves the place in the rotation within the keys that remain.
LEMMA RotatesInRange ==
  ASSUME NEW s \in State, Lists(s.order, WithWaiters(s)), s.order # <<>>,
         NEW t \in State, NEW r, Rotates(s, t, r)
  PROVE  InRange(t)
<1> DEFINE L == Len(s.order)
           i == NextIndex(s)
           x == NextSession(s)
<1>1. L \in Nat \ {0} /\ s.cursor \in Nat
  BY ListsDef DEF State
<1>2. i \in 0..(L - 1)
  BY <1>1 DEF NextIndex
<1>3. /\ x = s.order[i + 1] /\ t.order \in {s.order, RemoveFirst(s.order, x)}
      /\ t.cursor = (i + 1) % L
  BY DEF NextSession, Rotates
<1>4. Len(t.order) >= L - 1 /\ Len(t.order) \in Nat
  <2>1. CASE t.order = s.order
    BY <1>1, <2>1
  <2>2. CASE t.order = RemoveFirst(s.order, x)
    <3>1. i + 1 \in 1..L
      BY <1>1, <1>2
    <3> HIDE DEF x
    <3>2. Closes(t.order, s.order, i + 1)
      BY <1>3, <2>2, <3>1, RemovePlaces
    <3>3. QED
      BY <1>1, <3>2 DEF Closes
  <2>3. QED
    BY <1>3, <2>1, <2>2
<1> HIDE DEF L, i, x
<1>5. t.cursor \in 0..(L - 1)
  BY <1>1, <1>2, <1>3
<1>6. QED
  BY <1>1, <1>4, <1>5 DEF InRange

\* A turn that another session has brings k at least one turn nearer.
LEMMA TurnIsNearer ==
  ASSUME NEW s \in State, Lists(s.order, WithWaiters(s)), InRange(s), s.order # <<>>,
         NEW t \in State, NEW r, Rotates(s, t, r), Lists(t.order, WithWaiters(t)),
         NEW k \in WithWaiters(s), SessionOf[r] # k
  PROVE  k \in WithWaiters(t) /\ InRange(t) /\ TurnsAhead(t, k) + 1 <= TurnsAhead(s, k)
<1> DEFINE n == Cardinality(Session)
           L == Len(s.order)
           p == PlaceOf(s.order, k)
           q == PlaceOf(t.order, k)
           c == s.cursor
           i == NextIndex(s)
           x == NextSession(s)
<1>1. p \in 1..L /\ s.order[p] = k
  BY PlaceExists
<1>2. n \in Nat /\ L \in Nat /\ L <= n /\ c \in 0..L
  BY OrderBounded DEF State, InRange
<1>3. x = s.order[i + 1] /\ x # k
  BY DEF NextSession, Rotates
<1>4. t.order \in {s.order, RemoveFirst(s.order, x)} /\ t.cursor = (i + 1) % L
  BY DEF Rotates
<1> HIDE DEF x, n, L, p, q, c
<1>5. i = IF c = L THEN 0 ELSE c
  <2>1. c \in Nat /\ L \in Nat \ {0} /\ c <= L /\ i = c % L
    BY <1>1, <1>2 DEF NextIndex, c, L
  <2> HIDE DEF i
  <2>2. QED
    BY <2>1, Wraps
<1> HIDE DEF i
<1>6. i + 1 \in 1..L /\ p # i + 1
  BY <1>1, <1>2, <1>3, <1>5
<1>7. t.cursor = IF i + 1 = L THEN 0 ELSE i + 1
  <2>1. i + 1 \in Nat /\ L \in Nat \ {0} /\ i + 1 <= L
    BY <1>2, <1>6
  <2>2. QED
    BY <1>4, <2>1, Wraps
<1>8. CASE t.order = s.order
  <2>1. q = p /\ Len(t.order) = L
    BY <1>8 DEF p, q, L
  <2>2. k \in WithWaiters(t)
    BY <1>8 DEF Lists
  <2>3. InRange(t)
    BY <1>2, <1>6, <1>7, <2>1 DEF InRange
  <2>4. Distance(n, q, t.cursor) + 1 <= Distance(n, p, c)
    BY <1>1, <1>2, <1>5, <1>6, <1>7, <2>1, TurnArithmetic
  <2>5. QED
    BY <2>2, <2>3, <2>4 DEF TurnsAhead, n, p, q, c
<1>9. CASE t.order = RemoveFirst(s.order, x)
  <2>0. i + 1 \in 1..Len(s.order) /\ s.order[i + 1] = x
    BY <1>3, <1>6 DEF L
  <2>1. q = IF p < i + 1 THEN p ELSE p - 1
    BY <1>3, <1>9, <2>0, PlaceRemove DEF p, q
  <2>2. Lists(t.order, WithWaiters(s) \ {x})
    BY <1>9, ListsRemove
  <2>3. k \in WithWaiters(t)
    BY <1>3, <2>2 DEF Lists
  <2>4. Len(t.order) = L - 1
    <3>1. Closes(t.order, s.order, i + 1)
      BY <1>9, <2>0, RemovePlaces
    <3>2. QED
      BY <3>1 DEF Closes, L
  <2>5. InRange(t)
    BY <1>2, <1>6, <1>7, <2>4 DEF InRange
  <2>6. Distance(n, q, t.cursor) + 1 <= Distance(n, p, c)
    BY <1>1, <1>2, <1>5, <1>6, <1>7, <2>1, TurnArithmetic
  <2>7. QED
    BY <2>3, <2>5, <2>6 DEF TurnsAhead, n, p, q, c
<1>10. QED
  BY <1>4, <1>8, <1>9

\* The waiters that left between s and t, and what their leaving does for a
\* session k that was waiting and is not theirs.
Left(s, t) == InPhase(s, "queued") \ InPhase(t, "queued")
Nearer(s, t, k) ==
  (\A r \in Left(s, t) : SessionOf[r] # k) =>
    k \in WithWaiters(t) /\ TurnsAhead(t, k) + Cardinality(Left(s, t)) <= TurnsAhead(s, k)
Passed(s, t) ==
  /\ InRange(t) /\ InPhase(t, "queued") \subseteq InPhase(s, "queued")
  /\ \A k \in WithWaiters(s) : Nearer(s, t, k)

LEMMA GoodBounds ==
  ASSUME NEW s, Good(s), InRange(s)
  PROVE  /\ s \in State /\ Lists(s.order, WithWaiters(s))
         /\ \A k \in WithWaiters(s) : TurnsAhead(s, k) \in Nat
BY TurnsAheadBounded DEF Good, Holds

LEMMA NobodyLeft ==
  ASSUME NEW s, NEW t, Good(s), InRange(s), InPhase(s, "queued") \subseteq InPhase(t, "queued"),
         NEW k \in WithWaiters(s), k \in WithWaiters(t), TurnsAhead(t, k) = TurnsAhead(s, k)
  PROVE  Nearer(s, t, k)
<1>1. Left(s, t) = {} /\ Cardinality({}) = 0
  BY FS_EmptySet DEF Left
<1>2. TurnsAhead(s, k) \in Nat
  BY GoodBounds
<1>3. QED
  BY <1>1, <1>2 DEF Nearer

LEMMA LeftNothing ==
  ASSUME NEW s, NEW t, Good(s), InRange(s), SamePlace(s, t), t.queues = s.queues,
         InPhase(t, "queued") = InPhase(s, "queued")
  PROVE  Passed(s, t)
<1>1. Left(s, t) = {} /\ Cardinality({}) = 0
  BY FS_EmptySet DEF Left
<1>2. WithWaiters(t) = WithWaiters(s) /\ InRange(t)
  BY DEF WithWaiters, InRange, SamePlace
<1>3. ASSUME NEW k \in WithWaiters(s) PROVE Nearer(s, t, k)
  <2>1. TurnsAhead(t, k) = TurnsAhead(s, k) /\ TurnsAhead(s, k) \in Nat
    BY GoodBounds DEF TurnsAhead, SamePlace
  <2>2. QED
    BY <1>1, <1>2, <2>1 DEF Nearer
<1>4. QED
  BY <1>2, <1>3 DEF Passed

LEMMA PassedOne ==
  ASSUME NEW s, Good(s), InRange(s), s.inflight <= MaxConcurrent, NEW X, NEW slip \in [X -> Slips]
  PROVE  Passed(s, PumpOne(s, slip))
<1> DEFINE t == PumpOne(s, slip)
<1>1. /\ Good(t)
      /\ \/ AtEnd(s) /\ t = s
         \/ /\ ~AtEnd(s)
            /\ \E r \in InPhase(s, "queued") :
                 InPhase(t, "queued") = InPhase(s, "queued") \ {r} /\ Rotates(s, t, r)
  BY PumpOneEffect
<1> HIDE DEF t
<1>2. CASE t = s
  <2>1. SamePlace(s, s)
    BY DEF SamePlace
  <2>2. Passed(s, s)
    BY <2>1, LeftNothing
  <2>3. QED
    BY <1>2, <2>2 DEF t
<1>3. ASSUME ~AtEnd(s), NEW r \in InPhase(s, "queued"),
             InPhase(t, "queued") = InPhase(s, "queued") \ {r}, Rotates(s, t, r)
      PROVE  Passed(s, t)
  <2>1. Left(s, t) = {r} /\ Cardinality({r}) = 1
    BY <1>3, FS_Singleton DEF Left
  <2>2. /\ s \in State /\ Lists(s.order, WithWaiters(s)) /\ s.order # <<>>
        /\ t \in State /\ Lists(t.order, WithWaiters(t))
    BY <1>1, <1>3 DEF Good, Holds, AtEnd
  <2>3. ASSUME NEW k \in WithWaiters(s), SessionOf[r] # k
        PROVE  k \in WithWaiters(t) /\ InRange(t) /\ TurnsAhead(t, k) + 1 <= TurnsAhead(s, k)
    BY <1>3, <2>2, <2>3, TurnIsNearer
  <2>4. ASSUME NEW k \in WithWaiters(s) PROVE Nearer(s, t, k)
    BY <2>1, <2>3 DEF Nearer
  <2>5. InRange(t)
    BY <1>3, <2>2, RotatesInRange
  <2>6. QED
    BY <1>3, <2>4, <2>5 DEF Passed
<1>4. QED
  BY <1>1, <1>2, <1>3 DEF t

LEMMA PassedTrans ==
  ASSUME NEW s, NEW t, NEW u, Good(s), Good(t), Good(u), InRange(s), Passed(s, t), Passed(t, u)
  PROVE  Passed(s, u)
<1>1. InRange(t) /\ InRange(u)
  BY DEF Passed
<1>2. /\ InPhase(t, "queued") \subseteq InPhase(s, "queued")
      /\ InPhase(u, "queued") \subseteq InPhase(t, "queued")
      /\ InPhase(s, "queued") \subseteq Run
  BY DEF Passed, InPhase
<1>3. /\ Left(s, u) = Left(s, t) \cup Left(t, u) /\ Left(s, t) \cap Left(t, u) = {}
      /\ Left(s, t) \in SUBSET Run /\ Left(t, u) \in SUBSET Run
  BY <1>2 DEF Left
<1>4. /\ Cardinality(Left(s, u)) = Cardinality(Left(s, t)) + Cardinality(Left(t, u))
      /\ Cardinality(Left(s, t)) \in Nat /\ Cardinality(Left(t, u)) \in Nat
  <2>1. IsFiniteSet(Left(s, t)) /\ IsFiniteSet(Left(t, u))
    BY <1>3, FiniteRuns
  <2>2. Cardinality(Left(s, t) \cup Left(t, u)) =
          Cardinality(Left(s, t)) + Cardinality(Left(t, u)) - Cardinality(Left(s, t) \cap Left(t, u))
    BY <2>1, FS_Union
  <2>3. Cardinality(Left(s, t) \cap Left(t, u)) = 0
    BY <1>3, FS_EmptySet
  <2>4. Cardinality(Left(s, t)) \in Nat /\ Cardinality(Left(t, u)) \in Nat
    BY <1>3, FiniteRuns
  <2>5. QED
    BY <1>3, <2>2, <2>3, <2>4
<1>5. ASSUME NEW k \in WithWaiters(s), \A r \in Left(s, u) : SessionOf[r] # k
      PROVE  k \in WithWaiters(u)
             /\ TurnsAhead(u, k) + Cardinality(Left(s, u)) <= TurnsAhead(s, k)
  <2>1. (\A r \in Left(s, t) : SessionOf[r] # k) /\ (\A r \in Left(t, u) : SessionOf[r] # k)
    BY <1>3, <1>5
  <2>2. k \in WithWaiters(t) /\ TurnsAhead(t, k) + Cardinality(Left(s, t)) <= TurnsAhead(s, k)
    BY <2>1 DEF Passed, Nearer
  <2>3. k \in WithWaiters(u) /\ TurnsAhead(u, k) + Cardinality(Left(t, u)) <= TurnsAhead(t, k)
    BY <2>1, <2>2 DEF Passed, Nearer
  <2>4. TurnsAhead(s, k) \in Nat /\ TurnsAhead(t, k) \in Nat /\ TurnsAhead(u, k) \in Nat
    BY <1>1, <2>2, <2>3, GoodBounds
  <2>5. QED
    BY <1>4, <2>2, <2>3, <2>4
<1>6. QED
  BY <1>1, <1>2, <1>5 DEF Passed, Nearer

\* The whole loop.
LEMMA PumpPassed ==
  ASSUME NEW s, Good(s), InRange(s), s.inflight <= MaxConcurrent, NEW X, NEW slip \in [X -> Slips]
  PROVE  Good(Pump(s, slip)) /\ Passed(s, Pump(s, slip))
<1> DEFINE f == PumpTurns(s, slip)
           S == {n \in Nat : Good(f[n]) /\ f[n].inflight <= MaxConcurrent /\ Passed(s, f[n])}
<1>1. f[0] = s /\ \A n \in Nat : f[n + 1] = PumpOne(f[n], slip)
  BY PumpTurnsEq
<1> HIDE DEF f
<1>2. Passed(s, s)
  BY LeftNothing DEF SamePlace
<1>3. 0 \in S
  BY <1>1, <1>2
<1>4. ASSUME NEW n \in Nat, n \in S PROVE n + 1 \in S
  <2>1. Good(f[n]) /\ f[n].inflight <= MaxConcurrent /\ Passed(s, f[n]) /\ InRange(f[n])
    BY <1>4 DEF Passed
  <2>2. Passed(f[n], f[n + 1])
    BY <1>1, <2>1, PassedOne
  <2>3. Good(f[n + 1]) /\ f[n + 1].inflight <= MaxConcurrent
    BY <1>1, <2>1, PumpOneEffect
  <2>4. Passed(s, f[n + 1])
    BY <2>1, <2>2, <2>3, PassedTrans
  <2>5. QED
    BY <2>3, <2>4
<1> HIDE DEF S
<1>5. Cardinality(Run) \in S
  BY <1>3, <1>4, FiniteRuns, SetInduction
<1>6. QED
  BY <1>5 DEF S, Pump, f

LEMMA NearerBySamePlace ==
  ASSUME NEW s, Good(s), InRange(s), NEW t, SameQueues(s, t), InPhase(t, "queued") = InPhase(s, "queued")
  PROVE  Passed(s, t)
BY LeftNothing DEF SameQueues, SamePlace

\* A session that joins the rotation does so behind everybody.
LEMMA JoinsBehind ==
  ASSUME NEW s, Good(s), InRange(s), NEW r \in Run, s.phase[r] = "created", s.outcome[r] = "none",
         NEW t, Joins(s, t, r)
  PROVE  InRange(t) /\ \A k \in WithWaiters(s) : Nearer(s, t, k)
<1> DEFINE x == SessionOf[r]
           T == WithWaiters(s)
<1>1. Good(t) /\ InPhase(t, "queued") = InPhase(s, "queued") \cup {r}
  BY JoinsGood
<1>2. t.cursor = s.cursor /\ t.order = IF x \in T THEN s.order ELSE Append(s.order, x)
  BY DEF Joins
<1>3. Lists(s.order, T) /\ Lists(t.order, WithWaiters(t)) /\ s.cursor \in Nat
  BY <1>1 DEF Good, Holds, State
<1> HIDE DEF x, T
<1>4. CASE x \in T
  <2>1. t.order = s.order /\ SamePlace(s, t)
    BY <1>2, <1>4 DEF SamePlace
  <2>2. WithWaiters(t) = T
    BY <1>3, <2>1 DEF Lists
  <2>3. InRange(t)
    BY <2>1 DEF InRange, SamePlace
  <2>4. \A k \in T : k \in WithWaiters(t) /\ TurnsAhead(t, k) = TurnsAhead(s, k)
    BY <2>1, <2>2 DEF TurnsAhead, SamePlace
  <2>5. QED
    BY <1>1, <2>3, <2>4, NobodyLeft DEF T
<1>5. CASE x \notin T
  <2>1. t.order = Append(s.order, x)
    BY <1>2, <1>5
  <2>2. Lists(t.order, T \cup {x})
    BY <1>3, <1>5, <2>1, ListsAppend
  <2>3. WithWaiters(t) = T \cup {x}
    BY <1>3, <2>2 DEF Lists
  <2>4. InRange(t)
    <3>1. s.order \in Seq(Session)
      BY DEF Good, State
    <3>2. Len(t.order) = Len(s.order) + 1 /\ Len(s.order) \in Nat
      BY <2>1, <3>1
    <3>3. QED
      BY <1>2, <1>3, <3>2 DEF InRange
  <2>5. \A k \in T : PlaceOf(t.order, k) = PlaceOf(s.order, k)
    BY <1>3, <1>5, <2>1, PlaceAppend
  <2>6. \A k \in T : k \in WithWaiters(t) /\ TurnsAhead(t, k) = TurnsAhead(s, k)
    BY <1>2, <2>3, <2>5 DEF TurnsAhead
  <2>7. QED
    BY <1>1, <2>4, <2>6, NobodyLeft DEF T
<1>6. QED
  BY <1>4, <1>5

LEMMA CancelledWaiter ==
  ASSUME Inv, NEW r \in Run, Cancel(r), co.phase[r] = "queued"
  PROVE  r \in Taken /\ r \in cancelled' \ cancelled
<1>1. Good(co) /\ Slots /\ co \in State
  BY DEF Inv, Good
<1>2. co' = AbortWaiter(co, r) /\ r \in cancelled' \ cancelled
  BY DEF Cancel
<1>3. r \in InPhase(co, "queued") /\ InPhase(co, "queued") \in SUBSET Run
      /\ Holds(co, InPhase(co, "queued"))
  BY <1>1 DEF InPhase, Good
<1>4. co.inflight <= MaxConcurrent /\ co.inflight >= MaxConcurrent
  BY <1>1, <1>3, HoldsNothing DEF Slots, AtEnd
<1>5. SameLedger(co, co) /\ SameCalls(co, co)
  BY DEF SameLedger, SameCalls
<1>6. Dropped(co, co', r, "cancelled")
  BY <1>1, <1>2, <1>3, <1>4, <1>5, AbortWaiterEffect
<1>7. co'.phase[r] = "recorded"
  BY <1>1, <1>6 DEF Dropped, RunBecomes, State
<1>8. QED
  BY <1>2, <1>7 DEF Taken

\* Nobody is passed over by close(), which ends every waiter.
LEMMA CloseEndsAll ==
  ASSUME Inv, Close, NEW k \in Session
  PROVE  ~PassedOver(k)
<1> DEFINE s == Drain(co)
<1>1. Good(co) /\ Slots /\ co \in State
  BY DEF Inv, Good
<1>2. co' = [s EXCEPT !.local = @ \cup {r \in Run : s.phase[r] = "running"},
                      !.race = [r \in Run |-> IF @[r] = "open" THEN "aborted" ELSE @[r]]]
  BY DEF Close
<1>3. Closable(s) /\ s.order = <<>>
  BY <1>1, DrainEffect DEF Slots, Closable
<1> HIDE DEF s
<1>4. Redecided(s, co')
  BY <1>2, <1>3, AbortAllEffect DEF Closable
<1>5. InPhase(s, "queued") = {}
  BY <1>3, NobodyWaits DEF Closable
<1>6. \A r \in Run : co'.phase[r] # "queued"
  BY <1>4, <1>5 DEF Redecided, InPhase
<1>7. ASSUME HasWaiter(co, k) PROVE \E r \in Taken : SessionOf[r] = k
  <2>1. Lists(co.queues[k], OfSession(InPhase(co, "queued"), k))
    BY <1>1 DEF Good, Holds
  <2>2. co.queues[k] \in Seq(Run)
    BY <1>1 DEF State
  <2>3. Head(co.queues[k]) \in OfSession(InPhase(co, "queued"), k)
    BY <1>7, <2>1, <2>2, ListsDef DEF HasWaiter
  <2>4. QED
    BY <1>6, <2>3 DEF Taken, InPhase, OfSession
<1>8. QED
  BY <1>7 DEF PassedOver

\* Every step, for a session that it passes over.
LEMMA StepNearer ==
  ASSUME Inv, Next, NEW k \in Session, PassedOver(k)
  PROVE  InRange(co') /\ k \in WithWaiters(co) /\ Nearer(co, co', k)
<1> DEFINE Effect == InRange(co') /\ Nearer(co, co', k)
<1>1. /\ Good(co) /\ Slots /\ co \in State /\ (\A r \in Run : Cause(r))
      /\ k \in WithWaiters(co) /\ InRange(co) /\ \A r \in Taken : r \notin cancelled' \ cancelled
  BY DEF Inv, Good, PassedOver, HasWaiter, WithWaiters
<1>2. ASSUME Passed(co, co') PROVE Effect
  BY <1>1, <1>2 DEF Passed
<1>3. ASSUME SameQueues(co, co'), InPhase(co', "queued") = InPhase(co, "queued") PROVE Effect
  BY <1>1, <1>2, <1>3, NearerBySamePlace
<1>4. ASSUME SameQueues(co, co'), co'.phase = co.phase PROVE Effect
  BY <1>3, <1>4 DEF InPhase
<1>5. ASSUME NEW r \in Run, Submit(r) PROVE Effect
  <2>1. PICK slip \in [Edge(r) -> Slips] : co' = Submitted(r, slip)
    BY <1>5 DEF Submit
  <2>2. co.phase[r] = "created" /\ co.outcome[r] = "none"
    BY <1>5 DEF Submit
  <2>3. \/ \E p, out : Refused(co, co', r, p, out) /\ Refusal(r, p, out)
        \/ Begins(co, co', r)
        \/ Joins(co, co', r)
    BY <1>1, <2>1, <2>2, SubmittedEffect
  <2>4. ASSUME NEW p, NEW out, Refused(co, co', r, p, out), Refusal(r, p, out) PROVE Effect
    <3>1. Rejected(p, out)
      BY <2>4, Zenon DEF Refusal, Rejected, Rejections, BudgetRefusal
    <3>2. InPhase(co', "queued") = InPhase(co, "queued")
      BY <1>1, <2>2, <2>4, <3>1, RefusedGood
    <3>3. SameQueues(co, co')
      BY <2>4 DEF Refused
    <3>4. QED
      BY <1>3, <3>2, <3>3
  <2>5. ASSUME Begins(co, co', r) PROVE Effect
    <3>1. InPhase(co', "queued") = InPhase(co, "queued")
      BY <1>1, <2>2, <2>5, BeginsGood
    <3>2. SameQueues(co, co')
      BY <2>5 DEF Begins
    <3>3. QED
      BY <1>3, <3>1, <3>2
  <2>6. ASSUME Joins(co, co', r) PROVE Effect
    BY <1>1, <2>2, <2>6, JoinsBehind
  <2> HIDE DEF Effect
  <2>7. QED
    BY <2>3, <2>4, <2>5, <2>6
<1>6. ASSUME NEW r \in Run, NEW how \in Answers, ProviderAnswers(r, how) PROVE Effect
  <2>1. SameQueues(co, co') /\ co'.phase = co.phase
    BY <1>1, <1>6 DEF ProviderAnswers, State, SameQueues
  <2>2. QED
    BY <1>4, <2>1
<1>7. ASSUME NEW r \in Run, DeadlineFires(r) PROVE Effect
  <2>1. Redecided(co, co')
    BY <1>1, <1>7, AbortLocalEffect DEF DeadlineFires
  <2>2. QED
    BY <1>4, <2>1 DEF Redecided
<1>8. ASSUME Tick PROVE Effect
  BY <1>4, <1>8 DEF Tick, SameQueues
<1>9. ASSUME NEW r \in Run, NEW fresh \in BOOLEAN, Apply(r, fresh) PROVE Effect
  <2>1. \/ co' = co
        \/ co.phase[r] = "validated" /\ Consumed(co, co', r)
    BY <1>1, <1>9, AppliesOrNot
  <2>2. CASE co' = co
    BY <1>4, <2>2 DEF SameQueues
  <2>3. CASE co.phase[r] = "validated" /\ Consumed(co, co', r)
    <3>1. InPhase(co', "queued") = InPhase(co, "queued")
      BY <1>1, <2>3, ConsumedGood
    <3>2. QED
      BY <1>3, <2>3, <3>1 DEF Consumed
  <2>4. QED
    BY <2>1, <2>2, <2>3
<1>10. ASSUME NEW r \in Run, Cancel(r) PROVE Effect
  <2>1. co.phase[r] # "queued"
    BY <1>1, <1>10, CancelledWaiter
  <2>2. CASE co.phase[r] = "running"
    <3>1. co' = AbortLocal(co, r)
      BY <1>10, <2>2 DEF Cancel
    <3>2. Redecided(co, co')
      BY <1>1, <3>1, AbortLocalEffect
    <3>3. QED
      BY <1>4, <3>2 DEF Redecided
  <2>3. CASE co.phase[r] # "running"
    <3>1. co' = co
      BY <1>10, <2>1, <2>3 DEF Cancel
    <3>2. SameQueues(co, co') /\ co'.phase = co.phase
      BY <3>1 DEF SameQueues
    <3>3. QED
      BY <1>4, <3>2
  <2>4. QED
    BY <2>2, <2>3
<1>11. ASSUME NEW r \in Run, Settle(r) PROVE Effect
  <2> DEFINE u == Release(Settled(r))
  <2>1. PICK slip \in [Edge(r) -> Slips] : co' = Pump(u, slip)
    BY <1>11 DEF Settle
  <2>2. co.phase[r] = "running" /\ co.race[r] # "open"
    BY <1>11 DEF Settle
  <2>3. PICK p, out : Verdict(r, p, out) /\ Concluded(co, u, r, p, out)
    BY <1>1, <2>2, SettledEffect
  <2> HIDE DEF u
  <2>4. Good(u) /\ InPhase(u, "queued") = InPhase(co, "queued")
    BY <1>1, <2>2, <2>3, ConcludedGood
  <2>5. SameQueues(co, u) /\ u.inflight = co.inflight - 1
    BY <2>3 DEF Concluded
  <2>6. Passed(co, u)
    BY <1>1, <2>4, <2>5, NearerBySamePlace
  <2>7. u.inflight <= MaxConcurrent
    BY <1>1, <2>5, CoordinatorAssumption DEF Slots, State
  <2>8. Good(co') /\ Passed(u, co')
    BY <2>1, <2>4, <2>6, <2>7, PumpPassed DEF Passed
  <2>9. Passed(co, co')
    BY <1>1, <2>4, <2>6, <2>8, PassedTrans
  <2>10. QED
    BY <1>2, <2>9
<1> HIDE DEF Effect
<1>12. Effect
  <2>1. ~Close
    BY CloseEndsAll
  <2>2. QED
    BY <1>5, <1>6, <1>7, <1>8, <1>9, <1>10, <1>11, <2>1 DEF Next
<1>13. QED
  BY <1>1, <1>12 DEF Effect

\* The turns k has seen and those still ahead of it are together within the
\* bound, which is why the former are.
Waited(k) ==
  IF HasWaiter(co, k) /\ InRange(co)
  THEN LET n == Cardinality(Session) IN bypassed[k] + TurnsAhead(co, k) <= n * (n - 1)
  ELSE bypassed[k] = 0

RInv == Inv /\ bypassed \in [Session -> Nat] /\ \A k \in Session : Waited(k)

LEMMA RStepInv == RInv /\ [RNext]_rvars => RInv'
<1> SUFFICES ASSUME RInv, [RNext]_rvars PROVE RInv'
  OBVIOUS
<1>1. Inv /\ bypassed \in [Session -> Nat] /\ \A k \in Session : Waited(k)
  BY DEF RInv
<1>2. CASE UNCHANGED rvars
  <2>1. UNCHANGED vars /\ bypassed' = bypassed /\ co' = co
    BY <1>2 DEF rvars, vars
  <2>2. Inv'
    BY <1>1, <2>1, NextInv
  <2>3. \A k \in Session : Waited(k)'
    BY <1>1, <2>1 DEF Waited, HasWaiter, InRange, TurnsAhead
  <2>4. QED
    BY <1>1, <2>1, <2>2, <2>3 DEF RInv
<1>3. CASE RNext
  <2> DEFINE n == Cardinality(Session)
             z == n * (n - 1)
  <2>1. Next
    BY <1>3 DEF RNext
  <2>2. Inv'
    BY <1>1, <2>1, NextInv
  <2>3. Good(co) /\ Good(co')
    BY <1>1, <2>2 DEF Inv
  <2>4. /\ Cardinality(Taken) \in Nat /\ Taken = Left(co, co')
    <3>1. Taken \in SUBSET Run
      BY DEF Taken
    <3>2. QED
      BY <3>1, FiniteRuns DEF Taken, Left, InPhase
  <2>5. bypassed' = [k \in Session |->
                       IF PassedOver(k) THEN bypassed[k] + Cardinality(Taken) ELSE 0]
    BY <1>3 DEF RNext, Counts
  <2>6. bypassed' \in [Session -> Nat]
    BY <1>1, <2>4, <2>5
  <2>7. ASSUME NEW k \in Session PROVE Waited(k)'
    <3>2. ASSUME HasWaiter(co', k), InRange(co')
          PROVE  TurnsAhead(co', k) \in Nat /\ TurnsAhead(co', k) <= z
      <4>1. k \in WithWaiters(co') /\ co' \in State /\ Lists(co'.order, WithWaiters(co'))
        BY <2>3, <3>2 DEF HasWaiter, WithWaiters, Good, Holds
      <4>2. QED
        BY <3>2, <4>1, TurnsAheadBounded
    <3>3. z \in Nat
      <4>1. k \in Session /\ n \in Nat /\ n # 0
        BY RotationAssumption, FS_CardinalityType, FS_EmptySet
      <4> HIDE DEF n
      <4>2. n - 1 \in Nat
        BY <4>1
      <4>3. QED
        BY <4>1, <4>2
    <3> HIDE DEF z
    <3>4. CASE PassedOver(k)
      <4>1. HasWaiter(co, k) /\ InRange(co) /\ \A r \in Taken : SessionOf[r] # k
        BY <3>4 DEF PassedOver
      <4>2. InRange(co') /\ k \in WithWaiters(co) /\ Nearer(co, co', k)
        BY <1>1, <2>1, <3>4, StepNearer
      <4>3. k \in WithWaiters(co')
            /\ TurnsAhead(co', k) + Cardinality(Taken) <= TurnsAhead(co, k)
        BY <2>4, <4>1, <4>2 DEF Nearer
      <4>4. bypassed[k] + TurnsAhead(co, k) <= z /\ bypassed[k] \in Nat
        BY <1>1, <4>1 DEF Waited, z
      <4>5. TurnsAhead(co, k) \in Nat
        BY <2>3, <4>1, <4>2, GoodBounds
      <4>6. HasWaiter(co', k)
        BY <4>3 DEF HasWaiter, WithWaiters
      <4>7. bypassed'[k] = bypassed[k] + Cardinality(Taken)
        BY <2>5, <3>4
      <4>8. TurnsAhead(co', k) \in Nat
        BY <3>2, <4>2, <4>6
      <4>9. bypassed'[k] + TurnsAhead(co', k) <= z
        BY <2>4, <3>3, <4>3, <4>4, <4>5, <4>7, <4>8
      <4>10. QED
        BY <4>2, <4>6, <4>9 DEF Waited, HasWaiter, InRange, TurnsAhead, z
    <3>5. CASE ~PassedOver(k)
      <4>1. bypassed'[k] = 0
        BY <2>5, <3>5
      <4>2. HasWaiter(co', k) /\ InRange(co') => bypassed'[k] + TurnsAhead(co', k) <= z
        BY <3>2, <4>1
      <4>3. QED
        BY <4>1, <4>2 DEF Waited, HasWaiter, InRange, TurnsAhead, z
    <3>6. QED
      BY <3>4, <3>5
  <2>8. QED
    BY <2>2, <2>6, <2>7 DEF RInv
<1>4. QED
  BY <1>2, <1>3

LEMMA RInitInv == RInit => RInv
<1> SUFFICES ASSUME RInit PROVE RInv
  OBVIOUS
<1>1. Inv
  BY InitInv DEF RInit
<1>2. bypassed = [k \in Session |-> 0]
  BY DEF RInit
<1>3. \A k \in Session : ~HasWaiter(co, k)
  BY DEF RInit, Init, HasWaiter
<1>4. QED
  BY <1>1, <1>2, <1>3 DEF RInv, Waited

LEMMA RInvBounds == RInv => BoundedBypass
<1> SUFFICES ASSUME RInv, NEW k \in Session
             PROVE  bypassed[k] <= Cardinality(Session) * (Cardinality(Session) - 1)
  BY DEF BoundedBypass
<1> DEFINE n == Cardinality(Session)
           z == n * (n - 1)
<1>1. n \in Nat /\ n # 0
  BY RotationAssumption, FS_CardinalityType, FS_EmptySet
<1>2. z \in Nat
  <2> HIDE DEF n
  <2>1. n - 1 \in Nat
    BY <1>1
  <2>2. QED
    BY <1>1, <2>1
<1>3. Waited(k) /\ bypassed[k] \in Nat /\ Good(co)
  BY DEF RInv, Inv
<1>4. CASE HasWaiter(co, k) /\ InRange(co)
  <2>1. bypassed[k] + TurnsAhead(co, k) <= z
    BY <1>3, <1>4 DEF Waited
  <2>2. TurnsAhead(co, k) \in Nat
    BY <1>3, <1>4, GoodBounds DEF HasWaiter, WithWaiters
  <2> HIDE DEF z
  <2>3. bypassed[k] <= z
    BY <1>2, <1>3, <2>1, <2>2
  <2>4. QED
    BY <2>3 DEF z
<1>5. CASE ~(HasWaiter(co, k) /\ InRange(co))
  <2>1. bypassed[k] = 0
    BY <1>3, <1>5 DEF Waited
  <2> HIDE DEF z
  <2>2. bypassed[k] <= z
    BY <1>2, <2>1
  <2>3. QED
    BY <2>2 DEF z
<1>6. QED
  BY <1>4, <1>5

\* Among n sessions, one that keeps a waiter sees at most n * (n - 1) turns of
\* others before its own, whatever they submit meanwhile: what "drained
\* round-robin: a chatty agent cannot starve the others" (coordinator.ts:148)
\* amounts to, as long as no cancellation takes a waiter out of its turn.
THEOREM RotationIsFair == RSpec => []BoundedBypass
BY RInitInv, RStepInv, RInvBounds, PTL DEF RSpec
=============================================================================
