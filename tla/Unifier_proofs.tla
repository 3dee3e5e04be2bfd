---------------------------- MODULE Unifier_proofs ----------------------------
(***************************************************************************)
(* What the recursive functions of Types compute, for every type, and what *)
(* a call of unify does with two types.                                    *)
(***************************************************************************)
EXTENDS Unifier, FiniteSetTheorems, SequenceTheorems, WellFoundedInduction, TLAPS

\* Every type is in some layer.
Type == UNION {Layer[n] : n \in Nat}

-----------------------------------------------------------------------------
(* Induction and recursion over a set whose elements have a measure. *)

\* A set of numbers that is not empty has a least member.
LEMMA LeastNatural ==
    ASSUME NEW S \in SUBSET Nat, S # {}
    PROVE  \E x \in S : \A y \in S : x <= y
<1> DEFINE R == OpToRel(<, Nat)
<1>1. R = {ss \in Nat \X Nat : ss[1] < ss[2]}
    BY Zenon DEF OpToRel
<1>2. PICK x \in S : \A y \in S : <<y, x>> \notin R
    BY NatLessThanWellFounded, WFMin, Zenon
<1> HIDE DEF R
<1>3. ASSUME NEW y \in S
      PROVE  x <= y
    <2>1. y \in Nat /\ x \in Nat /\ <<y, x>> \notin R
        BY <1>2
    <2>2. ~(y < x)
        BY <1>1, <2>1
    <2> QED
        BY <2>1, <2>2
<1> QED
    BY <1>3

\* What holds of 0 and of the successor of each number holds of every number.
LEMMA NumberInduction ==
    ASSUME NEW S, 0 \in S, \A n \in Nat : n \in S => n + 1 \in S
    PROVE  Nat \subseteq S
<1> SUFFICES ASSUME Nat \ S # {}
             PROVE  FALSE
    OBVIOUS
<1>1. PICK x \in Nat \ S : \A y \in Nat \ S : x <= y
    BY LeastNatural
<1>2. x - 1 \in Nat /\ x - 1 \in S
    BY <1>1
<1> QED
    BY <1>1, <1>2

\* What holds of an element if it holds of all with a smaller measure holds of all.
LEMMA MeasureInduction ==
    ASSUME NEW T, NEW mu \in [T -> Nat], NEW S,
           \A t \in T : (\A s \in T : mu[s] < mu[t] => s \in S) => t \in S
    PROVE  T \subseteq S
<1> DEFINE Done == {n \in Nat : \A t \in T : mu[t] < n => t \in S}
<1>1. 0 \in Done
    OBVIOUS
<1>2. ASSUME NEW n \in Nat, n \in Done
      PROVE  n + 1 \in Done
    <2>1. ASSUME NEW t \in T, mu[t] < n + 1
          PROVE  t \in S
        <3>1. \A s \in T : mu[s] < mu[t] => s \in S
            BY <1>2, <2>1
        <3> QED
            BY <3>1
    <2> QED
        BY <2>1
<1>3. Nat \subseteq Done
    <2> HIDE DEF Done
    <2> QED
        BY <1>1, <1>2, NumberInduction
<1>4. ASSUME NEW t \in T
      PROVE  t \in S
    <2>1. mu[t] + 1 \in Done
        BY <1>3
    <2> QED
        BY <2>1
<1> QED
    BY <1>4

Solution(T, D, mu, f, n) == \A t \in T : mu[t] < n => f[t] = D[f][t]

\* What D makes of a function at t depends on elements with a smaller measure.
Recursion(T, V, D, mu) ==
    /\ V # {} /\ mu \in [T -> Nat] /\ D \in [[T -> V] -> [T -> V]]
    /\ \A f, g \in [T -> V] : \A t \in T :
            (\A s \in T : mu[s] < mu[t] => f[s] = g[s]) => D[f][t] = D[g][t]

\* A function can be defined by such a recursion.
LEMMA RecursionExists ==
    ASSUME NEW T, NEW V, NEW D, NEW mu, Recursion(T, V, D, mu)
    PROVE  \E f \in [T -> V] : \A t \in T : f[t] = D[f][t]
<1>0. /\ mu \in [T -> Nat] /\ D \in [[T -> V] -> [T -> V]]
      /\ \A f, g \in [T -> V] : \A t \in T :
            (\A s \in T : mu[s] < mu[t] => f[s] = g[s]) => D[f][t] = D[g][t]
    BY DEF Recursion
<1> USE <1>0
<1> PICK v \in V : TRUE
    BY DEF Recursion
<1> DEFINE Found == {n \in Nat : \E f \in [T -> V] : Solution(T, D, mu, f, n)}
<1>1. 0 \in Found
    <2> DEFINE f == [t \in T |-> v]
    <2>1. f \in [T -> V]
        OBVIOUS
    <2>2. \A t \in T : ~(mu[t] < 0)
        OBVIOUS
    <2>3. Solution(T, D, mu, f, 0)
        BY <2>2 DEF Solution
    <2> QED
        BY <2>1, <2>3
<1>2. ASSUME NEW n \in Nat, n \in Found
      PROVE  n + 1 \in Found
    <2>1. PICK f \in [T -> V] : Solution(T, D, mu, f, n)
        BY <1>2
    <2> DEFINE g == [t \in T |-> D[f][t]]
    <2>2. g \in [T -> V]
        OBVIOUS
    <2>3. ASSUME NEW t \in T, mu[t] < n + 1
          PROVE  g[t] = D[g][t]
        <3>1. \A s \in T : mu[s] < mu[t] => f[s] = g[s]
            BY <2>1, <2>3 DEF Solution
        <3>2. D[f][t] = D[g][t]
            BY <2>2, <3>1
        <3> QED
            BY <3>2
    <2>4. Solution(T, D, mu, g, n + 1)
        <3> HIDE DEF g
        <3> QED
            BY <2>3 DEF Solution
    <2> HIDE DEF g
    <2>5. \E h \in [T -> V] : Solution(T, D, mu, h, n + 1)
        BY <2>2, <2>4
    <2> QED
        BY <2>5
<1>3. Nat \subseteq Found
    <2> HIDE DEF Found
    <2> QED
        BY <1>1, <1>2, NumberInduction
<1>4. ASSUME NEW f \in [T -> V], NEW g \in [T -> V], NEW m \in Nat, NEW n \in Nat,
             Solution(T, D, mu, f, m), Solution(T, D, mu, g, n)
      PROVE  \A t \in T : mu[t] < m /\ mu[t] < n => f[t] = g[t]
    <2> DEFINE S == {t \in T : mu[t] < m /\ mu[t] < n => f[t] = g[t]}
    <2>1. ASSUME NEW t \in T, \A s \in T : mu[s] < mu[t] => s \in S
          PROVE  t \in S
        <3> SUFFICES ASSUME mu[t] < m, mu[t] < n
                     PROVE  f[t] = g[t]
            OBVIOUS
        <3>1. \A s \in T : mu[s] < mu[t] => f[s] = g[s]
            BY <2>1
        <3>2. D[f][t] = D[g][t]
            BY <3>1
        <3> QED
            BY <1>4, <3>2 DEF Solution
    <2>2. T \subseteq S
        <3> HIDE DEF S
        <3> QED
            BY <2>1, MeasureInduction
    <2> QED
        BY <2>2
<1> DEFINE some(n) == CHOOSE f \in [T -> V] : Solution(T, D, mu, f, n)
           F == [t \in T |-> some(mu[t] + 1)[t]]
<1>5. ASSUME NEW n \in Nat
      PROVE  some(n) \in [T -> V] /\ Solution(T, D, mu, some(n), n)
    BY <1>3
<1> HIDE DEF some
<1>6. F \in [T -> V]
    BY <1>5
<1>7. ASSUME NEW t \in T
      PROVE  F[t] = D[F][t]
    <2> DEFINE f == some(mu[t] + 1)
    <2>1. f \in [T -> V] /\ Solution(T, D, mu, f, mu[t] + 1)
        BY <1>5
    <2>2. ASSUME NEW s \in T, mu[s] < mu[t]
          PROVE  f[s] = F[s]
        <3> DEFINE g == some(mu[s] + 1)
        <3>1. g \in [T -> V] /\ Solution(T, D, mu, g, mu[s] + 1)
            <4>1. mu[s] + 1 \in Nat
                OBVIOUS
            <4> QED
                BY <1>5, <4>1
        <3>2. mu[s] + 1 \in Nat /\ mu[t] + 1 \in Nat /\ mu[s] < mu[s] + 1 /\ mu[s] < mu[t] + 1
            BY <2>2
        <3> HIDE DEF f, g
        <3>3. f[s] = g[s]
            BY <1>4, <2>1, <3>1, <3>2
        <3> QED
            BY <3>3 DEF g
    <2>3. D[f][t] = D[F][t]
        BY <1>6, <2>1, <2>2
    <2>4. mu[t] < mu[t] + 1
        OBVIOUS
    <2>5. f[t] = D[f][t]
        <3> HIDE DEF f
        <3> QED
            BY <2>1, <2>4 DEF Solution
    <2> QED
        BY <2>3, <2>5
<1> QED
    BY <1>6, <1>7

-----------------------------------------------------------------------------
(* Layers. *)

LayerStep(f, n) == Generic \cup MadeOf(IF n = 0 THEN {} ELSE f[n - 1])

\* Layer is what its definition says.
LEMMA LayerDef == \A n \in Nat : Layer[n] = LayerStep(Layer, n)
<1> DEFINE Fits(f, n) == \A m \in 0..n : f[m] = LayerStep(f, m)
           Found == {n \in Nat : \E f : Fits(f, n)}
<1>1. 0 \in Found
    <2> DEFINE f == [m \in Nat |-> Generic \cup MadeOf({})]
    <2>1. f[0] = LayerStep(f, 0)
        BY DEF LayerStep
    <2>2. Fits(f, 0)
        <3> HIDE DEF f
        <3> QED
            BY <2>1
    <2> QED
        BY <2>2
<1>2. ASSUME NEW n \in Nat, n \in Found
      PROVE  n + 1 \in Found
    <2>1. PICK f : Fits(f, n)
        BY <1>2
    <2> DEFINE g == [m \in Nat |-> LayerStep(f, m)]
    <2>2. ASSUME NEW m \in 0..(n + 1)
          PROVE  g[m] = LayerStep(g, m)
        <3>1. CASE m = 0
            BY <3>1 DEF LayerStep
        <3>2. CASE m > 0
            <4>1. m - 1 \in 0..n /\ m \in Nat
                BY <3>2
            <4>2. g[m] = LayerStep(f, m) /\ g[m - 1] = LayerStep(f, m - 1) /\ f[m - 1] = LayerStep(f, m - 1)
                BY <2>1, <4>1
            <4> HIDE DEF g
            <4>3. LayerStep(f, m) = LayerStep(g, m)
                BY <4>2 DEF LayerStep
            <4> QED
                BY <4>2, <4>3
        <3> QED
            BY <3>1, <3>2
    <2>3. Fits(g, n + 1)
        <3> HIDE DEF g
        <3> QED
            BY <2>2
    <2> HIDE DEF Fits
    <2> QED
        BY <2>3
<1>3. Nat \subseteq Found
    <2> HIDE DEF Found
    <2> QED
        BY <1>1, <1>2, NumberInduction
<1>4. ASSUME NEW f, NEW g, NEW m \in Nat, NEW n \in Nat, Fits(f, m), Fits(g, n)
      PROVE  \A k \in Nat : k <= m /\ k <= n => f[k] = g[k]
    <2> DEFINE S == {k \in Nat : k <= m /\ k <= n => f[k] = g[k]}
    <2>1. 0 \in S
        <3>1. f[0] = LayerStep(f, 0) /\ g[0] = LayerStep(g, 0)
            BY <1>4
        <3>2. LayerStep(f, 0) = LayerStep(g, 0)
            BY DEF LayerStep
        <3> QED
            BY <3>1, <3>2
    <2>2. ASSUME NEW k \in Nat, k \in S
          PROVE  k + 1 \in S
        <3> SUFFICES ASSUME k + 1 <= m, k + 1 <= n
                     PROVE  f[k + 1] = g[k + 1]
            OBVIOUS
        <3>1. f[k + 1] = LayerStep(f, k + 1) /\ g[k + 1] = LayerStep(g, k + 1)
            BY <1>4
        <3>2. f[k] = g[k] /\ (k + 1) - 1 = k
            BY <2>2
        <3>3. LayerStep(f, k + 1) = LayerStep(g, k + 1)
            BY <3>2 DEF LayerStep
        <3> QED
            BY <3>1, <3>3
    <2>3. Nat \subseteq S
        <3> HIDE DEF S
        <3> QED
            BY <2>1, <2>2, NumberInduction
    <2> QED
        BY <2>3
<1> DEFINE some(n) == CHOOSE f : Fits(f, n)
           F == [n \in Nat |-> some(n)[n]]
<1>5. ASSUME NEW n \in Nat
      PROVE  Fits(some(n), n)
    <2> HIDE DEF Fits
    <2> QED
        BY <1>3
<1>6. ASSUME NEW n \in Nat
      PROVE  F[n] = LayerStep(F, n)
    <2>1. some(n)[n] = LayerStep(some(n), n)
        BY <1>5
    <2>2. CASE n = 0
        BY <2>1, <2>2 DEF LayerStep
    <2>3. CASE n > 0
        <3>1. n - 1 \in Nat /\ n - 1 <= n
            BY <2>3
        <3>2. Fits(some(n), n) /\ Fits(some(n - 1), n - 1)
            BY <1>5, <3>1
        <3> HIDE DEF some, Fits
        <3>3. some(n)[n - 1] = some(n - 1)[n - 1]
            BY <1>4, <3>1, <3>2
        <3> QED
            BY <2>1, <3>1, <3>3 DEF LayerStep
    <2> QED
        BY <2>2, <2>3
<1> HIDE DEF F
<1>7. F = [n \in Nat |-> Generic \cup MadeOf(IF n = 0 THEN {} ELSE F[n - 1])]
    <2>1. F = [n \in Nat |-> F[n]]
        BY DEF F
    <2> QED
        BY <1>6, <2>1 DEF LayerStep
<1>8. Layer = [n \in Nat |-> Generic \cup MadeOf(IF n = 0 THEN {} ELSE Layer[n - 1])]
    BY <1>7 DEF Layer
<1> QED
    BY <1>8 DEF LayerStep

\* What a type of a layer is made of.
LEMMA LayerParts ==
    ASSUME NEW n \in Nat, NEW t \in Layer[n]
    PROVE  /\ t = [k |-> t.k, id |-> t.id, args |-> t.args, cs |-> t.cs] /\ t.id \in Nat
           /\ IsGeneric(t) => t.args = <<>>
           /\ ~IsGeneric(t) => t.cs = {} /\ t.k \in {"Named", "Tuple", "Function"}
           /\ Len(t.args) \in Nat /\ DOMAIN t.args = 1..Len(t.args)
           /\ t.args = [i \in 1..Len(t.args) |-> t.args[i]]
           /\ \A i \in DOMAIN t.args : n > 0 /\ t.args[i] \in Layer[n - 1]
<1>1. t \in LayerStep(Layer, n)
    BY LayerDef
<1>2. CASE t \in Generic
    <2>1. t.args = <<>> /\ t = [k |-> t.k, id |-> t.id, args |-> t.args, cs |-> t.cs] /\ t.id \in Nat
        BY <1>2 DEF Generic
    <2>2. IsGeneric(t)
        BY <1>2 DEF Generic, IsGeneric, IsVar, IsFixed
    <2>3. t.args \in Seq({}) /\ Len(t.args) = 0
        BY <2>1, EmptySeq
    <2>4. DOMAIN t.args = 1..Len(t.args) /\ t.args = [i \in 1..Len(t.args) |-> t.args[i]]
        BY <2>3, LenProperties
    <2> QED
        BY <2>1, <2>2, <2>3, <2>4
<1>3. CASE n = 0 /\ t \in MadeOf({})
    <2>1. t.args \in Seq({})
        BY <1>3 DEF MadeOf
    <2>2. DOMAIN t.args = 1..Len(t.args) /\ Len(t.args) \in Nat /\ \A i \in 1..Len(t.args) : t.args[i] \in {}
        BY <2>1, LenProperties, ElementOfSeq
    <2>3. t.args = [i \in 1..Len(t.args) |-> t.args[i]]
        BY <2>1, LenProperties
    <2> QED
        BY <1>3, <2>2, <2>3 DEF MadeOf, IsGeneric, IsVar, IsFixed
<1>4. CASE n > 0 /\ t \in MadeOf(Layer[n - 1])
    <2>1. t.args \in Seq(Layer[n - 1])
        BY <1>4 DEF MadeOf
    <2>2. /\ DOMAIN t.args = 1..Len(t.args) /\ Len(t.args) \in Nat
          /\ \A i \in 1..Len(t.args) : t.args[i] \in Layer[n - 1]
        BY <2>1, LenProperties, ElementOfSeq
    <2>3. t.args = [i \in 1..Len(t.args) |-> t.args[i]]
        BY <2>1, LenProperties
    <2> QED
        BY <1>4, <2>2, <2>3 DEF MadeOf, IsGeneric, IsVar, IsFixed
<1> QED
    BY <1>1, <1>2, <1>3, <1>4 DEF LayerStep

\* Whatever is in a layer is in the one after it.
LEMMA NextLayer == \A n \in Nat : Layer[n] \subseteq Layer[n + 1]
<1> DEFINE S == {n \in Nat : Layer[n] \subseteq Layer[n + 1]}
<1>1. ASSUME NEW A, NEW B, A \subseteq B
      PROVE  MadeOf(A) \subseteq MadeOf(B)
    <2>1. Seq(A) \subseteq Seq(B)
        BY <1>1, SeqMonotonic
    <2> QED
        BY <2>1 DEF MadeOf
<1>2. 0 \in S
    <2>1. Layer[0] = Generic \cup MadeOf({}) /\ Layer[0 + 1] = Generic \cup MadeOf(Layer[0])
        BY LayerDef DEF LayerStep
    <2> QED
        BY <1>1, <2>1
<1>3. ASSUME NEW n \in Nat, n \in S
      PROVE  n + 1 \in S
    <2>1. n + 1 # 0 /\ (n + 1) + 1 # 0 /\ (n + 1) - 1 = n /\ ((n + 1) + 1) - 1 = n + 1
        OBVIOUS
    <2>2. Layer[n + 1] = Generic \cup MadeOf(Layer[n])
        BY <2>1, LayerDef DEF LayerStep
    <2>3. Layer[(n + 1) + 1] = Generic \cup MadeOf(Layer[n + 1])
        BY <2>1, LayerDef DEF LayerStep
    <2>4. MadeOf(Layer[n]) \subseteq MadeOf(Layer[n + 1])
        BY <1>1, <1>3
    <2> QED
        BY <2>2, <2>3, <2>4
<1>4. Nat \subseteq S
    <2> HIDE DEF S
    <2> QED
        BY <1>2, <1>3, NumberInduction
<1> QED
    BY <1>4

\* Layers grow.
LEMMA LayersGrow ==
    ASSUME NEW m \in Nat, NEW n \in Nat, m <= n
    PROVE  Layer[m] \subseteq Layer[n]
<1> DEFINE S == {k \in Nat : Layer[m] \subseteq Layer[m + k]}
<1>1. 0 \in S
    OBVIOUS
<1>2. ASSUME NEW k \in Nat, k \in S
      PROVE  k + 1 \in S
    <2>1. m + k \in Nat /\ (m + k) + 1 = m + (k + 1)
        OBVIOUS
    <2>2. Layer[m + k] \subseteq Layer[m + (k + 1)]
        BY <2>1, NextLayer
    <2> QED
        BY <1>2, <2>2
<1>3. Nat \subseteq S
    <2> HIDE DEF S
    <2> QED
        BY <1>1, <1>2, NumberInduction
<1>4. n - m \in S /\ m + (n - m) = n
    BY <1>3
<1> QED
    BY <1>4

\* The least layer that a type is in.
Height(t) == CHOOSE n \in Nat : t \in Layer[n] /\ \A m \in Nat : t \in Layer[m] => n <= m

LEMMA HeightLeast ==
    ASSUME NEW t \in Type
    PROVE  Height(t) \in Nat /\ t \in Layer[Height(t)] /\ \A m \in Nat : t \in Layer[m] => Height(t) <= m
<1> DEFINE S == {n \in Nat : t \in Layer[n]}
<1>1. S \in SUBSET Nat /\ S # {}
    BY DEF Type
<1>2. PICK n \in S : \A m \in S : n <= m
    BY <1>1, LeastNatural
<1>3. \E h \in Nat : t \in Layer[h] /\ \A m \in Nat : t \in Layer[m] => h <= m
    BY <1>2
<1> QED
    BY <1>3 DEF Height

\* What a type is made of is lower than the type.
LEMMA TypeParts ==
    ASSUME NEW t \in Type
    PROVE  /\ t = [k |-> t.k, id |-> t.id, args |-> t.args, cs |-> t.cs] /\ t.id \in Nat
           /\ IsGeneric(t) => t.args = <<>>
           /\ ~IsGeneric(t) => t.cs = {} /\ t.k \in {"Named", "Tuple", "Function"}
           /\ Len(t.args) \in Nat /\ DOMAIN t.args = 1..Len(t.args)
           /\ t.args = [i \in 1..Len(t.args) |-> t.args[i]]
           /\ \A i \in DOMAIN t.args : t.args[i] \in Type /\ Height(t.args[i]) < Height(t)
<1> DEFINE n == Height(t)
<1>1. n \in Nat /\ t \in Layer[n]
    BY HeightLeast
<1>2. ASSUME NEW i \in DOMAIN t.args
      PROVE  t.args[i] \in Type /\ Height(t.args[i]) < n
    <2> HIDE DEF n
    <2>1. n > 0 /\ t.args[i] \in Layer[n - 1]
        BY <1>1, <1>2, LayerParts
    <2>4. n - 1 \in Nat
        BY <1>1, <2>1
    <2>2. t.args[i] \in Type
        BY <2>1, <2>4 DEF Type
    <2>3. Height(t.args[i]) \in Nat /\ Height(t.args[i]) <= n - 1
        BY <2>1, <2>2, <2>4, HeightLeast
    <2> QED
        BY <1>1, <2>2, <2>3
<1> QED
    <2> HIDE DEF n
    <2>1. /\ t = [k |-> t.k, id |-> t.id, args |-> t.args, cs |-> t.cs] /\ t.id \in Nat
          /\ IsGeneric(t) => t.args = <<>>
          /\ ~IsGeneric(t) => t.cs = {} /\ t.k \in {"Named", "Tuple", "Function"}
          /\ Len(t.args) \in Nat /\ DOMAIN t.args = 1..Len(t.args)
          /\ t.args = [i \in 1..Len(t.args) |-> t.args[i]]
        BY <1>1, LayerParts
    <2> QED
        BY <1>2, <2>1 DEF n

\* Finitely many types are in a layer together.
LEMMA CommonLayer ==
    ASSUME NEW n \in Nat, NEW f, \A i \in 1..n : f[i] \in Type
    PROVE  \E m \in Nat : \A i \in 1..n : f[i] \in Layer[m]
<1> DEFINE S == {k \in Nat : k <= n => \E m \in Nat : \A i \in 1..k : f[i] \in Layer[m]}
<1>1. 0 \in S
    OBVIOUS
<1>2. ASSUME NEW k \in Nat, k \in S
      PROVE  k + 1 \in S
    <2> SUFFICES ASSUME k + 1 <= n
                 PROVE  \E m \in Nat : \A i \in 1..(k + 1) : f[i] \in Layer[m]
        OBVIOUS
    <2>1. PICK m \in Nat : \A i \in 1..k : f[i] \in Layer[m]
        BY <1>2
    <2>2. PICK l \in Nat : f[k + 1] \in Layer[l]
        BY DEF Type
    <2> DEFINE h == IF m <= l THEN l ELSE m
    <2>3. h \in Nat /\ m <= h /\ l <= h
        OBVIOUS
    <2> HIDE DEF h
    <2>4. Layer[m] \subseteq Layer[h] /\ Layer[l] \subseteq Layer[h]
        BY <2>3, LayersGrow
    <2>5. \A i \in 1..(k + 1) : i \in 1..k \/ i = k + 1
        OBVIOUS
    <2>6. \A i \in 1..(k + 1) : f[i] \in Layer[h]
        BY <2>1, <2>2, <2>4, <2>5
    <2> QED
        BY <2>3, <2>6
<1>3. Nat \subseteq S
    <2> HIDE DEF S
    <2> QED
        BY <1>1, <1>2, NumberInduction
<1>4. n \in S
    BY <1>3
<1> QED
    BY <1>4

\* A record of the shape of a type, made of types, is a type.
LEMMA TypeMade ==
    ASSUME NEW k \in {"Named", "Tuple", "Function"}, NEW id \in Nat, NEW args, NEW n \in Nat,
           args = [i \in 1..n |-> args[i]], \A i \in 1..n : args[i] \in Type
    PROVE  [k |-> k, id |-> id, args |-> args, cs |-> {}] \in Type
<1>1. PICK m \in Nat : \A i \in 1..n : args[i] \in Layer[m]
    BY CommonLayer
<1>2. args \in [1..n -> Layer[m]]
    BY <1>1
<1>3. args \in Seq(Layer[m])
    BY <1>2
<1>4. [k |-> k, id |-> id, args |-> args, cs |-> {}] \in MadeOf(Layer[m])
    BY <1>3 DEF MadeOf
<1>5. Layer[m + 1] = Generic \cup MadeOf(Layer[m])
    <2>1. m + 1 # 0 /\ (m + 1) - 1 = m /\ m + 1 \in Nat
        OBVIOUS
    <2> QED
        BY <2>1, LayerDef DEF LayerStep
<1>6. m + 1 \in Nat
    OBVIOUS
<1> QED
    BY <1>4, <1>5, <1>6 DEF Type

-----------------------------------------------------------------------------
(* Induction over types, and the leaves of a type. *)

\* What holds of a type if it holds of all it is made of holds of every type.
LEMMA TypeInduction ==
    ASSUME NEW S, \A t \in Type : (\A i \in DOMAIN t.args : t.args[i] \in S) => t \in S
    PROVE  Type \subseteq S
<1> DEFINE mu == [t \in Type |-> Height(t)]
<1>1. mu \in [Type -> Nat]
    BY HeightLeast
<1>2. ASSUME NEW t \in Type, \A s \in Type : mu[s] < mu[t] => s \in S
      PROVE  t \in S
    BY <1>2, TypeParts
<1> HIDE DEF mu
<1> QED
    BY <1>1, <1>2, MeasureInduction

\* LayerOf is a layer with the given types, if there is one.
LEMMA LayerOfHolds ==
    ASSUME NEW types, NEW m \in Nat, types \subseteq Layer[m]
    PROVE  \E n \in Nat : LayerOf(types) = Layer[n] /\ types \subseteq Layer[n]
<1> DEFINE Deep == {n \in Nat : types \subseteq Layer[n]}
           Next(f) == [n \in Nat |-> IF types \subseteq Layer[n] THEN n ELSE f[n + 1]]
           depth == CHOOSE f : f = Next(f)
<1>1. PICK least \in Deep : \A n \in Deep : least <= n
    <2>1. Deep \in SUBSET Nat /\ Deep # {}
        OBVIOUS
    <2> HIDE DEF Deep
    <2> QED
        BY <2>1, LeastNatural
<1>2. \A n \in Nat : types \subseteq Layer[n] <=> least <= n
    <2>1. ASSUME NEW n \in Nat, least <= n
          PROVE  types \subseteq Layer[n]
        BY <2>1, LayersGrow
    <2> QED
        BY <1>1, <2>1
<1>3. depth = Next(depth)
    <2> DEFINE f == [n \in Nat |-> IF least <= n THEN n ELSE least]
    <2>1. f = Next(f)
        <3>1. ASSUME NEW n \in Nat
              PROVE  f[n] = IF types \subseteq Layer[n] THEN n ELSE f[n + 1]
            BY <1>2
        <3>2. f = [n \in Nat |-> f[n]]
            OBVIOUS
        <3> HIDE DEF f
        <3> QED
            BY <3>1, <3>2
    <2> HIDE DEF f
    <2> QED
        BY <2>1
<1> HIDE DEF depth
<1>4. \A n \in Nat : depth[n] = IF least <= n THEN n ELSE depth[n + 1]
    BY <1>2, <1>3
<1> DEFINE S == {k \in Nat : k <= least => depth[least - k] = least}
<1>5. 0 \in S
    BY <1>4
<1>6. ASSUME NEW k \in Nat, k \in S
      PROVE  k + 1 \in S
    <2> SUFFICES ASSUME k + 1 <= least
                 PROVE  depth[least - (k + 1)] = least
        OBVIOUS
    <2>1. least - (k + 1) \in Nat /\ ~(least <= least - (k + 1)) /\ (least - (k + 1)) + 1 = least - k
        OBVIOUS
    <2>2. depth[least - k] = least
        BY <1>6
    <2> QED
        BY <1>4, <2>1, <2>2
<1>7. Nat \subseteq S
    <2> HIDE DEF S
    <2> QED
        BY <1>5, <1>6, NumberInduction
<1>8. depth[0] = least
    <2>1. least \in S /\ least - least = 0
        BY <1>7
    <2> QED
        BY <2>1
<1>9. LayerOf(types) = Layer[depth[0]]
    BY DEF LayerOf, FirstWith, depth
<1> QED
    BY <1>2, <1>8, <1>9

LeavesStep(f, t) ==
    IF IsGeneric(t) THEN {t} ELSE UNION {f[t.args[i]] : i \in DOMAIN t.args}

LEMMA SameLeavesStep ==
    ASSUME NEW f, NEW g, NEW t, \A i \in DOMAIN t.args : f[t.args[i]] = g[t.args[i]]
    PROVE  LeavesStep(f, t) = LeavesStep(g, t)
BY DEF LeavesStep

\* The leaves of a type are it, or those of what it is made of.
LEMMA LeavesDef ==
    \A t \in Type :
        /\ Leaves(t) \subseteq Type
        /\ Leaves(t) = IF IsGeneric(t) THEN {t} ELSE UNION {Leaves(t.args[i]) : i \in DOMAIN t.args}
<1> DEFINE mu == [t \in Type |-> Height(t)]
           D == [f \in [Type -> SUBSET Type] |-> [t \in Type |-> LeavesStep(f, t)]]
<1>1. mu \in [Type -> Nat]
    BY HeightLeast
<1>2. D \in [[Type -> SUBSET Type] -> [Type -> SUBSET Type]]
    <2>1. ASSUME NEW f \in [Type -> SUBSET Type], NEW t \in Type
          PROVE  LeavesStep(f, t) \in SUBSET Type
        <3>1. \A i \in DOMAIN t.args : f[t.args[i]] \in SUBSET Type
            BY TypeParts
        <3> QED
            BY <3>1 DEF LeavesStep
    <2> QED
        BY <2>1
<1>3. ASSUME NEW f \in [Type -> SUBSET Type], NEW g \in [Type -> SUBSET Type], NEW t \in Type,
             \A s \in Type : mu[s] < mu[t] => f[s] = g[s]
      PROVE  D[f][t] = D[g][t]
    <2>1. \A i \in DOMAIN t.args : f[t.args[i]] = g[t.args[i]]
        BY <1>3, TypeParts
    <2>2. LeavesStep(f, t) = LeavesStep(g, t)
        BY <2>1, SameLeavesStep
    <2> QED
        BY <2>2
<1>4. PICK F \in [Type -> SUBSET Type] : \A t \in Type : F[t] = D[F][t]
    <2> HIDE DEF mu, D
    <2>1. {} \in SUBSET Type
        OBVIOUS
    <2>2. \A f, g \in [Type -> SUBSET Type] : \A t \in Type :
                (\A s \in Type : mu[s] < mu[t] => f[s] = g[s]) => D[f][t] = D[g][t]
        BY <1>3
    <2>3. Recursion(Type, SUBSET Type, D, mu)
        BY <1>1, <1>2, <2>1, <2>2 DEF Recursion
    <2> QED
        BY <2>3, RecursionExists
<1>5. \A t \in Type : F[t] = LeavesStep(F, t)
    BY <1>4
<1>6. ASSUME NEW n \in Nat, NEW ty \in Layer[n]
      PROVE  (CHOOSE f : f = [t \in Layer[n] |-> LeavesStep(f, t)])[ty] = F[ty]
    <2> DEFINE f == [t \in Layer[n] |-> F[t]]
               g == CHOOSE h : h = [t \in Layer[n] |-> LeavesStep(h, t)]
    <2>1. ASSUME NEW t \in Layer[n]
          PROVE  t \in Type /\ \A i \in DOMAIN t.args : t.args[i] \in Layer[n]
        <3>1. ASSUME NEW i \in DOMAIN t.args
              PROVE  t.args[i] \in Layer[n]
            <4>1. n > 0 /\ t.args[i] \in Layer[n - 1]
                BY <3>1, LayerParts
            <4>2. n - 1 \in Nat /\ n - 1 <= n
                BY <4>1
            <4> QED
                BY <4>1, <4>2, LayersGrow
        <3> QED
            BY <3>1 DEF Type
    <2>2. ASSUME NEW t \in Layer[n]
          PROVE  f[t] = LeavesStep(f, t)
        <3>1. \A i \in DOMAIN t.args : f[t.args[i]] = F[t.args[i]]
            BY <2>1
        <3>2. f[t] = LeavesStep(F, t)
            BY <1>5, <2>1
        <3> HIDE DEF f
        <3> QED
            BY <3>1, <3>2, SameLeavesStep
    <2>3. f = [t \in Layer[n] |-> LeavesStep(f, t)]
        <3>1. f = [t \in Layer[n] |-> f[t]]
            OBVIOUS
        <3> HIDE DEF f
        <3> QED
            BY <2>2, <3>1
    <2>4. g = [t \in Layer[n] |-> LeavesStep(g, t)]
        <3> HIDE DEF f
        <3> QED
            BY <2>3
    <2> HIDE DEF g
    <2> DEFINE S == {t \in Type : t \in Layer[n] => g[t] = F[t]}
    <2>5. ASSUME NEW t \in Type, \A i \in DOMAIN t.args : t.args[i] \in S
          PROVE  t \in S
        <3> SUFFICES ASSUME t \in Layer[n]
                     PROVE  g[t] = F[t]
            OBVIOUS
        <3>1. \A i \in DOMAIN t.args : g[t.args[i]] = F[t.args[i]]
            BY <2>1, <2>5
        <3>2. LeavesStep(g, t) = LeavesStep(F, t)
            BY <3>1, SameLeavesStep
        <3> QED
            BY <1>5, <2>4, <3>2
    <2>6. Type \subseteq S
        <3> HIDE DEF S
        <3> QED
            BY <2>5, TypeInduction
    <2>7. ty \in S
        BY <2>1, <2>6
    <2> QED
        BY <2>7 DEF g
<1>7. ASSUME NEW ty \in Type
      PROVE  Leaves(ty) = F[ty]
    <2>1. PICK n \in Nat : LayerOf({ty}) = Layer[n] /\ {ty} \subseteq Layer[n]
        <3>1. PICK m \in Nat : ty \in Layer[m]
            BY DEF Type
        <3>2. {ty} \subseteq Layer[m]
            BY <3>1
        <3> QED
            BY <3>2, LayerOfHolds
    <2>2. Leaves(ty) = (CHOOSE f : f = [t \in LayerOf({ty}) |-> LeavesStep(f, t)])[ty]
        BY DEF Leaves, LeavesStep
    <2>3. (CHOOSE f : f = [t \in Layer[n] |-> LeavesStep(f, t)])[ty] = F[ty]
        BY <1>6, <2>1
    <2> QED
        BY <2>1, <2>2, <2>3
<1>8. ASSUME NEW t \in Type
      PROVE  LeavesStep(F, t) = IF IsGeneric(t) THEN {t} ELSE UNION {Leaves(t.args[i]) : i \in DOMAIN t.args}
    <2>1. \A i \in DOMAIN t.args : F[t.args[i]] = Leaves(t.args[i])
        BY <1>7, TypeParts
    <2> QED
        BY <2>1 DEF LeavesStep
<1>9. ASSUME NEW t \in Type
      PROVE  F[t] \subseteq Type
    OBVIOUS
<1> HIDE DEF D
<1> QED
    BY <1>5, <1>7, <1>8, <1>9

\* Leaves are variables and fixed type arguments.
LEMMA LeavesGeneric == \A t \in Type : \A l \in Leaves(t) : l \in Type /\ IsGeneric(l) /\ l.id \in Nat
<1> DEFINE S == {t \in Type : \A l \in Leaves(t) : IsGeneric(l)}
<1>1. ASSUME NEW t \in Type, \A i \in DOMAIN t.args : t.args[i] \in S
      PROVE  t \in S
    BY <1>1, LeavesDef
<1>2. Type \subseteq S
    <2> HIDE DEF S
    <2> QED
        BY <1>1, TypeInduction
<1> QED
    BY <1>2, LeavesDef, TypeParts

-----------------------------------------------------------------------------
(* Applying a substitution. *)

Decreasing(sub, mu) ==
    /\ mu \in [Type -> Nat]
    /\ \A t \in Type :
        /\ \A i \in DOMAIN t.args : mu[t.args[i]] < mu[t]
        /\ IsGeneric(t) /\ t.id \in DOMAIN sub => mu[sub[t.id]] < mu[t]

\* Its types are bounded, and to follow its bindings comes to an end.
Resolvable(sub) ==
    /\ \E n \in Nat : \A i \in DOMAIN sub : sub[i] \in Layer[n]
    /\ \E mu : Decreasing(sub, mu)

LEMMA ResolvableTypes ==
    ASSUME NEW sub, Resolvable(sub), NEW i \in DOMAIN sub
    PROVE  sub[i] \in Type
BY DEF Resolvable, Type

ApplyStep(sub, f, t) ==
    IF IsGeneric(t) THEN IF t.id \in DOMAIN sub THEN f[sub[t.id]] ELSE t
    ELSE [t EXCEPT !.args = [i \in DOMAIN t.args |-> f[t.args[i]]]]

LEMMA SameApplyStep ==
    ASSUME NEW sub, NEW f, NEW g, NEW t,
           \A i \in DOMAIN t.args : f[t.args[i]] = g[t.args[i]],
           IsGeneric(t) /\ t.id \in DOMAIN sub => f[sub[t.id]] = g[sub[t.id]]
    PROVE  ApplyStep(sub, f, t) = ApplyStep(sub, g, t)
<1>1. [i \in DOMAIN t.args |-> f[t.args[i]]] = [i \in DOMAIN t.args |-> g[t.args[i]]]
    OBVIOUS
<1> QED
    BY <1>1 DEF ApplyStep

\* A type with other arguments.
LEMMA TypeWithArgs ==
    ASSUME NEW t \in Type, ~IsGeneric(t), NEW a, a = [i \in DOMAIN t.args |-> a[i]],
           \A i \in DOMAIN t.args : a[i] \in Type
    PROVE  /\ [t EXCEPT !.args = a] \in Type /\ ~IsGeneric([t EXCEPT !.args = a])
           /\ [t EXCEPT !.args = a].k = t.k /\ [t EXCEPT !.args = a].id = t.id
           /\ [t EXCEPT !.args = a].args = a /\ [t EXCEPT !.args = a].cs = {}
           /\ DOMAIN a = DOMAIN t.args /\ Len(a) = Len(t.args)
<1> DEFINE n == Len(t.args)
           r == [t EXCEPT !.args = a]
<1>1. /\ t = [k |-> t.k, id |-> t.id, args |-> t.args, cs |-> t.cs] /\ t.id \in Nat /\ t.cs = {}
      /\ t.k \in {"Named", "Tuple", "Function"} /\ n \in Nat /\ DOMAIN t.args = 1..n
    BY TypeParts
<1>2. r = [k |-> t.k, id |-> t.id, args |-> a, cs |-> {}]
    <2>1. ASSUME NEW k, NEW id, NEW args, NEW cs
          PROVE  [[k |-> k, id |-> id, args |-> args, cs |-> cs] EXCEPT !.args = a] =
                    [k |-> k, id |-> id, args |-> a, cs |-> cs]
        OBVIOUS
    <2>2. PICK k, id, args, cs : t = [k |-> k, id |-> id, args |-> args, cs |-> cs]
        BY <1>1
    <2>3. k = t.k /\ id = t.id /\ cs = t.cs
        BY <2>2
    <2>4. r = [k |-> k, id |-> id, args |-> a, cs |-> cs]
        BY <2>1, <2>2
    <2> HIDE DEF r
    <2> QED
        BY <1>1, <2>3, <2>4
<1> HIDE DEF n
<1>3. a = [i \in 1..n |-> a[i]] /\ \A i \in 1..n : a[i] \in Type
    BY <1>1
<1>4. [k |-> t.k, id |-> t.id, args |-> a, cs |-> {}] \in Type
    BY <1>1, <1>3, TypeMade
<1>5. DOMAIN a = 1..n /\ Len(a) = n
    <2>1. a \in [1..n -> Type]
        BY <1>3
    <2>2. a \in Seq(Type)
        BY <1>1, <2>1
    <2>3. DOMAIN a = 1..n
        BY <1>3
    <2>4. DOMAIN a = 1..Len(a) /\ Len(a) \in Nat
        BY <2>2, LenProperties
    <2> QED
        BY <1>1, <2>3, <2>4
<1> HIDE DEF r
<1>6. r.k = t.k /\ r.id = t.id /\ r.args = a /\ r.cs = {} /\ r \in Type
    BY <1>2, <1>4
<1>7. ~IsGeneric(r)
    BY <1>6 DEF IsGeneric, IsVar, IsFixed
<1> QED
    BY <1>1, <1>5, <1>6, <1>7 DEF r, n

\* Apply follows bindings, and goes into what a type is made of.
LEMMA ApplyDef ==
    ASSUME NEW sub, Resolvable(sub)
    PROVE  \A t \in Type :
            /\ Apply(sub, t) \in Type
            /\ Apply(sub, t) =
                IF IsGeneric(t) THEN IF t.id \in DOMAIN sub THEN Apply(sub, sub[t.id]) ELSE t
                ELSE [t EXCEPT !.args = [i \in DOMAIN t.args |-> Apply(sub, t.args[i])]]
<1>1. PICK mu : Decreasing(sub, mu)
    BY DEF Resolvable
<1>2. PICK bound \in Nat : \A i \in DOMAIN sub : sub[i] \in Layer[bound]
    BY DEF Resolvable
<1> DEFINE D == [f \in [Type -> Type] |-> [t \in Type |-> ApplyStep(sub, f, t)]]
<1>3. ASSUME NEW f \in [Type -> Type], NEW t \in Type
      PROVE  ApplyStep(sub, f, t) \in Type
    <2>1. CASE IsGeneric(t)
        <3>1. t.id \in DOMAIN sub => sub[t.id] \in Type
            BY ResolvableTypes
        <3> QED
            BY <2>1, <3>1 DEF ApplyStep
    <2>2. CASE ~IsGeneric(t)
        <3> DEFINE a == [i \in DOMAIN t.args |-> f[t.args[i]]]
        <3>1. a = [i \in DOMAIN t.args |-> a[i]] /\ \A i \in DOMAIN t.args : a[i] \in Type
            BY TypeParts
        <3>2. ApplyStep(sub, f, t) = [t EXCEPT !.args = a]
            BY <2>2 DEF ApplyStep
        <3> HIDE DEF a
        <3> QED
            BY <2>2, <3>1, <3>2, TypeWithArgs
    <2> QED
        BY <2>1, <2>2
<1>4. D \in [[Type -> Type] -> [Type -> Type]]
    BY <1>3
<1>5. ASSUME NEW f \in [Type -> Type], NEW g \in [Type -> Type], NEW t \in Type,
             \A s \in Type : mu[s] < mu[t] => f[s] = g[s]
      PROVE  D[f][t] = D[g][t]
    <2>1. \A i \in DOMAIN t.args : f[t.args[i]] = g[t.args[i]]
        BY <1>1, <1>5, TypeParts DEF Decreasing
    <2>2. IsGeneric(t) /\ t.id \in DOMAIN sub => f[sub[t.id]] = g[sub[t.id]]
        BY <1>1, <1>5, ResolvableTypes DEF Decreasing
    <2>3. ApplyStep(sub, f, t) = ApplyStep(sub, g, t)
        BY <2>1, <2>2, SameApplyStep
    <2> QED
        BY <2>3
<1>6. PICK F \in [Type -> Type] : \A t \in Type : F[t] = D[F][t]
    <2> HIDE DEF D
    <2>1. Type # {}
        <3>1. [k |-> "Var", id |-> 0, args |-> <<>>, cs |-> {}] \in Generic
            BY DEF Generic
        <3>2. Generic \subseteq Layer[0]
            BY LayerDef DEF LayerStep
        <3> QED
            BY <3>1, <3>2 DEF Type
    <2>2. \A f, g \in [Type -> Type] : \A t \in Type :
                (\A s \in Type : mu[s] < mu[t] => f[s] = g[s]) => D[f][t] = D[g][t]
        BY <1>5
    <2>3. Recursion(Type, Type, D, mu)
        BY <1>1, <1>4, <2>1, <2>2 DEF Recursion, Decreasing
    <2> QED
        BY <2>3, RecursionExists
<1>7. \A t \in Type : F[t] = ApplyStep(sub, F, t)
    BY <1>6
<1> HIDE DEF D
<1>8. ASSUME NEW n \in Nat, NEW ty \in Layer[n], Range(sub) \subseteq Layer[n]
      PROVE  (CHOOSE f : f = [t \in Layer[n] |-> ApplyStep(sub, f, t)])[ty] = F[ty]
    <2> DEFINE f == [t \in Layer[n] |-> F[t]]
               g == CHOOSE h : h = [t \in Layer[n] |-> ApplyStep(sub, h, t)]
    <2>1. ASSUME NEW t \in Layer[n]
          PROVE  /\ t \in Type /\ \A i \in DOMAIN t.args : t.args[i] \in Layer[n]
                 /\ t.id \in DOMAIN sub => sub[t.id] \in Layer[n]
        <3>1. ASSUME NEW i \in DOMAIN t.args
              PROVE  t.args[i] \in Layer[n]
            <4>1. n > 0 /\ t.args[i] \in Layer[n - 1]
                BY <3>1, LayerParts
            <4>2. n - 1 \in Nat /\ n - 1 <= n
                BY <4>1
            <4> QED
                BY <4>1, <4>2, LayersGrow
        <3>2. t.id \in DOMAIN sub => sub[t.id] \in Layer[n]
            BY <1>8 DEF Range
        <3> QED
            BY <3>1, <3>2 DEF Type
    <2>2. ASSUME NEW t \in Layer[n]
          PROVE  f[t] = ApplyStep(sub, f, t)
        <3>1. \A i \in DOMAIN t.args : f[t.args[i]] = F[t.args[i]]
            BY <2>1
        <3>2. t.id \in DOMAIN sub => f[sub[t.id]] = F[sub[t.id]]
            BY <2>1
        <3>3. f[t] = ApplyStep(sub, F, t)
            BY <1>7, <2>1
        <3> HIDE DEF f
        <3> QED
            BY <3>1, <3>2, <3>3, SameApplyStep
    <2>3. f = [t \in Layer[n] |-> ApplyStep(sub, f, t)]
        <3>1. f = [t \in Layer[n] |-> f[t]]
            OBVIOUS
        <3> HIDE DEF f
        <3> QED
            BY <2>2, <3>1
    <2>4. g = [t \in Layer[n] |-> ApplyStep(sub, g, t)]
        <3> HIDE DEF f
        <3> QED
            BY <2>3
    <2> HIDE DEF g
    <2> DEFINE S == {t \in Type : t \in Layer[n] => g[t] = F[t]}
    <2>5. ASSUME NEW t \in Type, \A s \in Type : mu[s] < mu[t] => s \in S
          PROVE  t \in S
        <3> SUFFICES ASSUME t \in Layer[n]
                     PROVE  g[t] = F[t]
            OBVIOUS
        <3>1. \A i \in DOMAIN t.args : g[t.args[i]] = F[t.args[i]]
            BY <1>1, <2>1, <2>5, TypeParts DEF Decreasing
        <3>2. IsGeneric(t) /\ t.id \in DOMAIN sub => g[sub[t.id]] = F[sub[t.id]]
            BY <1>1, <2>1, <2>5, ResolvableTypes DEF Decreasing
        <3>3. ApplyStep(sub, g, t) = ApplyStep(sub, F, t)
            BY <3>1, <3>2, SameApplyStep
        <3> QED
            BY <1>7, <2>4, <3>3
    <2>6. Type \subseteq S
        <3>1. mu \in [Type -> Nat]
            BY <1>1 DEF Decreasing
        <3> HIDE DEF S
        <3> QED
            BY <2>5, <3>1, MeasureInduction
    <2>7. ty \in S
        BY <2>1, <2>6
    <2> QED
        BY <1>8, <2>7 DEF g
<1>9. ASSUME NEW ty \in Type
      PROVE  Apply(sub, ty) = F[ty]
    <2> DEFINE types == {ty} \cup Range(sub)
    <2>1. PICK n \in Nat : LayerOf(types) = Layer[n] /\ types \subseteq Layer[n]
        <3>1. PICK m \in Nat : ty \in Layer[m]
            BY DEF Type
        <3> DEFINE h == IF m <= bound THEN bound ELSE m
        <3>2. h \in Nat /\ m <= h /\ bound <= h
            OBVIOUS
        <3> HIDE DEF h
        <3>3. Layer[m] \subseteq Layer[h] /\ Layer[bound] \subseteq Layer[h]
            BY <3>2, LayersGrow
        <3>4. types \subseteq Layer[h]
            BY <1>2, <3>1, <3>3 DEF Range
        <3> HIDE DEF types
        <3> QED
            BY <3>2, <3>4, LayerOfHolds
    <2>2. Apply(sub, ty) = (CHOOSE f : f = [t \in LayerOf(types) |-> ApplyStep(sub, f, t)])[ty]
        BY DEF Apply, ApplyStep
    <2>3. ty \in Layer[n] /\ Range(sub) \subseteq Layer[n]
        BY <2>1
    <2> HIDE DEF types
    <2> QED
        BY <1>8, <2>1, <2>2, <2>3
<1>10. ASSUME NEW t \in Type
       PROVE  F[t] = IF IsGeneric(t) THEN IF t.id \in DOMAIN sub THEN Apply(sub, sub[t.id]) ELSE t
                     ELSE [t EXCEPT !.args = [i \in DOMAIN t.args |-> Apply(sub, t.args[i])]]
    <2>1. \A i \in DOMAIN t.args : F[t.args[i]] = Apply(sub, t.args[i])
        BY <1>9, TypeParts
    <2>2. [i \in DOMAIN t.args |-> F[t.args[i]]] = [i \in DOMAIN t.args |-> Apply(sub, t.args[i])]
        BY <2>1
    <2>3. t.id \in DOMAIN sub => F[sub[t.id]] = Apply(sub, sub[t.id])
        BY <1>9, ResolvableTypes
    <2>4. F[t] = ApplyStep(sub, F, t)
        BY <1>7
    <2> QED
        BY <2>2, <2>3, <2>4 DEF ApplyStep
<1> QED
    BY <1>9, <1>10

\* A substitution changes what a composite type is made of, and nothing else.
LEMMA ApplyComposite ==
    ASSUME NEW sub, Resolvable(sub), NEW t \in Type, ~IsGeneric(t)
    PROVE  /\ Apply(sub, t) \in Type /\ ~IsGeneric(Apply(sub, t))
           /\ Apply(sub, t).k = t.k /\ Apply(sub, t).id = t.id /\ Apply(sub, t).cs = {}
           /\ Len(Apply(sub, t).args) = Len(t.args) /\ DOMAIN Apply(sub, t).args = DOMAIN t.args
           /\ \A i \in DOMAIN t.args : Apply(sub, t).args[i] = Apply(sub, t.args[i])
<1> DEFINE a == [i \in DOMAIN t.args |-> Apply(sub, t.args[i])]
<1>1. Apply(sub, t) = [t EXCEPT !.args = a]
    BY ApplyDef
<1>2. a = [i \in DOMAIN t.args |-> a[i]] /\ \A i \in DOMAIN t.args : a[i] \in Type /\ a[i] = Apply(sub, t.args[i])
    BY ApplyDef, TypeParts
<1> HIDE DEF a
<1> DEFINE r == [t EXCEPT !.args = a]
<1>3. /\ r \in Type /\ ~IsGeneric(r) /\ r.k = t.k /\ r.id = t.id /\ r.args = a /\ r.cs = {}
      /\ DOMAIN a = DOMAIN t.args /\ Len(a) = Len(t.args)
    BY <1>2, TypeWithArgs
<1>4. Apply(sub, t) = r
    BY <1>1
<1> HIDE DEF r
<1> QED
    BY <1>2, <1>3, <1>4

\* Composite types of one base that are made of the same types are the same.
LEMMA SameComposite ==
    ASSUME NEW s \in Type, NEW t \in Type, ~IsGeneric(s), ~IsGeneric(t), s.k = t.k, s.id = t.id,
           Len(s.args) = Len(t.args), \A i \in DOMAIN t.args : s.args[i] = t.args[i]
    PROVE  s = t
<1>1. /\ s = [k |-> s.k, id |-> s.id, args |-> s.args, cs |-> {}]
      /\ t = [k |-> t.k, id |-> t.id, args |-> t.args, cs |-> {}]
      /\ s.args = [i \in 1..Len(s.args) |-> s.args[i]] /\ t.args = [i \in 1..Len(t.args) |-> t.args[i]]
      /\ DOMAIN t.args = 1..Len(t.args)
    BY TypeParts
<1>2. s.args = t.args
    BY <1>1
<1> QED
    BY <1>1, <1>2

\* A variable that is bound, and a leaf that is not.
LEMMA ApplyGeneric ==
    ASSUME NEW sub, Resolvable(sub), NEW t \in Type, IsGeneric(t)
    PROVE  Apply(sub, t) = IF t.id \in DOMAIN sub THEN Apply(sub, sub[t.id]) ELSE t
BY ApplyDef

\* The leaves that are left are not bound, and come from the type or from bindings.
LEMMA ApplyLeaves ==
    ASSUME NEW sub, Resolvable(sub), NEW ty \in Type, NEW l \in Leaves(Apply(sub, ty))
    PROVE  /\ l.id \notin DOMAIN sub
           /\ l \in Leaves(ty) \/ \E i \in DOMAIN sub : l \in Leaves(sub[i])
<1>1. PICK mu : Decreasing(sub, mu)
    BY DEF Resolvable
<1> DEFINE bound == UNION {Leaves(sub[i]) : i \in DOMAIN sub}
           S == {t \in Type : \A m \in Leaves(Apply(sub, t)) : m.id \notin DOMAIN sub /\ m \in Leaves(t) \cup bound}
<1>2. ASSUME NEW t \in Type, \A s \in Type : mu[s] < mu[t] => s \in S
      PROVE  t \in S
    <2>1. CASE IsGeneric(t) /\ t.id \in DOMAIN sub
        <3>1. sub[t.id] \in Type /\ mu[sub[t.id]] < mu[t]
            BY <1>1, <2>1, ResolvableTypes DEF Decreasing
        <3>2. sub[t.id] \in S /\ Apply(sub, t) = Apply(sub, sub[t.id])
            BY <1>2, <2>1, <3>1, ApplyGeneric
        <3>3. Leaves(sub[t.id]) \subseteq bound
            BY <2>1
        <3> QED
            BY <3>2, <3>3
    <2>2. CASE IsGeneric(t) /\ t.id \notin DOMAIN sub
        <3>1. Apply(sub, t) = t /\ Leaves(t) = {t}
            BY <2>2, ApplyGeneric, LeavesDef
        <3> QED
            BY <2>2, <3>1
    <2>3. CASE ~IsGeneric(t)
        <3>1. \A i \in DOMAIN t.args : t.args[i] \in S /\ t.args[i] \in Type
            BY <1>1, <1>2, TypeParts DEF Decreasing
        <3> SUFFICES ASSUME NEW m \in Leaves(Apply(sub, t))
                     PROVE  m.id \notin DOMAIN sub /\ m \in Leaves(t) \cup bound
            OBVIOUS
        <3> DEFINE r == Apply(sub, t)
        <3>2. /\ r \in Type /\ ~IsGeneric(r) /\ DOMAIN r.args = DOMAIN t.args
              /\ \A i \in DOMAIN t.args : r.args[i] = Apply(sub, t.args[i])
            BY <2>3, ApplyComposite
        <3>3. Leaves(r) = UNION {Leaves(r.args[i]) : i \in DOMAIN r.args}
            BY <3>2, LeavesDef
        <3>4. PICK i \in DOMAIN t.args : m \in Leaves(Apply(sub, t.args[i]))
            BY <3>2, <3>3
        <3>5. m.id \notin DOMAIN sub /\ m \in Leaves(t.args[i]) \cup bound
            BY <3>1, <3>4
        <3>6. Leaves(t) = UNION {Leaves(t.args[j]) : j \in DOMAIN t.args}
            BY <2>3, LeavesDef
        <3> QED
            BY <3>5, <3>6
    <2> QED
        BY <2>1, <2>2, <2>3
<1>3. Type \subseteq S
    <2>1. mu \in [Type -> Nat]
        BY <1>1 DEF Decreasing
    <2> HIDE DEF S
    <2> QED
        BY <1>2, <2>1, MeasureInduction
<1>4. ty \in S
    BY <1>3
<1> QED
    BY <1>4

\* Two substitutions that do the same to the leaves of a type do the same to it.
LEMMA ApplyAgrees ==
    ASSUME NEW sub, Resolvable(sub), NEW other, Resolvable(other), NEW ty \in Type,
           \A l \in Leaves(ty) : Apply(sub, l) = Apply(other, l)
    PROVE  Apply(sub, ty) = Apply(other, ty)
<1> DEFINE S == {t \in Type : (\A l \in Leaves(t) : Apply(sub, l) = Apply(other, l)) =>
                                    Apply(sub, t) = Apply(other, t)}
<1>1. ASSUME NEW t \in Type, \A i \in DOMAIN t.args : t.args[i] \in S
      PROVE  t \in S
    <2> SUFFICES ASSUME \A l \in Leaves(t) : Apply(sub, l) = Apply(other, l)
                 PROVE  Apply(sub, t) = Apply(other, t)
        OBVIOUS
    <2>1. CASE IsGeneric(t)
        BY <2>1, LeavesDef
    <2>2. CASE ~IsGeneric(t)
        <3>1. Leaves(t) = UNION {Leaves(t.args[i]) : i \in DOMAIN t.args}
            BY <2>2, LeavesDef
        <3>2. \A i \in DOMAIN t.args : Apply(sub, t.args[i]) = Apply(other, t.args[i])
            BY <1>1, <3>1
        <3>3. [i \in DOMAIN t.args |-> Apply(sub, t.args[i])] = [i \in DOMAIN t.args |-> Apply(other, t.args[i])]
            BY <3>2
        <3>4. /\ Apply(sub, t) = [t EXCEPT !.args = [i \in DOMAIN t.args |-> Apply(sub, t.args[i])]]
              /\ Apply(other, t) = [t EXCEPT !.args = [i \in DOMAIN t.args |-> Apply(other, t.args[i])]]
            BY <2>2, ApplyDef
        <3> QED
            BY <3>3, <3>4
    <2> QED
        BY <2>1, <2>2
<1>2. Type \subseteq S
    <2> HIDE DEF S
    <2> QED
        BY <1>1, TypeInduction
<1>3. ty \in S
    BY <1>2
<1> QED
    BY <1>3

\* A substitution that makes each variable equal to what another one binds it to.
Respects(sub, other) ==
    \A t \in Type : IsGeneric(t) /\ t.id \in DOMAIN other => Apply(sub, t) = Apply(sub, other[t.id])

\* To apply the other one first makes no difference then.
LEMMA ApplyTwice ==
    ASSUME NEW sub, Resolvable(sub), NEW other, Resolvable(other), Respects(sub, other), NEW ty \in Type
    PROVE  Apply(sub, Apply(other, ty)) = Apply(sub, ty)
<1>1. PICK mu : Decreasing(other, mu)
    BY DEF Resolvable
<1> DEFINE S == {t \in Type : Apply(sub, Apply(other, t)) = Apply(sub, t)}
<1>2. ASSUME NEW t \in Type, \A s \in Type : mu[s] < mu[t] => s \in S
      PROVE  t \in S
    <2>1. CASE IsGeneric(t) /\ t.id \in DOMAIN other
        <3>1. other[t.id] \in Type /\ mu[other[t.id]] < mu[t]
            BY <1>1, <2>1, ResolvableTypes DEF Decreasing
        <3>2. other[t.id] \in S /\ Apply(other, t) = Apply(other, other[t.id])
            BY <1>2, <2>1, <3>1, ApplyGeneric
        <3>3. Apply(sub, t) = Apply(sub, other[t.id])
            BY <2>1 DEF Respects
        <3> QED
            BY <3>2, <3>3
    <2>2. CASE IsGeneric(t) /\ t.id \notin DOMAIN other
        BY <2>2, ApplyGeneric
    <2>3. CASE ~IsGeneric(t)
        <3>1. \A i \in DOMAIN t.args : t.args[i] \in S /\ t.args[i] \in Type
            BY <1>1, <1>2, TypeParts DEF Decreasing
        <3> DEFINE r == Apply(other, t)
        <3>2. /\ r \in Type /\ ~IsGeneric(r) /\ r.k = t.k /\ r.id = t.id /\ Len(r.args) = Len(t.args)
              /\ DOMAIN r.args = DOMAIN t.args
              /\ \A i \in DOMAIN t.args : r.args[i] = Apply(other, t.args[i])
            BY <2>3, ApplyComposite
        <3> HIDE DEF r
        <3> DEFINE a == Apply(sub, r)
                   b == Apply(sub, t)
        <3>3. /\ a \in Type /\ ~IsGeneric(a) /\ a.k = r.k /\ a.id = r.id /\ Len(a.args) = Len(r.args)
              /\ DOMAIN a.args = DOMAIN r.args
              /\ \A i \in DOMAIN r.args : a.args[i] = Apply(sub, r.args[i])
            BY <3>2, ApplyComposite
        <3>4. /\ b \in Type /\ ~IsGeneric(b) /\ b.k = t.k /\ b.id = t.id /\ Len(b.args) = Len(t.args)
              /\ DOMAIN b.args = DOMAIN t.args
              /\ \A i \in DOMAIN t.args : b.args[i] = Apply(sub, t.args[i])
            BY <2>3, ApplyComposite
        <3> HIDE DEF a, b
        <3>5. \A i \in DOMAIN b.args : a.args[i] = b.args[i]
            BY <3>1, <3>2, <3>3, <3>4
        <3>6. a = b
            BY <3>2, <3>3, <3>4, <3>5, SameComposite
        <3> QED
            BY <3>6 DEF a, b, r
    <2> QED
        BY <2>1, <2>2, <2>3
<1>3. Type \subseteq S
    <2>1. mu \in [Type -> Nat]
        BY <1>1 DEF Decreasing
    <2> HIDE DEF S
    <2> QED
        BY <1>2, <2>1, MeasureInduction
<1>4. ty \in S
    BY <1>3
<1> QED
    BY <1>4

\* A substitution respects its own bindings.
LEMMA RespectsItself ==
    ASSUME NEW sub, Resolvable(sub)
    PROVE  Respects(sub, sub)
BY ApplyGeneric DEF Respects

\* A type is not what becomes of one of its own leaves.
LEMMA OccursNeverEqual ==
    ASSUME NEW sub, Resolvable(sub), NEW ty \in Type, ~IsGeneric(ty), NEW l \in Leaves(ty)
    PROVE  Apply(sub, l) # Apply(sub, ty)
<1> DEFINE h(t) == Height(Apply(sub, t))
           S == {t \in Type : \A m \in Leaves(t) : IF IsGeneric(t) THEN h(m) <= h(t) ELSE h(m) < h(t)}
<1>1. ASSUME NEW t \in Type, \A i \in DOMAIN t.args : t.args[i] \in S
      PROVE  t \in S
    <2> SUFFICES ASSUME NEW m \in Leaves(t)
                 PROVE  IF IsGeneric(t) THEN h(m) <= h(t) ELSE h(m) < h(t)
        OBVIOUS
    <2>1. h(m) \in Nat /\ h(t) \in Nat
        BY LeavesDef, ApplyDef, HeightLeast
    <2>2. CASE IsGeneric(t)
        <3>1. m = t
            BY <2>2, LeavesDef
        <3> QED
            BY <2>1, <2>2, <3>1
    <2>3. CASE ~IsGeneric(t)
        <3>1. PICK i \in DOMAIN t.args : m \in Leaves(t.args[i])
            BY <2>3, LeavesDef
        <3>2. t.args[i] \in Type /\ t.args[i] \in S
            BY <1>1, TypeParts
        <3>3. h(t.args[i]) \in Nat /\ h(m) <= h(t.args[i])
            BY <2>1, <3>1, <3>2, ApplyDef, HeightLeast
        <3>4. h(t.args[i]) < h(t)
            <4> DEFINE r == Apply(sub, t)
            <4>1. r \in Type /\ i \in DOMAIN r.args /\ r.args[i] = Apply(sub, t.args[i])
                BY <2>3, ApplyComposite
            <4> HIDE DEF r
            <4>2. Height(r.args[i]) < Height(r)
                BY <4>1, TypeParts
            <4> QED
                BY <4>1, <4>2 DEF r
        <3> HIDE DEF h
        <3> QED
            BY <2>1, <2>3, <3>3, <3>4
    <2> QED
        BY <2>2, <2>3
<1>2. Type \subseteq S
    <2> HIDE DEF S
    <2> QED
        BY <1>1, TypeInduction
<1>3. h(l) < h(ty)
    BY <1>2
<1>4. h(ty) \in Nat
    BY ApplyDef, HeightLeast
<1> QED
    BY <1>3, <1>4

-----------------------------------------------------------------------------
(* Substitutions that are resolvable. *)

\* No leaf of the type has one of the indices.
Free(ty, indices) == \A l \in Leaves(ty) : l.id \notin indices

\* The leaves of what a type is made of are its leaves.
LEMMA PartLeaves ==
    ASSUME NEW t \in Type, NEW i \in DOMAIN t.args
    PROVE  ~IsGeneric(t) /\ Leaves(t.args[i]) \subseteq Leaves(t)
<1>1. ~IsGeneric(t)
    <2> SUFFICES ASSUME IsGeneric(t)
                 PROVE  FALSE
        OBVIOUS
    <2>1. t.args = <<>> /\ DOMAIN t.args = 1..Len(t.args)
        BY TypeParts
    <2>2. DOMAIN t.args = {}
        BY <2>1
    <2> QED
        BY <2>2
<1>2. Leaves(t) = UNION {Leaves(t.args[j]) : j \in DOMAIN t.args}
    BY <1>1, LeavesDef
<1> QED
    BY <1>1, <1>2

\* A leaf of a type is not above it.
LEMMA LeafMeasure ==
    ASSUME NEW sub, NEW mu, Decreasing(sub, mu), NEW ty \in Type, NEW l \in Leaves(ty)
    PROVE  mu[l] <= mu[ty]
<1> DEFINE S == {t \in Type : \A m \in Leaves(t) : mu[m] <= mu[t]}
<1>1. ASSUME NEW t \in Type, \A i \in DOMAIN t.args : t.args[i] \in S
      PROVE  t \in S
    <2> SUFFICES ASSUME NEW m \in Leaves(t)
                 PROVE  mu[m] <= mu[t]
        OBVIOUS
    <2>1. mu[m] \in Nat /\ mu[t] \in Nat
        BY LeavesDef DEF Decreasing
    <2>2. CASE IsGeneric(t)
        BY <2>1, <2>2, LeavesDef
    <2>3. CASE ~IsGeneric(t)
        <3>1. PICK i \in DOMAIN t.args : m \in Leaves(t.args[i])
            BY <2>3, LeavesDef
        <3>2. mu[m] <= mu[t.args[i]] /\ mu[t.args[i]] < mu[t] /\ mu[t.args[i]] \in Nat
            BY <1>1, <3>1 DEF Decreasing
        <3> QED
            BY <2>1, <3>2
    <2> QED
        BY <2>2, <2>3
<1>2. Type \subseteq S
    <2> HIDE DEF S
    <2> QED
        BY <1>1, TypeInduction
<1> QED
    BY <1>2

\* A substitution leaves alone what has none of its variables.
LEMMA ApplyFree ==
    ASSUME NEW sub, Resolvable(sub), NEW ty \in Type, Free(ty, DOMAIN sub)
    PROVE  Apply(sub, ty) = ty
<1> DEFINE S == {t \in Type : Free(t, DOMAIN sub) => Apply(sub, t) = t}
<1>1. ASSUME NEW t \in Type, \A i \in DOMAIN t.args : t.args[i] \in S
      PROVE  t \in S
    <2> SUFFICES ASSUME Free(t, DOMAIN sub)
                 PROVE  Apply(sub, t) = t
        OBVIOUS
    <2>1. CASE IsGeneric(t)
        BY <2>1, LeavesDef, ApplyGeneric DEF Free
    <2>2. CASE ~IsGeneric(t)
        <3>1. \A i \in DOMAIN t.args : Apply(sub, t.args[i]) = t.args[i]
            BY <1>1, PartLeaves DEF Free
        <3> DEFINE a == Apply(sub, t)
        <3>2. /\ a \in Type /\ ~IsGeneric(a) /\ a.k = t.k /\ a.id = t.id /\ Len(a.args) = Len(t.args)
              /\ \A i \in DOMAIN t.args : a.args[i] = t.args[i]
            BY <2>2, <3>1, ApplyComposite
        <3> HIDE DEF a
        <3>3. a = t
            BY <2>2, <3>2, SameComposite
        <3> QED
            BY <3>3 DEF a
    <2> QED
        BY <2>1, <2>2
<1>2. Type \subseteq S
    <2> HIDE DEF S
    <2> QED
        BY <1>1, TypeInduction
<1> QED
    BY <1>2

\* A substitution whose types have none of its variables.
LEMMA GroundResolvable ==
    ASSUME NEW sub, NEW n \in Nat, \A i \in DOMAIN sub : sub[i] \in Layer[n] /\ Free(sub[i], DOMAIN sub)
    PROVE  Resolvable(sub)
<1> DEFINE mu == [t \in Type |-> IF Free(t, DOMAIN sub) THEN Height(t) ELSE Height(t) + n + 1]
<1>1. \A t \in Type : Height(t) \in Nat
    BY HeightLeast
<1>2. mu \in [Type -> Nat]
    BY <1>1
<1>3. ASSUME NEW t \in Type, NEW i \in DOMAIN t.args
      PROVE  mu[t.args[i]] < mu[t]
    <2>1. t.args[i] \in Type /\ Height(t.args[i]) < Height(t)
        BY TypeParts
    <2>2. Free(t, DOMAIN sub) => Free(t.args[i], DOMAIN sub)
        BY PartLeaves DEF Free
    <2> QED
        BY <1>1, <2>1, <2>2
<1>4. ASSUME NEW t \in Type, IsGeneric(t), t.id \in DOMAIN sub
      PROVE  mu[sub[t.id]] < mu[t]
    <2>1. ~Free(t, DOMAIN sub)
        BY <1>4, LeavesDef DEF Free
    <2>2. sub[t.id] \in Type /\ sub[t.id] \in Layer[n] /\ Free(sub[t.id], DOMAIN sub)
        BY <1>4 DEF Type
    <2>3. Height(sub[t.id]) <= n
        BY <2>2, HeightLeast
    <2> QED
        BY <1>1, <2>1, <2>2, <2>3
<1>5. Decreasing(sub, mu)
    <2> HIDE DEF mu
    <2> QED
        BY <1>2, <1>3, <1>4 DEF Decreasing
<1> HIDE DEF mu
<1> QED
    BY <1>5 DEF Resolvable

\* A variable that is not bound can be bound to a type without bound variables.
LEMMA Extend ==
    ASSUME NEW sub, Resolvable(sub), NEW index, index \notin DOMAIN sub,
           NEW ty \in Type, Free(ty, DOMAIN sub \cup {index})
    PROVE  Resolvable(Insert(sub, index, ty))
<1> DEFINE more == Insert(sub, index, ty)
           free(t) == Free(t, DOMAIN sub \cup {index})
<1>1. /\ DOMAIN more = DOMAIN sub \cup {index} /\ more[index] = ty
      /\ \A i \in DOMAIN sub : more[i] = sub[i]
    BY DEF Insert
<1> HIDE DEF more
<1>2. PICK nu : Decreasing(sub, nu)
    BY DEF Resolvable
<1>3. PICK m \in Nat : \A i \in DOMAIN sub : sub[i] \in Layer[m]
    BY DEF Resolvable
<1> DEFINE mu == [t \in Type |-> IF free(t) THEN nu[t] ELSE nu[t] + nu[ty] + 1]
<1>4. \A t \in Type : nu[t] \in Nat
    BY <1>2 DEF Decreasing
<1>5. mu \in [Type -> Nat]
    BY <1>4
<1>6. ASSUME NEW t \in Type, NEW i \in DOMAIN t.args
      PROVE  mu[t.args[i]] < mu[t]
    <2>1. t.args[i] \in Type /\ nu[t.args[i]] < nu[t]
        BY <1>2, TypeParts DEF Decreasing
    <2>2. free(t) => free(t.args[i])
        BY PartLeaves DEF Free
    <2> HIDE DEF free
    <2> QED
        BY <1>4, <2>1, <2>2
<1>7. ASSUME NEW t \in Type, IsGeneric(t), t.id \in DOMAIN more
      PROVE  mu[more[t.id]] < mu[t]
    <2>1. ~free(t)
        BY <1>1, <1>7, LeavesDef DEF Free
    <2> HIDE DEF free
    <2>2. CASE t.id = index
        <3>1. more[t.id] = ty /\ free(ty)
            BY <1>1, <2>2 DEF free
        <3>2. mu[ty] = nu[ty] /\ mu[t] = nu[t] + nu[ty] + 1
            BY <2>1, <3>1
        <3> QED
            BY <1>4, <3>1, <3>2
    <2>3. CASE t.id \in DOMAIN sub
        <3>1. more[t.id] = sub[t.id] /\ sub[t.id] \in Type /\ nu[sub[t.id]] < nu[t]
            BY <1>1, <1>2, <1>7, <2>3, ResolvableTypes DEF Decreasing
        <3> DEFINE s == sub[t.id]
        <3>2. s \in Type /\ nu[s] < nu[t] /\ more[t.id] = s
            BY <3>1
        <3> HIDE DEF s
        <3>3. mu[s] <= nu[s] + nu[ty] + 1 /\ mu[t] = nu[t] + nu[ty] + 1
            BY <1>4, <2>1, <3>2
        <3> QED
            BY <1>4, <1>5, <3>2, <3>3
    <2> QED
        BY <1>1, <1>7, <2>2, <2>3
<1>8. Decreasing(more, mu)
    <2> HIDE DEF mu
    <2> QED
        BY <1>5, <1>6, <1>7 DEF Decreasing
<1>9. \E n \in Nat : \A i \in DOMAIN more : more[i] \in Layer[n]
    <2>1. PICK k \in Nat : ty \in Layer[k]
        BY DEF Type
    <2> DEFINE h == IF m <= k THEN k ELSE m
    <2>2. h \in Nat /\ m <= h /\ k <= h
        OBVIOUS
    <2> HIDE DEF h
    <2>3. Layer[m] \subseteq Layer[h] /\ Layer[k] \subseteq Layer[h]
        BY <2>2, LayersGrow
    <2>4. \A i \in DOMAIN more : more[i] \in Layer[h]
        BY <1>1, <1>3, <2>1, <2>3
    <2> QED
        BY <2>2, <2>4
<1> HIDE DEF mu
<1>10. Resolvable(more)
    BY <1>8, <1>9 DEF Resolvable
<1> QED
    BY <1>10 DEF more

-----------------------------------------------------------------------------
(* Unifiers. *)

Variables(leaves) == {leaf \in leaves : IsVar(leaf)}

\* The leaves of the equations and of the types that variables are bound to.
Known(u, eqs) == LeavesOfPairs(eqs) \cup UNION {Leaves(u.sub[i]) : i \in DOMAIN u.sub}

Equalizes(sub, pairs) == \A pair \in pairs : Apply(sub, pair[1]) = Apply(sub, pair[2])

Unifiers ==
    [sub : UNION {[indices -> Type] : indices \in SUBSET Nat},
     constraints : SUBSET (STRING \X Type),
     next : Nat,
     pending : Seq(Type \X Type),
     result : {"ok", "fail", "panic"}]

\* A substitution that can be applied, whatever happens; a failure is the end.
Sound(u) ==
    /\ u \in Unifiers
    /\ IsFiniteSet(DOMAIN u.sub)
    /\ Resolvable(u.sub)
    /\ u.result # "ok" => u.pending = <<>>

Typed(eqs) == \A e \in eqs : e[1] \in Type /\ e[2] \in Type

\* An index stands for one variable or fixed type argument, and the counter is
\* ahead of all of them.
Coherent(u, eqs, start) ==
    /\ start \in Nat /\ start <= u.next
    /\ \A l \in Known(u, eqs) :
        /\ l.id < u.next
        /\ l \in LeavesOfPairs(eqs) \/ (IsVar(l) /\ start <= l.id)
    /\ \A l, m \in Known(u, eqs) : l.id = m.id => l = m

\* What is bound, pending and recorded is about known variables.
AboutKnown(u, eqs) ==
    /\ \A i \in DOMAIN u.sub : \E v \in Variables(Known(u, eqs)) : v.id = i
    /\ LeavesOfPairs(Range(u.pending)) \subseteq Known(u, eqs)
    /\ \A c \in u.constraints : Leaves(c[2]) \subseteq Known(u, eqs)

\* A type that a variable is bound to has its constraints, or they are recorded.
Keeps(u, eqs) ==
    \A v \in Variables(Known(u, eqs)) : v.id \in DOMAIN u.sub =>
        LET ty == u.sub[v.id]
        IN  IF IsGeneric(ty) THEN v.cs \subseteq ty.cs ELSE \A c \in v.cs : <<c, ty>> \in u.constraints

\* What respects the bindings and equalizes the pending pairs equalizes all.
Progress(u, eqs) ==
    \A sub : Resolvable(sub) /\ Respects(sub, u.sub) /\ Equalizes(sub, Range(u.pending)) =>
        Equalizes(sub, eqs)

-----------------------------------------------------------------------------
(* One call of unify. *)

LEMMA GenericParts ==
    ASSUME NEW t \in Type, IsGeneric(t)
    PROVE  t \in Generic /\ t.cs \subseteq STRING /\ t.args = <<>> /\ Leaves(t) = {t} /\ t.id \in Nat
<1>1. PICK n \in Nat : t \in LayerStep(Layer, n)
    BY LayerDef DEF Type
<1>2. t \in Generic
    BY <1>1 DEF LayerStep, MadeOf, IsGeneric, IsVar, IsFixed
<1> QED
    BY <1>2, LeavesDef DEF Generic

LEMMA NewVar ==
    ASSUME NEW index \in Nat, NEW cs, cs \subseteq STRING
    PROVE  /\ Var(index, cs) \in Type /\ IsVar(Var(index, cs)) /\ Leaves(Var(index, cs)) = {Var(index, cs)}
           /\ Var(index, cs).id = index /\ Var(index, cs).cs = cs
<1>1. Var(index, cs) \in Generic /\ IsVar(Var(index, cs))
    BY DEF Var, Generic, IsVar
<1>2. Generic \subseteq Layer[0]
    BY LayerDef DEF LayerStep
<1>3. Var(index, cs) \in Type
    BY <1>1, <1>2 DEF Type
<1>4. Leaves(Var(index, cs)) = {Var(index, cs)}
    BY <1>1, <1>3, LeavesDef DEF IsGeneric
<1> QED
    BY <1>1, <1>3, <1>4 DEF Var

\* A variable is bound to a type.
Binds(r, n, v, ty) ==
    /\ IsVar(v) /\ v.id \notin DOMAIN r.sub /\ Free(ty, DOMAIN r.sub \cup {v.id})
    /\ IsVar(ty) => ty.cs = v.cs
    /\ IsFixed(ty) => v.cs \subseteq ty.cs
    /\ n.sub = Insert(r.sub, v.id, ty) /\ n.next = r.next /\ n.pending = r.pending /\ n.result = "ok"
    /\ n.constraints = r.constraints \cup IF IsGeneric(ty) THEN {} ELSE {<<c, ty>> : c \in v.cs}

\* Two variables are bound to a new one.
Merges(r, n, a, b) ==
    /\ IsVar(a) /\ IsVar(b) /\ a.id # b.id /\ {a.id, b.id} \cap DOMAIN r.sub = {}
    /\ n.sub = Insert(Insert(r.sub, a.id, Var(r.next, a.cs \cup b.cs)), b.id, Var(r.next, a.cs \cup b.cs))
    /\ n.next = r.next + 1 /\ n.pending = r.pending /\ n.result = "ok"
    /\ n.constraints = r.constraints

Items(a, b) == [i \in DOMAIN a.args |-> <<a.args[i], b.args[i]>>]

\* The items of two types are left to do.
Descends(r, n, a, b) ==
    /\ ~IsGeneric(a) /\ ~IsGeneric(b) /\ a.k = b.k /\ a.id = b.id /\ Len(a.args) = Len(b.args)
    /\ n.sub = r.sub /\ n.next = r.next /\ n.result = "ok" /\ n.constraints = r.constraints
    /\ n.pending \in Seq(Type \X Type) /\ n.pending = Items(a, b) \o r.pending
    /\ Range(n.pending) = {<<a.args[i], b.args[i]>> : i \in DOMAIN a.args} \cup Range(r.pending)

\* Why types cannot be made equal.
Clash(a, b) ==
    \/ IsFixed(a) /\ IsFixed(b) /\ a.id # b.id
    \/ \E fixed, v \in {a, b} : IsFixed(fixed) /\ IsVar(v) /\ ~(v.cs \subseteq fixed.cs)
    \/ \E v, ty \in {a, b} : IsVar(v) /\ ~IsGeneric(ty) /\ {v, ty} = {a, b} /\ v \in Leaves(ty)
    \/ ~IsVar(a) /\ ~IsVar(b) /\ BaseType(a) # BaseType(b)
    \/ ~IsGeneric(a) /\ ~IsGeneric(b) /\ Len(a.args) # Len(b.args)

Fails(r, n, a, b) ==
    Clash(a, b) /\ n.result # "ok" /\ n.pending = <<>> /\ n.sub = r.sub

Outcome(r, n, a, b) ==
    \/ n = r /\ a = b
    \/ Binds(r, n, a, b)
    \/ Binds(r, n, b, a)
    \/ Merges(r, n, a, b)
    \/ Descends(r, n, a, b)
    \/ Fails(r, n, a, b)

\* Types that are up to date.
Ready(r, a, b) ==
    /\ r \in Unifiers /\ r.result = "ok" /\ a \in Type /\ b \in Type
    /\ Free(a, DOMAIN r.sub) /\ Free(b, DOMAIN r.sub)
    /\ \A l, m \in Leaves(a) \cup Leaves(b) : l.id = m.id => l = m
    /\ \A l \in Leaves(a) \cup Leaves(b) : l.id < r.next
    /\ \A i \in DOMAIN r.sub : i < r.next

LEMMA Ready2 ==
    ASSUME NEW r, NEW a, NEW b, Ready(r, a, b)
    PROVE  Ready(r, b, a)
BY DEF Ready

LEMMA InsertType ==
    ASSUME NEW r \in Unifiers, NEW index \in Nat, NEW ty \in Type
    PROVE  Insert(r.sub, index, ty) \in UNION {[indices -> Type] : indices \in SUBSET Nat}
<1>1. PICK indices \in SUBSET Nat : r.sub \in [indices -> Type]
    BY DEF Unifiers
<1>2. Insert(r.sub, index, ty) \in [indices \cup {index} -> Type]
    BY <1>1 DEF Insert
<1> QED
    BY <1>2

LEMMA AddCases ==
    ASSUME NEW r \in Unifiers, r.result = "ok", NEW index \in Nat, index \notin DOMAIN r.sub, NEW ty \in Type
    PROVE  /\ Add(r, index, ty) \in Unifiers
           /\ Add(r, index, ty).next = r.next /\ Add(r, index, ty).constraints = r.constraints
           /\ IF \E l \in Leaves(ty) : l.id = index
              THEN /\ Add(r, index, ty).result = "fail" /\ Add(r, index, ty).pending = <<>>
                   /\ Add(r, index, ty).sub = r.sub
              ELSE /\ Add(r, index, ty).result = "ok" /\ Add(r, index, ty).pending = r.pending
                   /\ Add(r, index, ty).sub = Insert(r.sub, index, ty)
<1>1. Occurs(ty, index) <=> \E l \in Leaves(ty) : l.id = index
    BY DEF Occurs, Indices
<1>2. CASE Occurs(ty, index)
    <2>1. Add(r, index, ty) = [r EXCEPT !.result = "fail", !.pending = <<>>]
        BY <1>2 DEF Add, Fail, Ended
    <2>2. <<>> \in Seq(Type \X Type)
        BY EmptySeq
    <2> QED
        BY <1>1, <1>2, <2>1, <2>2 DEF Unifiers
<1>3. CASE ~Occurs(ty, index)
    <2>1. Add(r, index, ty) = [r EXCEPT !.sub = Insert(r.sub, index, ty)]
        BY <1>3 DEF Add, Unifiers
    <2> DEFINE subs == UNION {[indices -> Type] : indices \in SUBSET Nat}
               more == Insert(r.sub, index, ty)
    <2>2. more \in subs
        BY InsertType
    <2> HIDE DEF subs, more
    <2>3. r \in [sub : subs, constraints : SUBSET (STRING \X Type), next : Nat,
                 pending : Seq(Type \X Type), result : {"ok", "fail", "panic"}]
        BY DEF Unifiers, subs
    <2>4. [r EXCEPT !.sub = more] \in [sub : subs, constraints : SUBSET (STRING \X Type), next : Nat,
                 pending : Seq(Type \X Type), result : {"ok", "fail", "panic"}]
        BY <2>2, <2>3
    <2>5. /\ [r EXCEPT !.sub = more].next = r.next /\ [r EXCEPT !.sub = more].constraints = r.constraints
          /\ [r EXCEPT !.sub = more].result = r.result /\ [r EXCEPT !.sub = more].pending = r.pending
          /\ [r EXCEPT !.sub = more].sub = more
        BY <2>3
    <2>6. Add(r, index, ty) = [r EXCEPT !.sub = more]
        BY <2>1 DEF more
    <2> QED
        BY <1>1, <1>3, <2>4, <2>5, <2>6 DEF Unifiers, subs, more
<1> QED
    BY <1>2, <1>3

LEMMA LeafFree ==
    ASSUME NEW r, NEW a, NEW b, Ready(r, a, b), IsGeneric(a)
    PROVE  Leaves(a) = {a} /\ a.id \notin DOMAIN r.sub /\ a.id \in Nat /\ a.id < r.next /\ a.cs \subseteq STRING
BY GenericParts DEF Ready, Free

LEMMA BindCase ==
    ASSUME NEW r, NEW v, NEW ty, Ready(r, v, ty), IsVar(v), ~IsGeneric(ty)
    PROVE  Bind(r, v, ty) \in Unifiers /\ (Binds(r, Bind(r, v, ty), v, ty) \/ Fails(r, Bind(r, v, ty), v, ty))
<1> DEFINE more == r.constraints \cup {<<c, ty>> : c \in v.cs}
           w == [r EXCEPT !.constraints = more]
           n == Bind(r, v, ty)
<1>1. /\ Leaves(v) = {v} /\ v.id \notin DOMAIN r.sub /\ v.id \in Nat /\ v.cs \subseteq STRING /\ ty \in Type
      /\ r \in Unifiers /\ r.result = "ok"
    BY LeafFree DEF Ready, IsGeneric
<1>2. n = Add(w, v.id, ty)
    BY <1>1 DEF Bind, Unifiers
<1>3. w \in Unifiers /\ w.result = "ok" /\ w.sub = r.sub /\ w.next = r.next /\ w.pending = r.pending
      /\ w.constraints = more
    <2>1. more \in SUBSET (STRING \X Type)
        BY <1>1 DEF Unifiers
    <2> HIDE DEF more
    <2> QED
        BY <1>1, <2>1 DEF Unifiers
<1> HIDE DEF w
<1>4. CASE \E l \in Leaves(ty) : l.id = v.id
    <2>1. v \in Leaves(ty)
        BY <1>1, <1>4 DEF Ready
    <2>2. n \in Unifiers /\ n.result = "fail" /\ n.pending = <<>> /\ n.sub = r.sub
        BY <1>1, <1>2, <1>3, <1>4, AddCases
    <2> HIDE DEF n
    <2>3. Clash(v, ty)
        BY <1>1, <2>1 DEF Clash
    <2>4. Fails(r, n, v, ty)
        BY <2>2, <2>3 DEF Fails
    <2> QED
        BY <2>2, <2>4 DEF n
<1>5. CASE ~\E l \in Leaves(ty) : l.id = v.id
    <2>1. n \in Unifiers /\ n.next = r.next /\ n.constraints = more /\ n.result = "ok"
          /\ n.pending = r.pending /\ n.sub = Insert(r.sub, v.id, ty)
        BY <1>1, <1>2, <1>3, <1>5, AddCases
    <2>2. Free(ty, DOMAIN r.sub \cup {v.id})
        BY <1>5 DEF Ready, Free
    <2> HIDE DEF n
    <2>3. Binds(r, n, v, ty)
        BY <1>1, <2>1, <2>2 DEF Binds, IsGeneric
    <2> QED
        BY <2>1, <2>3 DEF n
<1> QED
    BY <1>4, <1>5

LEMMA EndedCase ==
    ASSUME NEW r \in Unifiers, NEW result \in {"fail", "panic"}
    PROVE  /\ Ended(r, result) \in Unifiers /\ Ended(r, result).result # "ok"
           /\ Ended(r, result).pending = <<>> /\ Ended(r, result).sub = r.sub
<1>1. <<>> \in Seq(Type \X Type)
    BY EmptySeq
<1> QED
    BY <1>1 DEF Ended, Unifiers

\* Variables are bound to a type with their constraints.
LEMMA AddBinds ==
    ASSUME NEW r, NEW v, NEW ty, Ready(r, v, ty), IsVar(v), IsGeneric(ty), v.id # ty.id,
           IsVar(ty) => ty.cs = v.cs, IsFixed(ty) => v.cs \subseteq ty.cs
    PROVE  Add(r, v.id, ty) \in Unifiers /\ Binds(r, Add(r, v.id, ty), v, ty)
<1> DEFINE n == Add(r, v.id, ty)
<1>1. /\ v.id \notin DOMAIN r.sub /\ v.id \in Nat /\ ty \in Type /\ r \in Unifiers /\ r.result = "ok"
      /\ Leaves(ty) = {ty} /\ ty.id \notin DOMAIN r.sub
    <2>1. Ready(r, ty, v) /\ IsGeneric(v)
        BY Ready2 DEF IsGeneric
    <2> QED
        BY <2>1, LeafFree DEF Ready
<1>2. n \in Unifiers /\ n.next = r.next /\ n.constraints = r.constraints /\ n.result = "ok"
      /\ n.pending = r.pending /\ n.sub = Insert(r.sub, v.id, ty)
    BY <1>1, AddCases
<1>3. Free(ty, DOMAIN r.sub \cup {v.id})
    BY <1>1 DEF Free
<1> HIDE DEF n
<1>4. Binds(r, n, v, ty)
    BY <1>1, <1>2, <1>3 DEF Binds
<1> QED
    BY <1>2, <1>4 DEF n

LEMMA FixedCase ==
    ASSUME NEW r, NEW fixed, NEW v, Ready(r, fixed, v), IsFixed(fixed), IsVar(v)
    PROVE  /\ UnifyFixed(r, fixed, v) \in Unifiers
           /\ Binds(r, UnifyFixed(r, fixed, v), v, fixed) \/ Fails(r, UnifyFixed(r, fixed, v), fixed, v)
<1>1. Ready(r, v, fixed) /\ IsGeneric(fixed) /\ IsGeneric(v) /\ ~IsVar(fixed)
    BY Ready2 DEF IsGeneric, IsVar, IsFixed
<1>2. CASE v.cs \subseteq fixed.cs
    <2>1. v.id # fixed.id
        <3>1. v \in Leaves(v) /\ fixed \in Leaves(fixed)
            BY <1>1, LeafFree
        <3> QED
            BY <1>1, <3>1 DEF Ready
    <2>2. UnifyFixed(r, fixed, v) = Add(r, v.id, fixed)
        BY <1>2 DEF UnifyFixed
    <2> QED
        BY <1>1, <1>2, <2>1, <2>2, AddBinds
<1>3. CASE ~(v.cs \subseteq fixed.cs)
    <2>1. UnifyFixed(r, fixed, v) = Ended(r, "fail")
        BY <1>3 DEF UnifyFixed, Fail
    <2>2. Clash(fixed, v)
        BY <1>3 DEF Clash
    <2> QED
        BY <2>1, <2>2, EndedCase DEF Fails, Ready
<1> QED
    BY <1>2, <1>3

LEMMA VarsCase ==
    ASSUME NEW r, NEW a, NEW b, Ready(r, a, b), IsVar(a), IsVar(b)
    PROVE  UnifyVars(r, a, b) \in Unifiers /\ Outcome(r, UnifyVars(r, a, b), a, b)
<1> DEFINE n == UnifyVars(r, a, b)
<1>1. /\ Leaves(a) = {a} /\ a.id \notin DOMAIN r.sub /\ a.id \in Nat /\ a.cs \subseteq STRING /\ a.id < r.next
      /\ Leaves(b) = {b} /\ b.id \notin DOMAIN r.sub /\ b.id \in Nat /\ b.cs \subseteq STRING /\ b.id < r.next
      /\ IsGeneric(a) /\ IsGeneric(b) /\ ~IsFixed(a) /\ ~IsFixed(b)
    <2>1. Ready(r, b, a) /\ IsGeneric(a) /\ IsGeneric(b) /\ ~IsFixed(a) /\ ~IsFixed(b)
        BY Ready2 DEF IsGeneric, IsVar, IsFixed
    <2> QED
        BY <2>1, LeafFree
<1>2. CASE a.id = b.id
    <2>1. a = b
        BY <1>1, <1>2 DEF Ready
    <2>2. n = r
        BY <1>2, <2>1 DEF UnifyVars
    <2> QED
        BY <2>1, <2>2 DEF Outcome, Ready
<1>3. CASE a.id # b.id /\ a.cs = b.cs
    <2>1. n = Add(r, a.id, b)
        BY <1>3 DEF UnifyVars
    <2>2. n \in Unifiers /\ Binds(r, n, a, b)
        BY <1>1, <1>3, <2>1, AddBinds
    <2> QED
        BY <2>2 DEF Outcome
<1>4. CASE a.id # b.id /\ a.cs # b.cs
    <2> DEFINE m == Var(r.next, a.cs \cup b.cs)
               w == [r EXCEPT !.next = r.next + 1]
               x == Add(w, a.id, m)
    <2>1. n = Add(x, b.id, m)
        BY <1>4 DEF UnifyVars, Ready, Unifiers
    <2>2. w \in Unifiers /\ w.result = "ok" /\ w.sub = r.sub /\ w.next = r.next + 1 /\ w.pending = r.pending
          /\ w.constraints = r.constraints
        BY DEF Ready, Unifiers
    <2>3. m \in Type /\ Leaves(m) = {m} /\ m.id = r.next
        <3>1. r.next \in Nat
            BY DEF Ready, Unifiers
        <3> QED
            BY <1>1, <3>1, NewVar
    <2> HIDE DEF m, w
    <2>4. /\ x \in Unifiers /\ x.next = r.next + 1 /\ x.constraints = r.constraints /\ x.result = "ok"
          /\ x.pending = r.pending /\ x.sub = Insert(r.sub, a.id, m)
        BY <1>1, <2>2, <2>3, AddCases
    <2>5. b.id \notin DOMAIN x.sub
        BY <1>1, <1>4, <2>4 DEF Insert
    <2> HIDE DEF x
    <2>6. /\ n \in Unifiers /\ n.next = r.next + 1 /\ n.constraints = r.constraints /\ n.result = "ok"
          /\ n.pending = r.pending /\ n.sub = Insert(Insert(r.sub, a.id, m), b.id, m)
        BY <1>1, <2>1, <2>3, <2>4, <2>5, AddCases
    <2> HIDE DEF n
    <2>7. Merges(r, n, a, b)
        BY <1>1, <1>4, <2>6 DEF Merges, m
    <2> QED
        BY <2>6, <2>7 DEF Outcome, n
<1> QED
    BY <1>2, <1>3, <1>4

LEMMA ItemsCase ==
    ASSUME NEW r, NEW a, NEW b, Ready(r, a, b), ~IsGeneric(a), ~IsGeneric(b), BaseType(a) = BaseType(b),
           Len(a.args) = Len(b.args)
    PROVE  /\ UnifyItems(r, a.args, b.args) \in Unifiers
           /\ Descends(r, UnifyItems(r, a.args, b.args), a, b)
<1> DEFINE items == Items(a, b)
           n == UnifyItems(r, a.args, b.args)
<1>1. /\ Len(a.args) \in Nat /\ DOMAIN a.args = 1..Len(a.args) /\ DOMAIN b.args = DOMAIN a.args
      /\ \A i \in DOMAIN a.args : a.args[i] \in Type /\ b.args[i] \in Type
    BY TypeParts DEF Ready
<1>2. items \in Seq(Type \X Type)
    <2>1. items \in [1..Len(a.args) -> Type \X Type]
        BY <1>1 DEF Items
    <2> QED
        BY <1>1, <2>1
<1>3. Range(items) = {<<a.args[i], b.args[i]>> : i \in DOMAIN a.args}
    BY DEF Range, Items
<1>4. r \in Unifiers /\ r.result = "ok" /\ r.pending \in Seq(Type \X Type)
    BY DEF Ready, Unifiers
<1>5. n = [r EXCEPT !.pending = items \o r.pending]
    BY <1>4 DEF UnifyItems, Unifiers, Items
<1> HIDE DEF items
<1>6. items \o r.pending \in Seq(Type \X Type) /\ Range(items \o r.pending) = Range(items) \cup Range(r.pending)
    BY <1>2, <1>4, ConcatProperties, RangeConcatenation
<1> DEFINE more == items \o r.pending
<1>7. n = [r EXCEPT !.pending = more] /\ more \in Seq(Type \X Type) /\ Range(more) = Range(items) \cup Range(r.pending)
    BY <1>5, <1>6
<1>11. more = Items(a, b) \o r.pending
    BY DEF items
<1> HIDE DEF more, n
<1>8. /\ n \in Unifiers /\ n.sub = r.sub /\ n.next = r.next /\ n.result = "ok" /\ n.constraints = r.constraints
      /\ n.pending = more
    BY <1>4, <1>7 DEF Unifiers
<1>9. a.k = b.k /\ a.id = b.id
    BY DEF BaseType
<1>10. Descends(r, n, a, b)
    BY <1>3, <1>7, <1>8, <1>9, <1>11 DEF Descends
<1> QED
    BY <1>8, <1>10 DEF n

LEMMA OutcomeSym ==
    ASSUME NEW r, NEW n, NEW a, NEW b, Binds(r, n, a, b) \/ Fails(r, n, b, a)
    PROVE  Outcome(r, n, a, b)
<1>1. Clash(b, a) => Clash(a, b)
    <2>1. {a, b} = {b, a}
        OBVIOUS
    <2> QED
        BY <2>1 DEF Clash
<1> QED
    BY <1>1 DEF Outcome, Fails

\* What unify does with two types that are up to date.
LEMMA UnifyCases ==
    ASSUME NEW r, NEW a, NEW b, Ready(r, a, b)
    PROVE  UnifyTypes(r, a, b) \in Unifiers /\ Outcome(r, UnifyTypes(r, a, b), a, b)
<1> DEFINE n == UnifyTypes(r, a, b)
<1>0. Ready(r, b, a) /\ r \in Unifiers
    BY Ready2 DEF Ready
<1>1. CASE IsVar(a) /\ IsVar(b)
    <2>1. n = UnifyVars(r, a, b)
        BY <1>1 DEF UnifyTypes, IsGeneric, IsVar, IsFixed
    <2> QED
        BY <1>1, <2>1, VarsCase
<1>2. CASE IsFixed(a) /\ IsFixed(b)
    <2>1. n = IF a.id = b.id THEN r ELSE Ended(r, "fail")
        BY <1>2 DEF UnifyTypes, IsGeneric, IsVar, IsFixed, Fail
    <2>2. CASE a.id = b.id
        <3>1. a \in Leaves(a) /\ b \in Leaves(b)
            BY <1>0, <1>2, LeafFree DEF IsGeneric
        <3>2. a = b
            BY <2>2, <3>1 DEF Ready
        <3> QED
            BY <1>0, <2>1, <2>2, <3>2 DEF Outcome
    <2>3. CASE a.id # b.id
        <3>1. Clash(a, b)
            BY <1>2, <2>3 DEF Clash
        <3> QED
            BY <1>0, <2>1, <2>3, <3>1, EndedCase DEF Outcome, Fails
    <2> QED
        BY <2>2, <2>3
<1>3. CASE IsFixed(a) /\ IsVar(b)
    <2>1. n = UnifyFixed(r, a, b)
        BY <1>3 DEF UnifyTypes, IsGeneric, IsVar, IsFixed
    <2> QED
        BY <1>3, <2>1, FixedCase DEF Outcome
<1>4. CASE IsVar(a) /\ IsFixed(b)
    <2>1. n = UnifyFixed(r, b, a)
        BY <1>4 DEF UnifyTypes, IsGeneric, IsVar, IsFixed
    <2> QED
        BY <1>0, <1>4, <2>1, FixedCase, OutcomeSym
<1>5. CASE IsVar(a) /\ ~IsGeneric(b)
    <2>1. n = Bind(r, a, b)
        BY <1>5 DEF UnifyTypes, IsGeneric, IsVar, IsFixed
    <2> QED
        BY <1>5, <2>1, BindCase DEF Outcome
<1>6. CASE ~IsGeneric(a) /\ IsVar(b)
    <2>1. n = Bind(r, b, a)
        BY <1>6 DEF UnifyTypes, IsGeneric, IsVar, IsFixed
    <2>2. n \in Unifiers /\ (Binds(r, n, b, a) \/ Fails(r, n, b, a))
        BY <1>0, <1>6, <2>1, BindCase
    <2> HIDE DEF n
    <2>3. Outcome(r, n, a, b)
        BY <2>2, OutcomeSym DEF Outcome
    <2> QED
        BY <2>2, <2>3 DEF n
<1>7. CASE ~IsVar(a) /\ ~IsVar(b) /\ ~(IsFixed(a) /\ IsFixed(b))
    <2>1. n = IF BaseType(a) # BaseType(b) THEN Ended(r, "fail")
              ELSE IF Len(a.args) = Len(b.args) THEN UnifyItems(r, a.args, b.args)
              ELSE IF a.k = "Named" THEN Ended(r, "panic") ELSE Ended(r, "fail")
        BY <1>7 DEF UnifyTypes, IsGeneric, IsVar, IsFixed, Fail, Panic
    <2>2. CASE BaseType(a) # BaseType(b)
        <3>1. Clash(a, b)
            BY <1>7, <2>2 DEF Clash
        <3> QED
            BY <1>0, <2>1, <2>2, <3>1, EndedCase DEF Outcome, Fails
    <2>3. CASE BaseType(a) = BaseType(b)
        <3>1. ~IsGeneric(a) /\ ~IsGeneric(b)
            <4>1. a \in Type /\ b \in Type
                BY DEF Ready
            <4>2. \A t \in Type : ~IsGeneric(t) => t.k # "Generic"
                BY TypeParts
            <4> QED
                BY <1>7, <2>3, <4>1, <4>2 DEF BaseType, IsGeneric
        <3>2. CASE Len(a.args) = Len(b.args)
            BY <2>1, <2>3, <3>1, <3>2, ItemsCase DEF Outcome
        <3>3. CASE Len(a.args) # Len(b.args)
            <4>1. Clash(a, b)
                BY <3>1, <3>3 DEF Clash
            <4>2. n = Ended(r, "fail") \/ n = Ended(r, "panic")
                BY <2>1, <2>3, <3>3
            <4> QED
                BY <1>0, <4>1, <4>2, EndedCase DEF Outcome, Fails
        <3> QED
            BY <3>2, <3>3
    <2> QED
        BY <2>2, <2>3
<1> QED
    BY <1>1, <1>2, <1>3, <1>4, <1>5, <1>6, <1>7 DEF IsGeneric

-----------------------------------------------------------------------------
(* The next of the pending calls. *)

Rest(u) == [u EXCEPT !.pending = Tail(@)]
Left(u) == Applied(u, Head(u.pending)[1])
Right(u) == Applied(u, Head(u.pending)[2])

LEMMA NextIsUnify == \A u : UnifyNext(u) = UnifyTypes(Rest(u), Left(u), Right(u))
BY DEF UnifyNext, Rest, Left, Right

LEMMA Popped ==
    ASSUME NEW u \in Unifiers, u.pending # <<>>
    PROVE  /\ Rest(u) \in Unifiers /\ Rest(u).sub = u.sub /\ Rest(u).constraints = u.constraints
           /\ Rest(u).next = u.next /\ Rest(u).result = u.result
           /\ Head(u.pending)[1] \in Type /\ Head(u.pending)[2] \in Type
           /\ Range(u.pending) = {Head(u.pending)} \cup Range(Rest(u).pending)
<1>1. u.pending \in Seq(Type \X Type)
    BY DEF Unifiers
<1>2. Head(u.pending) \in Type \X Type /\ Tail(u.pending) \in Seq(Type \X Type)
    BY <1>1, HeadTailProperties
<1>3. /\ Rest(u) \in Unifiers /\ Rest(u).sub = u.sub /\ Rest(u).constraints = u.constraints
      /\ Rest(u).next = u.next /\ Rest(u).result = u.result /\ Rest(u).pending = Tail(u.pending)
    BY <1>2 DEF Rest, Unifiers
<1>4. ASSUME NEW s \in Seq(Type \X Type), s # <<>>
      PROVE  Range(s) = {Head(s)} \cup Range(Tail(s))
    <2>1. /\ Tail(s) \in Seq(Type \X Type) /\ Len(Tail(s)) = Len(s) - 1
          /\ \A i \in 1..Len(Tail(s)) : Tail(s)[i] = s[i + 1]
        BY <1>4, HeadTailProperties
    <2>2. DOMAIN s = 1..Len(s) /\ Len(s) \in Nat /\ DOMAIN Tail(s) = 1..Len(Tail(s))
        BY <2>1, LenProperties
    <2>3. Len(s) > 0
        BY <1>4, <2>2, EmptySeq
    <2>4. Head(s) = s[1]
        OBVIOUS
    <2>5. \A i \in 1..Len(s) : i = 1 \/ (i - 1 \in 1..Len(Tail(s)) /\ Tail(s)[i - 1] = s[i])
        <3> TAKE i \in 1..Len(s)
        <3>1. i # 1 => i - 1 \in 1..Len(Tail(s)) /\ (i - 1) + 1 = i
            BY <2>1, <2>2
        <3> QED
            BY <2>1, <3>1
    <2>6. \A i \in 1..Len(Tail(s)) : i + 1 \in 1..Len(s)
        BY <2>1, <2>2
    <2>7. Range(s) \subseteq {Head(s)} \cup Range(Tail(s))
        BY <2>2, <2>4, <2>5 DEF Range
    <2>8. Range(Tail(s)) \subseteq Range(s)
        BY <2>1, <2>2, <2>6 DEF Range
    <2>9. Head(s) \in Range(s)
        BY <2>2, <2>3, <2>4 DEF Range
    <2> QED
        BY <2>7, <2>8, <2>9
<1> QED
    BY <1>1, <1>2, <1>3, <1>4

LEMMA LeavesOf ==
    ASSUME NEW pairs, NEW pair \in pairs
    PROVE  Leaves(pair[1]) \subseteq LeavesOfPairs(pairs) /\ Leaves(pair[2]) \subseteq LeavesOfPairs(pairs)
BY DEF LeavesOfPairs

LEMMA LeavesOfUnion ==
    ASSUME NEW start, NEW second
    PROVE  LeavesOfPairs(start \cup second) = LeavesOfPairs(start) \cup LeavesOfPairs(second)
BY DEF LeavesOfPairs

LEMMA ReadyNext ==
    ASSUME NEW u, NEW eqs, NEW start, Sound(u), Coherent(u, eqs, start), AboutKnown(u, eqs), u.pending # <<>>
    PROVE  /\ Ready(Rest(u), Left(u), Right(u))
           /\ Leaves(Left(u)) \subseteq Known(u, eqs) /\ Leaves(Right(u)) \subseteq Known(u, eqs)
           /\ Left(u) = Apply(u.sub, Head(u.pending)[1]) /\ Right(u) = Apply(u.sub, Head(u.pending)[2])
<1> DEFINE p == Head(u.pending)
<1>1. u \in Unifiers /\ u.result = "ok" /\ Resolvable(u.sub)
    BY DEF Sound
<1>2. p[1] \in Type /\ p[2] \in Type /\ p \in Range(u.pending)
    BY <1>1, Popped
<1>3. Leaves(p[1]) \subseteq Known(u, eqs) /\ Leaves(p[2]) \subseteq Known(u, eqs)
    BY <1>2, LeavesOf DEF AboutKnown
<1> HIDE DEF p
<1>4. ASSUME NEW ty \in Type, Leaves(ty) \subseteq Known(u, eqs)
      PROVE  /\ Apply(u.sub, ty) \in Type /\ Free(Apply(u.sub, ty), DOMAIN u.sub)
             /\ Leaves(Apply(u.sub, ty)) \subseteq Known(u, eqs)
    <2>1. Apply(u.sub, ty) \in Type
        BY <1>1, ApplyDef
    <2>2. ASSUME NEW l \in Leaves(Apply(u.sub, ty))
          PROVE  l.id \notin DOMAIN u.sub /\ l \in Known(u, eqs)
        <3>1. l.id \notin DOMAIN u.sub /\ (l \in Leaves(ty) \/ \E i \in DOMAIN u.sub : l \in Leaves(u.sub[i]))
            BY <1>1, ApplyLeaves
        <3> QED
            BY <1>4, <3>1 DEF Known
    <2> QED
        BY <2>1, <2>2 DEF Free
<1>5. Left(u) = Apply(u.sub, p[1]) /\ Right(u) = Apply(u.sub, p[2])
    BY DEF Left, Right, Applied, p
<1>6. \A i \in DOMAIN u.sub : i < u.next
    BY DEF AboutKnown, Coherent, Variables
<1>7. Rest(u) \in Unifiers /\ Rest(u).result = "ok" /\ Rest(u).sub = u.sub /\ Rest(u).next = u.next
    BY <1>1, Popped
<1>8. /\ Left(u) \in Type /\ Free(Left(u), DOMAIN u.sub) /\ Leaves(Left(u)) \subseteq Known(u, eqs)
      /\ Right(u) \in Type /\ Free(Right(u), DOMAIN u.sub) /\ Leaves(Right(u)) \subseteq Known(u, eqs)
    BY <1>2, <1>3, <1>4, <1>5
<1>9. Ready(Rest(u), Left(u), Right(u))
    BY <1>6, <1>7, <1>8 DEF Ready, Coherent
<1> QED
    BY <1>5, <1>8, <1>9 DEF p

\* The substitution stays one that can be applied, and finite.
LEMMA SoundNext ==
    ASSUME NEW u, NEW n \in Unifiers, NEW r, NEW a, NEW b, Sound(u), Ready(r, a, b), Outcome(r, n, a, b),
           r.sub = u.sub
    PROVE  Sound(n)
<1>1. Resolvable(r.sub) /\ IsFiniteSet(DOMAIN r.sub)
    BY DEF Sound
<1>2. /\ r \in Unifiers /\ r.result = "ok" /\ a \in Type /\ b \in Type
      /\ Free(a, DOMAIN r.sub) /\ Free(b, DOMAIN r.sub)
    BY DEF Ready
<1>3. n.result # "ok" => n.pending = <<>>
    BY <1>2 DEF Outcome, Binds, Merges, Descends, Fails
<1>4. ASSUME NEW v, NEW ty \in Type, Binds(r, n, v, ty)
      PROVE  Resolvable(n.sub) /\ IsFiniteSet(DOMAIN n.sub)
    <2>1. n.sub = Insert(r.sub, v.id, ty) /\ v.id \notin DOMAIN r.sub /\ Free(ty, DOMAIN r.sub \cup {v.id})
        BY <1>4 DEF Binds
    <2>2. DOMAIN n.sub = DOMAIN r.sub \cup {v.id}
        BY <2>1 DEF Insert
    <2> QED
        BY <1>1, <2>1, <2>2, Extend, FS_AddElement
<1>5. CASE Merges(r, n, a, b)
    <2> DEFINE m == Var(r.next, a.cs \cup b.cs)
               x == Insert(r.sub, a.id, m)
    <2>1. /\ IsGeneric(a) /\ IsGeneric(b) /\ a.id # b.id /\ a.id \notin DOMAIN r.sub /\ b.id \notin DOMAIN r.sub
          /\ n.sub = Insert(x, b.id, m)
        BY <1>5 DEF Merges, IsGeneric
    <2>2. r.next \in Nat /\ a.cs \subseteq STRING /\ b.cs \subseteq STRING /\ a.id < r.next /\ b.id < r.next
          /\ a.id \in Nat /\ b.id \in Nat
        BY <1>2, <2>1, GenericParts DEF Ready, Unifiers
    <2>3. m \in Type /\ Leaves(m) = {m} /\ m.id = r.next
        BY <2>2, NewVar
    <2> HIDE DEF m
    <2>4. Free(m, DOMAIN r.sub \cup {a.id})
        BY <2>2, <2>3 DEF Ready, Free
    <2>5. Resolvable(x)
        BY <1>1, <2>1, <2>3, <2>4, Extend
    <2>6. DOMAIN x = DOMAIN r.sub \cup {a.id}
        BY DEF Insert
    <2> HIDE DEF x
    <2>7. b.id \notin DOMAIN x /\ Free(m, DOMAIN x \cup {b.id})
        BY <2>1, <2>2, <2>3, <2>6 DEF Ready, Free
    <2>8. Resolvable(Insert(x, b.id, m))
        BY <2>3, <2>5, <2>7, Extend
    <2>9. DOMAIN n.sub = DOMAIN x \cup {b.id}
        BY <2>1 DEF Insert
    <2>10. IsFiniteSet(DOMAIN n.sub)
        BY <1>1, <2>6, <2>9, FS_AddElement
    <2> QED
        BY <1>3, <2>1, <2>8, <2>10 DEF Sound
<1>6. CASE n.sub = r.sub
    BY <1>1, <1>3, <1>6 DEF Sound
<1> QED
    BY <1>2, <1>3, <1>4, <1>5, <1>6 DEF Outcome, Descends, Fails, Sound

Bound(sub) == UNION {Leaves(sub[i]) : i \in DOMAIN sub}

\* A substitution with a binding more.
Inserted(more, sub, index, ty) ==
    /\ index \notin DOMAIN sub /\ DOMAIN more = DOMAIN sub \cup {index} /\ more[index] = ty
    /\ \A i \in DOMAIN sub : more[i] = sub[i]

LEMMA BoundInsert ==
    ASSUME NEW more, NEW sub, NEW index, NEW ty, Inserted(more, sub, index, ty)
    PROVE  Bound(more) = Bound(sub) \cup Leaves(ty)
BY DEF Bound, Inserted

\* A step of unify that does not fail.
Step(u, eqs, start, r, n, a, b) ==
    /\ Sound(u) /\ Coherent(u, eqs, start) /\ AboutKnown(u, eqs) /\ Typed(eqs)
    /\ r.sub = u.sub /\ r.constraints = u.constraints /\ r.next = u.next
    /\ Range(r.pending) \subseteq Range(u.pending)
    /\ Ready(r, a, b) /\ Leaves(a) \subseteq Known(u, eqs) /\ Leaves(b) \subseteq Known(u, eqs)
    /\ n \in Unifiers /\ n.result = "ok"

\* A binding to a known type makes no new leaves.
LEMMA KnownBinds ==
    ASSUME NEW u, NEW eqs, NEW r, NEW n, NEW v, NEW ty, r.sub = u.sub, Binds(r, n, v, ty),
           Leaves(ty) \subseteq Known(u, eqs)
    PROVE  /\ Known(n, eqs) = Known(u, eqs)
           /\ DOMAIN n.sub = DOMAIN u.sub \cup {v.id} /\ n.sub[v.id] = ty
           /\ \A i \in DOMAIN u.sub : n.sub[i] = u.sub[i]
<1>1. Inserted(n.sub, u.sub, v.id, ty)
    BY DEF Binds, Insert, Inserted
<1>2. Bound(n.sub) = Bound(u.sub) \cup Leaves(ty)
    BY <1>1, BoundInsert
<1>3. Known(n, eqs) = Known(u, eqs)
    BY <1>2 DEF Known, Bound
<1> QED
    BY <1>1, <1>3 DEF Inserted

\* The two variables are bound to m, which is new.
Merged(u, eqs, n, a, b, m) ==
    /\ m \in Type /\ IsVar(m) /\ m.id = u.next /\ m.cs = a.cs \cup b.cs /\ Leaves(m) = {m}
    /\ u.next \in Nat /\ a \in Type /\ b \in Type
    /\ Leaves(a) = {a} /\ Leaves(b) = {b} /\ a.id < u.next /\ b.id < u.next
    /\ Known(n, eqs) = Known(u, eqs) \cup {m}
    /\ DOMAIN n.sub = DOMAIN u.sub \cup {a.id, b.id} /\ n.sub[a.id] = m /\ n.sub[b.id] = m
    /\ \A i \in DOMAIN u.sub : n.sub[i] = u.sub[i]

LEMMA KnownMerges ==
    ASSUME NEW u, NEW eqs, NEW start, NEW r, NEW n, NEW a, NEW b, Step(u, eqs, start, r, n, a, b), Merges(r, n, a, b)
    PROVE  Merged(u, eqs, n, a, b, Var(u.next, a.cs \cup b.cs))
<1> DEFINE m == Var(u.next, a.cs \cup b.cs)
           x == Insert(u.sub, a.id, m)
<1>1. /\ IsGeneric(a) /\ IsGeneric(b) /\ a.id # b.id /\ a.id \notin DOMAIN u.sub /\ b.id \notin DOMAIN u.sub
      /\ n.sub = Insert(x, b.id, m)
    BY DEF Merges, IsGeneric, Step
<1>2. /\ a \in Type /\ b \in Type /\ u.next \in Nat /\ a.cs \subseteq STRING /\ b.cs \subseteq STRING
      /\ Leaves(a) = {a} /\ Leaves(b) = {b} /\ a.id < u.next /\ b.id < u.next
    BY <1>1, GenericParts DEF Step, Ready, Unifiers
<1>3. m \in Type /\ IsVar(m) /\ m.id = u.next /\ m.cs = a.cs \cup b.cs /\ Leaves(m) = {m}
    BY <1>2, NewVar
<1> HIDE DEF m
<1>4. Inserted(x, u.sub, a.id, m)
    BY <1>1 DEF Insert, Inserted
<1>5. Inserted(n.sub, x, b.id, m)
    BY <1>1 DEF Insert, Inserted
<1> HIDE DEF x
<1>6. Bound(x) = Bound(u.sub) \cup {m} /\ Bound(n.sub) = Bound(x) \cup {m}
    BY <1>3, <1>4, <1>5, BoundInsert
<1>7. Known(n, eqs) = Known(u, eqs) \cup {m}
    BY <1>6 DEF Known, Bound
<1>8. /\ DOMAIN n.sub = DOMAIN u.sub \cup {a.id, b.id} /\ n.sub[a.id] = m /\ n.sub[b.id] = m
      /\ \A i \in DOMAIN u.sub : n.sub[i] = u.sub[i]
    BY <1>4, <1>5 DEF Inserted
<1> QED
    BY <1>2, <1>3, <1>7, <1>8 DEF m, Merged

LEMMA KnownSame ==
    ASSUME NEW u, NEW eqs, NEW n, n.sub = u.sub
    PROVE  Known(n, eqs) = Known(u, eqs)
BY DEF Known

LEMMA PartsKnown ==
    ASSUME NEW u, NEW eqs, NEW start, NEW r, NEW n, NEW a, NEW b, Step(u, eqs, start, r, n, a, b), Descends(r, n, a, b)
    PROVE  LeavesOfPairs(Range(n.pending)) \subseteq Known(u, eqs)
<1>1. LeavesOfPairs(Range(r.pending)) \subseteq Known(u, eqs)
    BY DEF Step, AboutKnown, LeavesOfPairs
<1>2. a \in Type /\ b \in Type /\ DOMAIN b.args = DOMAIN a.args
    BY TypeParts DEF Step, Ready, Descends
<1>3. \A i \in DOMAIN a.args : Leaves(a.args[i]) \subseteq Known(u, eqs) /\ Leaves(b.args[i]) \subseteq Known(u, eqs)
    BY <1>2, PartLeaves DEF Step
<1> DEFINE items == {<<a.args[i], b.args[i]>> : i \in DOMAIN a.args}
<1>4. LeavesOfPairs(items) \subseteq Known(u, eqs)
    BY <1>3 DEF LeavesOfPairs
<1>5. Range(n.pending) = items \cup Range(r.pending)
    BY DEF Descends
<1> HIDE DEF items
<1> QED
    BY <1>1, <1>4, <1>5, LeavesOfUnion

LEMMA KnownTypes ==
    ASSUME NEW u, NEW eqs, Sound(u), Typed(eqs)
    PROVE  /\ \A l \in Known(u, eqs) : l \in Type /\ IsGeneric(l) /\ l.id \in Nat /\ Leaves(l) = {l}
           /\ \A e \in eqs : e[1] \in Type /\ e[2] \in Type
<1>1. \A e \in eqs : e[1] \in Type /\ e[2] \in Type
    BY DEF Typed
<1>2. \A i \in DOMAIN u.sub : u.sub[i] \in Type
    BY ResolvableTypes DEF Sound
<1>3. ASSUME NEW l \in Known(u, eqs)
      PROVE  \E ty \in Type : l \in Leaves(ty)
    BY <1>1, <1>2 DEF Known, LeavesOfPairs
<1>4. ASSUME NEW l \in Known(u, eqs)
      PROVE  l \in Type /\ IsGeneric(l) /\ l.id \in Nat /\ Leaves(l) = {l}
    <2>1. l \in Type /\ IsGeneric(l) /\ l.id \in Nat
        BY <1>3, LeavesGeneric
    <2> QED
        BY <2>1, GenericParts
<1> QED
    BY <1>1, <1>4

LEMMA CoherentNext ==
    ASSUME NEW u, NEW eqs, NEW start, NEW r, NEW n, NEW a, NEW b, Step(u, eqs, start, r, n, a, b), Outcome(r, n, a, b)
    PROVE  Coherent(n, eqs, start) /\ AboutKnown(n, eqs)
<1>0. /\ u \in Unifiers /\ u.next \in Nat /\ r.sub = u.sub /\ r.constraints = u.constraints /\ r.next = u.next
      /\ Coherent(u, eqs, start) /\ AboutKnown(u, eqs) /\ start \in Nat
      /\ a \in Type /\ b \in Type /\ Leaves(a) \subseteq Known(u, eqs) /\ Leaves(b) \subseteq Known(u, eqs)
    BY DEF Step, Sound, Unifiers, Ready, Coherent
<1>1. LeavesOfPairs(Range(r.pending)) \subseteq Known(u, eqs)
    BY DEF Step, AboutKnown, LeavesOfPairs
<1>2. ASSUME NEW v \in Type, NEW ty, Binds(r, n, v, ty),
             Leaves(v) \subseteq Known(u, eqs), Leaves(ty) \subseteq Known(u, eqs)
      PROVE  Coherent(n, eqs, start) /\ AboutKnown(n, eqs)
    <2>1. /\ Known(n, eqs) = Known(u, eqs) /\ DOMAIN n.sub = DOMAIN u.sub \cup {v.id}
          /\ n.next = u.next /\ n.pending = r.pending /\ IsVar(v) /\ v \in Known(u, eqs)
        <3>1. IsVar(v) /\ Leaves(v) = {v}
            BY <1>2, GenericParts DEF Binds, IsGeneric
        <3>2. n.next = u.next /\ n.pending = r.pending
            BY <1>0, <1>2 DEF Binds
        <3>3. Known(n, eqs) = Known(u, eqs) /\ DOMAIN n.sub = DOMAIN u.sub \cup {v.id}
            BY <1>0, <1>2, KnownBinds
        <3> QED
            BY <1>2, <3>1, <3>2, <3>3
    <2>2. Coherent(n, eqs, start)
        BY <1>0, <2>1 DEF Coherent
    <2>3. \A i \in DOMAIN n.sub : \E w \in Variables(Known(n, eqs)) : w.id = i
        BY <1>0, <2>1 DEF AboutKnown, Variables
    <2>4. ASSUME NEW c \in n.constraints
          PROVE  Leaves(c[2]) \subseteq Known(n, eqs)
        <3>1. c \in u.constraints \/ c \in {<<d, ty>> : d \in v.cs}
            BY <1>0, <1>2, <2>4 DEF Binds
        <3> QED
            BY <1>0, <1>2, <2>1, <3>1 DEF AboutKnown
    <2> QED
        BY <1>1, <2>1, <2>2, <2>3, <2>4 DEF AboutKnown
<1>3. CASE Merges(r, n, a, b)
    <2> DEFINE m == Var(u.next, a.cs \cup b.cs)
    <2>0. Merged(u, eqs, n, a, b, m)
        BY <1>3, KnownMerges
    <2> HIDE DEF m
    <2>1. /\ IsVar(m) /\ m.id = u.next /\ Leaves(a) = {a} /\ Leaves(b) = {b}
          /\ Known(n, eqs) = Known(u, eqs) \cup {m}
          /\ DOMAIN n.sub = DOMAIN u.sub \cup {a.id, b.id}
        BY <2>0 DEF Merged
    <2>2. /\ n.next = u.next + 1 /\ n.pending = r.pending /\ n.constraints = u.constraints
          /\ IsVar(a) /\ IsVar(b) /\ a \in Known(u, eqs) /\ b \in Known(u, eqs)
        BY <1>0, <1>3, <2>1 DEF Merges
    <2>3. \A l \in Known(u, eqs) : l.id < u.next
        BY <1>0 DEF Coherent
    <2>4. Coherent(n, eqs, start)
        <3>1. start <= n.next
            BY <1>0, <2>2 DEF Coherent
        <3>2. ASSUME NEW l \in Known(n, eqs)
              PROVE  l.id < n.next /\ (l \in LeavesOfPairs(eqs) \/ (IsVar(l) /\ start <= l.id))
            <4>1. CASE l = m
                BY <1>0, <2>1, <2>2, <4>1 DEF Coherent
            <4>2. CASE l \in Known(u, eqs)
                <5>1. l.id < u.next /\ (l \in LeavesOfPairs(eqs) \/ (IsVar(l) /\ start <= l.id))
                    BY <1>0, <4>2 DEF Coherent
                <5>2. l.id < u.next + 1
                    <6>1. l.id \in Nat
                        <7>1. l \in Type
                            BY <4>2, KnownTypes DEF Step
                        <7> QED
                            BY <7>1, TypeParts
                    <6> QED
                        BY <1>0, <5>1, <6>1
                <5> QED
                    BY <2>2, <5>1, <5>2
            <4> QED
                BY <2>1, <4>1, <4>2
        <3>3. \A l, k \in Known(n, eqs) : l.id = k.id => l = k
            <4>1. \A l \in Known(u, eqs) : l.id # u.next
                BY <1>0, <2>3
            <4> QED
                BY <1>0, <2>1, <4>1 DEF Coherent
        <3> QED
            BY <1>0, <3>1, <3>2, <3>3 DEF Coherent
    <2>5. \A i \in DOMAIN n.sub : \E w \in Variables(Known(n, eqs)) : w.id = i
        BY <1>0, <2>1, <2>2 DEF AboutKnown, Variables
    <2>6. \A c \in n.constraints : Leaves(c[2]) \subseteq Known(n, eqs)
        BY <1>0, <2>1, <2>2 DEF AboutKnown
    <2> QED
        BY <1>1, <2>1, <2>2, <2>4, <2>5, <2>6 DEF AboutKnown
<1>4. CASE n.sub = u.sub /\ n.next = u.next /\ n.constraints = u.constraints
           /\ LeavesOfPairs(Range(n.pending)) \subseteq Known(u, eqs)
    <2>1. Known(n, eqs) = Known(u, eqs)
        BY <1>4, KnownSame
    <2> QED
        BY <1>0, <1>4, <2>1 DEF Coherent, AboutKnown
<1>5. CASE Descends(r, n, a, b)
    BY <1>0, <1>4, <1>5, PartsKnown DEF Descends
<1>6. CASE n = r
    BY <1>0, <1>1, <1>4, <1>6
<1>7. ~Fails(r, n, a, b)
    BY DEF Step, Fails
<1> QED
    BY <1>0, <1>2, <1>3, <1>5, <1>6, <1>7 DEF Outcome

\* No constraint is forgotten.
LEMMA KeepsNext ==
    ASSUME NEW u, NEW eqs, NEW start, NEW r, NEW n, NEW a, NEW b, Step(u, eqs, start, r, n, a, b), Outcome(r, n, a, b),
           Keeps(u, eqs)
    PROVE  Keeps(n, eqs)
<1>0. /\ r.sub = u.sub /\ r.constraints = u.constraints /\ a \in Type /\ b \in Type /\ Coherent(u, eqs, start)
      /\ Leaves(a) \subseteq Known(u, eqs) /\ Leaves(b) \subseteq Known(u, eqs) /\ AboutKnown(u, eqs)
    BY DEF Step, Ready
<1>1. ASSUME NEW v \in Type, NEW ty, Binds(r, n, v, ty), Leaves(v) \subseteq Known(u, eqs),
             Leaves(ty) \subseteq Known(u, eqs)
      PROVE  Keeps(n, eqs)
    <2>1. /\ Known(n, eqs) = Known(u, eqs) /\ DOMAIN n.sub = DOMAIN u.sub \cup {v.id} /\ n.sub[v.id] = ty
          /\ \A i \in DOMAIN u.sub : n.sub[i] = u.sub[i]
        BY <1>0, <1>1, KnownBinds
    <2>2. v \in Known(u, eqs)
        BY <1>1, GenericParts DEF Binds, IsGeneric
    <2>3. /\ IsVar(ty) => ty.cs = v.cs
          /\ IsFixed(ty) => v.cs \subseteq ty.cs
          /\ n.constraints = u.constraints \cup IF IsGeneric(ty) THEN {} ELSE {<<c, ty>> : c \in v.cs}
        BY <1>0, <1>1 DEF Binds
    <2>4. ASSUME NEW w \in Variables(Known(n, eqs)), w.id \in DOMAIN n.sub
          PROVE  IF IsGeneric(n.sub[w.id]) THEN w.cs \subseteq n.sub[w.id].cs
                 ELSE \A c \in w.cs : <<c, n.sub[w.id]>> \in n.constraints
        <3>1. CASE w.id \in DOMAIN u.sub
            <4>1. w \in Variables(Known(u, eqs)) /\ n.sub[w.id] = u.sub[w.id]
                BY <2>1, <3>1
            <4> QED
                BY <2>3, <3>1, <4>1 DEF Keeps
        <3>2. CASE w.id = v.id
            <4>1. w = v
                BY <1>0, <2>1, <2>2, <3>2 DEF Coherent, Variables
            <4> QED
                BY <2>1, <2>3, <4>1 DEF IsGeneric
        <3> QED
            BY <2>1, <2>4, <3>1, <3>2
    <2> QED
        BY <2>4 DEF Keeps
<1>2. CASE Merges(r, n, a, b)
    <2> DEFINE m == Var(u.next, a.cs \cup b.cs)
    <2>1. Merged(u, eqs, n, a, b, m)
        BY <1>2, KnownMerges
    <2>2. n.constraints = u.constraints
        BY <1>0, <1>2 DEF Merges
    <2> HIDE DEF m
    <2>3. ASSUME NEW w \in Variables(Known(n, eqs)), w.id \in DOMAIN n.sub
          PROVE  IF IsGeneric(n.sub[w.id]) THEN w.cs \subseteq n.sub[w.id].cs
                 ELSE \A c \in w.cs : <<c, n.sub[w.id]>> \in n.constraints
        <3>1. w # m
            <4>1. \A i \in DOMAIN u.sub : i < u.next
                BY <1>0 DEF AboutKnown, Coherent, Variables
            <4>2. \A i \in DOMAIN n.sub : i < u.next
                BY <2>1, <4>1 DEF Merged
            <4> QED
                BY <2>1, <2>3, <4>2 DEF Merged
        <3>2. w \in Variables(Known(u, eqs))
            BY <2>1, <3>1 DEF Merged, Variables
        <3>3. CASE w.id \in DOMAIN u.sub
            BY <2>1, <2>2, <3>2, <3>3 DEF Keeps, Merged
        <3>4. CASE w.id = a.id \/ w.id = b.id
            <4>1. w = a \/ w = b
                BY <1>0, <2>1, <3>2, <3>4 DEF Merged, Coherent, Variables
            <4>2. n.sub[w.id] = m /\ IsGeneric(m)
                BY <2>1, <3>4 DEF Merged, IsGeneric
            <4> QED
                BY <2>1, <4>1, <4>2 DEF Merged
        <3> QED
            BY <2>1, <2>3, <3>3, <3>4 DEF Merged
    <2> QED
        BY <2>3 DEF Keeps
<1>3. CASE n.sub = u.sub /\ n.constraints = u.constraints
    BY <1>3, KnownSame DEF Keeps
<1>4. ~Fails(r, n, a, b)
    BY DEF Step, Fails
<1> QED
    BY <1>0, <1>1, <1>2, <1>3, <1>4 DEF Outcome, Descends

\* Composite types are made equal by what makes their parts equal.
LEMMA CompositesEqual ==
    ASSUME NEW s, Resolvable(s), NEW a \in Type, NEW b \in Type, ~IsGeneric(a), ~IsGeneric(b),
           a.k = b.k, a.id = b.id, Len(a.args) = Len(b.args)
    PROVE  Apply(s, a) = Apply(s, b) <=> \A i \in DOMAIN a.args : Apply(s, a.args[i]) = Apply(s, b.args[i])
<1> DEFINE x == Apply(s, a)
           y == Apply(s, b)
<1>1. DOMAIN a.args = DOMAIN b.args
    BY TypeParts
<1>2. /\ x \in Type /\ ~IsGeneric(x) /\ x.k = a.k /\ x.id = a.id /\ Len(x.args) = Len(a.args)
      /\ DOMAIN x.args = DOMAIN a.args
      /\ \A i \in DOMAIN a.args : x.args[i] = Apply(s, a.args[i])
    BY ApplyComposite
<1>3. /\ y \in Type /\ ~IsGeneric(y) /\ y.k = b.k /\ y.id = b.id /\ Len(y.args) = Len(b.args)
      /\ DOMAIN y.args = DOMAIN b.args
      /\ \A i \in DOMAIN b.args : y.args[i] = Apply(s, b.args[i])
    BY ApplyComposite
<1> HIDE DEF x, y
<1>4. ASSUME \A i \in DOMAIN a.args : Apply(s, a.args[i]) = Apply(s, b.args[i])
      PROVE  x = y
    <2>1. \A i \in DOMAIN y.args : x.args[i] = y.args[i]
        BY <1>1, <1>2, <1>3, <1>4
    <2> QED
        BY <1>2, <1>3, <2>1, SameComposite
<1>5. ASSUME x = y, NEW i \in DOMAIN a.args
      PROVE  Apply(s, a.args[i]) = Apply(s, b.args[i])
    BY <1>1, <1>2, <1>3, <1>5
<1> QED
    BY <1>4, <1>5 DEF x, y

\* The pair at hand is equal when it is equal up to date.
LEMMA PairAtHand ==
    ASSUME NEW u, NEW s, Resolvable(s), Resolvable(u.sub), Respects(s, u.sub), u \in Unifiers, u.pending # <<>>
    PROVE  Equalizes(s, Range(u.pending)) <=>
                /\ Apply(s, Left(u)) = Apply(s, Right(u))
                /\ Equalizes(s, Range(Rest(u).pending))
<1> DEFINE p == Head(u.pending)
<1>1. p[1] \in Type /\ p[2] \in Type /\ Range(u.pending) = {p} \cup Range(Rest(u).pending)
    BY Popped
<1>2. Left(u) = Apply(u.sub, p[1]) /\ Right(u) = Apply(u.sub, p[2])
    BY DEF Left, Right, Applied
<1> HIDE DEF p
<1>3. Apply(s, Left(u)) = Apply(s, p[1]) /\ Apply(s, Right(u)) = Apply(s, p[2])
    BY <1>1, <1>2, ApplyTwice
<1> QED
    BY <1>1, <1>3 DEF Equalizes

\* What solves the rest solves everything.
LEMMA ProgressNext ==
    ASSUME NEW u, NEW eqs, NEW start, NEW n, Step(u, eqs, start, Rest(u), n, Left(u), Right(u)), u.pending # <<>>,
           Outcome(Rest(u), n, Left(u), Right(u)), Progress(u, eqs)
    PROVE  Progress(n, eqs)
<1> DEFINE r == Rest(u)
           a == Left(u)
           b == Right(u)
<1>0. /\ Step(u, eqs, start, r, n, a, b) /\ Outcome(r, n, a, b) /\ u \in Unifiers /\ Resolvable(u.sub)
      /\ r.sub = u.sub /\ a \in Type /\ b \in Type
      /\ Leaves(a) \subseteq Known(u, eqs) /\ Leaves(b) \subseteq Known(u, eqs)
    BY DEF Step, Sound, Ready
<1> SUFFICES ASSUME NEW s, Resolvable(s), Respects(s, n.sub), Equalizes(s, Range(n.pending))
             PROVE  Equalizes(s, eqs)
    BY DEF Progress
<1>1. ASSUME \A i \in DOMAIN u.sub : i \in DOMAIN n.sub /\ n.sub[i] = u.sub[i],
             Range(n.pending) = Range(r.pending) \/ Equalizes(s, Range(r.pending)),
             Respects(s, u.sub) => Apply(s, a) = Apply(s, b)
      PROVE  Equalizes(s, eqs)
    <2>1. Respects(s, u.sub)
        BY <1>1 DEF Respects
    <2>2. Equalizes(s, Range(r.pending))
        BY <1>1 DEF Equalizes
    <2>3. Equalizes(s, Range(u.pending))
        BY <1>0, <1>1, <2>1, <2>2, PairAtHand
    <2> QED
        BY <2>1, <2>3 DEF Progress
<1> HIDE DEF r, a, b
<1>2. ASSUME NEW v \in Type, NEW ty, Binds(r, n, v, ty), Leaves(ty) \subseteq Known(u, eqs), {v, ty} = {a, b}
      PROVE  Equalizes(s, eqs)
    <2>1. /\ DOMAIN n.sub = DOMAIN u.sub \cup {v.id} /\ n.sub[v.id] = ty
          /\ \A i \in DOMAIN u.sub : n.sub[i] = u.sub[i]
        <3>1. r.sub = u.sub /\ Binds(r, n, v, ty) /\ Leaves(ty) \subseteq Known(u, eqs)
            BY <1>0, <1>2
        <3> QED
            BY ONLY <3>1, KnownBinds
    <2>2. n.pending = r.pending /\ IsGeneric(v)
        BY <1>2 DEF Binds, IsGeneric
    <2>3. Apply(s, v) = Apply(s, ty)
        BY <2>1, <2>2 DEF Respects
    <2>4. Apply(s, a) = Apply(s, b)
        BY <1>2, <2>3
    <2> QED
        BY <1>1, <2>1, <2>2, <2>4
<1>3. CASE Merges(r, n, a, b)
    <2> DEFINE m == Var(u.next, a.cs \cup b.cs)
    <2>1. Merged(u, eqs, n, a, b, m)
        BY <1>0, <1>3, KnownMerges
    <2> HIDE DEF m
    <2>2. n.pending = r.pending /\ IsGeneric(a) /\ IsGeneric(b)
        BY <1>3 DEF Merges, IsGeneric
    <2>3. Apply(s, a) = Apply(s, m) /\ Apply(s, b) = Apply(s, m)
        BY <1>0, <2>1, <2>2 DEF Respects, Merged
    <2>4. \A i \in DOMAIN u.sub : i \in DOMAIN n.sub /\ n.sub[i] = u.sub[i]
        BY <2>1 DEF Merged
    <2> QED
        BY <1>1, <2>2, <2>3, <2>4
<1>4. CASE Descends(r, n, a, b)
    <2>1. n.sub = u.sub /\ Range(n.pending) = {<<a.args[i], b.args[i]>> : i \in DOMAIN a.args} \cup Range(r.pending)
        BY <1>0, <1>4 DEF Descends
    <2>2. Equalizes(s, Range(r.pending)) /\ \A i \in DOMAIN a.args : Apply(s, a.args[i]) = Apply(s, b.args[i])
        <3>1. \A i \in DOMAIN a.args : <<a.args[i], b.args[i]>> \in Range(n.pending)
            BY <2>1
        <3>2. \A x, y : <<x, y>> \in Range(n.pending) => Apply(s, x) = Apply(s, y)
            BY DEF Equalizes
        <3>3. Equalizes(s, Range(r.pending))
            BY <2>1 DEF Equalizes
        <3> QED
            BY <3>1, <3>2, <3>3
    <2>3. Apply(s, a) = Apply(s, b)
        BY <1>0, <1>4, <2>2, CompositesEqual DEF Descends
    <2> QED
        BY <1>1, <2>1, <2>2, <2>3
<1>5. CASE n = r /\ a = b
    BY <1>0, <1>1, <1>5
<1>6. ~Fails(r, n, a, b)
    BY DEF Step, Fails
<1> QED
    BY <1>0, <1>2, <1>3, <1>4, <1>5, <1>6 DEF Outcome

\* A call of unify that is under way.
UnderWay(u, eqs, start) ==
    /\ Sound(u) /\ Coherent(u, eqs, start) /\ AboutKnown(u, eqs) /\ Typed(eqs)
    /\ u.pending # <<>>

LEMMA NextOutcome ==
    ASSUME NEW u, NEW eqs, NEW start, UnderWay(u, eqs, start)
    PROVE  /\ Ready(Rest(u), Left(u), Right(u)) /\ UnifyNext(u) \in Unifiers
           /\ Outcome(Rest(u), UnifyNext(u), Left(u), Right(u)) /\ Sound(UnifyNext(u))
           /\ UnifyNext(u).result = "ok" => Step(u, eqs, start, Rest(u), UnifyNext(u), Left(u), Right(u))
<1>1. u \in Unifiers /\ Sound(u) /\ Coherent(u, eqs, start) /\ AboutKnown(u, eqs) /\ u.pending # <<>>
      /\ Typed(eqs)
    BY DEF UnderWay, Sound
<1>2. /\ Ready(Rest(u), Left(u), Right(u))
      /\ Leaves(Left(u)) \subseteq Known(u, eqs) /\ Leaves(Right(u)) \subseteq Known(u, eqs)
    BY <1>1, ReadyNext
<1>3. UnifyNext(u) \in Unifiers /\ Outcome(Rest(u), UnifyNext(u), Left(u), Right(u))
    BY <1>2, UnifyCases, NextIsUnify
<1>4. Rest(u).sub = u.sub /\ Rest(u).constraints = u.constraints /\ Rest(u).next = u.next
      /\ Range(Rest(u).pending) \subseteq Range(u.pending)
    BY <1>1, Popped
<1>5. Sound(UnifyNext(u))
    BY <1>1, <1>2, <1>3, <1>4, SoundNext
<1> QED
    BY <1>1, <1>2, <1>3, <1>4, <1>5 DEF Step

LEMMA CallDef ==
    ASSUME NEW u \in Unifiers, NEW a \in Type, NEW b \in Type
    PROVE  LET n == CallUnify(u, a, b)
           IN  /\ n \in Unifiers /\ n.sub = u.sub /\ n.constraints = u.constraints /\ n.next = u.next
               /\ n.result = u.result /\ Range(n.pending) = {<<a, b>>} /\ n.pending # <<>>
<1> DEFINE p == <<<<a, b>>>>
<1>1. p \in Seq(Type \X Type) /\ Range(p) = {<<a, b>>} /\ p # <<>>
    <2>1. p = [i \in 1..1 |-> <<a, b>>]
        OBVIOUS
    <2> QED
        BY <2>1 DEF Range
<1> HIDE DEF p
<1>2. CallUnify(u, a, b) = [u EXCEPT !.pending = p]
    BY DEF CallUnify, p
<1> QED
    BY <1>1, <1>2 DEF Unifiers

\* What a unifier has found out applies to all known types.
OpenLeaves(u, eqs) == {l \in Known(u, eqs) : l.id \notin DOMAIN u.sub}

LEMMA FinalKnown ==
    ASSUME NEW u, NEW eqs, Sound(u), NEW ty \in Type, Leaves(ty) \subseteq Known(u, eqs)
    PROVE  Apply(u.sub, ty) \in Type /\ Leaves(Apply(u.sub, ty)) \subseteq OpenLeaves(u, eqs)
<1>1. Resolvable(u.sub)
    BY DEF Sound
<1>2. Apply(u.sub, ty) \in Type
    BY <1>1, ApplyDef
<1>3. ASSUME NEW l \in Leaves(Apply(u.sub, ty))
      PROVE  l \in OpenLeaves(u, eqs)
    <2>1. l.id \notin DOMAIN u.sub /\ (l \in Leaves(ty) \/ \E i \in DOMAIN u.sub : l \in Leaves(u.sub[i]))
        BY <1>1, ApplyLeaves
    <2>2. l \in Known(u, eqs)
        BY <2>1 DEF Known
    <2> QED
        BY <2>1, <2>2 DEF OpenLeaves
<1> QED
    BY <1>2, <1>3

-----------------------------------------------------------------------------
(* Every call of unify returns. *)

Iterates(f, u) == f = [n \in Nat |-> IF n = 0 THEN u ELSE GoOn(f[n - 1])]

\* The pending calls come to an end.
Returns(u) == \E f : Iterates(f, u) /\ \E k \in Nat : f[k].pending = <<>>

LEMMA ReturnsAtOnce ==
    ASSUME NEW u, u.pending = <<>>
    PROVE  Returns(u)
<1> DEFINE f == [n \in Nat |-> u]
<1>1. GoOn(u) = u
    BY DEF GoOn
<1>2. \A n \in Nat : f[n] = u /\ (n # 0 => n - 1 \in Nat /\ f[n - 1] = u)
    OBVIOUS
<1>3. f = [n \in Nat |-> IF n = 0 THEN u ELSE GoOn(f[n - 1])]
    <2>1. \A n \in Nat : (IF n = 0 THEN u ELSE GoOn(f[n - 1])) = u
        BY <1>1, <1>2
    <2> HIDE DEF f
    <2>2. [n \in Nat |-> IF n = 0 THEN u ELSE GoOn(f[n - 1])] = [n \in Nat |-> u]
        BY <2>1
    <2> QED
        BY <2>2 DEF f
<1>4. f[0].pending = <<>>
    BY <1>2
<1> HIDE DEF f
<1> QED
    BY <1>3, <1>4 DEF Returns, Iterates

LEMMA ReturnsLater ==
    ASSUME NEW u, u.pending # <<>>, Returns(UnifyNext(u))
    PROVE  Returns(u)
<1>1. PICK f : Iterates(f, UnifyNext(u)) /\ \E k \in Nat : f[k].pending = <<>>
    BY DEF Returns
<1>2. PICK k \in Nat : f[k].pending = <<>>
    BY <1>1
<1> DEFINE g == [n \in Nat |-> IF n = 0 THEN u ELSE f[n - 1]]
<1>3. \A n \in Nat : f[n] = IF n = 0 THEN UnifyNext(u) ELSE GoOn(f[n - 1])
    BY <1>1 DEF Iterates
<1>4. GoOn(u) = UnifyNext(u)
    BY DEF GoOn
<1>5. ASSUME NEW n \in Nat, n # 0
      PROVE  f[n - 1] = GoOn(g[n - 1])
    <2>1. CASE n = 1
        BY <1>3, <1>4, <2>1
    <2>2. CASE n # 1
        <3>1. n - 1 \in Nat /\ n - 1 # 0 /\ (n - 1) - 1 \in Nat
            BY <1>5, <2>2
        <3>2. g[n - 1] = f[(n - 1) - 1]
            BY <3>1
        <3>3. f[n - 1] = GoOn(f[(n - 1) - 1])
            BY <1>3, <3>1
        <3> QED
            BY <3>2, <3>3
    <2> QED
        BY <2>1, <2>2
<1>6. g = [n \in Nat |-> IF n = 0 THEN u ELSE GoOn(g[n - 1])]
    BY <1>5
<1>7. g[k + 1].pending = <<>>
    BY <1>2
<1> HIDE DEF g
<1>8. k + 1 \in Nat
    OBVIOUS
<1> QED
    BY <1>6, <1>7, <1>8 DEF Returns, Iterates

\* A call under way that has not failed.
Running(u, eqs, start) ==
    /\ Sound(u) /\ Coherent(u, eqs, start) /\ AboutKnown(u, eqs) /\ Typed(eqs)
    /\ u.result = "ok"

OpenIds(u, eqs) == {l.id : l \in OpenLeaves(u, eqs)}
OpenCount(u, eqs) == Cardinality(OpenIds(u, eqs))

\* The pending pairs from the one after the first i ones on.
From(u, i) == [u EXCEPT !.pending = SubSeq(@, i + 1, Len(@))]

LEMMA OpenFinite ==
    ASSUME NEW u, NEW eqs, NEW start, Running(u, eqs, start)
    PROVE  IsFiniteSet(OpenIds(u, eqs)) /\ OpenCount(u, eqs) \in Nat
<1>1. u.next \in Nat /\ \A l \in Known(u, eqs) : l.id \in Nat /\ l.id < u.next
    BY KnownTypes DEF Running, Sound, Unifiers, Coherent
<1>2. OpenIds(u, eqs) \in SUBSET Nat /\ \A i \in OpenIds(u, eqs) : i <= u.next
    BY <1>1 DEF OpenIds, OpenLeaves
<1>3. IsFiniteSet(OpenIds(u, eqs))
    BY <1>1, <1>2, FS_BoundedSetOfNaturals
<1> QED
    BY <1>3, FS_CardinalityType DEF OpenCount

LEMMA FromSequence ==
    ASSUME NEW S, NEW q \in Seq(S), NEW i \in 0..Len(q)
    PROVE  LET s == SubSeq(q, i + 1, Len(q))
           IN  /\ s \in Seq(S) /\ Range(s) \subseteq Range(q)
               /\ i = Len(q) => s = <<>>
               /\ i = 0 => s = q
               /\ i < Len(q) => s # <<>> /\ Head(s) = q[i + 1] /\ Tail(s) = SubSeq(q, (i + 1) + 1, Len(q))
<1> DEFINE n == Len(q)
           s == SubSeq(q, i + 1, n)
<1>1. n \in Nat /\ i \in Nat /\ i <= n /\ DOMAIN q = 1..n /\ q \in [1..n -> S] /\ n = Len(q)
    BY LenProperties
<1>0. n \in Nat /\ i \in Nat /\ i <= n
    BY <1>1
<1> HIDE DEF n
<1>2. /\ s \in Seq(S) /\ Len(s) = n - i
      /\ \A j \in 1..(n - i) : s[j] = q[i + j]
    <2>1. \A j \in (i + 1)..n : q[j] \in S
        BY <1>1
    <2>2. /\ s \in Seq(S) /\ Len(s) = IF i + 1 <= n THEN n - (i + 1) + 1 ELSE 0
          /\ \A j \in 1..(n - (i + 1) + 1) : s[j] = q[(i + 1) + j - 1]
        BY <1>1, <2>1, SubSeqProperties
    <2> HIDE DEF s
    <2>3. Len(s) = n - i
        <3>1. Len(s) = IF i + 1 <= n THEN n - (i + 1) + 1 ELSE 0
            BY <2>2
        <3> QED
            BY <1>0, <3>1
    <2>4. ASSUME NEW j \in 1..(n - i)
          PROVE  s[j] = q[i + j]
        <3>1. j \in 1..(n - (i + 1) + 1) /\ (i + 1) + j - 1 = i + j
            BY <1>1
        <3> QED
            BY <2>2, <3>1
    <2> QED
        BY <2>2, <2>3, <2>4
<1>3. Range(s) \subseteq Range(q)
    <2> HIDE DEF s
    <2>1. DOMAIN s = 1..(n - i) /\ \A j \in 1..(n - i) : i + j \in DOMAIN q
        BY <1>1, <1>2, LenProperties
    <2> QED
        BY <1>2, <2>1 DEF Range
<1>4. i = n => s = <<>>
    BY <1>1, SubSeqEmpty
<1>5. i = 0 => s = q
    BY <1>1, SubSeqFull
<1>6. ASSUME i < n
      PROVE  s # <<>> /\ Head(s) = q[i + 1] /\ Tail(s) = SubSeq(q, (i + 1) + 1, n)
    <2>1. i + 1 \in 1..n /\ n \in (i + 1)..n
        BY <1>1, <1>6
    <2>2. Head(s) = q[i + 1] /\ Tail(s) = SubSeq(q, (i + 1) + 1, n)
        BY <2>1, HeadTailOfSubSeq
    <2>3. s # <<>>
        <3> HIDE DEF s
        <3>1. Len(s) = n - i
            BY <1>2
        <3>2. n - i # 0
            BY <1>0, <1>6
        <3> QED
            BY <3>1, <3>2, EmptySeq
    <2> QED
        BY <2>2, <2>3
<1> QED
    BY <1>1, <1>2, <1>3, <1>4, <1>5, <1>6

LEMMA FromFacts ==
    ASSUME NEW u, NEW eqs, NEW start, Running(u, eqs, start), NEW i \in 0..Len(u.pending)
    PROVE  LET n == From(u, i)
           IN  /\ Running(n, eqs, start) /\ n.sub = u.sub /\ OpenCount(n, eqs) = OpenCount(u, eqs)
               /\ i = Len(u.pending) => n.pending = <<>>
               /\ i = 0 => n = u
               /\ i < Len(u.pending) => /\ n.pending # <<>> /\ Rest(n) = From(u, i + 1)
                                        /\ Left(n) = Applied(u, u.pending[i + 1][1])
<1> DEFINE q == u.pending
           s == SubSeq(q, i + 1, Len(q))
           n == [u EXCEPT !.pending = s]
<1>1. u \in Unifiers /\ q \in Seq(Type \X Type) /\ u.result = "ok"
    BY DEF Running, Sound, Unifiers
<1>2. /\ s \in Seq(Type \X Type) /\ Range(s) \subseteq Range(q)
      /\ i = Len(q) => s = <<>>
      /\ i = 0 => s = q
      /\ i < Len(q) => s # <<>> /\ Head(s) = q[i + 1] /\ Tail(s) = SubSeq(q, (i + 1) + 1, Len(q))
    <2> HIDE DEF q
    <2>1. q \in Seq(Type \X Type) /\ i \in 0..Len(q)
        BY <1>1 DEF q
    <2> QED
        BY ONLY <2>1, FromSequence
<1>3. From(u, i) = n
    BY DEF From
<1> HIDE DEF s
<1>4. /\ n \in Unifiers /\ n.sub = u.sub /\ n.constraints = u.constraints /\ n.next = u.next
      /\ n.result = u.result /\ n.pending = s
    BY <1>1, <1>2 DEF Unifiers
<1>5. Known(n, eqs) = Known(u, eqs)
    BY <1>4, KnownSame
<1>6. LeavesOfPairs(Range(s)) \subseteq LeavesOfPairs(Range(q))
    BY <1>2 DEF LeavesOfPairs
<1>7. Running(n, eqs, start)
    <2> HIDE DEF n
    <2>1. Sound(n)
        BY <1>1, <1>4 DEF Running, Sound
    <2>2. Coherent(n, eqs, start)
        BY <1>4, <1>5 DEF Running, Coherent
    <2>3. AboutKnown(n, eqs)
        BY <1>4, <1>5, <1>6 DEF Running, AboutKnown
    <2> QED
        BY <1>1, <1>4, <2>1, <2>2, <2>3 DEF Running
<1>8. OpenCount(n, eqs) = OpenCount(u, eqs)
    <2> HIDE DEF n
    <2> QED
        BY <1>4, <1>5 DEF OpenCount, OpenIds, OpenLeaves
<1>9. ASSUME i = 0
      PROVE  n = u
    <2>1. n = [u EXCEPT !.pending = u.pending]
        BY <1>2, <1>9
    <2> QED
        BY <1>1, <2>1 DEF Unifiers
<1>10. ASSUME i < Len(q)
       PROVE  n.pending # <<>> /\ Rest(n) = From(u, i + 1) /\ Left(n) = Applied(u, q[i + 1][1])
    <2> DEFINE t == SubSeq(q, (i + 1) + 1, Len(q))
    <2>1. s # <<>> /\ Head(s) = q[i + 1] /\ Tail(s) = t
        BY <1>2, <1>10
    <2>2. From(u, i + 1) = [u EXCEPT !.pending = t]
        BY DEF From
    <2>3. Rest(n) = [n EXCEPT !.pending = t]
        <3>1. Rest(n) = [n EXCEPT !.pending = Tail(s)]
            BY <1>1, <1>4 DEF Rest, Unifiers
        <3> QED
            BY <2>1, <3>1
    <2> HIDE DEF t
    <2>4. Rest(n) = From(u, i + 1)
        BY <1>1, <2>2, <2>3 DEF Unifiers
    <2>5. Left(n) = Applied(u, q[i + 1][1])
        BY <1>4, <2>1 DEF Left, Applied
    <2> QED
        BY <1>4, <2>1, <2>4, <2>5
<1> HIDE DEF n
<1> QED
    BY <1>2, <1>3, <1>4, <1>7, <1>8, <1>9, <1>10

\* A binding leaves fewer open.
LEMMA FewerOpen ==
    ASSUME NEW u, NEW eqs, NEW start, NEW r, NEW n, NEW a, NEW b, Step(u, eqs, start, r, n, a, b), Running(n, eqs, start), Running(u, eqs, start),
           Binds(r, n, a, b) \/ Binds(r, n, b, a) \/ Merges(r, n, a, b)
    PROVE  OpenCount(n, eqs) < OpenCount(u, eqs)
<1>0. /\ u.next \in Nat /\ r.sub = u.sub /\ a \in Type /\ b \in Type
      /\ Leaves(a) \subseteq Known(u, eqs) /\ Leaves(b) \subseteq Known(u, eqs)
    BY DEF Step, Sound, Unifiers, Ready
<1>1. IsFiniteSet(OpenIds(u, eqs)) /\ OpenCount(u, eqs) \in Nat
    BY OpenFinite
<1>2. ASSUME NEW v \in Type, NEW ty \in Type, Binds(r, n, v, ty),
             Leaves(v) \subseteq Known(u, eqs), Leaves(ty) \subseteq Known(u, eqs)
      PROVE  OpenCount(n, eqs) < OpenCount(u, eqs)
    <2>1. IsVar(v) /\ v.id \notin DOMAIN u.sub
        BY <1>0, <1>2 DEF Binds
    <2>2. v \in Known(u, eqs)
        BY <1>2, <2>1, GenericParts DEF IsGeneric
    <2>3. Known(n, eqs) = Known(u, eqs) /\ DOMAIN n.sub = DOMAIN u.sub \cup {v.id}
        BY <1>0, <1>2, KnownBinds
    <2>4. OpenIds(n, eqs) = OpenIds(u, eqs) \ {v.id} /\ v.id \in OpenIds(u, eqs)
        BY <2>1, <2>2, <2>3 DEF OpenIds, OpenLeaves
    <2>5. Cardinality(OpenIds(u, eqs) \ {v.id}) = Cardinality(OpenIds(u, eqs)) - 1
        BY <1>1, <2>4, FS_RemoveElement
    <2> QED
        BY <1>1, <2>4, <2>5 DEF OpenCount
<1>3. CASE Merges(r, n, a, b)
    <2> DEFINE m == Var(u.next, a.cs \cup b.cs)
               O == OpenIds(u, eqs)
               P == O \ {a.id}
               Q == P \ {b.id}
    <2>1. Merged(u, eqs, n, a, b, m)
        BY <1>3, KnownMerges
    <2> HIDE DEF m
    <2>2. /\ m.id = u.next /\ Leaves(a) = {a} /\ Leaves(b) = {b}
          /\ Known(n, eqs) = Known(u, eqs) \cup {m}
          /\ DOMAIN n.sub = DOMAIN u.sub \cup {a.id, b.id}
        BY <2>1 DEF Merged
    <2>3. /\ a.id # b.id /\ a.id \notin DOMAIN u.sub /\ b.id \notin DOMAIN u.sub
          /\ a \in Known(u, eqs) /\ b \in Known(u, eqs)
        BY <1>0, <1>3, <2>2 DEF Merges
    <2>4. OpenIds(n, eqs) \subseteq Q \cup {u.next}
        BY <2>2 DEF OpenIds, OpenLeaves
    <2>5. a.id \in O /\ b.id \in O /\ b.id \in P
        BY <2>3 DEF OpenIds, OpenLeaves
    <2> HIDE DEF O
    <2>6. IsFiniteSet(O) /\ Cardinality(O) \in Nat
        BY <1>1 DEF O, OpenCount
    <2>7. IsFiniteSet(P) /\ Cardinality(P) = Cardinality(O) - 1
        BY <2>5, <2>6, FS_RemoveElement
    <2> HIDE DEF P
    <2>8. IsFiniteSet(Q) /\ Cardinality(Q) = Cardinality(P) - 1
        BY <2>5, <2>7, FS_RemoveElement
    <2> HIDE DEF Q
    <2>9. IsFiniteSet(Q \cup {u.next}) /\ Cardinality(Q \cup {u.next}) <= Cardinality(Q) + 1
        <3>1. Cardinality(Q) \in Nat
            BY <2>8, FS_CardinalityType
        <3> QED
            BY ONLY <2>8, <3>1, FS_AddElement
    <2>10. Cardinality(OpenIds(n, eqs)) <= Cardinality(Q \cup {u.next})
        BY <2>4, <2>9, FS_Subset
    <2>11. OpenCount(n, eqs) \in Nat /\ Cardinality(Q) \in Nat /\ Cardinality(Q \cup {u.next}) \in Nat
        BY <2>8, <2>9, OpenFinite, FS_CardinalityType
    <2>12. OpenCount(n, eqs) = Cardinality(OpenIds(n, eqs)) /\ OpenCount(u, eqs) = Cardinality(O)
        BY DEF OpenCount, O
    <2> QED
        BY <2>6, <2>7, <2>8, <2>9, <2>10, <2>11, <2>12
<1> QED
    BY <1>0, <1>2, <1>3

\* What comes after the first of two sequences.
LEMMA AfterFirst ==
    ASSUME NEW S, NEW p \in Seq(S), NEW q \in Seq(S)
    PROVE  LET c == p \o q
           IN  /\ Len(p) \in 0..Len(c) /\ \A i \in 1..Len(p) : c[i] = p[i]
               /\ SubSeq(c, Len(p) + 1, Len(c)) = q
<1> DEFINE m == Len(p)
           n == Len(q)
           c == p \o q
<1>1. /\ m \in Nat /\ n \in Nat /\ DOMAIN q = 1..n /\ q \in [1..n -> S]
      /\ c \in Seq(S) /\ Len(c) = m + n
      /\ \A i \in 1..(m + n) : c[i] = IF i <= m THEN p[i] ELSE q[i - m]
    BY LenProperties, ConcatProperties
<1> HIDE DEF m, n, c
<1> DEFINE s == SubSeq(c, m + 1, m + n)
<1>2. m \in 0..(m + n) /\ \A i \in 1..m : i \in 1..(m + n) /\ i <= m
    BY <1>1
<1>3. \A i \in 1..m : c[i] = p[i]
    BY <1>1, <1>2
<1>4. \A j \in (m + 1)..(m + n) : j \in DOMAIN c /\ c[j] \in S
    <2>1. DOMAIN c = 1..(m + n) /\ \A j \in 1..(m + n) : c[j] \in S
        BY <1>1, LenProperties
    <2>2. \A j \in (m + 1)..(m + n) : j \in 1..(m + n)
        BY <1>1
    <2> QED
        BY <2>1, <2>2
<1>5. m + 1 \in Int /\ m + n \in Int
    BY <1>1
<1>6. /\ s \in Seq(S) /\ Len(s) = IF m + 1 <= m + n THEN (m + n) - (m + 1) + 1 ELSE 0
      /\ \A j \in 1..((m + n) - (m + 1) + 1) : s[j] = c[(m + 1) + j - 1]
    BY <1>1, <1>4, <1>5, SubSeqProperties
<1> HIDE DEF s
<1>7. Len(s) = n
    <2>1. Len(s) = IF m + 1 <= m + n THEN (m + n) - (m + 1) + 1 ELSE 0
        BY <1>6
    <2> QED
        BY <1>1, <2>1
<1>8. ASSUME NEW j \in 1..n
      PROVE  s[j] = q[j]
    <2>1. /\ j \in 1..((m + n) - (m + 1) + 1) /\ (m + 1) + j - 1 = m + j
          /\ m + j \in 1..(m + n) /\ ~(m + j <= m) /\ (m + j) - m = j
        BY <1>1
    <2> QED
        BY <1>1, <1>6, <2>1
<1>9. s = q
    <2>1. s = [j \in 1..n |-> s[j]] /\ q = [j \in 1..n |-> q[j]]
        BY <1>1, <1>6, <1>7, LenProperties
    <2> QED
        BY <1>8, <2>1
<1> QED
    BY <1>1, <1>2, <1>3, <1>9 DEF m, n, c, s

\* A call whose first pair has t at its left returns, once the calls after it do.
Quick(t, k, eqs, start) ==
    \A v : Running(v, eqs, start) /\ v.pending # <<>> /\ Left(v) = t /\ OpenCount(v, eqs) <= k /\ Returns(Rest(v)) =>
        Returns(v)

LEMMA OneByOne ==
    ASSUME NEW u, NEW eqs, NEW start, Running(u, eqs, start), NEW k \in Nat, OpenCount(u, eqs) <= k,
           NEW m \in 0..Len(u.pending), Returns(From(u, m)),
           \A i \in 1..m : Quick(Applied(u, u.pending[i][1]), k, eqs, start)
    PROVE  Returns(u)
<1> DEFINE l == Len(u.pending)
           S == {j \in Nat : j <= m => Returns(From(u, m - j))}
<1>0. l \in Nat /\ m \in Nat /\ m <= l
    <2>1. u.pending \in Seq(Type \X Type)
        BY DEF Running, Sound, Unifiers
    <2>2. l \in Nat
        BY <2>1, LenProperties
    <2> QED
        BY <2>2
<1>1. 0 \in S
    <2>1. m - 0 = m
        BY <1>0
    <2> QED
        BY <2>1
<1>2. ASSUME NEW j \in Nat, j \in S
      PROVE  j + 1 \in S
    <2> DEFINE i == m - (j + 1)
    <2> SUFFICES ASSUME j + 1 <= m
                 PROVE  Returns(From(u, i))
        OBVIOUS
    <2>1. i \in 0..l /\ i < l /\ i + 1 = m - j /\ i + 1 \in 1..m /\ j <= m
        BY <1>0
    <2>2. Returns(From(u, i + 1))
        BY <1>2, <2>1
    <2> HIDE DEF i
    <2>3. /\ Running(From(u, i), eqs, start) /\ OpenCount(From(u, i), eqs) <= k /\ From(u, i).pending # <<>>
          /\ Rest(From(u, i)) = From(u, i + 1) /\ Left(From(u, i)) = Applied(u, u.pending[i + 1][1])
        BY <2>1, FromFacts
    <2>4. Quick(Applied(u, u.pending[i + 1][1]), k, eqs, start)
        BY <2>1
    <2> QED
        BY <2>2, <2>3, <2>4 DEF Quick
<1>3. m \in S
    <2> HIDE DEF S
    <2> QED
        BY <1>0, <1>1, <1>2, NumberInduction
<1>4. Returns(From(u, 0))
    <2>1. m <= m /\ m - m = 0
        BY <1>0
    <2> QED
        BY <1>3, <2>1
<1>5. 0 \in 0..l /\ From(u, 0) = u
    <2>1. 0 \in 0..l
        BY <1>0
    <2> QED
        BY <2>1, FromFacts
<1> HIDE DEF S
<1>6. Returns(u)
    BY ONLY <1>4, <1>5, Zenon
<1> QED
    BY <1>6

\* The items of two types are left to do, and they are smaller.
LEMMA ItemsReturn ==
    ASSUME NEW u, NEW eqs, NEW start, NEW k \in Nat, NEW n, NEW r, NEW a, NEW b, Step(u, eqs, start, r, n, a, b),
           Descends(r, n, a, b), Running(n, eqs, start), OpenCount(n, eqs) <= k, Returns(r),
           \A i \in DOMAIN a.args : Quick(a.args[i], k, eqs, start)
    PROVE  Returns(n)
<1> DEFINE p == Items(a, b)
           q == r.pending
           m == Len(p)
<1>1. /\ n \in Unifiers /\ r \in Unifiers /\ a \in Type /\ b \in Type /\ r.result = "ok"
      /\ Free(a, DOMAIN r.sub) /\ Resolvable(n.sub)
    BY DEF Step, Ready, Running, Sound
<1>2. /\ n.sub = r.sub /\ n.next = r.next /\ n.result = "ok" /\ n.constraints = r.constraints
      /\ n.pending = p \o q /\ Len(a.args) = Len(b.args)
    BY DEF Descends
<1>3. /\ DOMAIN a.args = 1..Len(a.args) /\ DOMAIN b.args = 1..Len(a.args) /\ Len(a.args) \in Nat
      /\ \A i \in DOMAIN a.args : a.args[i] \in Type /\ b.args[i] \in Type
    BY <1>1, <1>2, TypeParts
<1>4. p \in Seq(Type \X Type) /\ m = Len(a.args) /\ \A i \in 1..m : p[i] = <<a.args[i], b.args[i]>>
    <2>1. p = [i \in 1..Len(a.args) |-> <<a.args[i], b.args[i]>>]
        BY <1>3 DEF Items
    <2> HIDE DEF p
    <2>2. p \in [1..Len(a.args) -> Type \X Type]
        BY <1>3, <2>1
    <2>3. p \in Seq(Type \X Type)
        BY <1>3, <2>2
    <2>4. m = Len(a.args)
        BY <1>3, <2>2
    <2> QED
        BY <2>1, <2>3, <2>4
<1>5. q \in Seq(Type \X Type)
    BY <1>1 DEF Unifiers
<1> HIDE DEF p, q
<1>6. /\ m \in 0..Len(p \o q) /\ \A i \in 1..m : (p \o q)[i] = p[i]
      /\ SubSeq(p \o q, m + 1, Len(p \o q)) = q
    BY <1>4, <1>5, AfterFirst
<1> HIDE DEF m
<1>7. From(n, m) = r
    <2>1. From(n, m) = [n EXCEPT !.pending = q]
        BY <1>2, <1>6 DEF From
    <2>2. q = r.pending
        BY DEF q
    <2> QED
        BY <1>1, <1>2, <2>1, <2>2 DEF Unifiers
<1>8. ASSUME NEW i \in 1..m
      PROVE  Quick(Applied(n, n.pending[i][1]), k, eqs, start)
    <2>1. i \in DOMAIN a.args /\ n.pending[i][1] = a.args[i]
        BY <1>2, <1>3, <1>4, <1>6
    <2>2. Free(a.args[i], DOMAIN n.sub)
        BY <1>1, <1>2, <2>1, PartLeaves DEF Free
    <2>3. Applied(n, a.args[i]) = a.args[i]
        BY <1>1, <1>3, <2>1, <2>2, ApplyFree DEF Applied
    <2> QED
        BY <2>1, <2>3
<1>9. m \in 0..Len(n.pending) /\ Returns(From(n, m))
    BY <1>2, <1>6, <1>7
<1> QED
    BY <1>8, <1>9, OneByOne

\* Calls return when all that leave less open do: by induction on the type at the left.
LEMMA TypesReturn ==
    ASSUME NEW eqs, NEW start, NEW k \in Nat, \A v : Running(v, eqs, start) /\ OpenCount(v, eqs) < k => Returns(v)
    PROVE  \A t \in Type : Quick(t, k, eqs, start)
<1> DEFINE S == {t \in Type : Quick(t, k, eqs, start)}
<1>1. ASSUME NEW t \in Type, \A i \in DOMAIN t.args : t.args[i] \in S
      PROVE  t \in S
    <2> SUFFICES ASSUME NEW v, Running(v, eqs, start), v.pending # <<>>, Left(v) = t, OpenCount(v, eqs) <= k,
                        Returns(Rest(v))
                 PROVE  Returns(v)
        BY DEF Quick
    <2> DEFINE n == UnifyNext(v)
               r == Rest(v)
               b == Right(v)
    <2>0. \A i \in DOMAIN t.args : Quick(t.args[i], k, eqs, start)
        BY <1>1
    <2> HIDE DEF S
    <2>1. UnderWay(v, eqs, start)
        BY DEF UnderWay, Running
    <2>2. Outcome(r, n, t, b) /\ (n.result = "ok" => Step(v, eqs, start, r, n, t, b)) /\ Sound(n)
        BY <2>1, NextOutcome
    <2> HIDE DEF n, r, b
    <2>3. ASSUME n.result = "ok"
          PROVE  Running(n, eqs, start)
        <3>1. Coherent(n, eqs, start) /\ AboutKnown(n, eqs)
            BY <2>2, <2>3, CoherentNext
        <3> QED
            BY <2>2, <2>3, <3>1 DEF Running
    <2>4. OpenCount(v, eqs) \in Nat
        BY OpenFinite
    <2>5. ASSUME n = r
          PROVE  Returns(n)
        BY <2>5 DEF r
    <2>6. ASSUME Binds(r, n, t, b) \/ Binds(r, n, b, t) \/ Merges(r, n, t, b)
          PROVE  Returns(n)
        <3>1. n.result = "ok"
            BY <2>6 DEF Binds, Merges
        <3>2. OpenCount(n, eqs) < OpenCount(v, eqs)
            BY <2>2, <2>3, <2>6, <3>1, FewerOpen
        <3>3. OpenCount(n, eqs) \in Nat
            BY <2>3, <3>1, OpenFinite
        <3>4. OpenCount(n, eqs) < k
            BY <2>4, <3>2, <3>3
        <3> QED
            BY <2>3, <3>1, <3>4
    <2>7. ASSUME Descends(r, n, t, b)
          PROVE  Returns(n)
        <3>1. n.result = "ok" /\ n.sub = r.sub
            BY <2>7 DEF Descends
        <3>2. Step(v, eqs, start, r, n, t, b) /\ Running(n, eqs, start)
            BY <2>2, <2>3, <3>1
        <3>3. n.sub = v.sub
            BY <3>1, <3>2 DEF Step
        <3>4. Known(n, eqs) = Known(v, eqs)
            BY <3>3, KnownSame
        <3>5. OpenCount(n, eqs) = OpenCount(v, eqs)
            BY <3>3, <3>4 DEF OpenCount, OpenIds, OpenLeaves
        <3>6. Returns(r)
            BY DEF r
        <3>7. OpenCount(n, eqs) <= k
            BY <3>5
        <3> QED
            BY <2>0, <2>7, <3>2, <3>6, <3>7, ItemsReturn
    <2>8. ASSUME Fails(r, n, t, b)
          PROVE  Returns(n)
        <3>1. n.pending = <<>>
            BY <2>8 DEF Fails
        <3> QED
            BY <3>1, ReturnsAtOnce
    <2>9. Returns(n)
        BY <2>2, <2>5, <2>6, <2>7, <2>8 DEF Outcome
    <2> QED
        BY <2>9, ReturnsLater DEF n
<1> HIDE DEF S
<1>2. Type \subseteq S
    BY <1>1, TypeInduction
<1> QED
    BY <1>2 DEF S

\* Every call that has not failed returns: by induction on the number of open variables.
LEMMA RunningReturns ==
    ASSUME NEW eqs, NEW start
    PROVE  \A u : Running(u, eqs, start) => Returns(u)
<1> DEFINE S == {k \in Nat : \A v : Running(v, eqs, start) /\ OpenCount(v, eqs) < k => Returns(v)}
<1>1. 0 \in S
    <2>1. ASSUME NEW v, Running(v, eqs, start)
          PROVE  ~(OpenCount(v, eqs) < 0)
        <3>1. OpenCount(v, eqs) \in Nat
            BY <2>1, OpenFinite
        <3> QED
            BY <3>1
    <2> QED
        BY <2>1
<1>2. ASSUME NEW k \in Nat, k \in S
      PROVE  k + 1 \in S
    <2> SUFFICES ASSUME NEW v, Running(v, eqs, start), OpenCount(v, eqs) < k + 1
                 PROVE  Returns(v)
        OBVIOUS
    <2>1. \A w : Running(w, eqs, start) /\ OpenCount(w, eqs) < k => Returns(w)
        BY <1>2
    <2> HIDE DEF S
    <2>2. \A t \in Type : Quick(t, k, eqs, start)
        BY <2>1, TypesReturn
    <2>3. OpenCount(v, eqs) <= k
        <3>1. OpenCount(v, eqs) \in Nat
            BY OpenFinite
        <3> QED
            BY <3>1
    <2>4. v.pending \in Seq(Type \X Type) /\ Resolvable(v.sub)
        BY DEF Running, Sound, Unifiers
    <2> DEFINE m == Len(v.pending)
    <2>5. m \in 0..m /\ DOMAIN v.pending = 1..m
        BY <2>4, LenProperties
    <2>6. ASSUME NEW i \in 1..m
          PROVE  Quick(Applied(v, v.pending[i][1]), k, eqs, start)
        <3>1. v.pending[i] \in Type \X Type
            BY <2>4, <2>5, ElementOfSeq
        <3>2. v.pending[i][1] \in Type
            BY <3>1
        <3>3. Applied(v, v.pending[i][1]) \in Type
            BY <2>4, <3>2, ApplyDef DEF Applied
        <3> QED
            BY <2>2, <3>3
    <2>7. Returns(From(v, m))
        <3>1. From(v, m).pending = <<>>
            BY <2>5, FromFacts
        <3> QED
            BY <3>1, ReturnsAtOnce
    <2> QED
        BY <2>3, <2>5, <2>6, <2>7, OneByOne
<1>3. Nat \subseteq S
    <2> HIDE DEF S
    <2> QED
        BY <1>1, <1>2, NumberInduction
<1> SUFFICES ASSUME NEW u, Running(u, eqs, start)
             PROVE  Returns(u)
    OBVIOUS
<1>4. OpenCount(u, eqs) \in Nat
    BY OpenFinite
<1>5. OpenCount(u, eqs) + 1 \in S /\ OpenCount(u, eqs) < OpenCount(u, eqs) + 1
    BY <1>3, <1>4
<1> QED
    BY <1>5

-----------------------------------------------------------------------------
(* Unify is where the calls end. *)

LEMMA IteratesSame ==
    ASSUME NEW u, NEW f, Iterates(f, u), NEW g, Iterates(g, u)
    PROVE  f = g
<1> DEFINE S == {n \in Nat : f[n] = g[n]}
<1>1. \A n \in Nat : f[n] = IF n = 0 THEN u ELSE GoOn(f[n - 1])
    BY DEF Iterates
<1>2. \A n \in Nat : g[n] = IF n = 0 THEN u ELSE GoOn(g[n - 1])
    BY DEF Iterates
<1>3. 0 \in S
    BY <1>1, <1>2
<1>4. ASSUME NEW n \in Nat, n \in S
      PROVE  n + 1 \in S
    <2>1. n + 1 \in Nat /\ n + 1 # 0 /\ (n + 1) - 1 = n
        OBVIOUS
    <2>2. f[n + 1] = GoOn(f[n]) /\ g[n + 1] = GoOn(g[n]) /\ f[n] = g[n]
        BY <1>1, <1>2, <1>4, <2>1
    <2> QED
        BY <2>2
<1>5. \A n \in Nat : f[n] = g[n]
    <2>1. Nat \subseteq S
        <3> HIDE DEF S
        <3> QED
            BY <1>3, <1>4, NumberInduction
    <2> QED
        BY <2>1
<1>6. f = [n \in Nat |-> f[n]] /\ g = [n \in Nat |-> g[n]]
    BY DEF Iterates
<1> QED
    BY <1>5, <1>6

\* After the calls have ended nothing changes, so AtTheEnd finds the end.
LEMMA EndIsFound ==
    ASSUME NEW u, NEW f, Iterates(f, u), NEW k \in Nat, f[k].pending = <<>>
    PROVE  AtTheEnd(f) = f[k]
<1> DEFINE Next2(g) == [n \in Nat |-> IF f[n].pending = <<>> THEN f[n] ELSE g[n + 1]]
           last == CHOOSE g : g = Next2(g)
<1>1. \A n \in Nat : f[n + 1] = GoOn(f[n])
    <2>1. \A n \in Nat : f[n] = IF n = 0 THEN u ELSE GoOn(f[n - 1])
        BY DEF Iterates
    <2>2. \A n \in Nat : n + 1 \in Nat /\ n + 1 # 0 /\ (n + 1) - 1 = n
        OBVIOUS
    <2> QED
        BY <2>1, <2>2
<1>2. ASSUME NEW n \in Nat, f[n].pending = <<>>
      PROVE  \A j \in Nat : f[n + j] = f[n]
    <2> DEFINE S == {j \in Nat : f[n + j] = f[n]}
    <2>1. 0 \in S
        OBVIOUS
    <2>2. ASSUME NEW j \in Nat, j \in S
          PROVE  j + 1 \in S
        <3>1. n + j \in Nat /\ n + (j + 1) = (n + j) + 1
            OBVIOUS
        <3>2. f[n + (j + 1)] = GoOn(f[n + j]) /\ f[n + j] = f[n]
            BY <1>1, <2>2, <3>1
        <3>3. GoOn(f[n]) = f[n]
            BY <1>2 DEF GoOn
        <3> QED
            BY <3>2, <3>3
    <2>3. Nat \subseteq S
        <3> HIDE DEF S
        <3> QED
            BY <2>1, <2>2, NumberInduction
    <2> QED
        BY <2>3
<1>3. \A n \in Nat : f[n].pending = <<>> => f[n] = f[k]
    <2> TAKE n \in Nat
    <2> SUFFICES ASSUME f[n].pending = <<>>
                 PROVE  f[n] = f[k]
        OBVIOUS
    <2>1. CASE n <= k
        <3>1. k - n \in Nat /\ n + (k - n) = k
            BY <2>1
        <3> QED
            BY <1>2, <3>1
    <2>2. CASE k <= n
        <3>1. n - k \in Nat /\ k + (n - k) = n
            BY <2>2
        <3> QED
            BY <1>2, <3>1
    <2> QED
        BY <2>1, <2>2
<1>4. last = Next2(last)
    <2> DEFINE g == [n \in Nat |-> f[k]]
    <2>1. \A n \in Nat : (IF f[n].pending = <<>> THEN f[n] ELSE g[n + 1]) = f[k]
        BY <1>3
    <2> HIDE DEF g
    <2>2. Next2(g) = [n \in Nat |-> f[k]]
        BY <2>1
    <2>3. g = Next2(g)
        BY <2>2 DEF g
    <2> HIDE DEF Next2
    <2> QED
        BY <2>3
<1> HIDE DEF last
<1>5. \A n \in Nat : last[n] = IF f[n].pending = <<>> THEN f[n] ELSE last[n + 1]
    BY <1>4
<1> DEFINE T == {j \in Nat : j <= k => last[k - j] = f[k]}
<1>6. 0 \in T
    BY <1>5
<1>7. ASSUME NEW j \in Nat, j \in T
      PROVE  j + 1 \in T
    <2> SUFFICES ASSUME j + 1 <= k
                 PROVE  last[k - (j + 1)] = f[k]
        OBVIOUS
    <2>1. k - (j + 1) \in Nat /\ (k - (j + 1)) + 1 = k - j
        OBVIOUS
    <2>2. last[k - j] = f[k]
        BY <1>7
    <2> QED
        BY <1>3, <1>5, <2>1, <2>2
<1>8. k \in T
    <2> HIDE DEF T
    <2> QED
        BY <1>6, <1>7, NumberInduction
<1>9. last[0] = f[k]
    <2>1. k <= k /\ k - k = 0
        OBVIOUS
    <2> QED
        BY <1>8, <2>1
<1> QED
    BY <1>9 DEF AtTheEnd, last

LEMMA UnifyEnds ==
    ASSUME NEW u, u.result = "ok", NEW a, NEW b, Returns(CallUnify(u, a, b))
    PROVE  \E f : Iterates(f, CallUnify(u, a, b)) /\ \E k \in Nat : f[k].pending = <<>> /\ Unify(u, a, b) = f[k]
<1> DEFINE v == CallUnify(u, a, b)
           after == CHOOSE f : f = [n \in Nat |-> IF n = 0 THEN v ELSE GoOn(f[n - 1])]
<1>1. PICK f : Iterates(f, v) /\ \E k \in Nat : f[k].pending = <<>>
    BY DEF Returns
<1>2. Iterates(after, v)
    <2>1. \E g : g = [n \in Nat |-> IF n = 0 THEN v ELSE GoOn(g[n - 1])]
        BY <1>1 DEF Iterates
    <2> HIDE DEF v
    <2>2. after = [n \in Nat |-> IF n = 0 THEN v ELSE GoOn(after[n - 1])]
        BY <2>1
    <2> QED
        BY <2>2 DEF Iterates
<1>3. Unify(u, a, b) = AtTheEnd(after)
    BY DEF Unify
<1> HIDE DEF after, v
<1>4. f = after
    BY <1>1, <1>2, IteratesSame
<1>5. PICK k \in Nat : f[k].pending = <<>>
    BY <1>1
<1>6. AtTheEnd(f) = f[k]
    BY <1>1, <1>5, EndIsFound
<1> QED
    BY <1>1, <1>3, <1>4, <1>5, <1>6 DEF v

-----------------------------------------------------------------------------
(* One call of unify with a new unifier. *)

\* Two types whose indices are each for one leaf, and below a counter.
FreshPair(a, b, start) ==
    /\ start \in Nat /\ a \in Type /\ b \in Type
    /\ \A l \in Leaves(a) \cup Leaves(b) : l.id < start
    /\ \A l, m \in Leaves(a) \cup Leaves(b) : l.id = m.id => l = m

\* What a call keeps: the types it records constraints for are no variables.
Calm(u, eqs, start) ==
    /\ Sound(u)
    /\ u.result = "ok" =>
        /\ Coherent(u, eqs, start) /\ AboutKnown(u, eqs)
        /\ \A c \in u.constraints : ~IsGeneric(c[2])

LEMMA NewIsUnifier ==
    ASSUME NEW start \in Nat
    PROVE  /\ NewUnifier(start) \in Unifiers /\ NewUnifier(start).result = "ok" /\ NewUnifier(start).next = start
           /\ DOMAIN NewUnifier(start).sub = {} /\ NewUnifier(start).constraints = {}
<1> DEFINE s == [i \in {} |-> 0]
<1>1. s \in [{} -> Type]
    OBVIOUS
<1>2. DOMAIN s = {} /\ {} \in SUBSET Nat
    OBVIOUS
<1>3. s \in UNION {[indices -> Type] : indices \in SUBSET Nat}
    BY <1>1, <1>2
<1> HIDE DEF s
<1>4. <<>> \in Seq(Type \X Type)
    OBVIOUS
<1>5. NewUnifier(start) = [sub |-> s, constraints |-> {}, next |-> start, pending |-> <<>>, result |-> "ok"]
    BY DEF NewUnifier, s
<1> QED
    BY <1>2, <1>3, <1>4, <1>5 DEF Unifiers

\* The first call, which is pending.
Started(u, a, b, start) ==
    /\ Running(u, {<<a, b>>}, start) /\ Calm(u, {<<a, b>>}, start) /\ u.pending # <<>>
    /\ Range(u.pending) = {<<a, b>>} /\ DOMAIN u.sub = {} /\ u.next = start /\ u.constraints = {}
    /\ Known(u, {<<a, b>>}) = Leaves(a) \cup Leaves(b)

LEMMA FirstCall ==
    ASSUME NEW a, NEW b, NEW start, FreshPair(a, b, start)
    PROVE  Started(CallUnify(NewUnifier(start), a, b), a, b, start)
<1> DEFINE u == CallUnify(NewUnifier(start), a, b)
           eqs == {<<a, b>>}
<1>1. start \in Nat /\ a \in Type /\ b \in Type
    BY DEF FreshPair
<1>2. /\ u \in Unifiers /\ DOMAIN u.sub = {} /\ u.constraints = {} /\ u.next = start
      /\ u.result = "ok" /\ Range(u.pending) = {<<a, b>>} /\ u.pending # <<>>
    BY <1>1, NewIsUnifier, CallDef
<1> HIDE DEF u
<1>3. LeavesOfPairs(eqs) = Leaves(a) \cup Leaves(b)
    BY DEF LeavesOfPairs
<1>4. Known(u, eqs) = Leaves(a) \cup Leaves(b)
    BY <1>2, <1>3 DEF Known
<1>5. Resolvable(u.sub)
    BY <1>2, GroundResolvable
<1>6. Sound(u)
    BY <1>2, <1>5, FS_EmptySet DEF Sound
<1>7. LeavesOfPairs(Range(u.pending)) = Leaves(a) \cup Leaves(b)
    BY <1>2, <1>3
<1>8. Typed(eqs)
    BY <1>1 DEF Typed
<1> HIDE DEF eqs
<1>9. Coherent(u, eqs, start)
    BY <1>1, <1>2, <1>3, <1>4 DEF Coherent, FreshPair
<1>10. AboutKnown(u, eqs)
    BY <1>2, <1>4, <1>7 DEF AboutKnown
<1>11. Running(u, eqs, start) /\ Calm(u, eqs, start)
    BY <1>2, <1>6, <1>8, <1>9, <1>10 DEF Running, Calm
<1> QED
    BY ONLY <1>2, <1>4, <1>11 DEF eqs, u, Started

LEMMA CalmNext ==
    ASSUME NEW u, NEW eqs, NEW start, Calm(u, eqs, start), Typed(eqs)
    PROVE  Calm(GoOn(u), eqs, start)
<1>1. CASE u.pending = <<>>
    BY <1>1 DEF GoOn
<1>2. CASE u.pending # <<>>
    <2> DEFINE r == Rest(u)
               n == UnifyNext(u)
               a == Left(u)
               b == Right(u)
    <2>1. GoOn(u) = n
        BY <1>2 DEF GoOn
    <2>2. UnderWay(u, eqs, start) /\ \A c \in u.constraints : ~IsGeneric(c[2])
        BY <1>2 DEF Calm, Sound, UnderWay
    <2>3. /\ n \in Unifiers /\ Outcome(r, n, a, b) /\ Sound(n)
          /\ n.result = "ok" => Step(u, eqs, start, r, n, a, b)
        BY <2>2, NextOutcome
    <2> HIDE DEF r, n, a, b
    <2>4. ASSUME n.result = "ok"
          PROVE  Coherent(n, eqs, start) /\ AboutKnown(n, eqs) /\ \A c \in n.constraints : ~IsGeneric(c[2])
        <3>1. Step(u, eqs, start, r, n, a, b)
            BY <2>3, <2>4
        <3>2. r.constraints = u.constraints
            BY <3>1 DEF Step
        <3>3. \A v, ty : Binds(r, n, v, ty) => \A c \in n.constraints : ~IsGeneric(c[2])
            BY <2>2, <3>2 DEF Binds
        <3>4. \A c \in n.constraints : ~IsGeneric(c[2])
            BY <2>2, <2>3, <2>4, <3>2, <3>3 DEF Outcome, Merges, Descends, Fails
        <3> QED
            BY <2>3, <3>1, <3>4, CoherentNext
    <2> QED
        BY <2>1, <2>3, <2>4 DEF Calm
<1> QED
    BY <1>1, <1>2

\* The unifiers after each of the calls, of which Unify is one.
Calls(f, a, b, start) ==
    /\ Iterates(f, CallUnify(NewUnifier(start), a, b))
    /\ f[0] = CallUnify(NewUnifier(start), a, b) /\ \A n \in Nat : f[n + 1] = GoOn(f[n])
    /\ \A n \in Nat : Calm(f[n], {<<a, b>>}, start)
    /\ \E k \in Nat : f[k].pending = <<>> /\ Unify(NewUnifier(start), a, b) = f[k]

LEMMA UnifyIterates ==
    ASSUME NEW a, NEW b, NEW start, FreshPair(a, b, start)
    PROVE  \E f : Calls(f, a, b, start)
<1> DEFINE u == CallUnify(NewUnifier(start), a, b)
           eqs == {<<a, b>>}
<1>1. Running(u, eqs, start) /\ Calm(u, eqs, start)
    <2>1. Started(u, a, b, start)
        BY FirstCall
    <2> QED
        BY ONLY <2>1 DEF Started
<1>2. start \in Nat /\ NewUnifier(start).result = "ok"
    BY DEF FreshPair, NewUnifier
<1> HIDE DEF u
<1>3. Returns(u)
    BY <1>1, RunningReturns
<1>4. PICK f : Iterates(f, u) /\ \E k \in Nat : f[k].pending = <<>> /\ Unify(NewUnifier(start), a, b) = f[k]
    BY <1>2, <1>3, UnifyEnds DEF u
<1>5. f[0] = u /\ \A n \in Nat : f[n + 1] = GoOn(f[n])
    <2>1. \A n \in Nat : f[n] = IF n = 0 THEN u ELSE GoOn(f[n - 1])
        BY <1>4 DEF Iterates
    <2>2. \A n \in Nat : n + 1 \in Nat /\ n + 1 # 0 /\ (n + 1) - 1 = n
        OBVIOUS
    <2> QED
        BY <2>1, <2>2
<1> DEFINE S == {n \in Nat : Calm(f[n], eqs, start)}
<1>6. 0 \in S
    BY <1>1, <1>5
<1>7. ASSUME NEW n \in Nat, n \in S
      PROVE  n + 1 \in S
    <2>1. Typed(eqs)
        BY <1>1 DEF Running
    <2> HIDE DEF eqs
    <2>2. Calm(GoOn(f[n]), eqs, start)
        BY <1>7, <2>1, CalmNext
    <2> QED
        BY <1>5, <2>2
<1>8. Nat \subseteq S
    <2> HIDE DEF S
    <2> QED
        BY <1>6, <1>7, NumberInduction
<1>9. \A n \in Nat : Calm(f[n], eqs, start)
    BY <1>8
<1> HIDE DEF S
<1> QED
    BY <1>4, <1>5, <1>9 DEF u, Calls

LEMMA UnifyCalm ==
    ASSUME NEW a, NEW b, NEW start, FreshPair(a, b, start)
    PROVE  LET u == Unify(NewUnifier(start), a, b)
           IN  Calm(u, {<<a, b>>}, start) /\ u.pending = <<>>
<1>1. PICK f : Calls(f, a, b, start)
    BY UnifyIterates
<1> QED
    BY ONLY <1>1 DEF Calls

\* Two variables have become one.
MergedTo(u, a, b, start) ==
    u.result = "ok" /\ u.next = start + 1 /\ u.sub = [i \in {a.id, b.id} |-> Var(start, a.cs \cup b.cs)]

\* What Constrain unifies: the two variables get a new one, with the class.
LEMMA UnifyMerges ==
    ASSUME NEW a, NEW b, NEW start, FreshPair(a, b, start), IsVar(a), IsVar(b), a.id # b.id, a.cs # b.cs
    PROVE  MergedTo(Unify(NewUnifier(start), a, b), a, b, start)
<1> DEFINE u == CallUnify(NewUnifier(start), a, b)
           eqs == {<<a, b>>}
<1>0. FreshPair(a, b, start)
    OBVIOUS
<1>1. PICK f : Calls(f, a, b, start)
    BY <1>0, UnifyIterates
<1>2. Running(u, eqs, start) /\ u.pending # <<>> /\ DOMAIN u.sub = {} /\ u.next = start
    <2>1. Started(u, a, b, start)
        BY <1>0, FirstCall
    <2> QED
        BY ONLY <2>1 DEF Started
<1>3. u.pending = <<<<a, b>>>>
    BY DEF CallUnify, NewUnifier
<1> HIDE DEF u
<1> DEFINE r == Rest(u)
           n == UnifyNext(u)
<1>4. Outcome(r, n, Left(u), Right(u)) /\ Ready(r, Left(u), Right(u))
    BY <1>2, NextOutcome DEF Running, UnderWay
<1>5. r.pending = <<>> /\ r.sub = u.sub /\ r.next = u.next
    <2>1. u \in Unifiers
        BY <1>2 DEF Running, Sound
    <2>2. r.sub = u.sub /\ r.next = u.next
        BY <1>2, <2>1, Popped
    <2>3. r.pending = Tail(u.pending)
        BY <2>1 DEF Rest, Unifiers
    <2> QED
        BY <1>3, <2>2, <2>3
<1>6. Left(u) = a /\ Right(u) = b
    <2>1. a \in Type /\ b \in Type /\ Resolvable(u.sub)
        BY <1>2 DEF FreshPair, Running, Sound
    <2>2. Free(a, DOMAIN u.sub) /\ Free(b, DOMAIN u.sub)
        BY <1>2 DEF Free
    <2>3. Apply(u.sub, a) = a /\ Apply(u.sub, b) = b
        BY <2>1, <2>2, ApplyFree
    <2>4. Head(u.pending) = <<a, b>>
        BY <1>3
    <2> QED
        BY <2>3, <2>4 DEF Left, Right, Applied
<1>7. GoOn(u) = n
    BY <1>2 DEF GoOn
<1> HIDE DEF r, n
<1>8. Merges(r, n, a, b)
    <2>1. ~Clash(a, b)
        BY DEF Clash, IsFixed, IsVar, IsGeneric
    <2>2. ~Binds(r, n, a, b) /\ ~Binds(r, n, b, a) /\ a # b /\ ~Descends(r, n, a, b)
        BY DEF Binds, Descends, IsGeneric
    <2> QED
        BY <1>4, <1>6, <2>1, <2>2 DEF Outcome, Fails
<1>9. n.result = "ok" /\ n.next = start + 1 /\ n.pending = <<>>
    BY <1>2, <1>5, <1>8 DEF Merges
<1>10. n.sub = [i \in {a.id, b.id} |-> Var(start, a.cs \cup b.cs)]
    <2> DEFINE m == Var(start, a.cs \cup b.cs)
    <2>1. n.sub = Insert(Insert(u.sub, a.id, m), b.id, m)
        BY <1>2, <1>5, <1>8 DEF Merges
    <2> HIDE DEF m
    <2>2. Insert(u.sub, a.id, m) = [i \in {a.id} |-> m]
        BY <1>2 DEF Insert
    <2>3. Insert([i \in {a.id} |-> m], b.id, m) = [i \in {a.id, b.id} |-> m]
        BY DEF Insert
    <2> QED
        BY <2>1, <2>2, <2>3 DEF m
<1>11. Iterates(f, u) /\ f[1] = n
    <2>1. f[0 + 1] = GoOn(f[0]) /\ f[0] = u /\ Iterates(f, u)
        BY ONLY <1>1 DEF Calls, u
    <2> QED
        BY ONLY <1>7, <2>1
<1>12. Unify(NewUnifier(start), a, b) = f[1]
    <2>1. AtTheEnd(f) = f[1]
        BY <1>9, <1>11, EndIsFound
    <2>2. PICK k \in Nat : f[k].pending = <<>> /\ Unify(NewUnifier(start), a, b) = f[k]
        BY ONLY <1>1 DEF Calls
    <2>3. AtTheEnd(f) = f[k]
        BY <1>11, <2>2, EndIsFound
    <2> QED
        BY ONLY <2>1, <2>2, <2>3
<1>13. MergedTo(n, a, b, start)
    BY <1>9, <1>10 DEF MergedTo
<1> QED
    BY <1>11, <1>12, <1>13

-----------------------------------------------------------------------------
(* Types that a substitution makes equal are unified. *)

\* Types without leaves for variables, and for all of some.
Grounds(s, leaves, depth) ==
    /\ depth \in Nat
    /\ \A i \in DOMAIN s : s[i] \in Layer[depth] /\ Leaves(s[i]) = {}
    /\ \A l \in leaves : IsVar(l) /\ l.id \in DOMAIN s

\* It does what a unifier has found out, and what is left to do.
Fits(s, u, eqs, depth) ==
    Grounds(s, Known(u, eqs), depth) /\ Respects(s, u.sub) /\ Equalizes(s, Range(u.pending))

LEMMA GroundsApply ==
    ASSUME NEW s, NEW leaves, NEW depth, Grounds(s, leaves, depth)
    PROVE  /\ Resolvable(s)
           /\ \A t \in Type : IsGeneric(t) /\ t.id \in DOMAIN s => Apply(s, t) = s[t.id]
<1>1. \A i \in DOMAIN s : s[i] \in Layer[depth] /\ Free(s[i], DOMAIN s) /\ s[i] \in Type
    BY DEF Grounds, Free, Type
<1>2. Resolvable(s)
    BY <1>1, GroundResolvable DEF Grounds
<1>3. ASSUME NEW t \in Type, IsGeneric(t), t.id \in DOMAIN s
      PROVE  Apply(s, t) = s[t.id]
    <2>1. Apply(s, t) = Apply(s, s[t.id])
        BY <1>2, <1>3, ApplyGeneric
    <2>2. Apply(s, s[t.id]) = s[t.id]
        BY <1>1, <1>2, <1>3, ApplyFree
    <2> QED
        BY <2>1, <2>2
<1> QED
    BY <1>2, <1>3

LEMMA NoClash ==
    ASSUME NEW s, NEW leaves, NEW depth, Grounds(s, leaves, depth), NEW a \in Type, NEW b \in Type,
           Leaves(a) \subseteq leaves, Leaves(b) \subseteq leaves, Apply(s, a) = Apply(s, b)
    PROVE  ~Clash(a, b)
<1>1. Resolvable(s)
    BY GroundsApply
<1>2. \A t \in {a, b} : t \in Type /\ Leaves(t) \subseteq leaves /\ Apply(s, t) = Apply(s, a)
    OBVIOUS
<1>3. \A t \in {a, b} : IsGeneric(t) => IsVar(t)
    BY <1>2, GenericParts DEF Grounds
<1>4. \A t \in {a, b} : ~IsFixed(t)
    BY <1>3 DEF IsGeneric, IsVar, IsFixed
<1>5. \A t \in {a, b} : ~IsGeneric(t) =>
            Apply(s, t).k = t.k /\ Apply(s, t).id = t.id /\ Len(Apply(s, t).args) = Len(t.args)
    BY <1>1, <1>2, ApplyComposite
<1>6. ASSUME NEW v \in {a, b}, NEW ty \in {a, b}, ~IsGeneric(ty), v \in Leaves(ty)
      PROVE  FALSE
    <2>1. IsGeneric(v)
        BY <1>2, <1>6, LeavesGeneric
    <2>2. Apply(s, v) # Apply(s, ty)
        BY <1>1, <1>2, <1>6, <2>1, OccursNeverEqual
    <2> QED
        BY <1>2, <2>2
<1>7. ASSUME ~IsVar(a), ~IsVar(b), BaseType(a) # BaseType(b)
      PROVE  FALSE
    <2>1. ~IsGeneric(a) /\ ~IsGeneric(b)
        BY <1>3, <1>7
    <2> QED
        BY <1>2, <1>5, <1>7, <2>1 DEF BaseType
<1>8. ASSUME ~IsGeneric(a), ~IsGeneric(b), Len(a.args) # Len(b.args)
      PROVE  FALSE
    BY <1>2, <1>5, <1>8
<1> QED
    BY <1>4, <1>6, <1>7, <1>8 DEF Clash

LEMMA SeqTyped ==
    ASSUME NEW S, NEW q \in Seq(S), NEW x \in Range(q)
    PROVE  x \in S
<1>1. PICK i \in DOMAIN q : x = q[i]
    BY DEF Range
<1> QED
    BY <1>1, LenProperties, ElementOfSeq

\* The new variable of two that are merged stands for what they do.
LEMMA FitsMerged ==
    ASSUME NEW u, NEW eqs, NEW start, NEW n, NEW s, NEW depth, NEW a, NEW b, NEW m,
           Fits(s, u, eqs, depth), Sound(u), Sound(n), Coherent(u, eqs, start), AboutKnown(u, eqs), Typed(eqs),
           Merged(u, eqs, n, a, b, m), IsVar(a), IsVar(b), a \in Known(u, eqs), b \in Known(u, eqs),
           Apply(s, a) = Apply(s, b),
           n.pending \in Seq(Type \X Type), Equalizes(s, Range(n.pending)),
           LeavesOfPairs(Range(n.pending)) \subseteq Known(u, eqs)
    PROVE  \E t : Fits(t, n, eqs, depth)
<1> DEFINE K == Known(u, eqs)
           t == Insert(s, u.next, s[a.id])
<1>1. /\ Grounds(s, K, depth) /\ Respects(s, u.sub)
      /\ \A l \in K : l \in Type /\ IsGeneric(l) /\ Leaves(l) = {l} /\ l.id # u.next
    <2>1. \A l \in K : l.id \in Nat /\ l.id < u.next /\ u.next \in Nat
        BY KnownTypes DEF Coherent, Merged
    <2> QED
        BY <2>1, KnownTypes DEF Fits
<1>2. /\ m \in Type /\ IsVar(m) /\ m.id = u.next /\ Known(n, eqs) = K \cup {m}
      /\ DOMAIN n.sub = DOMAIN u.sub \cup {a.id, b.id} /\ n.sub[a.id] = m /\ n.sub[b.id] = m
      /\ \A i \in DOMAIN u.sub : n.sub[i] = u.sub[i]
      /\ a \in Type /\ b \in Type /\ a.id \in DOMAIN s /\ b.id \in DOMAIN s /\ IsGeneric(a) /\ IsGeneric(b)
    BY <1>1 DEF Merged, Grounds, IsGeneric
<1>3. /\ DOMAIN t = DOMAIN s \cup {u.next} /\ t[u.next] = s[a.id]
      /\ \A i \in DOMAIN s : i # u.next => t[i] = s[i]
    BY DEF Insert
<1> HIDE DEF t
<1>4. Grounds(t, K \cup {m}, depth) /\ Grounds(t, K, depth)
    BY <1>1, <1>2, <1>3 DEF Grounds
<1>5. /\ Resolvable(s) /\ Resolvable(t)
      /\ \A l \in Type : IsGeneric(l) /\ l.id \in DOMAIN s => Apply(s, l) = s[l.id]
      /\ \A l \in Type : IsGeneric(l) /\ l.id \in DOMAIN t => Apply(t, l) = t[l.id]
    BY <1>1, <1>4, GroundsApply
<1>6. \A l \in K : Apply(t, l) = Apply(s, l)
    BY <1>1, <1>3, <1>5 DEF Grounds
<1>7. \A ty \in Type : Leaves(ty) \subseteq K => Apply(t, ty) = Apply(s, ty)
    BY <1>5, <1>6, ApplyAgrees
<1>8. Apply(t, m) = s[a.id] /\ s[a.id] = s[b.id] /\ Apply(t, a) = s[a.id] /\ Apply(t, b) = s[a.id]
    <2>1. Apply(t, m) = s[a.id]
        BY <1>2, <1>3, <1>5 DEF IsGeneric
    <2>2. Apply(s, a) = s[a.id] /\ Apply(s, b) = s[b.id]
        BY <1>2, <1>5
    <2> QED
        BY <1>6, <2>1, <2>2
<1>9. Respects(t, n.sub)
    <2> SUFFICES ASSUME NEW l \in Type, IsGeneric(l), l.id \in DOMAIN n.sub
                 PROVE  Apply(t, l) = Apply(t, n.sub[l.id])
        BY DEF Respects
    <2>1. CASE l.id \in {a.id, b.id}
        <3>1. l.id \in DOMAIN t /\ t[l.id] = s[a.id]
            BY <1>1, <1>2, <1>3, <1>8, <2>1
        <3>2. n.sub[l.id] = m
            BY <1>2, <2>1
        <3> QED
            BY <1>5, <1>8, <3>1, <3>2
    <2>2. CASE l.id \in DOMAIN u.sub
        <3>1. PICK v \in Variables(K) : v.id = l.id
            BY <2>2 DEF AboutKnown
        <3>2. l.id \in DOMAIN s /\ l.id # u.next
            BY <1>1, <3>1 DEF Variables, Grounds
        <3>3. Apply(t, l) = Apply(s, l)
            BY <1>3, <1>5, <3>2
        <3>4. Leaves(u.sub[l.id]) \subseteq K /\ u.sub[l.id] \in Type
            <4>1. u.sub[l.id] \in Type
                BY <2>2, ResolvableTypes DEF Sound
            <4> QED
                BY <2>2, <4>1 DEF Known
        <3>5. Apply(s, l) = Apply(s, u.sub[l.id])
            BY <1>1, <2>2 DEF Respects
        <3> QED
            BY <1>2, <1>7, <2>2, <3>3, <3>4, <3>5
    <2> QED
        BY <1>2, <2>1, <2>2
<1>10. Equalizes(t, Range(n.pending))
    <2> SUFFICES ASSUME NEW pair \in Range(n.pending)
                 PROVE  Apply(t, pair[1]) = Apply(t, pair[2])
        BY DEF Equalizes
    <2>1. pair \in Type \X Type
        BY SeqTyped
    <2>2. Leaves(pair[1]) \subseteq K /\ Leaves(pair[2]) \subseteq K
        BY DEF LeavesOfPairs
    <2>3. Apply(s, pair[1]) = Apply(s, pair[2])
        BY DEF Equalizes
    <2> QED
        BY <1>7, <2>1, <2>2, <2>3
<1>11. Fits(t, n, eqs, depth)
    BY <1>2, <1>4, <1>9, <1>10 DEF Fits
<1> QED
    BY <1>11

LEMMA FitsNext ==
    ASSUME NEW u, NEW eqs, NEW start, UnderWay(u, eqs, start), NEW s, NEW depth, Fits(s, u, eqs, depth)
    PROVE  UnifyNext(u).result = "ok" /\ \E t : Fits(t, UnifyNext(u), eqs, depth)
<1> DEFINE r == Rest(u)
           n == UnifyNext(u)
           a == Left(u)
           b == Right(u)
           K == Known(u, eqs)
<1>1. /\ Sound(u) /\ Coherent(u, eqs, start) /\ AboutKnown(u, eqs) /\ Typed(eqs) /\ u.pending # <<>>
      /\ u \in Unifiers /\ Resolvable(u.sub)
    BY DEF UnderWay, Sound
<1>2. Grounds(s, K, depth) /\ Respects(s, u.sub) /\ Equalizes(s, Range(u.pending)) /\ Resolvable(s)
    BY GroundsApply DEF Fits
<1>3. /\ Ready(r, a, b) /\ n \in Unifiers /\ Outcome(r, n, a, b) /\ Sound(n)
      /\ n.result = "ok" => Step(u, eqs, start, r, n, a, b)
    BY NextOutcome
<1>4. Leaves(a) \subseteq K /\ Leaves(b) \subseteq K
    BY <1>1, ReadyNext
<1>5. Apply(s, a) = Apply(s, b) /\ Equalizes(s, Range(r.pending))
    BY <1>1, <1>2, PairAtHand
<1>6. r.sub = u.sub /\ r.next = u.next /\ r \in Unifiers /\ Range(r.pending) \subseteq Range(u.pending)
    BY <1>1, Popped
<1> HIDE DEF r, n, a, b
<1>7. a \in Type /\ b \in Type
    BY <1>3 DEF Ready
<1>8. ~Clash(a, b)
    BY <1>2, <1>4, <1>5, <1>7, NoClash
<1>9. n.result = "ok"
    BY <1>3, <1>8 DEF Outcome, Binds, Merges, Descends, Fails, Ready
<1>10. Step(u, eqs, start, r, n, a, b)
    BY <1>3, <1>9
<1> HIDE DEF K
<1> DEFINE Goal == \E t : Fits(t, n, eqs, depth)
<1>11. ASSUME n = r /\ a = b
       PROVE  Goal
    <2>1. Known(n, eqs) = K
        BY <1>6, <1>11, KnownSame DEF K
    <2>2. Fits(s, n, eqs, depth)
        BY <1>2, <1>5, <1>6, <1>11, <2>1 DEF Fits
    <2> QED
        BY <2>2
<1>12. ASSUME NEW v \in Type, NEW ty \in Type, Binds(r, n, v, ty), Leaves(v) \subseteq K, Leaves(ty) \subseteq K,
              Apply(s, v) = Apply(s, ty)
       PROVE  Fits(s, n, eqs, depth)
    <2>1. /\ Known(n, eqs) = K /\ DOMAIN n.sub = DOMAIN u.sub \cup {v.id} /\ n.sub[v.id] = ty
          /\ \A i \in DOMAIN u.sub : n.sub[i] = u.sub[i]
        BY <1>6, <1>12, KnownBinds DEF K
    <2>2. IsGeneric(v) /\ v.id \in DOMAIN s
        <3>1. IsGeneric(v)
            BY <1>12 DEF Binds, IsGeneric
        <3>2. v \in K
            BY <1>12, <3>1, GenericParts
        <3> QED
            BY <1>2, <3>1, <3>2 DEF Grounds
    <2>3. \A l \in Type : IsGeneric(l) /\ l.id \in DOMAIN s => Apply(s, l) = s[l.id]
        BY <1>2, GroundsApply
    <2>4. Respects(s, n.sub)
        <3> SUFFICES ASSUME NEW l \in Type, IsGeneric(l), l.id \in DOMAIN n.sub
                     PROVE  Apply(s, l) = Apply(s, n.sub[l.id])
            BY DEF Respects
        <3>1. CASE l.id = v.id
            BY <1>12, <2>1, <2>2, <2>3, <3>1
        <3>2. CASE l.id \in DOMAIN u.sub
            BY <1>2, <2>1, <3>2 DEF Respects
        <3> QED
            BY <2>1, <3>1, <3>2
    <2>5. n.pending = r.pending
        BY <1>12 DEF Binds
    <2> QED
        BY <1>2, <1>5, <2>1, <2>4, <2>5 DEF Fits
<1>13. ASSUME Binds(r, n, a, b)
       PROVE  Goal
    BY <1>4, <1>5, <1>7, <1>12, <1>13
<1>14. ASSUME Binds(r, n, b, a)
       PROVE  Goal
    BY <1>4, <1>5, <1>7, <1>12, <1>14
<1>15. ASSUME Merges(r, n, a, b)
       PROVE  Goal
    <2>1. Merged(u, eqs, n, a, b, Var(u.next, a.cs \cup b.cs))
        BY <1>10, <1>15, KnownMerges
    <2>2. IsVar(a) /\ IsVar(b) /\ n.pending = r.pending
        BY <1>15 DEF Merges
    <2>3. a \in K /\ b \in K
        BY <1>4, <2>1 DEF Merged
    <2>4. n.pending \in Seq(Type \X Type) /\ Equalizes(s, Range(n.pending))
        BY <1>5, <1>6, <2>2 DEF Unifiers
    <2>5. LeavesOfPairs(Range(n.pending)) \subseteq K
        BY <1>1, <1>6, <2>2 DEF AboutKnown, LeavesOfPairs, K
    <2>6. \E t : Fits(t, n, eqs, depth)
        BY <1>1, <1>3, <1>5, <2>1, <2>2, <2>3, <2>4, <2>5, FitsMerged DEF K
    <2> QED
        BY <2>6
<1>16. ASSUME Descends(r, n, a, b)
       PROVE  Goal
    <2>1. ~IsGeneric(a) /\ ~IsGeneric(b) /\ a.k = b.k /\ a.id = b.id /\ Len(a.args) = Len(b.args) /\ n.sub = r.sub
          /\ Range(n.pending) = {<<a.args[i], b.args[i]>> : i \in DOMAIN a.args} \cup Range(r.pending)
        BY <1>16 DEF Descends
    <2>2. \A i \in DOMAIN a.args : Apply(s, a.args[i]) = Apply(s, b.args[i])
        BY <1>2, <1>5, <1>7, <2>1, CompositesEqual
    <2>3. Equalizes(s, Range(n.pending))
        <3> SUFFICES ASSUME NEW pair \in Range(n.pending)
                     PROVE  Apply(s, pair[1]) = Apply(s, pair[2])
            BY DEF Equalizes
        <3>1. CASE pair \in Range(r.pending)
            BY <1>5, <3>1 DEF Equalizes
        <3>2. CASE pair \in {<<a.args[i], b.args[i]>> : i \in DOMAIN a.args}
            BY <2>2, <3>2
        <3> QED
            BY <2>1, <3>1, <3>2
    <2>4. Known(n, eqs) = K
        BY <1>6, <2>1, KnownSame DEF K
    <2>5. Fits(s, n, eqs, depth)
        BY <1>2, <1>6, <2>1, <2>3, <2>4 DEF Fits
    <2> QED
        BY <2>5
<1>17. ~Fails(r, n, a, b)
    BY <1>8 DEF Fails
<1> HIDE DEF Goal
<1>18. Goal
    BY <1>3, <1>11, <1>13, <1>14, <1>15, <1>16, <1>17 DEF Outcome
<1> QED
    BY <1>9, <1>18 DEF n, Goal

\* unify does not fail where types for the variables make the two types equal.
LEMMA UnifySucceeds ==
    ASSUME NEW a, NEW b, NEW start, FreshPair(a, b, start), NEW s, NEW depth,
           Grounds(s, Leaves(a) \cup Leaves(b), depth), Apply(s, a) = Apply(s, b)
    PROVE  Unify(NewUnifier(start), a, b).result = "ok"
<1> DEFINE u == CallUnify(NewUnifier(start), a, b)
           eqs == {<<a, b>>}
<1>0. FreshPair(a, b, start)
    OBVIOUS
<1>1. PICK f : Calls(f, a, b, start)
    BY <1>0, UnifyIterates
<1>2. /\ Running(u, eqs, start) /\ DOMAIN u.sub = {} /\ Range(u.pending) = {<<a, b>>}
      /\ Known(u, eqs) = Leaves(a) \cup Leaves(b)
    <2>1. Started(u, a, b, start)
        BY <1>0, FirstCall
    <2> QED
        BY ONLY <2>1 DEF Started
<1>3. /\ f[0] = u /\ \A n \in Nat : f[n + 1] = GoOn(f[n]) /\ Calm(f[n], eqs, start)
    BY ONLY <1>1 DEF Calls
<1> HIDE DEF u
<1>4. Fits(s, u, eqs, depth)
    <2>1. Respects(s, u.sub)
        BY <1>2 DEF Respects
    <2>2. Equalizes(s, Range(u.pending))
        BY <1>2 DEF Equalizes
    <2> QED
        BY <1>2, <2>1, <2>2 DEF Fits
<1>5. Typed(eqs) /\ u.result = "ok"
    BY <1>2 DEF Running
<1> HIDE DEF eqs
<1> DEFINE S == {n \in Nat : f[n].result = "ok" /\ \E t : Fits(t, f[n], eqs, depth)}
<1>6. 0 \in S
    BY <1>3, <1>4, <1>5
<1>7. ASSUME NEW n \in Nat, n \in S
      PROVE  n + 1 \in S
    <2>1. PICK t : Fits(t, f[n], eqs, depth)
        BY <1>7
    <2>2. f[n].result = "ok" /\ Calm(f[n], eqs, start) /\ f[n + 1] = GoOn(f[n])
        BY <1>3, <1>7
    <2>3. CASE f[n].pending = <<>>
        BY <1>7, <2>2, <2>3 DEF GoOn
    <2>4. CASE f[n].pending # <<>>
        <3>1. UnderWay(f[n], eqs, start)
            BY <1>5, <2>2, <2>4 DEF UnderWay, Calm
        <3>2. f[n + 1] = UnifyNext(f[n])
            BY <2>2, <2>4 DEF GoOn
        <3>3. f[n + 1].result = "ok" /\ \E w : Fits(w, f[n + 1], eqs, depth)
            BY <2>1, <3>1, <3>2, FitsNext
        <3> QED
            BY <3>3
    <2> QED
        BY <2>3, <2>4
<1>8. Nat \subseteq S
    <2> HIDE DEF S
    <2> QED
        BY <1>6, <1>7, NumberInduction
<1>9. \A n \in Nat : f[n].result = "ok"
    BY <1>8
<1>10. \E k \in Nat : Unify(NewUnifier(start), a, b) = f[k]
    BY ONLY <1>1 DEF Calls
<1> QED
    BY ONLY <1>9, <1>10

=============================================================================
