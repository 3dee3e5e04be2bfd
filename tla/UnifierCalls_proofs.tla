------------------------- MODULE UnifierCalls_proofs -------------------------
(***************************************************************************)
(* Unification keeps what UnifierCalls promises, for all types.            *)
(***************************************************************************)
EXTENDS UnifierCalls, Unifier_proofs
\* A ground solution, with types for the variables that the unifier made.
Extends(s, g, u, eqs) ==
    /\ s \in Grounding(Variables(Known(u, eqs)))
    /\ \A i \in DOMAIN g : s[i] = g[i]
    /\ \A i \in DOMAIN u.sub : Apply(s, u.sub[i]) = s[i]
    /\ Equalizes(s, Range(u.pending))
    /\ \A c \in u.constraints : Satisfies(Apply(s, c[2]), c[1])

SolutionsOf(eqs) == {g \in Grounding(Variables(LeavesOfPairs(eqs))) : Equalizes(g, eqs)}

\* A ground solution of the equations is one of what is left to do.
General(u, eqs) ==
    \A g \in SolutionsOf(eqs) :
        u.result = "ok" /\ \E s \in Grounding(Variables(Known(u, eqs))) : Extends(s, g, u, eqs)

Good(u, eqs) ==
    /\ Sound(u)
    /\ eqs \subseteq FirstPairs \cup LaterPairs
    /\ u.result = "ok" => Coherent(u, eqs, FirstIndex) /\ AboutKnown(u, eqs) /\ Keeps(u, eqs) /\ Progress(u, eqs)
    /\ General(u, eqs)

IInv == Good(unifier, equations)

-----------------------------------------------------------------------------
(* Ground solutions. *)

\* Leaves that ground types can be substituted for.
Suitable(leaves) ==
    /\ \A l \in leaves : l \in Type /\ IsGeneric(l)
    /\ \A l, m \in leaves : l.id = m.id => l = m
    /\ \A v \in Variables(leaves) : \A ty \in GroundTypes : \A l \in Leaves(ty) : l.id # v.id

LEMMA GroundTyped == \A ty \in GroundTypes : ty \in Type /\ ty \in Layer[Depth]
BY TypesAssumption DEF Type

LEMMA PairsTyped == \A eqs : eqs \subseteq FirstPairs \cup LaterPairs => Typed(eqs)
BY TypesAssumption DEF Typed, Type

LEMMA PairsSuitable ==
    ASSUME NEW eqs, eqs \subseteq FirstPairs \cup LaterPairs
    PROVE  /\ Suitable(LeavesOfPairs(eqs))
           /\ \A e \in eqs : e[1] \in Type /\ e[2] \in Type
           /\ \A l \in LeavesOfPairs(eqs) : l.id \in Nat /\ l.id < FirstIndex
<1> DEFINE pairs == LeavesOfPairs(FirstPairs \cup LaterPairs)
           ground == UNION {Leaves(ty) : ty \in GroundTypes}
           mine == LeavesOfPairs(eqs)
<1>1. mine \subseteq pairs
    BY DEF LeavesOfPairs
<1>2. /\ \A l \in pairs \cup ground : l.id < FirstIndex
      /\ \A l, m \in pairs \cup ground : l.id = m.id => l = m
      /\ \A l \in ground : IsFixed(l)
    BY LeavesAssumption
<1>3. \A e \in eqs : e[1] \in Type /\ e[2] \in Type
    BY TypesAssumption DEF Type
<1>4. \A l \in mine : \E ty \in Type : l \in Leaves(ty)
    BY <1>3 DEF LeavesOfPairs
<1>5. \A ty \in GroundTypes : \A l \in Leaves(ty) : l \in ground
    OBVIOUS
<1> HIDE DEF pairs, ground, mine
<1>6. \A l \in mine : l \in Type /\ IsGeneric(l) /\ l.id \in Nat
    BY <1>4, LeavesGeneric
<1>7. \A v \in Variables(mine) : \A l \in ground : l.id # v.id
    <2>1. \A v \in Variables(mine) : v \in pairs /\ ~IsFixed(v)
        BY <1>1 DEF Variables, IsVar, IsFixed
    <2> QED
        BY <1>2, <2>1
<1>8. Suitable(mine)
    BY <1>1, <1>2, <1>5, <1>6, <1>7 DEF Suitable
<1> QED
    BY <1>1, <1>2, <1>3, <1>6, <1>8 DEF mine

LEMMA KnownSuitable ==
    ASSUME NEW u, NEW eqs, Sound(u), Coherent(u, eqs, FirstIndex), eqs \subseteq FirstPairs \cup LaterPairs
    PROVE  Suitable(Known(u, eqs))
<1>1. Suitable(LeavesOfPairs(eqs))
    BY PairsSuitable
<1>2. \A ty \in GroundTypes : \A l \in Leaves(ty) : l.id \in Nat /\ l.id < FirstIndex
    <2>1. \A ty \in GroundTypes : \A l \in Leaves(ty) : l.id < FirstIndex
        BY LeavesAssumption
    <2>2. \A ty \in GroundTypes : \A l \in Leaves(ty) : l.id \in Nat
        BY GroundTyped, LeavesGeneric
    <2> QED
        BY <2>1, <2>2
<1>3. ASSUME NEW v \in Variables(Known(u, eqs)), NEW ty \in GroundTypes, NEW l \in Leaves(ty)
      PROVE  l.id # v.id
    <2>1. CASE v \in LeavesOfPairs(eqs)
        <3>1. v \in Variables(LeavesOfPairs(eqs))
            BY <2>1 DEF Variables
        <3> QED
            BY <1>1, <3>1 DEF Suitable
    <2>2. CASE FirstIndex <= v.id
        <3>1. v.id \in Nat /\ FirstIndex \in Nat
            BY KnownTypes, PairsTyped, TypesAssumption DEF Variables
        <3> QED
            BY <1>2, <2>2, <3>1
    <2> QED
        BY <2>1, <2>2 DEF Coherent, Variables
<1> QED
    BY <1>3, KnownTypes, PairsTyped DEF Suitable, Coherent

\* How a ground substitution for the variables among the leaves acts.
Ground(s, leaves) ==
    /\ Resolvable(s) /\ DOMAIN s = {v.id : v \in Variables(leaves)}
    /\ \A i \in DOMAIN s : s[i] \in GroundTypes
    /\ \A t \in Type : IsGeneric(t) /\ t.id \in DOMAIN s => Apply(s, t) = s[t.id]
    /\ \A v \in Variables(leaves) :
            s[v.id] \in GroundTypes /\ Apply(s, v) = s[v.id] /\ \A c \in v.cs : Satisfies(s[v.id], c)
    /\ \A l \in leaves : IsFixed(l) => l.id \notin DOMAIN s /\ Apply(s, l) = l

LEMMA GroundFacts ==
    ASSUME NEW leaves, Suitable(leaves), NEW s \in Grounding(Variables(leaves))
    PROVE  Ground(s, leaves)
<1>1. /\ DOMAIN s = {v.id : v \in Variables(leaves)} /\ \A i \in DOMAIN s : s[i] \in GroundTypes
      /\ \A v \in Variables(leaves) : \A c \in v.cs : Satisfies(s[v.id], c)
    BY DEF Grounding
<1>2. \A ty \in GroundTypes : ty \in Type /\ ty \in Layer[Depth] /\ Free(ty, DOMAIN s)
    BY <1>1, GroundTyped DEF Suitable, Free
<1>3. Resolvable(s)
    BY <1>1, <1>2, GroundResolvable, TypesAssumption
<1>4. \A t \in Type : IsGeneric(t) /\ t.id \in DOMAIN s => Apply(s, t) = s[t.id]
    <2> TAKE t \in Type
    <2> HAVE IsGeneric(t) /\ t.id \in DOMAIN s
    <2>1. Apply(s, t) = Apply(s, s[t.id])
        BY <1>3, ApplyGeneric
    <2>2. s[t.id] \in Type /\ Free(s[t.id], DOMAIN s)
        BY <1>1, <1>2
    <2> QED
        BY <1>3, <2>1, <2>2, ApplyFree
<1>5. \A v \in Variables(leaves) : v \in Type /\ IsGeneric(v) /\ v.id \in DOMAIN s
    BY <1>1 DEF Suitable, Variables
<1>6. \A l \in leaves : IsFixed(l) => l.id \notin DOMAIN s /\ Apply(s, l) = l
    <2> TAKE l \in leaves
    <2> HAVE IsFixed(l)
    <2>1. l.id \notin DOMAIN s
        <3> SUFFICES ASSUME NEW v \in Variables(leaves), v.id = l.id
                     PROVE  FALSE
            BY <1>1
        <3>1. v = l
            BY DEF Suitable, Variables
        <3> QED
            BY <3>1 DEF Variables, IsVar, IsFixed
    <2>2. l \in Type /\ IsGeneric(l)
        BY DEF Suitable
    <2> QED
        BY <1>3, <2>1, <2>2, ApplyGeneric
<1> QED
    BY <1>1, <1>3, <1>4, <1>5, <1>6 DEF Ground

\* A ground substitution for more variables does the same to a type without them.
LEMMA GroundAgree ==
    ASSUME NEW few, NEW many, Suitable(few), Suitable(many), few \subseteq many,
           NEW s \in Grounding(Variables(few)), NEW t \in Grounding(Variables(many)),
           \A i \in DOMAIN s : t[i] = s[i], NEW ty \in Type, Leaves(ty) \subseteq few
    PROVE  Apply(t, ty) = Apply(s, ty)
<1>4. Ground(s, few)
    BY GroundFacts
<1>5. Ground(t, many)
    BY GroundFacts
<1>1. /\ Resolvable(s) /\ DOMAIN s = {v.id : v \in Variables(few)}
      /\ \A v \in Variables(few) : Apply(s, v) = s[v.id]
      /\ \A l \in few : IsFixed(l) => Apply(s, l) = l
    BY <1>4 DEF Ground
<1>3. /\ Resolvable(t)
      /\ \A v \in Variables(many) : Apply(t, v) = t[v.id]
      /\ \A l \in many : IsFixed(l) => Apply(t, l) = l
    BY <1>5 DEF Ground
<1>2. ASSUME NEW l \in few
      PROVE  Apply(t, l) = Apply(s, l)
    <2>1. l \in many /\ IsGeneric(l)
        BY <1>2 DEF Suitable
    <2>2. CASE IsVar(l)
        <3>1. l \in Variables(few) /\ l \in Variables(many)
            BY <1>2, <2>1, <2>2 DEF Variables
        <3>2. Apply(s, l) = s[l.id] /\ Apply(t, l) = t[l.id] /\ l.id \in DOMAIN s
            BY <1>1, <1>3, <3>1
        <3> QED
            BY <3>2
    <2>3. CASE IsFixed(l)
        BY <1>1, <1>2, <1>3, <2>1, <2>3
    <2> QED
        BY <2>1, <2>2, <2>3 DEF IsGeneric
<1> QED
    BY <1>1, <1>2, <1>3, ApplyAgrees

\* Types that a ground substitution makes equal do not clash.
LEMMA ClashNever ==
    ASSUME NEW leaves, Suitable(leaves), NEW s \in Grounding(Variables(leaves)), NEW a \in Type, NEW b \in Type,
           Leaves(a) \subseteq leaves, Leaves(b) \subseteq leaves, Apply(s, a) = Apply(s, b)
    PROVE  ~Clash(a, b)
<1>1. Ground(s, leaves)
    BY GroundFacts
<1>2. /\ Resolvable(s)
      /\ \A v \in Variables(leaves) : Apply(s, v) = s[v.id] /\ \A c \in v.cs : Satisfies(s[v.id], c)
      /\ \A l \in leaves : IsFixed(l) => Apply(s, l) = l
    BY <1>1 DEF Ground
<1>3. \A t \in {a, b} : t \in Type /\ Leaves(t) \subseteq leaves /\ Apply(s, t) = Apply(s, a)
    OBVIOUS
<1>4. \A t \in {a, b} : IsGeneric(t) => t \in leaves
    BY <1>3, GenericParts
<1>5. \A t \in {a, b} : IsFixed(t) => Apply(s, t) = t
    BY <1>2, <1>4 DEF IsGeneric
<1>6. \A t \in {a, b} : ~IsGeneric(t) =>
            ~IsGeneric(Apply(s, t)) /\ Apply(s, t).k = t.k /\ Apply(s, t).id = t.id /\ Len(Apply(s, t).args) = Len(t.args)
    BY <1>2, <1>3, ApplyComposite
<1>7. ASSUME IsFixed(a), IsFixed(b), a.id # b.id
      PROVE  FALSE
    BY <1>5, <1>7
<1>8. ASSUME NEW fixed \in {a, b}, NEW v \in {a, b}, IsFixed(fixed), IsVar(v)
      PROVE  v.cs \subseteq fixed.cs
    <2>1. v \in Variables(leaves)
        BY <1>4, <1>8 DEF Variables, IsGeneric
    <2>2. s[v.id] = fixed
        BY <1>2, <1>3, <1>5, <1>8, <2>1
    <2> QED
        BY <1>2, <1>8, <2>1, <2>2 DEF Satisfies
<1>9. ASSUME NEW v \in {a, b}, NEW ty \in {a, b}, ~IsGeneric(ty), v \in Leaves(ty)
      PROVE  FALSE
    <2>1. Apply(s, v) # Apply(s, ty)
        BY <1>2, <1>3, <1>9, OccursNeverEqual
    <2> QED
        BY <1>3, <2>1
<1>10. ASSUME ~IsVar(a), ~IsVar(b), BaseType(a) # BaseType(b)
       PROVE  FALSE
    <2>1. CASE ~IsGeneric(a) /\ ~IsGeneric(b)
        BY <1>6, <1>10, <2>1 DEF BaseType
    <2>2. CASE IsFixed(a) /\ ~IsGeneric(b)
        BY <1>5, <1>6, <2>2 DEF IsGeneric
    <2>3. CASE ~IsGeneric(a) /\ IsFixed(b)
        BY <1>5, <1>6, <2>3 DEF IsGeneric
    <2>4. CASE IsFixed(a) /\ IsFixed(b)
        BY <1>10, <2>4 DEF BaseType, IsGeneric
    <2> QED
        BY <1>10, <2>1, <2>2, <2>3, <2>4 DEF IsGeneric
<1>11. ASSUME ~IsGeneric(a), ~IsGeneric(b), Len(a.args) # Len(b.args)
       PROVE  FALSE
    BY <1>6, <1>11
<1> QED
    BY <1>7, <1>8, <1>9, <1>10, <1>11 DEF Clash

\* A ground solution respects what the unifier has bound.
LEMMA GroundRespects ==
    ASSUME NEW u, NEW eqs, Sound(u), Coherent(u, eqs, FirstIndex), AboutKnown(u, eqs), eqs \subseteq FirstPairs \cup LaterPairs,
           NEW s \in Grounding(Variables(Known(u, eqs))), \A i \in DOMAIN u.sub : Apply(s, u.sub[i]) = s[i]
    PROVE  Respects(s, u.sub)
<1>1. Ground(s, Known(u, eqs))
    BY KnownSuitable, GroundFacts
<1>2. DOMAIN s = {v.id : v \in Variables(Known(u, eqs))}
      /\ \A t \in Type : IsGeneric(t) /\ t.id \in DOMAIN s => Apply(s, t) = s[t.id]
    BY <1>1 DEF Ground
<1>3. DOMAIN u.sub \subseteq DOMAIN s
    BY <1>2 DEF AboutKnown
<1> QED
    BY <1>2, <1>3 DEF Respects

\* Every ground solution is still one of what is left to do, and unify has not failed.
LEMMA SolutionNext ==
    ASSUME NEW u, NEW eqs, UnderWay(u, eqs, FirstIndex), eqs \subseteq FirstPairs \cup LaterPairs, NEW g \in SolutionsOf(eqs),
           NEW s \in Grounding(Variables(Known(u, eqs))), Extends(s, g, u, eqs)
    PROVE  /\ UnifyNext(u).result = "ok"
           /\ \E x \in Grounding(Variables(Known(UnifyNext(u), eqs))) : Extends(x, g, UnifyNext(u), eqs)
<1> DEFINE r == Rest(u)
           a == Left(u)
           b == Right(u)
           n == UnifyNext(u)
           K == Known(u, eqs)
           Kept == \E x \in Grounding(Variables(Known(n, eqs))) : Extends(x, g, n, eqs)
<1>1. /\ u \in Unifiers /\ Sound(u) /\ Coherent(u, eqs, FirstIndex) /\ AboutKnown(u, eqs) /\ u.pending # <<>>
      /\ eqs \subseteq FirstPairs \cup LaterPairs /\ Resolvable(u.sub)
    BY DEF UnderWay, Sound
<1>2. /\ Ready(r, a, b) /\ n \in Unifiers /\ Outcome(r, n, a, b) /\ Sound(n)
      /\ n.result = "ok" => Step(u, eqs, FirstIndex, r, n, a, b)
    BY NextOutcome
<1>3. /\ r.sub = u.sub /\ r.constraints = u.constraints /\ r.next = u.next /\ r.result = "ok"
      /\ Range(r.pending) \subseteq Range(u.pending)
    BY <1>1, Popped DEF Sound
<1>4. a \in Type /\ b \in Type /\ Leaves(a) \subseteq K /\ Leaves(b) \subseteq K
    BY <1>1, <1>2, ReadyNext DEF Ready
<1>5. Suitable(K) /\ Ground(s, K)
    BY <1>1, KnownSuitable, GroundFacts
<1>6. /\ \A i \in DOMAIN g : s[i] = g[i]
      /\ \A i \in DOMAIN u.sub : Apply(s, u.sub[i]) = s[i]
      /\ Equalizes(s, Range(u.pending))
      /\ \A c \in u.constraints : Satisfies(Apply(s, c[2]), c[1])
    BY DEF Extends
<1>7. Resolvable(s) /\ \A v \in Variables(K) : Apply(s, v) = s[v.id] /\ \A c \in v.cs : Satisfies(s[v.id], c)
    BY <1>5 DEF Ground
<1>8. Respects(s, u.sub)
    BY <1>1, <1>6, GroundRespects
<1>9. Apply(s, a) = Apply(s, b) /\ Equalizes(s, Range(r.pending))
    BY <1>1, <1>6, <1>7, <1>8, PairAtHand
<1>10. ~Clash(a, b)
    BY <1>4, <1>5, <1>9, ClashNever
<1> HIDE DEF r, a, b, n, K
<1>11. n.result = "ok"
    BY <1>2, <1>3, <1>10 DEF Outcome, Binds, Merges, Descends, Fails
<1>12. Step(u, eqs, FirstIndex, r, n, a, b) /\ ~Fails(r, n, a, b)
    BY <1>2, <1>11 DEF Fails
<1>13. ASSUME Known(n, eqs) = K, \A i \in DOMAIN n.sub : Apply(s, n.sub[i]) = s[i],
              Equalizes(s, Range(n.pending)), \A c \in n.constraints : Satisfies(Apply(s, c[2]), c[1])
       PROVE  Kept
    BY <1>6, <1>13 DEF Extends, K
<1> HIDE DEF Kept
<1>14. ASSUME NEW v \in Type, NEW ty, Binds(r, n, v, ty), Leaves(v) \subseteq K, Leaves(ty) \subseteq K,
              Apply(s, v) = Apply(s, ty)
       PROVE  Kept
    <2>1. /\ Known(n, eqs) = K /\ DOMAIN n.sub = DOMAIN u.sub \cup {v.id} /\ n.sub[v.id] = ty
          /\ \A i \in DOMAIN u.sub : n.sub[i] = u.sub[i]
        BY <1>3, <1>14, KnownBinds DEF K
    <2>2. v \in Variables(K)
        BY <1>14, GenericParts DEF Binds, IsGeneric, Variables
    <2>3. n.pending = r.pending /\ \A c \in n.constraints : c \in u.constraints \/ \E d \in v.cs : c = <<d, ty>>
        BY <1>3, <1>14 DEF Binds
    <2>4. \A i \in DOMAIN n.sub : Apply(s, n.sub[i]) = s[i]
        BY <1>6, <1>7, <1>14, <2>1, <2>2
    <2>5. \A c \in n.constraints : Satisfies(Apply(s, c[2]), c[1])
        BY <1>6, <1>7, <1>14, <2>2, <2>3
    <2> QED
        BY <1>9, <1>13, <2>1, <2>3, <2>4, <2>5
<1>15. ASSUME Merges(r, n, a, b)
       PROVE  Kept
    <2> DEFINE m == Var(u.next, a.cs \cup b.cs)
               t == [i \in DOMAIN s \cup {u.next} |-> IF i = u.next THEN s[a.id] ELSE s[i]]
               L == Known(n, eqs)
    <2>1. Merged(u, eqs, n, a, b, m)
        BY <1>12, <1>15, KnownMerges
    <2> HIDE DEF m
    <2>2. /\ m \in Type /\ IsVar(m) /\ m.id = u.next /\ m.cs = a.cs \cup b.cs /\ L = K \cup {m}
          /\ a \in K /\ b \in K /\ a \in Variables(K) /\ b \in Variables(K)
          /\ DOMAIN n.sub = DOMAIN u.sub \cup {a.id, b.id} /\ n.sub[a.id] = m /\ n.sub[b.id] = m
          /\ \A i \in DOMAIN u.sub : n.sub[i] = u.sub[i]
        BY <1>4, <1>15, <2>1 DEF Merged, Merges, Variables, K
    <2>3. /\ DOMAIN s = {v.id : v \in Variables(K)} /\ \A i \in DOMAIN s : s[i] \in GroundTypes
        BY <1>5 DEF Ground
    <2>4. u.next \notin DOMAIN s
        BY <1>1, <2>1, <2>3 DEF Coherent, Variables, K, Merged
    <2>5. s[a.id] = s[b.id] /\ a.id \in DOMAIN s /\ b.id \in DOMAIN s
        BY <1>7, <1>9, <2>2, <2>3
    <2>6. DOMAIN t = DOMAIN s \cup {u.next} /\ t[u.next] = s[a.id] /\ \A i \in DOMAIN s : t[i] = s[i]
        BY <2>4
    <2>7. t \in [DOMAIN s \cup {u.next} -> GroundTypes]
        BY <2>3, <2>5
    <2> HIDE DEF t, L
    <2>8. Variables(L) = Variables(K) \cup {m}
        BY <2>2 DEF Variables
    <2>9. t \in Grounding(Variables(L))
        <3>1. {v.id : v \in Variables(L)} = DOMAIN s \cup {u.next}
            <4>1. {v.id : v \in Variables(K) \cup {m}} = {v.id : v \in Variables(K)} \cup {m.id}
                OBVIOUS
            <4> QED
                BY ONLY <4>1, <2>2, <2>3, <2>8
        <3>2. ASSUME NEW v \in Variables(L), NEW c \in v.cs
              PROVE  Satisfies(t[v.id], c)
            <4>1. CASE v \in Variables(K)
                BY <1>7, <2>3, <2>6, <3>2, <4>1
            <4>2. CASE v = m
                BY <1>7, <2>2, <2>5, <2>6, <3>2, <4>2
            <4> QED
                BY <2>8, <4>1, <4>2
        <3> QED
            BY <2>7, <3>1, <3>2 DEF Grounding
    <2>10. Suitable(L) /\ Ground(t, L)
        <3>1. Coherent(n, eqs, FirstIndex)
            BY <1>2, <1>12, CoherentNext
        <3>2. Suitable(L)
            BY <1>1, <1>2, <3>1, KnownSuitable DEF L
        <3> QED
            BY <2>9, <3>2, GroundFacts
    <2>11. \A ty \in Type : Leaves(ty) \subseteq K => Apply(t, ty) = Apply(s, ty)
        <3>1. s \in Grounding(Variables(K)) /\ K \subseteq L
            BY <2>2 DEF K
        <3> QED
            BY <1>5, <2>6, <2>9, <2>10, <3>1, GroundAgree
    <2>12. \A i \in DOMAIN n.sub : Apply(t, n.sub[i]) = t[i]
        <3>1. m \in Variables(L) /\ Apply(t, m) = s[a.id]
            <4>1. m \in Variables(L) /\ m.id = u.next
                BY <2>2, <2>8
            <4>2. \A v \in Variables(L) : Apply(t, v) = t[v.id]
                BY <2>10 DEF Ground
            <4> QED
                BY <2>6, <4>1, <4>2
        <3>2. ASSUME NEW i \in DOMAIN u.sub
              PROVE  Apply(t, u.sub[i]) = t[i]
            <4>1. u.sub[i] \in Type /\ Leaves(u.sub[i]) \subseteq K
                BY <1>1, ResolvableTypes DEF K, Known
            <4>2. i \in DOMAIN s
                BY <1>1, <2>3 DEF AboutKnown, K
            <4> QED
                BY <1>6, <2>6, <2>11, <4>1, <4>2
        <3> QED
            BY <2>2, <2>5, <2>6, <3>1, <3>2
    <2>13. n.pending = r.pending /\ n.constraints = u.constraints
        BY <1>3, <1>15 DEF Merges
    <2>14. Equalizes(t, Range(n.pending))
        <3>1. ASSUME NEW p \in Range(r.pending)
              PROVE  Apply(t, p[1]) = Apply(t, p[2])
            <4>1. p \in Range(u.pending)
                BY <1>3
            <4>2. p[1] \in Type /\ p[2] \in Type
                BY <1>1, <4>1, RangeOfSeq DEF Unifiers
            <4>3. Leaves(p[1]) \subseteq K /\ Leaves(p[2]) \subseteq K
                BY <1>1, <4>1, LeavesOf DEF AboutKnown, K
            <4>4. Apply(s, p[1]) = Apply(s, p[2])
                BY <1>9 DEF Equalizes
            <4> QED
                BY <2>11, <4>2, <4>3, <4>4
        <3> QED
            BY <2>13, <3>1 DEF Equalizes
    <2>15. \A c \in n.constraints : Satisfies(Apply(t, c[2]), c[1])
        <3>1. \A c \in u.constraints : c[2] \in Type /\ Leaves(c[2]) \subseteq K
            BY <1>1 DEF Unifiers, AboutKnown, K
        <3> QED
            BY <1>6, <2>11, <2>13, <3>1
    <2>16. \A i \in DOMAIN g : t[i] = g[i]
        <3>1. DOMAIN g \subseteq DOMAIN s
            <4>1. DOMAIN g = {v.id : v \in Variables(LeavesOfPairs(eqs))}
                BY DEF SolutionsOf, Grounding
            <4>2. Variables(LeavesOfPairs(eqs)) \subseteq Variables(K)
                BY DEF Variables, K, Known
            <4> QED
                BY <2>3, <4>1, <4>2
        <3> QED
            BY <1>6, <2>6, <3>1
    <2> QED
        <3>1. Extends(t, g, n, eqs)
            BY <2>9, <2>12, <2>14, <2>15, <2>16 DEF Extends, L
        <3> QED
            BY <2>9, <3>1 DEF L, Kept
<1>16. ASSUME Descends(r, n, a, b)
       PROVE  Kept
    <2>1. /\ n.sub = u.sub /\ n.constraints = u.constraints
          /\ Range(n.pending) = {<<a.args[i], b.args[i]>> : i \in DOMAIN a.args} \cup Range(r.pending)
        BY <1>3, <1>16 DEF Descends
    <2>2. \A i \in DOMAIN a.args : Apply(s, a.args[i]) = Apply(s, b.args[i])
        BY <1>4, <1>7, <1>9, <1>16, CompositesEqual DEF Descends
    <2>3. Equalizes(s, Range(n.pending))
        BY <1>9, <2>1, <2>2 DEF Equalizes
    <2>4. Known(n, eqs) = K
        BY <2>1, KnownSame DEF K
    <2>5. \A i \in DOMAIN n.sub : Apply(s, n.sub[i]) = s[i]
        BY <1>6, <2>1
    <2>6. \A c \in n.constraints : Satisfies(Apply(s, c[2]), c[1])
        BY <1>6, <2>1
    <2> QED
        BY <1>13, <2>3, <2>4, <2>5, <2>6
<1>17. ASSUME n = r
       PROVE  Kept
    <2>1. Known(n, eqs) = K
        BY <1>3, <1>17, KnownSame DEF K
    <2>2. \A i \in DOMAIN n.sub : Apply(s, n.sub[i]) = s[i]
        BY <1>3, <1>6, <1>17
    <2>3. \A c \in n.constraints : Satisfies(Apply(s, c[2]), c[1])
        BY <1>3, <1>6, <1>17
    <2> QED
        BY <1>9, <1>13, <1>17, <2>1, <2>2, <2>3
<1>18. Kept
    <2>1. Binds(r, n, a, b) => Kept
        BY <1>4, <1>9, <1>14
    <2>2. Binds(r, n, b, a) => Kept
        <3>1. Apply(s, b) = Apply(s, a)
            BY <1>9
        <3> QED
            BY <1>4, <1>14, <3>1
    <2> QED
        BY <1>2, <1>12, <1>15, <1>16, <1>17, <2>1, <2>2 DEF Outcome
<1> QED
    BY <1>11, <1>18 DEF n, Kept

LEMMA GoodNext ==
    ASSUME NEW u, NEW eqs, Good(u, eqs), u.pending # <<>>
    PROVE  Good(UnifyNext(u), eqs)
<1> DEFINE n == UnifyNext(u)
<1>1. u.result = "ok" /\ UnderWay(u, eqs, FirstIndex) /\ Keeps(u, eqs) /\ Progress(u, eqs) /\ General(u, eqs)
      /\ eqs \subseteq FirstPairs \cup LaterPairs
    BY PairsTyped DEF Good, Sound, UnderWay
<1>2. /\ Outcome(Rest(u), n, Left(u), Right(u)) /\ Sound(n)
      /\ n.result = "ok" => Step(u, eqs, FirstIndex, Rest(u), n, Left(u), Right(u))
    BY <1>1, NextOutcome
<1>3. ASSUME NEW g \in SolutionsOf(eqs)
      PROVE  n.result = "ok" /\ \E x \in Grounding(Variables(Known(n, eqs))) : Extends(x, g, n, eqs)
    <2>1. PICK s \in Grounding(Variables(Known(u, eqs))) : Extends(s, g, u, eqs)
        BY <1>1 DEF General
    <2> QED
        BY <1>1, <2>1, SolutionNext
<1> HIDE DEF n
<1>4. General(n, eqs)
    BY <1>3 DEF General
<1>5. ASSUME n.result = "ok"
      PROVE  Coherent(n, eqs, FirstIndex) /\ AboutKnown(n, eqs) /\ Keeps(n, eqs) /\ Progress(n, eqs)
    <2>1. Coherent(n, eqs, FirstIndex) /\ AboutKnown(n, eqs)
        BY <1>2, <1>5, CoherentNext
    <2>2. Keeps(n, eqs)
        BY <1>1, <1>2, <1>5, KeepsNext
    <2>3. Progress(n, eqs)
        BY <1>1, <1>2, <1>5, ProgressNext
    <2> QED
        BY <2>1, <2>2, <2>3
<1>6. Good(n, eqs)
    BY <1>1, <1>2, <1>4, <1>5 DEF Good
<1> QED
    BY <1>6 DEF n

\* A solution of more equations solves the ones before.
LEMMA SolvedBefore ==
    ASSUME NEW eqs, NEW more, eqs \subseteq more, more \subseteq FirstPairs \cup LaterPairs,
           NEW g \in SolutionsOf(more)
    PROVE  LET ids == {v.id : v \in Variables(LeavesOfPairs(eqs))}
           IN  ids \subseteq DOMAIN g /\ [i \in ids |-> g[i]] \in SolutionsOf(eqs)
<1> DEFINE few == LeavesOfPairs(eqs)
           many == LeavesOfPairs(more)
           ids == {v.id : v \in Variables(few)}
           f == [i \in ids |-> g[i]]
<1>1. g \in Grounding(Variables(many)) /\ Equalizes(g, more)
    BY DEF SolutionsOf
<1>2. few \subseteq many /\ Suitable(few) /\ Suitable(many)
    BY PairsSuitable DEF LeavesOfPairs
<1>3. \A e \in eqs : e[1] \in Type /\ e[2] \in Type /\ Leaves(e[1]) \subseteq few /\ Leaves(e[2]) \subseteq few
    BY PairsSuitable, LeavesOf
<1> HIDE DEF few, many
<1>4. Variables(few) \subseteq Variables(many)
    BY <1>2 DEF Variables
<1>5. /\ DOMAIN g = {v.id : v \in Variables(many)} /\ \A i \in DOMAIN g : g[i] \in GroundTypes
      /\ \A v \in Variables(many) : \A c \in v.cs : Satisfies(g[v.id], c)
    BY <1>1 DEF Grounding
<1>6. ids \subseteq DOMAIN g
    BY <1>4, <1>5
<1>7. DOMAIN f = ids /\ \A i \in ids : f[i] = g[i]
    OBVIOUS
<1>8. f \in [ids -> GroundTypes]
    BY <1>5, <1>6
<1> HIDE DEF f
<1>9. f \in Grounding(Variables(few))
    BY <1>4, <1>5, <1>7, <1>8 DEF Grounding
<1>10. \A ty \in Type : Leaves(ty) \subseteq few => Apply(g, ty) = Apply(f, ty)
    BY <1>1, <1>2, <1>7, <1>9, GroundAgree
<1>11. Equalizes(f, eqs)
    BY <1>1, <1>3, <1>10 DEF Equalizes
<1>12. f \in SolutionsOf(eqs)
    BY <1>9, <1>11 DEF SolutionsOf, few
<1> QED
    BY <1>6, <1>12 DEF f, few

\* A further call of unify.
Called(u, n, eqs, more, pair) ==
    /\ Good(u, eqs) /\ u.result = "ok" /\ u.pending = <<>>
    /\ pair \in FirstPairs \cup LaterPairs /\ more = eqs \cup {pair}
    /\ pair[1] \in Type /\ pair[2] \in Type
    /\ n \in Unifiers /\ n.sub = u.sub /\ n.constraints = u.constraints /\ n.next = u.next
    /\ n.result = "ok" /\ n.pending # <<>> /\ Range(n.pending) = {<<pair[1], pair[2]>>}

LEMMA CalledFacts ==
    ASSUME NEW u, NEW n, NEW eqs, NEW more, NEW pair, Called(u, n, eqs, more, pair)
    PROVE  /\ Sound(u) /\ Sound(n) /\ eqs \subseteq FirstPairs \cup LaterPairs /\ more \subseteq FirstPairs \cup LaterPairs
           /\ Coherent(u, eqs, FirstIndex) /\ Coherent(n, more, FirstIndex) /\ AboutKnown(u, eqs) /\ AboutKnown(n, more)
           /\ Known(n, more) = Known(u, eqs) \cup Leaves(pair[1]) \cup Leaves(pair[2])
           /\ Known(n, more) = Known(u, eqs) \cup LeavesOfPairs(more)
<1>1. /\ Sound(u) /\ Coherent(u, eqs, FirstIndex) /\ AboutKnown(u, eqs) /\ eqs \subseteq FirstPairs \cup LaterPairs
      /\ pair \in FirstPairs \cup LaterPairs /\ more = eqs \cup {pair} /\ n.sub = u.sub /\ n.next = u.next
      /\ n.constraints = u.constraints /\ Range(n.pending) = {<<pair[1], pair[2]>>}
      /\ n \in Unifiers /\ n.result = "ok" /\ u \in Unifiers
    BY DEF Called, Good, Sound
<1>2. more \subseteq FirstPairs \cup LaterPairs
    BY <1>1
<1> DEFINE new == Leaves(pair[1]) \cup Leaves(pair[2])
<1>3. LeavesOfPairs(more) = LeavesOfPairs(eqs) \cup new
    BY <1>1 DEF LeavesOfPairs
<1>4. Known(n, more) = Known(u, eqs) \cup new /\ LeavesOfPairs(eqs) \subseteq Known(u, eqs)
    BY <1>1, <1>3 DEF Known
<1>5. Sound(n)
    BY <1>1 DEF Sound
<1>6. /\ \A l \in LeavesOfPairs(more) : l.id \in Nat /\ l.id < FirstIndex
      /\ \A l, m \in LeavesOfPairs(more) : l.id = m.id => l = m
    BY <1>2, PairsSuitable DEF Suitable
<1>7. u.next \in Nat /\ FirstIndex \in Nat /\ FirstIndex <= u.next
    BY <1>1, TypesAssumption DEF Unifiers, Coherent
<1>8. LeavesOfPairs(Range(n.pending)) = new
    BY <1>1 DEF LeavesOfPairs
<1> HIDE DEF new
<1>9. AboutKnown(n, more)
    BY <1>1, <1>4, <1>8 DEF AboutKnown, Variables
<1>10. ASSUME NEW l \in Known(n, more)
       PROVE  l.id < n.next /\ (l \in LeavesOfPairs(more) \/ (IsVar(l) /\ FirstIndex <= l.id))
    <2>1. CASE l \in new
        BY <1>1, <1>3, <1>6, <1>7, <2>1
    <2>2. CASE l \in Known(u, eqs)
        BY <1>1, <1>3, <2>2 DEF Coherent
    <2> QED
        BY <1>4, <2>1, <2>2
<1>11. ASSUME NEW l \in Known(n, more), NEW m \in Known(n, more), l.id = m.id
       PROVE  l = m
    <2>1. ASSUME NEW x \in new, NEW y \in Known(u, eqs), x.id = y.id
          PROVE  x = y
        <3>1. x \in LeavesOfPairs(more) /\ x.id \in Nat /\ x.id < FirstIndex
            BY <1>3, <1>6
        <3>2. y \in LeavesOfPairs(eqs) \/ FirstIndex <= y.id
            BY <1>1 DEF Coherent
        <3>3. y \in LeavesOfPairs(more)
            BY <1>3, <1>7, <2>1, <3>1, <3>2
        <3> QED
            BY <1>6, <2>1, <3>1, <3>3
    <2>2. CASE l \in new /\ m \in new
        BY <1>3, <1>6, <1>11, <2>2
    <2>3. CASE l \in Known(u, eqs) /\ m \in Known(u, eqs)
        BY <1>1, <1>11, <2>3 DEF Coherent
    <2> QED
        BY <1>4, <1>11, <2>1, <2>2, <2>3
<1>12. Coherent(n, more, FirstIndex)
    BY <1>1, <1>7, <1>10, <1>11 DEF Coherent
<1> QED
    BY <1>1, <1>2, <1>3, <1>4, <1>5, <1>9, <1>12 DEF new

LEMMA CalledKeeps ==
    ASSUME NEW u, NEW n, NEW eqs, NEW more, NEW pair, Called(u, n, eqs, more, pair)
    PROVE  Keeps(n, more) /\ Progress(n, more)
<1>1. /\ Keeps(u, eqs) /\ Progress(u, eqs) /\ more = eqs \cup {pair} /\ n.sub = u.sub
      /\ n.constraints = u.constraints /\ Range(n.pending) = {<<pair[1], pair[2]>>} /\ u.pending = <<>>
    BY DEF Called, Good
<1>2. /\ AboutKnown(u, eqs) /\ Coherent(n, more, FirstIndex)
      /\ Known(n, more) = Known(u, eqs) \cup Leaves(pair[1]) \cup Leaves(pair[2])
    BY CalledFacts
<1>3. \A v \in Variables(Known(n, more)) : v.id \in DOMAIN u.sub => v \in Variables(Known(u, eqs))
    <2> TAKE v \in Variables(Known(n, more))
    <2> HAVE v.id \in DOMAIN u.sub
    <2>1. PICK w \in Variables(Known(u, eqs)) : w.id = v.id
        BY <1>2 DEF AboutKnown
    <2>2. w = v
        BY <1>2, <2>1 DEF Coherent, Variables
    <2> QED
        BY <2>2
<1>4. Keeps(n, more)
    BY <1>1, <1>3 DEF Keeps
<1>5. ASSUME NEW s, Resolvable(s), Respects(s, n.sub), Equalizes(s, Range(n.pending))
      PROVE  Equalizes(s, more)
    <2>1. Range(u.pending) = {}
        <3>1. <<>> \in Seq({}) /\ DOMAIN <<>> = {}
            BY EmptySeq, LenProperties
        <3> QED
            BY <1>1, <3>1 DEF Range
    <2>2. Equalizes(s, eqs)
        BY <1>1, <1>5, <2>1 DEF Progress, Equalizes
    <2>3. Apply(s, pair[1]) = Apply(s, pair[2])
        <3>1. \A x, y : <<x, y>> \in Range(n.pending) => Apply(s, x) = Apply(s, y)
            BY <1>5 DEF Equalizes
        <3> QED
            BY <1>1, <3>1
    <2> QED
        BY <1>1, <2>2, <2>3 DEF Equalizes
<1>6. Progress(n, more)
    BY <1>5 DEF Progress
<1> QED
    BY <1>4, <1>6

LEMMA CalledGeneral ==
    ASSUME NEW u, NEW n, NEW eqs, NEW more, NEW pair, Called(u, n, eqs, more, pair)
    PROVE  General(n, more)
<1>0. /\ more = eqs \cup {pair} /\ n.sub = u.sub /\ n.constraints = u.constraints /\ n.result = "ok"
      /\ Range(n.pending) = {<<pair[1], pair[2]>>} /\ General(u, eqs) /\ u \in Unifiers
      /\ pair[1] \in Type /\ pair[2] \in Type /\ pair \in more
    BY DEF Called, Good, Sound
<1>1. /\ Sound(u) /\ Sound(n) /\ eqs \subseteq FirstPairs \cup LaterPairs /\ more \subseteq FirstPairs \cup LaterPairs
      /\ Coherent(u, eqs, FirstIndex) /\ Coherent(n, more, FirstIndex) /\ AboutKnown(u, eqs) /\ AboutKnown(n, more)
      /\ Known(n, more) = Known(u, eqs) \cup LeavesOfPairs(more)
    BY CalledFacts
<1> SUFFICES ASSUME NEW g \in SolutionsOf(more)
             PROVE  \E x \in Grounding(Variables(Known(n, more))) : Extends(x, g, n, more)
    BY <1>0 DEF General
<1> DEFINE few == LeavesOfPairs(eqs)
           all == LeavesOfPairs(more)
           K == Known(u, eqs)
           L == Known(n, more)
           ids == {v.id : v \in Variables(few)}
           f == [i \in ids |-> g[i]]
<1>2. ids \subseteq DOMAIN g /\ f \in SolutionsOf(eqs) /\ DOMAIN f = ids
    <2>1. eqs \subseteq more
        BY <1>0
    <2> QED
        BY <1>1, <2>1, SolvedBefore
<1>3. PICK s \in Grounding(Variables(K)) : Extends(s, f, u, eqs)
    <2> HIDE DEF f, K
    <2> QED
        BY <1>0, <1>2 DEF General, K
<1>4. /\ \A i \in ids : s[i] = g[i]
      /\ \A i \in DOMAIN u.sub : Apply(s, u.sub[i]) = s[i]
      /\ \A c \in u.constraints : Satisfies(Apply(s, c[2]), c[1])
    BY <1>3 DEF Extends
<1> HIDE DEF f, few, all, K, L, ids
<1>5. Suitable(K) /\ Suitable(L) /\ Suitable(all)
    BY <1>1, KnownSuitable, PairsSuitable DEF K, L, all
<1>6. /\ DOMAIN s = {v.id : v \in Variables(K)} /\ \A i \in DOMAIN s : s[i] \in GroundTypes
      /\ \A v \in Variables(K) : \A c \in v.cs : Satisfies(s[v.id], c)
    BY DEF Grounding
<1>7. /\ g \in Grounding(Variables(all)) /\ Equalizes(g, more)
      /\ DOMAIN g = {v.id : v \in Variables(all)} /\ \A i \in DOMAIN g : g[i] \in GroundTypes
      /\ \A v \in Variables(all) : \A c \in v.cs : Satisfies(g[v.id], c)
    BY DEF SolutionsOf, Grounding, all
<1> DEFINE t == [i \in DOMAIN s \cup DOMAIN g |-> IF i \in DOMAIN g THEN g[i] ELSE s[i]]
<1>8. ASSUME NEW i \in DOMAIN s, i \in DOMAIN g
      PROVE  s[i] = g[i]
    <2>1. PICK v \in Variables(K) : v.id = i
        BY <1>6
    <2>2. PICK w \in Variables(all) : w.id = i
        BY <1>7, <1>8
    <2>3. w.id \in Nat /\ w.id < FirstIndex /\ FirstIndex \in Nat
        BY <1>1, <2>2, PairsSuitable, TypesAssumption DEF Variables, all
    <2>4. v \in few
        BY <1>1, <2>1, <2>2, <2>3 DEF Coherent, Variables, K, few
    <2>5. i \in ids
        BY <2>1, <2>4 DEF Variables, ids
    <2> QED
        BY <1>4, <2>5
<1>9. /\ DOMAIN t = DOMAIN s \cup DOMAIN g
      /\ \A i \in DOMAIN s : t[i] = s[i]
      /\ \A i \in DOMAIN g : t[i] = g[i]
    BY <1>8
<1>10. t \in [DOMAIN s \cup DOMAIN g -> GroundTypes]
    BY <1>6, <1>7
<1> HIDE DEF t
<1>11. Variables(L) = Variables(K) \cup Variables(all)
    BY <1>1 DEF Variables, K, L, all
<1>12. t \in Grounding(Variables(L))
    <2>1. {v.id : v \in Variables(L)} = DOMAIN s \cup DOMAIN g
        BY <1>6, <1>7, <1>11
    <2>2. ASSUME NEW v \in Variables(L), NEW c \in v.cs
          PROVE  Satisfies(t[v.id], c)
        <3>1. CASE v \in Variables(K)
            BY <1>6, <1>9, <2>2, <3>1
        <3>2. CASE v \in Variables(all)
            BY <1>7, <1>9, <2>2, <3>2
        <3> QED
            BY <1>11, <3>1, <3>2
    <2> QED
        BY <1>10, <2>1, <2>2 DEF Grounding
<1>13. K \subseteq L /\ all \subseteq L
    BY <1>1 DEF K, L, all
<1>14. \A ty \in Type : Leaves(ty) \subseteq K => Apply(t, ty) = Apply(s, ty)
    BY <1>5, <1>9, <1>12, <1>13, GroundAgree
<1>15. \A ty \in Type : Leaves(ty) \subseteq all => Apply(t, ty) = Apply(g, ty)
    BY <1>5, <1>7, <1>9, <1>12, <1>13, GroundAgree
<1>16. \A i \in DOMAIN n.sub : Apply(t, n.sub[i]) = t[i]
    <2> TAKE i \in DOMAIN n.sub
    <2>1. i \in DOMAIN u.sub /\ n.sub[i] = u.sub[i]
        BY <1>0
    <2>2. u.sub[i] \in Type /\ Leaves(u.sub[i]) \subseteq K
        BY <1>1, <2>1, ResolvableTypes DEF K, Known, Sound
    <2>3. i \in DOMAIN s
        BY <1>1, <1>6, <2>1 DEF AboutKnown, K
    <2> QED
        BY <1>4, <1>9, <1>14, <2>1, <2>2, <2>3
<1>17. Equalizes(t, Range(n.pending))
    <2>1. Leaves(pair[1]) \subseteq all /\ Leaves(pair[2]) \subseteq all
        BY <1>0, LeavesOf DEF all
    <2>2. Apply(g, pair[1]) = Apply(g, pair[2])
        BY <1>0, <1>7 DEF Equalizes
    <2>3. Apply(t, pair[1]) = Apply(t, pair[2])
        BY <1>0, <1>15, <2>1, <2>2
    <2> QED
        BY <1>0, <2>3 DEF Equalizes
<1>18. \A c \in n.constraints : Satisfies(Apply(t, c[2]), c[1])
    <2>1. \A c \in u.constraints : c[2] \in Type /\ Leaves(c[2]) \subseteq K
        BY <1>0, <1>1 DEF Unifiers, AboutKnown, K
    <2> QED
        BY <1>0, <1>4, <1>14, <2>1
<1>19. Extends(t, g, n, more)
    BY <1>9, <1>12, <1>16, <1>17, <1>18 DEF Extends, L
<1> QED
    BY <1>12, <1>19 DEF L

LEMMA GoodCall ==
    ASSUME NEW u, NEW eqs, Good(u, eqs), u.result = "ok", u.pending = <<>>,
           NEW pair \in FirstPairs \cup LaterPairs
    PROVE  Good(CallUnify(u, pair[1], pair[2]), eqs \cup {pair})
<1> DEFINE n == CallUnify(u, pair[1], pair[2])
           more == eqs \cup {pair}
<1>1. pair[1] \in Type /\ pair[2] \in Type
    BY TypesAssumption DEF Type
<1>2. u \in Unifiers
    BY DEF Good, Sound
<1>3. Called(u, n, eqs, more, pair)
    BY <1>1, <1>2, CallDef DEF Called
<1> HIDE DEF n, more
<1>4. Good(n, more)
    BY <1>3, CalledFacts, CalledKeeps, CalledGeneral DEF Good
<1> QED
    BY <1>4 DEF n, more

LEMMA GoodInit == Good(NewUnifier(FirstIndex), {})
<1> DEFINE u == NewUnifier(FirstIndex)
<1>1. /\ u = [sub |-> [i \in {} |-> 0], constraints |-> {}, next |-> FirstIndex, pending |-> <<>>, result |-> "ok"]
      /\ FirstIndex \in Nat
    BY TypesAssumption DEF NewUnifier
<1> HIDE DEF u
<1>2. /\ DOMAIN u.sub = {} /\ u.constraints = {} /\ u.next = FirstIndex /\ u.pending = <<>> /\ u.result = "ok"
    BY <1>1
<1>3. u \in Unifiers
    <2> DEFINE empty == [i \in {} |-> 0]
               subs == UNION {[indices -> Type] : indices \in SUBSET Nat}
    <2>1. empty \in subs
        <3>1. empty \in [{} -> Type] /\ {} \in SUBSET Nat
            OBVIOUS
        <3> QED
            BY <3>1
    <2>2. <<>> \in Seq(Type \X Type)
        BY EmptySeq
    <2> HIDE DEF empty, subs
    <2>3. u = [sub |-> empty, constraints |-> {}, next |-> FirstIndex, pending |-> <<>>, result |-> "ok"]
        BY <1>1 DEF empty
    <2>4. u \in [sub : subs, constraints : SUBSET (STRING \X Type), next : Nat,
                 pending : Seq(Type \X Type), result : {"ok", "fail", "panic"}]
        BY <1>1, <2>1, <2>2, <2>3
    <2> QED
        BY <2>4 DEF Unifiers, subs
<1>4. Resolvable(u.sub)
    <2>1. 0 \in Nat /\ \A i \in DOMAIN u.sub : u.sub[i] \in Layer[0] /\ Free(u.sub[i], DOMAIN u.sub)
        BY <1>2
    <2> QED
        BY <2>1, GroundResolvable
<1>5. Sound(u)
    BY <1>2, <1>3, <1>4, FS_EmptySet DEF Sound
<1>6. LeavesOfPairs({}) = {} /\ Known(u, {}) = {}
    BY <1>2 DEF LeavesOfPairs, Known
<1>7. Range(u.pending) = {}
    <2>1. DOMAIN <<>> = {}
        OBVIOUS
    <2> QED
        BY <1>2, <2>1 DEF Range
<1>8. Coherent(u, {}, FirstIndex)
    <2>1. FirstIndex \in Nat /\ FirstIndex <= u.next
        BY <1>1, <1>2
    <2> QED
        BY <1>6, <2>1 DEF Coherent
<1>9. AboutKnown(u, {}) /\ Keeps(u, {}) /\ Progress(u, {})
    BY <1>2, <1>6, <1>7 DEF AboutKnown, Keeps, Progress, Variables, Equalizes
<1>10. ASSUME NEW g \in SolutionsOf({})
       PROVE  \E x \in Grounding(Variables(Known(u, {}))) : Extends(x, g, u, {})
    <2>1. g \in Grounding(Variables(Known(u, {})))
        BY <1>6 DEF SolutionsOf
    <2>2. Extends(g, g, u, {})
        BY <1>2, <1>7, <2>1 DEF Extends, Equalizes
    <2> QED
        BY <2>1, <2>2
<1>11. General(u, {})
    BY <1>2, <1>10 DEF General
<1>12. Good(u, {})
    BY <1>5, <1>8, <1>9, <1>11 DEF Good
<1> QED
    BY <1>12 DEF u

\* The invariant behind the four properties: every step of every call keeps it.
THEOREM GoodAlways == Spec => []IInv
<1>1. Init => IInv
    BY GoodInit DEF Init, IInv
<1>2. IInv /\ [Next]_vars => IInv'
    <2> SUFFICES ASSUME IInv, [Next]_vars
                 PROVE  IInv'
        OBVIOUS
    <2>1. ASSUME NEW pair \in FirstPairs \cup LaterPairs, UnifyPair(pair)
          PROVE  IInv'
        <3>1. /\ unifier.result = "ok" /\ unifier.pending = <<>>
              /\ unifier' = CallUnify(unifier, pair[1], pair[2]) /\ equations' = equations \cup {pair}
            BY <2>1 DEF UnifyPair
        <3>2. Good(CallUnify(unifier, pair[1], pair[2]), equations \cup {pair})
            BY <3>1, GoodCall DEF IInv
        <3> QED
            BY <3>1, <3>2 DEF IInv
    <2>2. CASE UnifyItem
        <3>1. unifier.pending # <<>> /\ unifier' = UnifyNext(unifier) /\ equations' = equations
            BY <2>2 DEF UnifyItem
        <3>2. Good(UnifyNext(unifier), equations)
            BY <3>1, GoodNext DEF IInv
        <3> QED
            BY <3>1, <3>2 DEF IInv
    <2>3. CASE UNCHANGED vars
        BY <2>3 DEF IInv, vars
    <2> QED
        BY <2>1, <2>2, <2>3 DEF Next
<1> QED
    BY <1>1, <1>2, PTL DEF Spec

-----------------------------------------------------------------------------
(* The properties. *)

LeadsTo(sub, i) == {j \in DOMAIN sub : Occurs(sub[i], j)}

ReachStep(sub, f, n) ==
    IF n = 0 THEN [i \in DOMAIN sub |-> LeadsTo(sub, i)]
    ELSE [i \in DOMAIN sub |-> f[n - 1][i] \cup UNION {LeadsTo(sub, j) : j \in f[n - 1][i]}]

\* To follow the bindings of a resolvable substitution never leads back.
LEMMA NeverBack ==
    ASSUME NEW sub, Resolvable(sub), NEW N \in Nat
    PROVE  LET reach == CHOOSE f : f = [n \in 0..N |-> ReachStep(sub, f, n)]
           IN  \A i \in DOMAIN sub : i \notin reach[N][i]
<1> DEFINE T == 0..N
           V == [DOMAIN sub -> SUBSET DOMAIN sub]
           D == [f \in [T -> V] |-> [n \in T |-> ReachStep(sub, f, n)]]
           mu == [n \in T |-> n]
           reach == CHOOSE f : f = [n \in T |-> ReachStep(sub, f, n)]
<1>1. ASSUME NEW f \in [T -> V], NEW n \in T
      PROVE  ReachStep(sub, f, n) \in V
    <2>1. CASE n = 0
        BY <2>1 DEF ReachStep, LeadsTo
    <2>2. CASE n # 0
        <3>1. n - 1 \in T
            BY <2>2
        <3>2. f[n - 1] \in V
            BY <3>1
        <3>3. \A i \in DOMAIN sub : f[n - 1][i] \cup UNION {LeadsTo(sub, j) : j \in f[n - 1][i]} \subseteq DOMAIN sub
            BY <3>2 DEF LeadsTo
        <3> QED
            BY <2>2, <3>3 DEF ReachStep
    <2> QED
        BY <2>1, <2>2
<1>2. ASSUME NEW f, NEW g, NEW n \in T, n # 0 => f[n - 1] = g[n - 1]
      PROVE  ReachStep(sub, f, n) = ReachStep(sub, g, n)
    BY <1>2 DEF ReachStep
<1>3. Recursion(T, V, D, mu)
    <2>1. D \in [[T -> V] -> [T -> V]]
        BY <1>1
    <2>2. mu \in [T -> Nat]
        OBVIOUS
    <2>3. V # {}
        <3>1. [i \in DOMAIN sub |-> {}] \in V
            OBVIOUS
        <3> QED
            BY <3>1
    <2>4. ASSUME NEW f \in [T -> V], NEW g \in [T -> V], NEW n \in T, \A m \in T : mu[m] < mu[n] => f[m] = g[m]
          PROVE  D[f][n] = D[g][n]
        <3>1. n # 0 => n - 1 \in T /\ mu[n - 1] < mu[n]
            OBVIOUS
        <3>2. ReachStep(sub, f, n) = ReachStep(sub, g, n)
            BY <1>2, <2>4, <3>1
        <3> QED
            BY <3>2
    <2> HIDE DEF D, mu, T, V
    <2> QED
        BY <2>1, <2>2, <2>3, <2>4 DEF Recursion
<1>4. \E f : f = [n \in T |-> ReachStep(sub, f, n)]
    <2>1. PICK f \in [T -> V] : \A n \in T : f[n] = D[f][n]
        <3> HIDE DEF D, mu, T, V
        <3> QED
            BY <1>3, RecursionExists
    <2>2. \A n \in T : f[n] = ReachStep(sub, f, n)
        BY <2>1
    <2>3. f = [n \in T |-> f[n]]
        OBVIOUS
    <2>4. f = [n \in T |-> ReachStep(sub, f, n)]
        BY <2>2, <2>3
    <2> QED
        BY <2>4
<1>5. reach = [n \in T |-> ReachStep(sub, reach, n)]
    BY <1>4
<1> HIDE DEF reach, D, mu, V
<1>6. PICK nu : Decreasing(sub, nu)
    BY DEF Resolvable
<1>7. \A i \in DOMAIN sub : sub[i] \in Type /\ nu[sub[i]] \in Nat
    BY <1>6, ResolvableTypes DEF Decreasing
<1>8. ASSUME NEW i \in DOMAIN sub, NEW j \in LeadsTo(sub, i)
      PROVE  nu[sub[j]] < nu[sub[i]] /\ j \in DOMAIN sub
    <2>1. PICK l \in Leaves(sub[i]) : l.id = j
        BY DEF LeadsTo, Occurs, Indices
    <2>2. l \in Type /\ IsGeneric(l) /\ j \in DOMAIN sub
        BY <1>7, LeavesGeneric DEF LeadsTo
    <2>3. nu[l] <= nu[sub[i]] /\ nu[l] \in Nat
        BY <1>6, <1>7, <2>2, LeafMeasure DEF Decreasing
    <2>4. nu[sub[l.id]] < nu[l]
        BY <1>6, <2>1, <2>2 DEF Decreasing
    <2> QED
        BY <1>7, <2>1, <2>2, <2>3, <2>4
<1> DEFINE S == {n \in Nat : n <= N =>
                    \A i \in DOMAIN sub : \A j \in reach[n][i] : j \in DOMAIN sub /\ nu[sub[j]] < nu[sub[i]]}
<1>9. 0 \in S
    <2>1. reach[0] = [i \in DOMAIN sub |-> LeadsTo(sub, i)]
        BY <1>5 DEF ReachStep
    <2> QED
        BY <1>8, <2>1
<1>10. ASSUME NEW n \in Nat, n \in S
       PROVE  n + 1 \in S
    <2> SUFFICES ASSUME n + 1 <= N, NEW i \in DOMAIN sub, NEW j \in reach[n + 1][i]
                 PROVE  j \in DOMAIN sub /\ nu[sub[j]] < nu[sub[i]]
        OBVIOUS
    <2>1. n + 1 \in T /\ n + 1 # 0 /\ (n + 1) - 1 = n
        OBVIOUS
    <2>2. reach[n + 1][i] = reach[n][i] \cup UNION {LeadsTo(sub, k) : k \in reach[n][i]}
        <3>1. reach[n + 1] = ReachStep(sub, reach, n + 1)
            BY <1>5, <2>1
        <3>2. ReachStep(sub, reach, n + 1) =
                [k \in DOMAIN sub |-> reach[n][k] \cup UNION {LeadsTo(sub, m) : m \in reach[n][k]}]
            BY <2>1 DEF ReachStep
        <3> QED
            BY <3>1, <3>2
    <2>3. \A k \in reach[n][i] : k \in DOMAIN sub /\ nu[sub[k]] < nu[sub[i]]
        BY <1>10
    <2>4. CASE j \in reach[n][i]
        BY <2>3, <2>4
    <2>5. ASSUME NEW k \in reach[n][i], j \in LeadsTo(sub, k)
          PROVE  j \in DOMAIN sub /\ nu[sub[j]] < nu[sub[i]]
        BY <1>7, <1>8, <2>3, <2>5
    <2> QED
        BY <2>2, <2>4, <2>5
<1>11. Nat \subseteq S
    <2> HIDE DEF S
    <2> QED
        BY <1>9, <1>10, NumberInduction
<1>12. \A i \in DOMAIN sub : i \notin reach[N][i]
    BY <1>7, <1>11
<1> QED
    BY <1>12 DEF reach

LEMMA AcyclicHolds ==
    ASSUME Resolvable(unifier.sub), IsFiniteSet(DOMAIN unifier.sub)
    PROVE  Acyclic
<1> DEFINE N == Cardinality(DOMAIN unifier.sub)
<1>1. N \in Nat
    BY FS_CardinalityType
<1> HIDE DEF N
<1>2. LET reach == CHOOSE f : f = [n \in 0..N |-> ReachStep(unifier.sub, f, n)]
      IN  \A i \in DOMAIN unifier.sub : i \notin reach[N][i]
    BY <1>1, NeverBack
<1> QED
    BY <1>2 DEF Acyclic, ReachStep, LeadsTo, N

LEMMA OpenIs ==
    /\ EquationVars = Variables(LeavesOfPairs(equations))
    /\ EquationVars \cup UnifierVars = Variables(Known(unifier, equations))
    /\ Open = Variables(OpenLeaves(unifier, equations))
    /\ OpenLeaves(unifier, equations) \subseteq Known(unifier, equations)
<1>1. EquationVars = Variables(LeavesOfPairs(equations))
    BY DEF EquationVars, Variables
<1>2. UnifierVars = Variables(UNION {Leaves(unifier.sub[i]) : i \in DOMAIN unifier.sub})
    BY DEF UnifierVars, Variables
<1>3. EquationVars \cup UnifierVars = Variables(Known(unifier, equations))
    BY <1>1, <1>2 DEF Known, Variables
<1> QED
    BY <1>1, <1>3 DEF Open, OpenLeaves, Variables

LEMMA SuitablePart ==
    ASSUME NEW leaves, Suitable(leaves), NEW part, part \subseteq leaves
    PROVE  Suitable(part)
BY DEF Suitable, Variables

\* A unifier that has returned.
Done == IInv /\ unifier.result = "ok" /\ unifier.pending = <<>>

LEMMA DoneFacts ==
    ASSUME Done
    PROVE  LET u == unifier
               eqs == equations
           IN  /\ u \in Unifiers /\ Sound(u) /\ Resolvable(u.sub) /\ Coherent(u, eqs, FirstIndex) /\ AboutKnown(u, eqs)
               /\ Keeps(u, eqs) /\ Progress(u, eqs) /\ General(u, eqs) /\ eqs \subseteq FirstPairs \cup LaterPairs
               /\ Range(u.pending) = {}
               /\ Suitable(Known(u, eqs)) /\ Suitable(OpenLeaves(u, eqs))
<1>1. /\ Good(unifier, equations) /\ unifier.result = "ok" /\ unifier.pending = <<>>
    BY DEF Done, IInv
<1>2. Range(unifier.pending) = {}
    <2>1. DOMAIN <<>> = {}
        OBVIOUS
    <2> QED
        BY <1>1, <2>1 DEF Range
<1>3. Sound(unifier) /\ Coherent(unifier, equations, FirstIndex) /\ equations \subseteq FirstPairs \cup LaterPairs
    BY <1>1 DEF Good
<1>4. Suitable(Known(unifier, equations))
    BY <1>3, KnownSuitable
<1>5. Suitable(OpenLeaves(unifier, equations))
    BY <1>4, OpenIs, SuitablePart
<1> QED
    BY <1>1, <1>2, <1>3, <1>4, <1>5 DEF Good, Sound

LEMMA SolvesHolds ==
    ASSUME Done
    PROVE  \A e \in equations : Final(e[1]) = Final(e[2])
<1>1. Resolvable(unifier.sub) /\ Progress(unifier, equations) /\ Range(unifier.pending) = {}
    BY DoneFacts
<1>2. Respects(unifier.sub, unifier.sub)
    BY <1>1, RespectsItself
<1>3. Equalizes(unifier.sub, Range(unifier.pending))
    BY <1>1 DEF Equalizes
<1>4. Equalizes(unifier.sub, equations)
    BY <1>1, <1>2, <1>3 DEF Progress
<1> QED
    BY <1>4 DEF Equalizes, Final

LEMMA GeneralHolds ==
    ASSUME Done, NEW g \in Solutions
    PROVE  \E h \in Completions : \A v \in EquationVars : Apply(h, Final(v)) = g[v.id]
<1> DEFINE K == Known(unifier, equations)
           O == OpenLeaves(unifier, equations)
<1>1. /\ unifier \in Unifiers /\ Sound(unifier) /\ Resolvable(unifier.sub) /\ Coherent(unifier, equations, FirstIndex)
      /\ AboutKnown(unifier, equations) /\ General(unifier, equations)
      /\ equations \subseteq FirstPairs \cup LaterPairs /\ Suitable(K) /\ Suitable(O)
    BY DoneFacts
<1>2. g \in SolutionsOf(equations)
    <2>1. g \in Grounding(EquationVars) /\ \A e \in equations : Apply(g, e[1]) = Apply(g, e[2])
        BY DEF Solutions
    <2> QED
        BY <2>1, OpenIs DEF SolutionsOf, Equalizes
<1>3. PICK s \in Grounding(Variables(K)) : Extends(s, g, unifier, equations)
    BY <1>1, <1>2 DEF General
<1>4. /\ \A i \in DOMAIN g : s[i] = g[i]
      /\ \A i \in DOMAIN unifier.sub : Apply(s, unifier.sub[i]) = s[i]
      /\ \A c \in unifier.constraints : Satisfies(Apply(s, c[2]), c[1])
    BY <1>3 DEF Extends
<1>5. Respects(s, unifier.sub)
    BY <1>1, <1>4, GroundRespects
<1>6. Ground(s, K)
    BY <1>1, GroundFacts
<1>7. /\ Resolvable(s) /\ DOMAIN s = {v.id : v \in Variables(K)} /\ \A i \in DOMAIN s : s[i] \in GroundTypes
      /\ \A v \in Variables(K) : Apply(s, v) = s[v.id] /\ \A c \in v.cs : Satisfies(s[v.id], c)
    BY <1>6 DEF Ground
<1>8. O \subseteq K /\ Variables(O) \subseteq Variables(K) /\ Open = Variables(O)
    BY OpenIs DEF Variables
<1>9. ASSUME NEW ty \in Type, Leaves(ty) \subseteq K
      PROVE  Final(ty) \in Type /\ Leaves(Final(ty)) \subseteq O /\ Apply(s, Final(ty)) = Apply(s, ty)
    <2>1. Final(ty) \in Type /\ Leaves(Final(ty)) \subseteq O
        BY <1>1, <1>9, FinalKnown DEF Final
    <2>2. Apply(s, Final(ty)) = Apply(s, ty)
        BY <1>1, <1>5, <1>7, ApplyTwice DEF Final
    <2> QED
        BY <2>1, <2>2
<1> HIDE DEF K, O
<1> DEFINE ids == {v.id : v \in Variables(O)}
           h == [i \in ids |-> s[i]]
<1>10. DOMAIN h = ids /\ \A i \in ids : h[i] = s[i]
    OBVIOUS
<1>11. h \in [ids -> GroundTypes]
    BY <1>7, <1>8
<1> HIDE DEF h
<1>12. h \in Grounding(Variables(O))
    BY <1>7, <1>8, <1>10, <1>11 DEF Grounding
<1>13. \A ty \in Type : Leaves(ty) \subseteq O => Apply(s, ty) = Apply(h, ty)
    BY <1>1, <1>8, <1>10, <1>12, GroundAgree DEF K, O
<1>14. \A ty \in Type : Leaves(ty) \subseteq K => Apply(h, Final(ty)) = Apply(s, ty)
    BY <1>9, <1>13
<1>15. \A c \in unifier.constraints : Satisfies(Apply(h, Final(c[2])), c[1])
    <2>1. \A c \in unifier.constraints : c[2] \in Type /\ Leaves(c[2]) \subseteq K
        BY <1>1 DEF Unifiers, AboutKnown, K
    <2> QED
        BY <1>4, <1>14, <2>1
<1>16. h \in Completions
    BY <1>8, <1>12, <1>15 DEF Completions
<1>17. ASSUME NEW v \in EquationVars
       PROVE  Apply(h, Final(v)) = g[v.id]
    <2>1. v \in Variables(LeavesOfPairs(equations)) /\ v \in Variables(K)
        BY OpenIs DEF K
    <2>2. v \in Type /\ Leaves(v) = {v} /\ v \in K
        BY <1>1, <2>1, KnownTypes, PairsTyped DEF Variables, K
    <2>3. v.id \in DOMAIN g
        <3>1. DOMAIN g = {w.id : w \in Variables(LeavesOfPairs(equations))}
            BY <1>2 DEF SolutionsOf, Grounding
        <3> QED
            BY <2>1, <3>1
    <2> QED
        BY <1>4, <1>7, <1>14, <2>1, <2>2, <2>3
<1> QED
    BY <1>16, <1>17

\* Types h for what is open satisfy a constraint that the variable v has.
Kept(h, v, c) ==
    LET ty == Apply(h, Final(v))
    IN  ty \in GroundTypes \/ IsFixed(ty) => Satisfies(ty, c)

LEMMA KeptHolds ==
    ASSUME Done, NEW h \in Completions, NEW v \in EquationVars, NEW c \in v.cs
    PROVE  Kept(h, v, c)
<1> DEFINE K == Known(unifier, equations)
           O == OpenLeaves(unifier, equations)
           sub == unifier.sub
<1>1. /\ unifier \in Unifiers /\ Sound(unifier) /\ Resolvable(sub) /\ Coherent(unifier, equations, FirstIndex)
      /\ AboutKnown(unifier, equations) /\ Keeps(unifier, equations)
      /\ Suitable(K) /\ Suitable(O)
    BY DoneFacts
<1>2. Open = Variables(O) /\ O \subseteq K /\ EquationVars \subseteq Variables(K)
    BY OpenIs
<1>3. h \in Grounding(Variables(O))
    BY <1>2 DEF Completions
<1>4. Ground(h, O)
    BY <1>1, <1>3, GroundFacts
<1>5. Resolvable(h)
    BY <1>4 DEF Ground
<1>6. PICK mu : Decreasing(sub, mu)
    BY <1>1 DEF Resolvable
<1>7. ASSUME NEW i \in DOMAIN sub
      PROVE  sub[i] \in Type /\ Leaves(sub[i]) \subseteq K
    BY <1>1, ResolvableTypes DEF Known
<1>8. \A t \in K : t \in Type /\ IsGeneric(t)
    BY <1>1 DEF Suitable
<1> DEFINE S == {t \in Type : t \in Variables(K) => \A d \in t.cs : Kept(h, t, d)}
<1>9. ASSUME NEW t \in Type, \A s \in Type : mu[s] < mu[t] => s \in S
      PROVE  t \in S
    <2> SUFFICES ASSUME t \in Variables(K), NEW d \in t.cs
                 PROVE  Kept(h, t, d)
        OBVIOUS
    <2>1. t \in K /\ IsVar(t) /\ IsGeneric(t)
        BY DEF Variables, IsGeneric
    <2>2. CASE t.id \notin DOMAIN sub
        <3>1. Final(t) = t
            BY <1>1, <2>1, <2>2, ApplyGeneric DEF Final
        <3>2. t \in Variables(O)
            BY <2>1, <2>2 DEF OpenLeaves, Variables
        <3>3. Apply(h, t) = h[t.id] /\ Satisfies(h[t.id], d)
            BY <1>4, <3>2 DEF Ground
        <3> QED
            BY <3>1, <3>3 DEF Kept
    <2>3. CASE t.id \in DOMAIN sub
        <3> DEFINE b == sub[t.id]
        <3>1. b \in Type /\ Leaves(b) \subseteq K
            BY <1>7, <2>3
        <3>2. mu[b] < mu[t]
            BY <1>6, <2>1, <2>3 DEF Decreasing
        <3>3. Final(t) = Final(b)
            BY <1>1, <2>1, <2>3, ApplyGeneric DEF Final
        <3>4. IF IsGeneric(b) THEN t.cs \subseteq b.cs ELSE \A e \in t.cs : <<e, b>> \in unifier.constraints
            BY <1>1, <2>3 DEF Keeps
        <3> HIDE DEF b
        <3>5. IsGeneric(b) => b \in K
            BY <3>1, LeavesDef
        <3>6. CASE IsVar(b)
            <4>1. b \in Variables(K) /\ d \in b.cs
                BY <3>4, <3>5, <3>6 DEF IsGeneric, Variables
            <4>2. b \in S
                BY <1>9, <3>1, <3>2
            <4>3. Kept(h, b, d)
                BY <4>1, <4>2
            <4> QED
                BY <3>3, <4>3 DEF Kept
        <3>7. CASE IsFixed(b)
            <4>1. b \in K /\ IsGeneric(b) /\ d \in b.cs
                BY <3>4, <3>5, <3>7 DEF IsGeneric
            <4>2. b.id \notin DOMAIN sub
                <5> SUFFICES ASSUME b.id \in DOMAIN sub
                             PROVE  FALSE
                    OBVIOUS
                <5>1. PICK w \in Variables(K) : w.id = b.id
                    BY <1>1 DEF AboutKnown
                <5>2. w = b
                    BY <1>1, <4>1, <5>1 DEF Suitable, Variables
                <5> QED
                    BY <3>7, <5>1, <5>2 DEF Variables, IsVar, IsFixed
            <4>3. b \in O
                BY <4>1, <4>2 DEF OpenLeaves
            <4>4. Final(b) = b /\ Apply(h, b) = b
                <5>1. Final(b) = b
                    BY <1>1, <3>1, <4>1, <4>2, ApplyGeneric DEF Final
                <5>2. Apply(h, b) = b
                    BY <1>4, <3>7, <4>3 DEF Ground
                <5> QED
                    BY <5>1, <5>2
            <4> QED
                BY <3>3, <3>7, <4>1, <4>4 DEF Kept, Satisfies
        <3>8. CASE ~IsGeneric(b)
            <4>1. <<d, b>> \in unifier.constraints
                BY <3>4, <3>8
            <4>2. Apply(h, Final(b)) \in GroundTypes => Satisfies(Apply(h, Final(b)), d)
                BY <4>1 DEF Completions
            <4>3. Final(b) \in Type /\ ~IsGeneric(Final(b))
                BY <1>1, <3>1, <3>8, ApplyComposite DEF Final
            <4>4. ~IsFixed(Apply(h, Final(b)))
                BY <1>5, <4>3, ApplyComposite DEF IsGeneric
            <4> QED
                BY <3>3, <4>2, <4>4 DEF Kept
        <3> QED
            BY <3>6, <3>7, <3>8 DEF IsGeneric
    <2> QED
        BY <2>2, <2>3
<1>10. Type \subseteq S
    <2>1. mu \in [Type -> Nat]
        BY <1>6 DEF Decreasing
    <2> HIDE DEF S
    <2> QED
        BY <1>9, <2>1, MeasureInduction
<1>11. v \in Variables(K) /\ v \in Type
    BY <1>2, <1>8 DEF Variables
<1> QED
    BY <1>10, <1>11

\* Substitution::apply always returns: whatever the calls, also those that
\* fail midway, no variable is bound to a type that leads back to it.
THEOREM AcyclicAlways == Spec => []Acyclic
<1>1. IInv => Acyclic
    BY AcyclicHolds DEF IInv, Good, Sound
<1> QED
    BY <1>1, GoodAlways, PTL

\* Unifier::unify solves: a unifier that did not fail makes the two types of
\* each of its calls equal, so later calls do not undo earlier ones.
THEOREM SolvesAlways == Spec => []Solves
<1>1. IInv => Solves
    BY SolvesHolds DEF Solves, Returned, Done
<1> QED
    BY <1>1, GoodAlways, PTL

\* Unifier::unify is most general: it fails, and asserts, only where no types
\* for the variables make the calls equal and satisfy the constraints, and
\* otherwise every such choice fills in what it left open.
THEOREM MostGeneralAlways == Spec => []MostGeneral
<1>1. ASSUME IInv, Returned, NEW g \in Solutions
      PROVE  unifier.result = "ok" /\ \E h \in Completions : \A v \in EquationVars : Apply(h, Final(v)) = g[v.id]
    <2>1. g \in SolutionsOf(equations)
        <3>1. g \in Grounding(EquationVars) /\ \A e \in equations : Apply(g, e[1]) = Apply(g, e[2])
            BY <1>1 DEF Solutions
        <3> QED
            BY <3>1, OpenIs DEF SolutionsOf, Equalizes
    <2>2. unifier.result = "ok"
        BY <1>1, <2>1 DEF IInv, Good, General
    <2>3. Done
        BY <1>1, <2>2 DEF Done, Returned
    <2> QED
        BY <1>1, <2>2, <2>3, GeneralHolds
<1>2. IInv => MostGeneral
    BY <1>1 DEF MostGeneral
<1> QED
    BY <1>2, GoodAlways, PTL

\* Substitution::add and unify_variables lose no constraint: what a variable is
\* bound to has its constraints, or they are recorded for the caller to check.
THEOREM ConstraintsKeptAlways == Spec => []ConstraintsKept
<1>1. ASSUME IInv, Returned, unifier.result = "ok", NEW h \in Completions, NEW v \in EquationVars, NEW c \in v.cs
      PROVE  Kept(h, v, c)
    BY <1>1, KeptHolds DEF Done, Returned
<1>2. IInv => ConstraintsKept
    BY <1>1 DEF ConstraintsKept, Kept
<1> QED
    BY <1>2, GoodAlways, PTL

LEMMA GoodOnTheWay ==
    ASSUME NEW u, NEW eqs, Good(u, eqs), NEW f, Iterates(f, u)
    PROVE  \A n \in Nat : Good(f[n], eqs)
<1> DEFINE S == {n \in Nat : Good(f[n], eqs)}
<1>1. \A n \in Nat : f[n] = IF n = 0 THEN u ELSE GoOn(f[n - 1])
    BY DEF Iterates
<1>2. 0 \in S
    BY <1>1
<1>3. ASSUME NEW n \in Nat, n \in S
      PROVE  n + 1 \in S
    <2>1. n + 1 \in Nat /\ n + 1 # 0 /\ (n + 1) - 1 = n
        OBVIOUS
    <2>2. f[n + 1] = GoOn(f[n]) /\ Good(f[n], eqs)
        BY <1>1, <1>3, <2>1
    <2>3. Good(GoOn(f[n]), eqs)
        BY <2>2, GoodNext DEF GoOn
    <2> QED
        BY <2>2, <2>3
<1>4. Nat \subseteq S
    <2> HIDE DEF S
    <2> QED
        BY <1>2, <1>3, NumberInduction
<1> QED
    BY <1>4

\* A unifier that a call of unify has left: the types of all its calls are made
\* equal, or no ground types for the variables do so.
Answers(u, eqs) ==
    /\ u.pending = <<>> /\ Good(u, eqs)
    /\ u.result = "ok" => Equalizes(u.sub, eqs)
    /\ u.result # "ok" => SolutionsOf(eqs) = {}

LEMMA UnifyAnswers ==
    ASSUME NEW u, NEW eqs, Good(u, eqs), u.result = "ok", u.pending = <<>>,
           NEW pair \in FirstPairs \cup LaterPairs
    PROVE  Answers(Unify(u, pair[1], pair[2]), eqs \cup {pair})
<1> DEFINE v == CallUnify(u, pair[1], pair[2])
           more == eqs \cup {pair}
           n == Unify(u, pair[1], pair[2])
<1>1. Good(v, more)
    BY GoodCall
<1>2. v.result = "ok"
    <2>1. u \in Unifiers /\ pair[1] \in Type /\ pair[2] \in Type
        BY TypesAssumption DEF Good, Sound, Type
    <2> QED
        BY <2>1, CallDef
<1> HIDE DEF more
<1>3. Returns(v)
    <2> HIDE DEF v
    <2>1. Running(v, more, FirstIndex)
        BY <1>1, <1>2, PairsTyped DEF Running, Good
    <2> QED
        BY <2>1, RunningReturns
<1>4. PICK f : Iterates(f, v) /\ \E k \in Nat : f[k].pending = <<>> /\ n = f[k]
    BY <1>3, UnifyEnds
<1> HIDE DEF v, n
<1>5. Good(n, more) /\ n.pending = <<>>
    BY <1>1, <1>4, GoodOnTheWay
<1>6. ASSUME n.result = "ok"
      PROVE  Equalizes(n.sub, more)
    <2>1. Resolvable(n.sub) /\ Progress(n, more)
        BY <1>5, <1>6 DEF Good, Sound
    <2>2. Respects(n.sub, n.sub)
        BY <2>1, RespectsItself
    <2>3. Equalizes(n.sub, Range(n.pending))
        <3>1. Range(n.pending) = {}
            <4>1. DOMAIN <<>> = {}
                OBVIOUS
            <4> QED
                BY <1>5, <4>1 DEF Range
        <3> QED
            BY <3>1 DEF Equalizes
    <2> QED
        BY <2>1, <2>2, <2>3 DEF Progress
<1>7. ASSUME n.result # "ok"
      PROVE  SolutionsOf(more) = {}
    BY <1>5, <1>7 DEF Good, General
<1> QED
    BY <1>5, <1>6, <1>7 DEF Answers, n, more

\* Unifier::unify returns: however deep the types, and whatever was unified
\* before, the calls it makes for items come to an end.
THEOREM UnifyReturns == Spec => [](unifier.pending # <<>> => Returns(unifier))
<1>1. ASSUME IInv, unifier.pending # <<>>
      PROVE  Returns(unifier)
    <2>1. Running(unifier, equations, FirstIndex)
        BY <1>1, PairsTyped DEF IInv, Good, Sound, Running
    <2> QED
        BY <2>1, RunningReturns
<1>2. IInv => (unifier.pending # <<>> => Returns(unifier))
    BY <1>1
<1> QED
    BY <1>2, GoodAlways, PTL

\* A call of unify with a unifier that was used before, as the calls of
\* get_call_unifier for the arguments, answers for all its calls together.
THEOREM UnifyAgain ==
    Spec => [](Returned /\ unifier.result = "ok" =>
                \A pair \in FirstPairs \cup LaterPairs :
                    Answers(Unify(unifier, pair[1], pair[2]), equations \cup {pair}))
<1>1. ASSUME IInv, Returned, unifier.result = "ok", NEW pair \in FirstPairs \cup LaterPairs
      PROVE  Answers(Unify(unifier, pair[1], pair[2]), equations \cup {pair})
    BY <1>1, UnifyAnswers DEF IInv, Returned
<1>2. IInv => (Returned /\ unifier.result = "ok" =>
                \A pair \in FirstPairs \cup LaterPairs :
                    Answers(Unify(unifier, pair[1], pair[2]), equations \cup {pair}))
    BY <1>1
<1> QED
    BY <1>2, GoodAlways, PTL

\* A call with a new unifier, as ExpressionChecker::unify makes it: the two types
\* are equal with the substitution that is found, which can be applied to any type;
\* and it fails only where no ground types for the variables make them equal.
THEOREM UnifyOnce ==
    \A pair \in FirstPairs \cup LaterPairs :
        LET u == Unify(NewUnifier(FirstIndex), pair[1], pair[2])
        IN  /\ Resolvable(u.sub)
            /\ u.result = "ok" => Apply(u.sub, pair[1]) = Apply(u.sub, pair[2])
            /\ u.result # "ok" => SolutionsOf({pair}) = {}
<1> SUFFICES ASSUME NEW pair \in FirstPairs \cup LaterPairs
             PROVE  LET u == Unify(NewUnifier(FirstIndex), pair[1], pair[2])
                    IN  /\ Resolvable(u.sub)
                        /\ u.result = "ok" => Apply(u.sub, pair[1]) = Apply(u.sub, pair[2])
                        /\ u.result # "ok" => SolutionsOf({pair}) = {}
    OBVIOUS
<1> DEFINE u == Unify(NewUnifier(FirstIndex), pair[1], pair[2])
<1>1. NewUnifier(FirstIndex).result = "ok" /\ NewUnifier(FirstIndex).pending = <<>>
    BY DEF NewUnifier
<1>2. Answers(u, {} \cup {pair})
    BY <1>1, GoodInit, UnifyAnswers
<1> HIDE DEF u
<1>3. Answers(u, {pair})
    <2>1. {} \cup {pair} = {pair}
        OBVIOUS
    <2> QED
        BY <1>2, <2>1
<1>4. Resolvable(u.sub) /\ (u.result = "ok" => Equalizes(u.sub, {pair})) /\ (u.result # "ok" => SolutionsOf({pair}) = {})
    BY <1>3 DEF Answers, Good, Sound
<1> QED
    BY <1>4 DEF Equalizes, u

=============================================================================
