---------------------- MODULE DerivedInstances_proofs ----------------------
(***************************************************************************)
(* Derived instances keep their parameters, their constraints are found in *)
(* the first pass, and an accepted program has one instance per class and  *)
(* type, for all declarations.                                             *)
(***************************************************************************)
EXTENDS DerivedInstances, Unifier_proofs

-----------------------------------------------------------------------------
(* Types with leaves of their own. *)

LeavesIn(types) == UNION {Leaves(ty) : ty \in types}

\* An index is for one leaf, and below the counter.
Tidy(types, next) ==
    /\ types \subseteq Type /\ next \in Nat
    /\ \A l \in LeavesIn(types) : l.id < next
    /\ \A l, m \in LeavesIn(types) : l.id = m.id => l = m

LEMMA TidyFewer ==
    ASSUME NEW types, NEW next, Tidy(types, next), NEW fewer \in SUBSET types, NEW more \in Nat, next <= more
    PROVE  Tidy(fewer, more)
<1>1. LeavesIn(fewer) \subseteq LeavesIn(types) /\ fewer \subseteq Type
    BY DEF LeavesIn, Tidy
<1>2. \A l \in LeavesIn(types) : l.id \in Nat
    BY LeavesGeneric DEF LeavesIn, Tidy
<1> QED
    BY <1>1, <1>2 DEF Tidy

\* The new leaves are from the counter on.
LEMMA TidyMore ==
    ASSUME NEW types, NEW next, Tidy(types, next), NEW new \in SUBSET Type, NEW more \in Nat, next <= more,
           \A l \in LeavesIn(new) : l.id < more /\ (l \in LeavesIn(types) \/ next <= l.id),
           \A l, m \in LeavesIn(new) : l.id = m.id => l = m
    PROVE  Tidy(types \cup new, more)
<1>1. LeavesIn(types \cup new) = LeavesIn(types) \cup LeavesIn(new)
    BY DEF LeavesIn
<1>2. \A l \in LeavesIn(types) \cup LeavesIn(new) : l.id \in Nat
    BY LeavesGeneric DEF LeavesIn, Tidy
<1>3. ASSUME NEW l \in LeavesIn(types), NEW m \in LeavesIn(new), l.id = m.id
      PROVE  l = m
    <2>1. l.id < next /\ l.id \in Nat /\ next \in Nat
        BY <1>2 DEF Tidy
    <2>2. m \in LeavesIn(types)
        BY <1>3, <2>1
    <2> QED
        BY <1>3, <2>2 DEF Tidy
<1>4. \A l \in LeavesIn(types) : l.id < more
    BY <1>2 DEF Tidy
<1>5. types \cup new \subseteq Type
    BY DEF Tidy
<1>6. \A l, m \in LeavesIn(types) \cup LeavesIn(new) : l.id = m.id => l = m
    BY <1>3 DEF Tidy
<1> QED
    BY <1>1, <1>4, <1>5, <1>6 DEF Tidy

LEMMA TidyPair ==
    ASSUME NEW types, NEW next, Tidy(types, next), NEW a \in types, NEW b \in types
    PROVE  FreshPair(a, b, next)
<1>1. Leaves(a) \cup Leaves(b) \subseteq LeavesIn(types)
    BY DEF LeavesIn
<1> QED
    BY <1>1 DEF FreshPair, Tidy

\* Where keys come, one comes first.
LEMMA LeastKey ==
    ASSUME NEW keys, keys # {}, \A key \in keys : key[1] \in Nat /\ key[2] \in Nat /\ key = <<key[1], key[2]>>
    PROVE  \E key \in keys : \A other \in keys \ {key} : ComesBefore(key, other)
<1> DEFINE firsts == {key[1] : key \in keys}
<1>1. PICK i \in firsts : \A j \in firsts : i <= j
    <2>1. firsts \in SUBSET Nat /\ firsts # {}
        OBVIOUS
    <2> HIDE DEF firsts
    <2> QED
        BY <2>1, LeastNatural
<1> DEFINE seconds == {key[2] : key \in {k \in keys : k[1] = i}}
<1>2. PICK n \in seconds : \A j \in seconds : n <= j
    <2>1. seconds \in SUBSET Nat /\ seconds # {}
        BY <1>1
    <2> HIDE DEF firsts, seconds
    <2> QED
        BY <2>1, LeastNatural
<1>3. PICK key \in keys : key[1] = i /\ key[2] = n
    BY <1>2
<1>4. ASSUME NEW other \in keys \ {key}
      PROVE  ComesBefore(key, other)
    <2>1. i <= other[1] /\ (other[1] = i => n <= other[2])
        BY <1>1, <1>2
    <2>2. key = <<i, n>> /\ other = <<other[1], other[2]>> /\ key # other
        BY <1>3
    <2> QED
        BY <1>3, <2>1, <2>2 DEF ComesBefore
<1> QED
    BY <1>4

-----------------------------------------------------------------------------
(* check_instance. *)

IsSearch(s) ==
    s = [ok |-> s.ok, instances |-> s.instances, cache |-> s.cache, next |-> s.next,
         unifiers |-> s.unifiers, pending |-> s.pending]

\* The calls of check_instance change no instance.
LEMMA SameInstances ==
    ASSUME NEW s, IsSearch(s)
    PROVE  IsSearch(CheckNext(s)) /\ CheckNext(s).instances = s.instances
<1>1. ASSUME NEW t, IsSearch(t), NEW class, NEW ty
      PROVE  IsSearch(CheckClaim(t, class, ty)) /\ CheckClaim(t, class, ty).instances = t.instances
    <2>1. IsSearch(Constrain(t, class, ty)) /\ Constrain(t, class, ty).instances = t.instances
        BY <1>1 DEF Constrain, IsSearch
    <2>2. \A u : IsSearch(Resolve(t, class, ty, u)) /\ Resolve(t, class, ty, u).instances = t.instances
        BY <1>1 DEF Resolve, IsSearch
    <2> QED
        BY <2>1, <2>2 DEF CheckClaim
<1>2. \A p : IsSearch([s EXCEPT !.pending = p]) /\ [s EXCEPT !.pending = p].instances = s.instances
    BY DEF IsSearch
<1>3. CASE Head(s.pending) = {}
    BY <1>2, <1>3 DEF CheckNext
<1>4. CASE Head(s.pending) # {}
    <2> DEFINE calls == Head(s.pending)
               claim == CHOOSE claim \in calls : TRUE
               p == <<calls \ {claim}>> \o Tail(s.pending)
               t == [s EXCEPT !.pending = p]
    <2>1. CheckNext(s) = CheckClaim(t, claim[1], claim[2])
        BY <1>4 DEF CheckNext
    <2>2. IsSearch(t) /\ t.instances = s.instances
        BY <1>2
    <2> HIDE DEF t, claim
    <2> QED
        BY <1>1, <2>1, <2>2
<1> QED
    BY <1>3, <1>4

\* The instances are of types of a set.
HeadsIn(heads, types) ==
    \A class \in DOMAIN heads : \A key \in DOMAIN heads[class] :
        /\ key[1] \in Nat /\ key[2] \in Nat /\ key = <<key[1], key[2]>>
        /\ heads[class][key] \in types

\* The type was unified with one of the instances.
UnifiedWith(u, next, ty, types) == \E head \in types : u = Unify(NewUnifier(next), ty, head)

LEMMA HasInstanceIs ==
    ASSUME NEW s, NEW types, HeadsIn(s.instances, types), NEW class, NEW ty,
           HasInstance(s, class, ty).result = "ok"
    PROVE  UnifiedWith(HasInstance(s, class, ty), s.next, ty, types)
<1> DEFINE list == IF class \in DOMAIN s.instances THEN s.instances[class] ELSE Keyed(<<>>)
           candidates == {key \in DOMAIN list : BaseType(list[key]) = BaseType(ty)}
           found == [key \in candidates |-> Unify(NewUnifier(s.next), ty, list[key])]
           fitting == {key \in candidates : found[key].result = "ok"}
           first == CHOOSE key \in fitting : \A other \in fitting \ {key} : ComesBefore(key, other)
<1>1. HasInstance(s, class, ty) = IF fitting = {} THEN Fail(NewUnifier(s.next)) ELSE found[first]
    BY DEF HasInstance
<1>2. Fail(NewUnifier(s.next)).result # "ok"
    BY DEF Fail, Ended, NewUnifier
<1>3. fitting # {}
    BY <1>1, <1>2
<1>4. \A key \in fitting : key[1] \in Nat /\ key[2] \in Nat /\ key = <<key[1], key[2]>> /\ list[key] \in types
    <2>1. CASE class \in DOMAIN s.instances
        BY <2>1 DEF HeadsIn
    <2>2. CASE class \notin DOMAIN s.instances
        BY <2>2 DEF Keyed
    <2> QED
        BY <2>1, <2>2
<1>5. fitting \subseteq candidates /\ \A key \in candidates : found[key] = Unify(NewUnifier(s.next), ty, list[key])
    OBVIOUS
<1> HIDE DEF fitting, found, candidates, list
<1>6. first \in fitting
    <2>1. \E key \in fitting : \A other \in fitting \ {key} : ComesBefore(key, other)
        BY <1>3, <1>4, LeastKey
    <2> QED
        BY <2>1
<1> HIDE DEF first
<1> QED
    BY <1>1, <1>3, <1>4, <1>5, <1>6 DEF UnifiedWith

\* Claims about types that are no variables.
Composite(types) == STRING \X {ty \in types : ~IsGeneric(ty)}

\* What is looked up next is about types that are tidy together with the rest.
Resolves(s, n, types) ==
    /\ n.unifiers = s.unifiers
    /\ \E more \in SUBSET Type :
        /\ types \subseteq more /\ Tidy(more, n.next) /\ s.next <= n.next
        /\ n.pending \in Seq(SUBSET Composite(more))

LEMMA ResolveTidy ==
    ASSUME NEW s, IsSearch(s), NEW types, Tidy(types, s.next), HeadsIn(s.instances, types),
           NEW class, NEW ty \in types, s.pending \in Seq(SUBSET Composite(types))
    PROVE  Resolves(s, Resolve(s, class, ty, HasInstance(s, class, ty)), types)
<1> DEFINE u == HasInstance(s, class, ty)
           n == Resolve(s, class, ty, u)
<1>0. s.next \in Nat /\ types \subseteq Type
    BY DEF Tidy
<1>1. ASSUME u.result # "ok"
      PROVE  /\ n.unifiers = s.unifiers /\ n.next = s.next /\ n.pending = <<>>
    BY <1>1 DEF Resolve, IsSearch
<1>2. ASSUME u.result = "ok"
      PROVE  n.unifiers = s.unifiers /\ n.next = u.next /\ n.pending = <<u.constraints>> \o s.pending
    BY <1>2 DEF Resolve, IsSearch
<1> HIDE DEF n, u
<1>3. CASE u.result # "ok"
    <2>0. n.unifiers = s.unifiers /\ n.next = s.next /\ n.pending = <<>>
        BY <1>1, <1>3
    <2>1. s.next <= n.next /\ Tidy(types, n.next)
        BY <1>0, <2>0
    <2>2. n.pending \in Seq(SUBSET Composite(types))
        BY <2>0
    <2> QED
        BY <1>0, <2>0, <2>1, <2>2 DEF n, u, Resolves
<1>4. CASE u.result = "ok"
    <2>1. PICK head \in types : u = Unify(NewUnifier(s.next), ty, head)
        <3>1. HeadsIn(s.instances, types) /\ HasInstance(s, class, ty).result = "ok"
            BY <1>4 DEF u
        <3>2. UnifiedWith(HasInstance(s, class, ty), s.next, ty, types)
            BY ONLY <3>1, HasInstanceIs
        <3> QED
            BY ONLY <3>2 DEF u, UnifiedWith
    <2>2. FreshPair(ty, head, s.next)
        BY TidyPair
    <2> DEFINE eqs == {<<ty, head>>}
    <2>3. Calm(u, eqs, s.next)
        BY <2>1, <2>2, UnifyCalm
    <2>4. LeavesOfPairs(eqs) \subseteq LeavesIn(types)
        BY DEF LeavesOfPairs, LeavesIn
    <2> HIDE DEF eqs
    <2>5. /\ Coherent(u, eqs, s.next) /\ AboutKnown(u, eqs) /\ u \in Unifiers
          /\ \A c \in u.constraints : ~IsGeneric(c[2])
        BY <1>4, <2>3 DEF Calm, Sound
    <2>6. u.constraints \subseteq STRING \X Type /\ u.next \in Nat /\ s.next <= u.next
        BY <2>5 DEF Unifiers, Coherent
    <2> DEFINE new == {c[2] : c \in u.constraints}
               more == types \cup new
    <2>7. LeavesIn(new) \subseteq Known(u, eqs)
        BY <2>5 DEF AboutKnown, LeavesIn
    <2>8. \A l \in Known(u, eqs) : l.id < u.next /\ (l \in LeavesIn(types) \/ s.next <= l.id)
        BY <2>4, <2>5 DEF Coherent
    <2>9. \A l, m \in Known(u, eqs) : l.id = m.id => l = m
        BY <2>5 DEF Coherent
    <2>10. new \subseteq Type
        BY <2>6
    <2> HIDE DEF new
    <2>11. Tidy(more, u.next)
        BY <2>6, <2>7, <2>8, <2>9, <2>10, TidyMore
    <2>12. u.constraints \in SUBSET Composite(more)
        BY <2>5, <2>6 DEF Composite, new
    <2>13. more \in SUBSET Type /\ types \subseteq more
        BY <1>0, <2>10
    <2>14. Composite(types) \subseteq Composite(more)
        BY <2>13 DEF Composite
    <2> HIDE DEF more
    <2>15. <<u.constraints>> \o s.pending \in Seq(SUBSET Composite(more))
        <3> DEFINE S == SUBSET Composite(more)
        <3>1. s.pending \in Seq(S)
            BY <2>14
        <3>2. u.constraints \in S
            BY <2>12
        <3> HIDE DEF S
        <3>3. <<u.constraints>> \in Seq(S)
            BY <3>2
        <3>4. <<u.constraints>> \o s.pending \in Seq(S)
            BY <3>1, <3>3, ConcatProperties
        <3> QED
            BY <3>4 DEF S
    <2> QED
        BY <1>2, <1>4, <2>6, <2>11, <2>13, <2>15 DEF n, u, Resolves
<1> QED
    BY <1>3, <1>4

\* The unifier for a variable with the index id: it and a new one, at, become m.
Renames(u, id, at, m) ==
    /\ u \in Unifiers /\ Resolvable(u.sub) /\ id \in Nat /\ at \in Nat /\ id < at
    /\ m \in Type /\ IsVar(m) /\ m.id = at + 1 /\ Leaves(m) = {m}
    /\ u.sub = [i \in {at, id} |-> m]

Constrains(s, n, id, types) ==
    /\ n.pending = s.pending /\ n.next = s.next + 2
    /\ \E u, m : /\ Renames(u, id, s.next, m) /\ n.unifiers = Append(s.unifiers, u)
                 /\ Tidy(types \cup {m}, n.next)

LEMMA ConstrainTidy ==
    ASSUME NEW s, IsSearch(s), NEW types, Tidy(types, s.next), NEW class \in STRING, NEW var \in types,
           IsVar(var), class \notin var.cs
    PROVE  Constrains(s, Constrain(s, class, var), var.id, types)
<1> DEFINE next == s.next
           cs == var.cs \cup {class}
           v == Var(next, cs)
           m == Var(next + 1, cs \cup var.cs)
           u == Unify(NewUnifier(next + 1), v, var)
           n == Constrain(s, class, var)
<1>0. next \in Nat /\ next + 1 \in Nat /\ next + 2 \in Nat /\ (next + 1) + 1 = next + 2 /\ types \subseteq Type
    BY DEF Tidy
<1>1. n.pending = s.pending /\ n.next = u.next /\ n.unifiers = Append(s.unifiers, u)
    BY DEF Constrain, IsSearch
<1> HIDE DEF n
<1>2. var \in Type /\ IsGeneric(var) /\ var.cs \subseteq STRING /\ Leaves(var) = {var} /\ var.id \in Nat
    BY <1>0, GenericParts DEF IsGeneric
<1>3. cs \subseteq STRING /\ cs \cup var.cs \subseteq STRING /\ cs # var.cs
    BY <1>2
<1>4. var.id < next
    BY <1>2 DEF Tidy, LeavesIn
<1> HIDE DEF cs
<1>5. v \in Type /\ IsVar(v) /\ Leaves(v) = {v} /\ v.id = next /\ v.cs = cs
    BY <1>0, <1>3, NewVar
<1>6. m \in Type /\ IsVar(m) /\ Leaves(m) = {m} /\ m.id = next + 1
    BY <1>0, <1>3, NewVar
<1> HIDE DEF next, v, m
<1>7. FreshPair(v, var, next + 1)
    BY <1>0, <1>2, <1>4, <1>5 DEF FreshPair
<1>7a. u \in Unifiers /\ Resolvable(u.sub)
    <2>1. Calm(u, {<<v, var>>}, next + 1)
        BY <1>7, UnifyCalm
    <2> QED
        BY ONLY <2>1 DEF Calm, Sound
<1>8. u.next = (next + 1) + 1 /\ u.sub = [i \in {v.id, var.id} |-> Var(next + 1, v.cs \cup var.cs)]
    <2>1. v.id # var.id /\ v.cs # var.cs /\ IsVar(v) /\ IsVar(var)
        BY <1>0, <1>2, <1>3, <1>4, <1>5
    <2>2. MergedTo(u, v, var, next + 1)
        BY <1>7, <2>1, UnifyMerges
    <2> QED
        BY ONLY <2>2 DEF MergedTo
<1> HIDE DEF u
<1>9. u.next = next + 2 /\ u.sub = [i \in {next, var.id} |-> m]
    BY <1>0, <1>5, <1>8 DEF m
<1>10. Renames(u, var.id, next, m)
    BY <1>0, <1>2, <1>4, <1>6, <1>7a, <1>9 DEF Renames
<1>11. Tidy(types \cup {m}, next + 2)
    <2>1. LeavesIn({m}) = {m}
        BY <1>6 DEF LeavesIn
    <2>2. {m} \in SUBSET Type /\ next <= next + 2
        BY <1>0, <1>6
    <2>3. \A l \in LeavesIn({m}) : l.id < next + 2 /\ next <= l.id
        BY <1>0, <1>6, <2>1
    <2> QED
        BY <1>0, <2>1, <2>2, <2>3, TidyMore DEF next
<1> QED
    BY <1>1, <1>9, <1>10, <1>11 DEF n, next, Constrains

\* Such a unifier replaces one of the arguments of a type, if it is there.
LEMMA ApplyRenames ==
    ASSUME NEW ty \in Type, ~IsGeneric(ty), NEW u, NEW id, NEW at, NEW m, Renames(u, id, at, m),
           \A i \in DOMAIN ty.args : IsVar(ty.args[i]) /\ ty.args[i].id < at
    PROVE  LET new == Apply(u.sub, ty)
           IN  /\ new \in Type /\ ~IsGeneric(new) /\ new.k = ty.k /\ new.id = ty.id
               /\ Len(new.args) = Len(ty.args) /\ DOMAIN new.args = DOMAIN ty.args
               /\ \A i \in DOMAIN ty.args : new.args[i] = IF ty.args[i].id = id THEN m ELSE ty.args[i]
<1> DEFINE new == Apply(u.sub, ty)
<1>1. /\ Resolvable(u.sub) /\ DOMAIN u.sub = {at, id} /\ u.sub[id] = m /\ m \in Type /\ IsGeneric(m)
      /\ m.id \notin DOMAIN u.sub /\ at \in Nat
    BY DEF Renames, IsGeneric
<1>2. /\ new \in Type /\ ~IsGeneric(new) /\ new.k = ty.k /\ new.id = ty.id
      /\ Len(new.args) = Len(ty.args) /\ DOMAIN new.args = DOMAIN ty.args
      /\ \A i \in DOMAIN ty.args : new.args[i] = Apply(u.sub, ty.args[i])
    BY <1>1, ApplyComposite
<1>3. Apply(u.sub, m) = m
    BY <1>1, ApplyGeneric
<1>4. ASSUME NEW i \in DOMAIN ty.args
      PROVE  Apply(u.sub, ty.args[i]) = IF ty.args[i].id = id THEN m ELSE ty.args[i]
    <2>1. ty.args[i] \in Type /\ IsGeneric(ty.args[i]) /\ ty.args[i].id \in Nat
        BY TypeParts DEF IsGeneric
    <2>2. ty.args[i].id # at
        BY <1>1, <2>1
    <2>3. Apply(u.sub, ty.args[i]) = IF ty.args[i].id \in DOMAIN u.sub THEN Apply(u.sub, u.sub[ty.args[i].id]) ELSE ty.args[i]
        BY <1>1, <2>1, ApplyGeneric
    <2> QED
        BY <1>1, <1>3, <2>2, <2>3
<1> HIDE DEF new
<1> QED
    BY <1>2, <1>4 DEF new

-----------------------------------------------------------------------------
(* Declarations. *)

LEMMA TypeFacts ==
    ASSUME declaration \in Declarations, NEW id \in DOMAIN declaration.types
    PROVE  /\ id \in Nat \ {0} /\ TypeDef(id).kind \in {"adt", "record"}
           /\ TypeDef(id).params \in Seq(Type) /\ TypeDef(id).items \in Seq(Type)
           /\ TypeDef(id).derives \in Seq(DOMAIN Classes)
           /\ \A i \in DOMAIN TypeDef(id).params : IsVar(TypeDef(id).params[i])
           /\ Range(TypeDef(id).params) \cup Range(TypeDef(id).items) \subseteq DeclaredTypes(declaration)
<1>1. Layer[Depth] \subseteq Type
    BY BoundsAssumption DEF Type
<1>2. /\ DOMAIN declaration.types \subseteq Nat \ {0} /\ TypeDef(id).kind \in {"adt", "record"}
      /\ TypeDef(id).params \in Seq(Layer[Depth]) /\ TypeDef(id).items \in Seq(Layer[Depth])
      /\ TypeDef(id).derives \in Seq(DOMAIN Classes)
      /\ \A i \in DOMAIN TypeDef(id).params : IsVar(TypeDef(id).params[i])
    BY DeclarationsAssumption DEF TypeDef
<1>3. Range(TypeDef(id).params) \cup Range(TypeDef(id).items) \subseteq DeclaredTypes(declaration)
    BY DEF DeclaredTypes, TypeDef
<1> QED
    BY <1>1, <1>2, <1>3

LEMMA DeclaredIn ==
    ASSUME NEW d, NEW ty \in DeclaredTypes(d)
    PROVE  \/ \E id \in DOMAIN d.types : ty \in Range(d.types[id].params) \cup Range(d.types[id].items)
           \/ \E class \in DOMAIN d.instances : ty \in Range(d.instances[class])
BY DEF DeclaredTypes

LEMMA DeclaredTidy ==
    ASSUME declaration \in Declarations
    PROVE  /\ Tidy(DeclaredTypes(declaration), FirstIndex)
           /\ \A l \in LeavesIn(DeclaredTypes(declaration)) : IsVar(l)
<1>1. DeclaredTypes(declaration) \subseteq Type
    <2>1. \A id \in DOMAIN declaration.types : Range(TypeDef(id).params) \cup Range(TypeDef(id).items) \subseteq Type
        <3> TAKE id \in DOMAIN declaration.types
        <3> QED
            BY TypeFacts, SeqTyped
    <2>2. Layer[Depth] \subseteq Type
        BY BoundsAssumption DEF Type
    <2>3. \A class \in DOMAIN declaration.instances : Range(declaration.instances[class]) \subseteq Type
        BY <2>2, DeclarationsAssumption, SeqTyped
    <2> QED
        BY <2>1, <2>3, DeclaredIn DEF TypeDef
<1> QED
    BY <1>1, LeavesAssumption, BoundsAssumption DEF Tidy, LeavesIn

\* The arguments of the type that derives an instance are distinct variables.
LEMMA ParamsDistinct ==
    ASSUME declaration \in Declarations, NEW id \in DOMAIN declaration.types,
           NEW i \in DOMAIN TypeDef(id).params, NEW j \in DOMAIN TypeDef(id).params,
           TypeDef(id).params[i].id = TypeDef(id).params[j].id
    PROVE  i = j
<1> DEFINE params == TypeDef(id).params
<1>1. params[i] \in LeavesIn(DeclaredTypes(declaration)) /\ params[j] \in LeavesIn(DeclaredTypes(declaration))
    <2>1. \A k \in DOMAIN params : params[k] \in Type /\ IsGeneric(params[k])
        BY TypeFacts DEF IsGeneric
    <2>2. \A k \in DOMAIN params : params[k] \in DeclaredTypes(declaration)
        BY TypeFacts DEF Range
    <2> QED
        BY <2>1, <2>2, GenericParts DEF LeavesIn
<1>2. params[i] = params[j]
    BY <1>1, DeclaredTidy DEF Tidy
<1>3. IsInjective(params)
    BY DeclarationsAssumption DEF TypeDef
<1> QED
    BY <1>2, <1>3 DEF IsInjective

LEMMA DataTypeIs ==
    ASSUME declaration \in Declarations, NEW id \in DOMAIN declaration.types
    PROVE  /\ DataType(id) \in Type /\ ~IsGeneric(DataType(id)) /\ DataType(id).k = "Named" /\ DataType(id).id = id
           /\ DataType(id).args = TypeDef(id).params
           /\ Leaves(DataType(id)) \subseteq LeavesIn(DeclaredTypes(declaration))
<1> DEFINE params == TypeDef(id).params
<1>1. params \in Seq(Type) /\ id \in Nat /\ Range(params) \subseteq DeclaredTypes(declaration)
    BY TypeFacts
<1>2. /\ DataType(id) = [k |-> "Named", id |-> id, args |-> params, cs |-> {}]
    BY DEF DataType, Named
<1> HIDE DEF params
<1>3. DataType(id) \in Type
    <2>1. params = [i \in 1..Len(params) |-> params[i]] /\ Len(params) \in Nat /\ \A i \in 1..Len(params) : params[i] \in Type
        BY <1>1
    <2> QED
        BY <1>1, <1>2, <2>1, TypeMade
<1>4. ~IsGeneric(DataType(id)) /\ DataType(id).args = params
    BY <1>2 DEF IsGeneric, IsVar, IsFixed
<1>5. Leaves(DataType(id)) = UNION {Leaves(params[i]) : i \in DOMAIN params}
    BY <1>3, <1>4, LeavesDef
<1>6. \A i \in DOMAIN params : params[i] \in DeclaredTypes(declaration)
    BY <1>1 DEF Range
<1>7. Leaves(DataType(id)) \subseteq LeavesIn(DeclaredTypes(declaration))
    BY <1>5, <1>6 DEF LeavesIn
<1> QED
    BY <1>2, <1>3, <1>4, <1>7 DEF params

LEMMA KeyFacts ==
    ASSUME declaration \in Declarations, NEW key \in DerivedKeys
    PROVE  /\ key[1] \in DOMAIN declaration.types /\ key[1] \in Nat \ {0} /\ key[2] \in Nat /\ key = <<key[1], key[2]>>
           /\ DerivedClass(key) \in DOMAIN Classes
<1>1. PICK id \in DOMAIN declaration.types : \E nr \in DOMAIN TypeDef(id).derives : key = <<id, nr>>
    BY DEF DerivedKeys
<1>2. PICK nr \in DOMAIN TypeDef(id).derives : key = <<id, nr>>
    BY <1>1
<1>3. id \in Nat \ {0} /\ TypeDef(id).derives \in Seq(DOMAIN Classes)
    BY TypeFacts
<1>4. key[1] = id /\ key[2] = nr
    BY <1>2
<1>5. nr \in Nat /\ TypeDef(id).derives[nr] \in DOMAIN Classes
    BY <1>3
<1> QED
    BY <1>2, <1>3, <1>4, <1>5 DEF DerivedClass

\* The keys of the instances that are declared, and their types.
LEMMA DeclaredIs ==
    ASSUME declaration \in Declarations, NEW class \in DOMAIN Classes
    PROVE  /\ \A key \in DOMAIN Declared(class) :
                /\ key[1] \in Nat /\ key[2] \in Nat /\ key = <<key[1], key[2]>>
                /\ key \in DerivedKeys <=> key[1] # 0
                /\ key \in DerivedKeys => DerivedClass(key) = class /\ Declared(class)[key] = DataType(key[1])
                /\ key \notin DerivedKeys => /\ key[2] \in DOMAIN declaration.instances[class]
                                             /\ Declared(class)[key] = declaration.instances[class][key[2]]
           /\ \A key \in DerivedKeys : DerivedClass(key) = class => key \in DOMAIN Declared(class)
<1> DEFINE list == declaration.instances[class]
           user == Keyed(list)
           derived == {key \in DerivedKeys : DerivedClass(key) = class}
<1>1. list \in Seq(Layer[Depth])
    BY DeclarationsAssumption
<1>2. Declared(class) = [key \in derived \cup DOMAIN user |-> IF key \in derived THEN DataType(key[1]) ELSE user[key]]
    BY DEF Declared
<1> HIDE DEF list
<1>3. DOMAIN user = {<<0, i>> : i \in DOMAIN list} /\ \A i \in DOMAIN list : user[<<0, i>>] = list[i]
    BY DEF Keyed
<1> HIDE DEF user
<1>5. \A key \in DerivedKeys : key[1] \in Nat \ {0} /\ key[2] \in Nat /\ key = <<key[1], key[2]>>
    BY KeyFacts
<1>6. ASSUME NEW i \in DOMAIN list
      PROVE  /\ <<0, i>>[1] = 0 /\ <<0, i>>[2] = i /\ i \in Nat /\ <<0, i>> \notin DerivedKeys
    BY <1>1, <1>5
<1>7. ASSUME NEW key \in DOMAIN Declared(class)
      PROVE  /\ key[1] \in Nat /\ key[2] \in Nat /\ key = <<key[1], key[2]>>
             /\ key \in DerivedKeys <=> key[1] # 0
             /\ key \in DerivedKeys => DerivedClass(key) = class /\ Declared(class)[key] = DataType(key[1])
             /\ key \notin DerivedKeys => key[2] \in DOMAIN list /\ Declared(class)[key] = list[key[2]]
    <2>1. CASE key \notin derived
        <3>1. PICK i \in DOMAIN list : key = <<0, i>>
            BY <1>2, <1>3, <1>7, <2>1
        <3>2. Declared(class)[key] = list[i]
            BY <1>2, <1>3, <2>1, <3>1
        <3> QED
            BY <1>6, <3>1, <3>2
    <2>2. CASE key \in derived
        <3>1. Declared(class)[key] = DataType(key[1])
            BY <1>2, <2>2
        <3> QED
            BY <1>5, <2>2, <3>1
    <2> QED
        BY <2>1, <2>2
<1>8. \A key \in DerivedKeys : DerivedClass(key) = class => key \in DOMAIN Declared(class)
    BY <1>2
<1> QED
    BY <1>7, <1>8 DEF list

\* The derived instance that is processed next is there.
LEMMA AtHandIs ==
    ASSUME declaration \in Declarations, todo \subseteq DerivedKeys, todo # {}
    PROVE  AtHand \in todo
<1>1. \A key \in todo : /\ key[1] \in Nat /\ key[2] \in Nat /\ key = <<key[1], key[2]>>
                        /\ TypeDef(key[1]).kind \in {"adt", "record"}
    BY KeyFacts, TypeFacts
<1> DEFINE adts == {key \in todo : TypeDef(key[1]).kind = "adt"}
<1>2. \E key \in todo : \A other \in todo \ {key} : ProcessedBefore(key, other)
    <2>1. CASE adts # {}
        <3>0. \A key \in adts : key[1] \in Nat /\ key[2] \in Nat /\ key = <<key[1], key[2]>>
            BY <1>1
        <3>1. PICK key \in adts : \A other \in adts \ {key} : ComesBefore(key, other)
            <4> HIDE DEF adts
            <4> QED
                BY ONLY <2>1, <3>0, LeastKey
        <3> QED
            BY <1>1, <3>1 DEF ProcessedBefore
    <2>2. CASE adts = {}
        <3>1. PICK key \in todo : \A other \in todo \ {key} : ComesBefore(key, other)
            BY <1>1, LeastKey
        <3>2. \A other \in todo : TypeDef(other[1]).kind = "record"
            BY <1>1, <2>2
        <3> QED
            BY <3>1, <3>2 DEF ProcessedBefore
    <2> QED
        BY <2>1, <2>2
<1> QED
    BY <1>2 DEF AtHand

LEMMA SameDeclaration ==
    ASSUME declaration' = declaration
    PROVE  /\ DerivedKeys' = DerivedKeys
           /\ \A key : DerivedClass(key)' = DerivedClass(key) /\ ItemClaims(key)' = ItemClaims(key)
           /\ \A class : Declared(class)' = Declared(class)
           /\ \A id : TypeDef(id)' = TypeDef(id)
           /\ todo' = todo => AtHand' = AtHand
<1>1. DerivedKeys' = DerivedKeys
    BY DEF DerivedKeys, TypeDef
<1>2. \A key : DerivedClass(key)' = DerivedClass(key)
    BY DEF DerivedClass, TypeDef
<1>3. \A key : ItemClaims(key)' = ItemClaims(key)
    BY DEF ItemClaims, DerivedClass, TypeDef
<1>4. \A class : Declared(class)' = Declared(class)
    BY DEF Declared, DerivedKeys, DerivedClass, DataType, TypeDef
<1>5. \A id : TypeDef(id)' = TypeDef(id)
    BY DEF TypeDef
<1>6. ASSUME todo' = todo
      PROVE  AtHand' = AtHand
    BY <1>6 DEF AtHand, ProcessedBefore, TypeDef
<1> QED
    BY <1>1, <1>2, <1>3, <1>4, <1>5, <1>6

\* The class of a derived instance is claimed of declared types.
LEMMA ItemClaimsIs ==
    ASSUME declaration \in Declarations, NEW key \in DerivedKeys
    PROVE  /\ ItemClaims(key) \in Seq(STRING \X DeclaredTypes(declaration))
           /\ \A c \in Range(ItemClaims(key)) : c[1] = DerivedClass(key) /\ c[2] \in DeclaredTypes(declaration)
<1> DEFINE items == TypeDef(key[1]).items
<1>1. items \in Seq(Type) /\ Range(items) \subseteq DeclaredTypes(declaration)
    BY KeyFacts, TypeFacts
<1>2. DerivedClass(key) \in STRING
    BY KeyFacts, ClassesAssumption
<1> HIDE DEF items
<1>3. \A i \in DOMAIN items : items[i] \in DeclaredTypes(declaration)
    BY <1>1 DEF Range
<1>4. ItemClaims(key) = [i \in DOMAIN items |-> <<DerivedClass(key), items[i]>>]
    BY DEF ItemClaims, items
<1>5. DOMAIN items = 1..Len(items) /\ Len(items) \in Nat
    BY <1>1
<1>6. ItemClaims(key) \in Seq(STRING \X DeclaredTypes(declaration))
    BY <1>2, <1>3, <1>4, <1>5
<1>7. \A c \in Range(ItemClaims(key)) : c[1] = DerivedClass(key) /\ c[2] \in DeclaredTypes(declaration)
    BY <1>3, <1>4 DEF Range
<1> QED
    BY <1>6, <1>7

-----------------------------------------------------------------------------
(* The stages. *)

Control ==
    /\ declaration \in Declarations /\ IsSearch(resolver) /\ changed \in BOOLEAN
    /\ stage \in {"declare", "conflicts", "derive", "items", "dependencies", "accepted", "rejected"}
    /\ todo \subseteq DerivedKeys
    /\ stage = "items" => todo # {} /\ claims \in Seq(Range(ItemClaims(AtHand)))
    /\ stage \notin {"items", "dependencies"} => Idle /\ claims = <<>>
    /\ stage = "accepted" => errors = {}
    /\ stage = "rejected" => errors # {}
    /\ stage \in {"declare", "conflicts"} => resolver.next = FirstIndex
    /\ stage = "conflicts" => instances = [class \in DOMAIN Classes |-> Declared(class)]

LEMMA ControlInit == Init => Control
<1> SUFFICES ASSUME Init
             PROVE  Control
    OBVIOUS
<1>1. IsSearch(resolver) /\ resolver.next = FirstIndex /\ resolver.pending = <<>>
    BY DEF Init, Search, IsSearch
<1> QED
    BY <1>1 DEF Init, Control, Idle

\* What no step changes.
LEMMA SameSteps ==
    ASSUME Next
    PROVE  declaration' = declaration
BY DEF Next, Declare, CheckConflicts, StartItems, StartClaim, CheckPending, ApplyUnifier, EndItems, EndPass,
       CheckInstanceDependencies, Terminated, vars

LEMMA ControlNext ==
    ASSUME Control, Next
    PROVE  Control'
<1> USE DEF Control
<1>0. declaration' = declaration
    BY SameSteps
<1>1. /\ DerivedKeys' = DerivedKeys
      /\ \A key : DerivedClass(key)' = DerivedClass(key) /\ ItemClaims(key)' = ItemClaims(key)
      /\ \A class : Declared(class)' = Declared(class)
      /\ todo' = todo => AtHand' = AtHand
    BY <1>0, SameDeclaration
<1>2. CASE Declare
    <2>1. /\ resolver'.instances = [class \in DOMAIN Classes |-> Declared(class)]
          /\ IsSearch(resolver') /\ resolver'.next = resolver.next /\ resolver'.pending = resolver.pending
        BY <1>2 DEF Declare, IsSearch
    <2>2. resolver'.instances = [class \in DOMAIN Classes |-> Declared(class)']
        BY <1>1, <2>1
    <2> QED
        BY <1>0, <1>1, <1>2, <2>1, <2>2 DEF Declare, Idle, instances
<1>3. CASE CheckConflicts
    BY <1>0, <1>1, <1>3 DEF CheckConflicts, StartPass, Idle, instances
<1>4. CASE StartItems
    <2>1. IsSearch(resolver') /\ resolver'.pending = resolver.pending
        BY <1>4 DEF StartItems, IsSearch
    <2>2. ItemClaims(AtHand) \in Seq(Range(ItemClaims(AtHand)))
        <3>1. ItemClaims(AtHand) \in Seq(STRING \X DeclaredTypes(declaration))
            BY <1>4, AtHandIs, ItemClaimsIs DEF StartItems
        <3> DEFINE q == ItemClaims(AtHand)
        <3>2. q \in Seq(STRING \X DeclaredTypes(declaration))
            BY <3>1
        <3> HIDE DEF q
        <3>3. q \in Seq(Range(q))
            BY <3>2 DEF Range
        <3> QED
            BY <3>3 DEF q
    <2>3. AtHand' = AtHand /\ ItemClaims(AtHand)' = ItemClaims(AtHand)
        BY <1>1, <1>4 DEF StartItems
    <2> QED
        BY <1>0, <1>1, <1>4, <2>1, <2>2, <2>3 DEF StartItems
<1>5. CASE StartClaim
    <2>1. IsSearch(resolver')
        BY <1>5 DEF StartClaim, IsSearch
    <2>2. stage = "items" => claims' \in Seq(Range(ItemClaims(AtHand)))
        BY <1>5 DEF StartClaim
    <2> QED
        BY <1>0, <1>1, <1>5, <2>1, <2>2 DEF StartClaim
<1>6. CASE CheckPending
    <2>1. IsSearch(resolver')
        BY <1>6, SameInstances DEF CheckPending
    <2>2. stage \in {"items", "dependencies"}
        BY <1>6 DEF CheckPending
    <2> QED
        BY <1>0, <1>1, <1>6, <2>1, <2>2 DEF CheckPending
<1>7. CASE ApplyUnifier
    <2>1. IsSearch(resolver') /\ stage = "items"
        BY <1>7 DEF ApplyUnifier, IsSearch, ItemsDone
    <2> QED
        BY <1>0, <1>1, <1>7, <2>1 DEF ApplyUnifier
<1>8. CASE EndItems
    BY <1>0, <1>1, <1>8 DEF EndItems, ItemsDone, Idle
<1>9. CASE EndPass
    BY <1>0, <1>1, <1>9 DEF EndPass, StartPass, StartDependencies, Idle
<1>10. CASE CheckInstanceDependencies
    BY <1>0, <1>1, <1>10 DEF CheckInstanceDependencies, Idle
<1>11. CASE Terminated
    BY <1>0, <1>1, <1>11 DEF Terminated, vars, Idle, instances
<1> QED
    BY <1>2, <1>3, <1>4, <1>5, <1>6, <1>7, <1>8, <1>9, <1>10, <1>11 DEF Next

-----------------------------------------------------------------------------
(* The calls of check_instance for the items of a data type: one for an     *)
(* item, which may be a variable, or some that it makes, which are not.      *)

Expected(pending, asked, types) ==
    (\E c \in asked : pending = <<{c}>>) \/ pending \in Seq(SUBSET Composite(types))

Open(c) == IsVar(c[2]) /\ c[1] \notin c[2].cs

Advances(s, n, asked, more) ==
    /\ Tidy(more, n.next) /\ s.next <= n.next /\ n.pending \in Seq(SUBSET Composite(more))
    /\ \/ n.unifiers = s.unifiers /\ \A c \in asked : Open(c) => s.pending # <<{c}>>
       \/ \E c \in asked : \E u : \E m \in more :
            /\ s.pending = <<{c}>> /\ Open(c) /\ Renames(u, c[2].id, s.next, m)
            /\ n.unifiers = Append(s.unifiers, u)

LEMMA NextTidy ==
    ASSUME NEW s, IsSearch(s), NEW types, Tidy(types, s.next), HeadsIn(s.instances, types),
           NEW asked \in SUBSET (STRING \X types), s.pending # <<>>, Expected(s.pending, asked, types)
    PROVE  \E more \in SUBSET Type : types \subseteq more /\ Advances(s, CheckNext(s), asked, more)
<1> DEFINE n == CheckNext(s)
           calls == Head(s.pending)
           rest == Tail(s.pending)
           claim == CHOOSE claim \in calls : TRUE
           t == [s EXCEPT !.pending = <<calls \ {claim}>> \o rest]
<1>0. s.next \in Nat /\ types \subseteq Type
    BY DEF Tidy
<1>1. /\ IsSearch(t) /\ t.instances = s.instances /\ t.next = s.next /\ t.unifiers = s.unifiers
      /\ t.pending = <<calls \ {claim}>> \o rest
    <2>1. \A p : LET with == [s EXCEPT !.pending = p]
                 IN  /\ IsSearch(with) /\ with.instances = s.instances /\ with.next = s.next
                     /\ with.unifiers = s.unifiers /\ with.pending = p
        BY DEF IsSearch
    <2> HIDE DEF calls, rest, claim
    <2> QED
        BY <2>1
<1>2. ASSUME calls # {}
      PROVE  claim \in calls /\ n = CheckClaim(t, claim[1], claim[2])
    BY <1>2 DEF CheckNext
<1>3. ASSUME calls = {}
      PROVE  n.pending = rest /\ n.next = s.next /\ n.unifiers = s.unifiers
    BY <1>3 DEF CheckNext, IsSearch
<1>4. ASSUME NEW class, NEW ty \in types, n = CheckClaim(t, class, ty), ~IsVar(ty), t.pending \in Seq(SUBSET Composite(types)),
             \A c \in asked : Open(c) => s.pending # <<{c}>>
      PROVE  \E more \in SUBSET Type : types \subseteq more /\ Advances(s, n, asked, more)
    <2>1. n = Resolve(t, class, ty, HasInstance(t, class, ty))
        BY <1>4 DEF CheckClaim
    <2> HIDE DEF n, t
    <2>2. Resolves(t, n, types)
        BY <1>1, <1>4, <2>1, ResolveTidy
    <2>3. PICK more \in SUBSET Type : /\ types \subseteq more /\ Tidy(more, n.next) /\ t.next <= n.next
                                      /\ n.pending \in Seq(SUBSET Composite(more))
        BY <2>2 DEF Resolves
    <2>4. n.unifiers = s.unifiers
        BY <1>1, <2>2 DEF Resolves
    <2>5. Advances(s, n, asked, more)
        BY <1>1, <1>4, <2>3, <2>4 DEF Advances
    <2> QED
        BY <2>3, <2>5
<1>5. CASE \E c \in asked : s.pending = <<{c}>>
    <2>1. PICK c \in asked : s.pending = <<{c}>>
        BY <1>5
    <2>2. calls = {c} /\ rest = <<>>
        BY <2>1
    <2>3. claim = c /\ n = CheckClaim(t, c[1], c[2])
        BY <1>2, <2>2
    <2>4. t.pending = <<{}>>
        <3>1. calls \ {claim} = {}
            BY <2>2, <2>3
        <3>2. <<{}>> \o <<>> = <<{}>>
            OBVIOUS
        <3> HIDE DEF calls, claim, t, rest
        <3> QED
            BY <1>1, <2>2, <3>1, <3>2
    <2>5. c[1] \in STRING /\ c[2] \in types
        BY <2>1
    <2>6. \A other \in asked : s.pending = <<{other}>> => other = c
        BY <2>1
    <2> HIDE DEF calls, rest, claim, n, t
    <2>7. \A more : <<{}>> \in Seq(SUBSET Composite(more))
        OBVIOUS
    <2>8. CASE ~IsVar(c[2])
        <3>1. \A other \in asked : Open(other) => s.pending # <<{other}>>
            BY <2>6, <2>8 DEF Open
        <3>2. t.pending \in Seq(SUBSET Composite(types))
            BY <2>4, <2>7
        <3> QED
            BY <1>4, <2>3, <2>5, <2>8, <3>1, <3>2 DEF n
    <2>9. CASE IsVar(c[2]) /\ c[1] \in c[2].cs
        <3>1. n = t
            BY <2>3, <2>9 DEF CheckClaim, Constrain
        <3>2. Advances(s, n, asked, types)
            <4>1. \A other \in asked : Open(other) => s.pending # <<{other}>>
                BY <2>6, <2>9 DEF Open
            <4>2. n.pending = <<{}>> /\ n.next = s.next /\ n.unifiers = s.unifiers
                BY <1>1, <2>4, <3>1
            <4>3. s.next <= n.next /\ Tidy(types, n.next) /\ n.pending \in Seq(SUBSET Composite(types))
                BY <1>0, <2>7, <4>2
            <4> QED
                BY ONLY <4>1, <4>2, <4>3 DEF Advances
        <3> QED
            BY <1>0, <3>2 DEF n
    <2>10. CASE IsVar(c[2]) /\ c[1] \notin c[2].cs
        <3>1. n = Constrain(t, c[1], c[2])
            BY <2>3, <2>10 DEF CheckClaim
        <3>2. Constrains(t, n, c[2].id, types)
            BY <1>1, <2>5, <2>10, <3>1, ConstrainTidy
        <3>3. PICK u, m : /\ Renames(u, c[2].id, t.next, m) /\ n.unifiers = Append(t.unifiers, u)
                          /\ Tidy(types \cup {m}, n.next)
            BY <3>2 DEF Constrains
        <3>4. m \in Type
            BY <3>3 DEF Renames
        <3>5. n.pending \in Seq(SUBSET Composite(types \cup {m})) /\ s.next <= n.next
            BY <1>0, <1>1, <2>4, <2>7, <3>2 DEF Constrains
        <3>6. Advances(s, n, asked, types \cup {m})
            BY <1>1, <2>1, <2>10, <3>3, <3>5 DEF Advances, Open
        <3> QED
            BY <1>0, <3>4, <3>6 DEF n
    <2> QED
        BY <2>8, <2>9, <2>10 DEF n
<1>6. CASE s.pending \in Seq(SUBSET Composite(types))
    <2> DEFINE S == SUBSET Composite(types)
    <2>1. s.pending \in Seq(S) /\ s.pending # <<>>
        BY <1>6
    <2> HIDE DEF S
    <2>2. calls \in S /\ rest \in Seq(S)
        BY <2>1
    <2>3. ASSUME NEW c \in asked, Open(c)
          PROVE  s.pending # <<{c}>>
        <3>1. s.pending = <<{c}>> => c \in Composite(types)
            BY <2>2 DEF S
        <3> QED
            BY <2>3, <3>1 DEF Composite, Open, IsGeneric
    <2> HIDE DEF calls, rest
    <2>4. CASE calls = {}
        <3>1. Advances(s, n, asked, types)
            BY <1>0, <1>3, <2>2, <2>3, <2>4 DEF Advances, S
        <3> QED
            BY <1>0, <3>1
    <2>5. CASE calls # {}
        <3>1. claim \in Composite(types) /\ n = CheckClaim(t, claim[1], claim[2])
            BY <1>2, <2>2, <2>5 DEF S
        <3>2. t.pending \in Seq(S)
            <4>1. calls \ {claim} \in S
                BY <2>2 DEF S
            <4>2. <<calls \ {claim}>> \in Seq(S)
                BY <4>1
            <4> QED
                BY <1>1, <2>2, <4>2, ConcatProperties
        <3>3. claim[2] \in types /\ ~IsVar(claim[2])
            BY <3>1 DEF Composite, IsGeneric
        <3> HIDE DEF n, t, claim
        <3> QED
            BY <1>4, <2>3, <3>1, <3>2, <3>3 DEF S, n
    <2> QED
        BY <2>4, <2>5
<1> QED
    BY <1>5, <1>6 DEF Expected

-----------------------------------------------------------------------------
(* The unifiers that are left to the loop over derived instances.           *)

ArgIds(ty) == {ty.args[j].id : j \in DOMAIN ty.args}

\* A unifier puts in variables that come after an index.
After(index, u) == \A i \in DOMAIN u.sub : index + 1 < u.sub[i].id

\* They are for claims, in the order of their new variables.
Queue(us, open, ids, types) ==
    /\ us \in Seq(Unifiers)
    /\ \A k \in DOMAIN us : \E c \in open : \E at \in Nat : \E m \in types :
            FirstIndex <= at /\ Renames(us[k], c[2].id, at, m)
    /\ \A k \in DOMAIN us : \A i \in ids : After(i, us[k])
    /\ \A j, k \in DOMAIN us : j < k => \A i \in DOMAIN us[j].sub : After(us[j].sub[i].id, us[k])

LEMMA RenamesAfter ==
    ASSUME NEW u, NEW id, NEW at, NEW m, Renames(u, id, at, m)
    PROVE  /\ \A i \in DOMAIN u.sub : u.sub[i] = m
           /\ id \in DOMAIN u.sub /\ at \in DOMAIN u.sub /\ m.id = at + 1 /\ at \in Nat /\ id < at
           /\ \A index \in Nat : After(index, u) <=> index < at
<1>1. u.sub = [i \in {at, id} |-> m] /\ m.id = at + 1 /\ at \in Nat /\ id < at
    BY DEF Renames
<1>2. DOMAIN u.sub = {at, id} /\ \A i \in DOMAIN u.sub : u.sub[i] = m
    BY <1>1
<1>3. \A index \in Nat : After(index, u) <=> index + 1 < at + 1
    BY <1>1, <1>2 DEF After
<1> QED
    BY <1>1, <1>2, <1>3

LEMMA QueueAppend ==
    ASSUME NEW us, NEW open, NEW ids, NEW types, Queue(us, open, ids, types),
           NEW next, Tidy(types, next), FirstIndex <= next, \A i \in ids : i \in Nat /\ i < next,
           NEW c \in open, NEW u, NEW m, Renames(u, c[2].id, next, m), NEW more, types \cup {m} \subseteq more
    PROVE  Queue(Append(us, u), open, ids, more)
<1> DEFINE new == Append(us, u)
<1>1. us \in Seq(Unifiers) /\ u \in Unifiers /\ next \in Nat /\ types \subseteq Type
    BY DEF Queue, Renames, Tidy
<1>2. /\ new \in Seq(Unifiers) /\ Len(us) \in Nat
      /\ DOMAIN new = 1..(Len(us) + 1) /\ DOMAIN us = 1..Len(us)
      /\ \A k \in 1..Len(us) : new[k] = us[k]
      /\ new[Len(us) + 1] = u
    BY <1>1
<1> HIDE DEF new
<1>3. \A k \in DOMAIN new : k \in DOMAIN us \/ (k = Len(us) + 1 /\ new[k] = u)
    BY <1>2
<1>4. \A k \in DOMAIN us : new[k] = us[k] /\ k < Len(us) + 1
    BY <1>2
<1>5. \A k \in DOMAIN new : \E d \in open : \E at \in Nat : \E n \in more :
            FirstIndex <= at /\ Renames(new[k], d[2].id, at, n)
    <2> TAKE k \in DOMAIN new
    <2>1. CASE k \in DOMAIN us
        <3>1. PICK d \in open : \E at \in Nat : \E n \in types : FirstIndex <= at /\ Renames(us[k], d[2].id, at, n)
            BY <2>1 DEF Queue
        <3>2. PICK at \in Nat : \E n \in types : FirstIndex <= at /\ Renames(us[k], d[2].id, at, n)
            BY <3>1
        <3>3. PICK n \in types : FirstIndex <= at /\ Renames(us[k], d[2].id, at, n)
            BY <3>2
        <3>4. n \in more /\ new[k] = us[k]
            BY <1>4, <2>1
        <3> QED
            BY <3>3, <3>4
    <2>2. CASE k \notin DOMAIN us
        <3>1. new[k] = u /\ m \in more
            BY <1>3, <2>2
        <3> QED
            BY <1>1, <3>1
    <2> QED
        BY <2>1, <2>2
<1>6. \A index \in Nat : index < next => After(index, u)
    BY RenamesAfter
<1>7. \A k \in DOMAIN new : \A i \in ids : After(i, new[k])
    BY <1>3, <1>4, <1>6 DEF Queue
<1>8. ASSUME NEW j \in DOMAIN us, NEW i \in DOMAIN us[j].sub
      PROVE  us[j].sub[i].id \in Nat /\ us[j].sub[i].id < next
    <2>1. PICK d \in open : \E at \in Nat : \E n \in types : Renames(us[j], d[2].id, at, n)
        BY DEF Queue
    <2>2. PICK at \in Nat : \E n \in types : Renames(us[j], d[2].id, at, n)
        BY <2>1
    <2>3. PICK n \in types : Renames(us[j], d[2].id, at, n)
        BY <2>2
    <2>4. us[j].sub[i] = n
        BY <2>3, RenamesAfter
    <2>5. n \in Leaves(n) /\ n.id \in Nat
        BY <2>3 DEF Renames
    <2>6. n \in LeavesIn(types)
        BY <2>5 DEF LeavesIn
    <2> QED
        BY <2>4, <2>5, <2>6 DEF Tidy
<1>9. ASSUME NEW j \in DOMAIN new, NEW k \in DOMAIN new, j < k, NEW i \in DOMAIN new[j].sub
      PROVE  After(new[j].sub[i].id, new[k])
    <2>1. j \in DOMAIN us
        BY <1>2, <1>3, <1>9
    <2>2. new[j] = us[j]
        BY <1>4, <2>1
    <2>3. CASE k \in DOMAIN us
        BY <1>4, <1>9, <2>1, <2>2, <2>3 DEF Queue
    <2>4. CASE k \notin DOMAIN us
        BY <1>3, <1>6, <1>8, <2>1, <2>2, <2>4
    <2> QED
        BY <2>3, <2>4
<1> QED
    BY <1>2, <1>5, <1>7, <1>9 DEF Queue, new

\* The first is taken; what comes after its new variable stays after it.
LEMMA QueueTail ==
    ASSUME NEW us, NEW open, NEW ids, NEW types, Queue(us, open, ids, types), us # <<>>, NEW more, types \subseteq more,
           NEW new, \A n \in new : n \in ids \/ \E i \in DOMAIN Head(us).sub : n = Head(us).sub[i].id
    PROVE  Queue(Tail(us), open, new, more)
<1> DEFINE q == Tail(us)
<1>1. us \in Seq(Unifiers)
    BY DEF Queue
<1>2. /\ q \in Seq(Unifiers) /\ Head(us) = us[1] /\ 1 \in DOMAIN us
      /\ \A k \in DOMAIN q : k + 1 \in DOMAIN us /\ q[k] = us[k + 1] /\ k \in Nat /\ 1 < k + 1
    BY <1>1
<1> HIDE DEF q
<1>3. \A k \in DOMAIN q : \E c \in open : \E at \in Nat : \E m \in more :
            FirstIndex <= at /\ Renames(q[k], c[2].id, at, m)
    <2> TAKE k \in DOMAIN q
    <2>1. k + 1 \in DOMAIN us /\ q[k] = us[k + 1]
        BY <1>2
    <2>2. PICK c \in open : \E at \in Nat : \E m \in types : FirstIndex <= at /\ Renames(us[k + 1], c[2].id, at, m)
        BY <2>1 DEF Queue
    <2>3. PICK at \in Nat : \E m \in types : FirstIndex <= at /\ Renames(us[k + 1], c[2].id, at, m)
        BY <2>2
    <2>4. PICK m \in types : FirstIndex <= at /\ Renames(us[k + 1], c[2].id, at, m)
        BY <2>3
    <2> QED
        BY <2>1, <2>4
<1>4. \A k \in DOMAIN q : \A n \in new : After(n, q[k])
    <2> TAKE k \in DOMAIN q
    <2> TAKE n \in new
    <2>1. k + 1 \in DOMAIN us /\ q[k] = us[k + 1] /\ 1 < k + 1
        BY <1>2
    <2>2. CASE n \in ids
        BY <2>1, <2>2 DEF Queue
    <2>3. CASE \E i \in DOMAIN Head(us).sub : n = Head(us).sub[i].id
        BY <1>2, <2>1, <2>3 DEF Queue
    <2> QED
        BY <2>2, <2>3
<1>5. \A j, k \in DOMAIN q : j < k => \A i \in DOMAIN q[j].sub : After(q[j].sub[i].id, q[k])
    <2> SUFFICES ASSUME NEW j \in DOMAIN q, NEW k \in DOMAIN q, j < k, NEW i \in DOMAIN q[j].sub
                 PROVE  After(q[j].sub[i].id, q[k])
        OBVIOUS
    <2>1. j + 1 \in DOMAIN us /\ k + 1 \in DOMAIN us /\ j + 1 < k + 1 /\ q[j] = us[j + 1] /\ q[k] = us[k + 1]
        BY <1>2
    <2> QED
        BY <2>1 DEF Queue
<1> QED
    BY <1>2, <1>3, <1>4, <1>5 DEF Queue, q

-----------------------------------------------------------------------------
(* The types of instances.                                                  *)

\* A derived instance is one for its type applied to distinct variables.
Reshaped(key, ty) ==
    /\ ty \in Type /\ ty.k = "Named" /\ ty.id = key[1]
    /\ Len(ty.args) = Len(TypeDef(key[1]).params)
    /\ \A j \in DOMAIN ty.args : IsVar(ty.args[j])
    /\ \A i, j \in DOMAIN ty.args : ty.args[i].id = ty.args[j].id => i = j

\* Instances are added in the beginning, and derived ones change their arguments.
Shaped ==
    /\ DOMAIN instances = DOMAIN Classes
    /\ \A class \in DOMAIN Classes :
        /\ DOMAIN instances[class] = DOMAIN Declared(class)
        /\ \A key \in DOMAIN Declared(class) :
                IF key \in DerivedKeys THEN Reshaped(key, instances[class][key])
                ELSE instances[class][key] = Declared(class)[key]

LEMMA ReshapedParts ==
    ASSUME NEW key, NEW ty, Reshaped(key, ty)
    PROVE  /\ ty \in Type /\ ~IsGeneric(ty) /\ DOMAIN ty.args = 1..Len(ty.args) /\ Len(ty.args) \in Nat
           /\ \A j \in DOMAIN ty.args :
                /\ ty.args[j] \in Type /\ IsVar(ty.args[j]) /\ IsGeneric(ty.args[j]) /\ ty.args[j].id \in Nat
                /\ Leaves(ty.args[j]) = {ty.args[j]} /\ ty.args[j] \in Leaves(ty)
           /\ \A i \in ArgIds(ty) : i \in Nat /\ \E l \in Leaves(ty) : i = l.id
           /\ Leaves(ty) = {ty.args[j] : j \in DOMAIN ty.args}
<1>1. ty \in Type /\ ~IsGeneric(ty)
    BY DEF Reshaped, IsGeneric, IsVar, IsFixed
<1>2. /\ DOMAIN ty.args = 1..Len(ty.args) /\ Len(ty.args) \in Nat
      /\ \A j \in DOMAIN ty.args : ty.args[j] \in Type /\ IsVar(ty.args[j])
    BY <1>1, TypeParts DEF Reshaped
<1>3. \A j \in DOMAIN ty.args : /\ IsGeneric(ty.args[j]) /\ ty.args[j].id \in Nat /\ Leaves(ty.args[j]) = {ty.args[j]}
                                /\ ty.args[j] \in Leaves(ty)
    BY <1>1, <1>2, GenericParts, PartLeaves DEF IsGeneric
<1>4. Leaves(ty) = UNION {Leaves(ty.args[i]) : i \in DOMAIN ty.args}
    BY <1>1, LeavesDef
<1>5. Leaves(ty) = {ty.args[j] : j \in DOMAIN ty.args}
    <2>1. ASSUME NEW l \in Leaves(ty)
          PROVE  \E j \in DOMAIN ty.args : l = ty.args[j]
        <3>1. PICK j \in DOMAIN ty.args : l \in Leaves(ty.args[j])
            BY <1>4
        <3> QED
            BY <1>3, <3>1
    <2> QED
        BY <1>3, <2>1
<1> QED
    BY <1>1, <1>2, <1>3, <1>5 DEF ArgIds

LEMMA RenameReshaped ==
    ASSUME NEW key, NEW ty, Reshaped(key, ty), NEW u, NEW id, NEW at, NEW m, Renames(u, id, at, m),
           \A i \in ArgIds(ty) : i < at
    PROVE  LET new == Apply(u.sub, ty)
           IN  /\ Reshaped(key, new)
               /\ \A i \in ArgIds(new) : (i \in ArgIds(ty) /\ i # id) \/ i = m.id
               /\ id \notin ArgIds(ty) => new = ty
               /\ Leaves(new) \subseteq Leaves(ty) \cup {m}
<1> DEFINE new == Apply(u.sub, ty)
<1>1. /\ ty \in Type /\ ~IsGeneric(ty) /\ DOMAIN ty.args = 1..Len(ty.args)
      /\ \A j \in DOMAIN ty.args : IsVar(ty.args[j]) /\ ty.args[j].id \in Nat /\ ty.args[j] \in Leaves(ty)
      /\ Leaves(ty) = {ty.args[j] : j \in DOMAIN ty.args}
    BY ReshapedParts
<1>2. \A j \in DOMAIN ty.args : ty.args[j].id < at /\ ty.args[j].id \in ArgIds(ty)
    BY DEF ArgIds
<1>3. /\ new \in Type /\ ~IsGeneric(new) /\ new.k = ty.k /\ new.id = ty.id
      /\ Len(new.args) = Len(ty.args) /\ DOMAIN new.args = DOMAIN ty.args
      /\ \A i \in DOMAIN ty.args : new.args[i] = IF ty.args[i].id = id THEN m ELSE ty.args[i]
    BY <1>1, <1>2, ApplyRenames
<1> HIDE DEF new
<1>4. m.id = at + 1 /\ at \in Nat /\ IsVar(m)
    BY DEF Renames
<1>5. \A i \in DOMAIN new.args : IsVar(new.args[i])
    BY <1>1, <1>3, <1>4
<1>6. ASSUME NEW i \in DOMAIN new.args, NEW j \in DOMAIN new.args, new.args[i].id = new.args[j].id
      PROVE  i = j
    <2>1. i \in DOMAIN ty.args /\ j \in DOMAIN ty.args
        BY <1>3
    <2>2. ty.args[i].id = ty.args[j].id => i = j
        BY <2>1 DEF Reshaped
    <2>3. ty.args[i].id < at /\ ty.args[j].id < at /\ ty.args[i].id \in Nat /\ ty.args[j].id \in Nat
        BY <1>1, <1>2, <2>1
    <2> QED
        BY <1>3, <1>4, <1>6, <2>1, <2>2, <2>3
<1>7. Reshaped(key, new)
    BY <1>3, <1>5, <1>6 DEF Reshaped
<1>8. \A i \in ArgIds(new) : (i \in ArgIds(ty) /\ i # id) \/ i = m.id
    BY <1>2, <1>3 DEF ArgIds
<1>9. id \notin ArgIds(ty) => new = ty
    <2> SUFFICES ASSUME id \notin ArgIds(ty)
                 PROVE  new = ty
        OBVIOUS
    <2>1. \A i \in DOMAIN ty.args : new.args[i] = ty.args[i]
        BY <1>2, <1>3
    <2> QED
        BY <1>1, <1>3, <2>1, SameComposite
<1>10. Leaves(new) \subseteq Leaves(ty) \cup {m}
    <2>1. Leaves(new) = {new.args[j] : j \in DOMAIN new.args}
        BY <1>7, ReshapedParts
    <2> QED
        BY <1>1, <1>3, <2>1
<1> QED
    BY <1>7, <1>8, <1>9, <1>10 DEF new

LEMMA DataTypeReshaped ==
    ASSUME declaration \in Declarations, NEW key \in DerivedKeys
    PROVE  Reshaped(key, DataType(key[1]))
<1>1. key[1] \in DOMAIN declaration.types
    BY KeyFacts
<1>2. /\ DataType(key[1]) \in Type /\ DataType(key[1]).k = "Named" /\ DataType(key[1]).id = key[1]
      /\ DataType(key[1]).args = TypeDef(key[1]).params
    BY <1>1, DataTypeIs
<1>3. \A i \in DOMAIN TypeDef(key[1]).params : IsVar(TypeDef(key[1]).params[i])
    BY <1>1, TypeFacts
<1>4. \A i, j \in DOMAIN TypeDef(key[1]).params :
            TypeDef(key[1]).params[i].id = TypeDef(key[1]).params[j].id => i = j
    BY <1>1, ParamsDistinct
<1> QED
    BY <1>2, <1>3, <1>4 DEF Reshaped

\* The instance at hand.
ClassAtHand == DerivedClass(AtHand)
TypeAtHand == instances[ClassAtHand][AtHand]

-----------------------------------------------------------------------------
(* The types of a program stay tidy while instances are processed.          *)

OpenClaims(key) == {c \in Range(ItemClaims(key)) : Open(c)}

World(types) ==
    /\ DeclaredTypes(declaration) \subseteq types /\ Tidy(types, resolver.next) /\ FirstIndex <= resolver.next
    /\ HeadsIn(instances, types)
    /\ stage = "items" =>
        /\ Expected(resolver.pending, Range(ItemClaims(AtHand)), types)
        /\ Queue(resolver.unifiers, OpenClaims(AtHand), ArgIds(TypeAtHand), types)

Tidied == stage \in {"conflicts", "derive", "items"} => \E types : World(types)

\* The instance at hand is one of those of its class.
LEMMA AtHandFacts ==
    ASSUME Control, Shaped, todo # {}
    PROVE  /\ AtHand \in todo /\ AtHand \in DerivedKeys /\ ClassAtHand \in DOMAIN Classes /\ ClassAtHand \in DOMAIN instances
           /\ AtHand \in DOMAIN instances[ClassAtHand] /\ Reshaped(AtHand, TypeAtHand)
<1>1. AtHand \in todo /\ AtHand \in DerivedKeys
    BY AtHandIs DEF Control
<1>2. ClassAtHand \in DOMAIN Classes
    BY <1>1, KeyFacts DEF Control, ClassAtHand
<1>3. AtHand \in DOMAIN Declared(ClassAtHand)
    BY <1>1, <1>2, DeclaredIs DEF Control, ClassAtHand
<1> QED
    BY <1>1, <1>2, <1>3 DEF Shaped, TypeAtHand

\* What applying a unifier does.
NewAtHand == Apply(Head(resolver.unifiers).sub, TypeAtHand)

LEMMA UnifierApplied ==
    ASSUME Control, Shaped, ApplyUnifier
    PROVE  /\ stage = "items" /\ stage' = stage /\ todo # {} /\ todo' = todo /\ pass' = pass
           /\ resolver.pending = <<>> /\ claims = <<>> /\ claims' = claims /\ resolver.unifiers # <<>>
           /\ resolver'.unifiers = Tail(resolver.unifiers) /\ resolver'.next = resolver.next
           /\ resolver'.pending = resolver.pending
           /\ DOMAIN instances' = DOMAIN instances
           /\ \A class \in DOMAIN instances :
                /\ DOMAIN instances'[class] = DOMAIN instances[class]
                /\ \A key \in DOMAIN instances[class] :
                        instances'[class][key] = IF class = ClassAtHand /\ key = AtHand THEN NewAtHand ELSE instances[class][key]
           /\ changed' => changed \/ NewAtHand # TypeAtHand
<1> DEFINE r == [resolver EXCEPT !.instances[ClassAtHand][AtHand] = NewAtHand, !.unifiers = Tail(@)]
<1>1. /\ stage = "items" /\ stage' = stage /\ todo' = todo /\ pass' = pass
      /\ resolver.pending = <<>> /\ claims = <<>> /\ claims' = claims /\ resolver.unifiers # <<>>
    BY DEF ApplyUnifier, ItemsDone, Idle
<1>2. resolver' = r /\ (changed' => changed \/ NewAtHand # TypeAtHand)
    BY DEF ApplyUnifier, InstanceChanged, NewAtHand, TypeAtHand, ClassAtHand
<1>3. /\ r.instances = [instances EXCEPT ![ClassAtHand][AtHand] = NewAtHand]
      /\ r.unifiers = Tail(resolver.unifiers) /\ r.next = resolver.next /\ r.pending = resolver.pending
    BY DEF Control, IsSearch, instances
<1> HIDE DEF r
<1>4. instances' = [instances EXCEPT ![ClassAtHand][AtHand] = NewAtHand]
    BY <1>2, <1>3 DEF instances
<1>5. todo # {}
    BY <1>1 DEF Control
<1>6. ClassAtHand \in DOMAIN instances /\ AtHand \in DOMAIN instances[ClassAtHand]
    BY <1>5, AtHandFacts
<1>7. /\ DOMAIN instances' = DOMAIN instances
      /\ \A class \in DOMAIN instances :
            /\ DOMAIN instances'[class] = DOMAIN instances[class]
            /\ \A key \in DOMAIN instances[class] :
                    instances'[class][key] = IF class = ClassAtHand /\ key = AtHand THEN NewAtHand ELSE instances[class][key]
    BY <1>4, <1>6
<1>8. /\ resolver'.unifiers = Tail(resolver.unifiers) /\ resolver'.next = resolver.next
      /\ resolver'.pending = resolver.pending
    BY <1>2, <1>3
<1>9. changed' => changed \/ NewAtHand # TypeAtHand
    BY <1>2
<1> QED
    BY <1>1, <1>5, <1>7, <1>8, <1>9

\* The unifier is for an open claim.
IsFor(types, c, at, m) ==
    /\ c \in OpenClaims(AtHand) /\ at \in Nat /\ m \in types /\ FirstIndex <= at
    /\ Renames(Head(resolver.unifiers), c[2].id, at, m)
    /\ \A i \in ArgIds(TypeAtHand) : i \in Nat /\ i < at

LEMMA FirstUnifier ==
    ASSUME Control, Shaped, stage = "items", NEW types, World(types), resolver.unifiers # <<>>
    PROVE  \E c, at, m : IsFor(types, c, at, m)
<1> DEFINE us == resolver.unifiers
           open == OpenClaims(AtHand)
           ids == ArgIds(TypeAtHand)
<1>1. Queue(us, open, ids, types) /\ todo # {}
    BY DEF World, Control
<1>2. \A i \in ids : i \in Nat
    BY <1>1, AtHandFacts, ReshapedParts
<1> HIDE DEF open, ids
<1>3. Head(us) = us[1] /\ 1 \in DOMAIN us
    BY <1>1 DEF Queue
<1>4. PICK c \in open : \E at \in Nat : \E m \in types : FirstIndex <= at /\ Renames(us[1], c[2].id, at, m)
    BY <1>1, <1>3 DEF Queue
<1>5. PICK at \in Nat : \E m \in types : FirstIndex <= at /\ Renames(us[1], c[2].id, at, m)
    BY <1>4
<1>6. PICK m \in types : FirstIndex <= at /\ Renames(us[1], c[2].id, at, m)
    BY <1>5
<1>7. \A i \in ids : After(i, us[1])
    BY <1>1, <1>3 DEF Queue
<1>8. \A i \in ids : i < at
    BY <1>2, <1>6, <1>7, RenamesAfter
<1>9. IsFor(types, c, at, m)
    BY <1>2, <1>3, <1>6, <1>8 DEF IsFor, ids, open
<1> QED
    BY <1>9

LEMMA NewAtHandFacts ==
    ASSUME Control, Shaped, stage = "items", NEW types, World(types), NEW c, NEW at, NEW m, IsFor(types, c, at, m)
    PROVE  /\ Reshaped(AtHand, NewAtHand)
           /\ \A i \in ArgIds(NewAtHand) : (i \in ArgIds(TypeAtHand) /\ i # c[2].id) \/ i = m.id
           /\ c[2].id \notin ArgIds(TypeAtHand) => NewAtHand = TypeAtHand
           /\ Leaves(NewAtHand) \subseteq Leaves(TypeAtHand) \cup {m}
<1>1. Reshaped(AtHand, TypeAtHand)
    BY AtHandFacts DEF Control
<1>2. Renames(Head(resolver.unifiers), c[2].id, at, m) /\ \A i \in ArgIds(TypeAtHand) : i < at
    BY DEF IsFor
<1> QED
    BY <1>1, <1>2, RenameReshaped DEF NewAtHand

LEMMA SameShaped ==
    ASSUME declaration' = declaration, instances' = instances, Shaped
    PROVE  Shaped'
<1>1. /\ DerivedKeys' = DerivedKeys /\ \A class : Declared(class)' = Declared(class)
      /\ \A id : TypeDef(id)' = TypeDef(id)
    BY SameDeclaration
<1>2. \A key, ty : Reshaped(key, ty)' <=> Reshaped(key, ty)
    BY <1>1 DEF Reshaped
<1> QED
    BY <1>1, <1>2 DEF Shaped

\* Instances change when they are declared and when unifiers are applied.
LEMMA InstancesKept ==
    ASSUME Control, Next
    PROVE  Declare \/ ApplyUnifier \/ instances' = instances
<1>1. CASE CheckConflicts \/ EndItems \/ EndPass \/ CheckInstanceDependencies \/ Terminated
    BY <1>1 DEF CheckConflicts, EndItems, EndPass, CheckInstanceDependencies, Terminated, vars, instances
<1>2. CASE StartItems
    BY <1>2 DEF StartItems, Control, IsSearch, instances
<1>3. CASE StartClaim
    BY <1>3 DEF StartClaim, Control, IsSearch, instances
<1>4. CASE CheckPending
    BY <1>4, SameInstances DEF CheckPending, Control, instances
<1> QED
    BY <1>1, <1>2, <1>3, <1>4 DEF Next

LEMMA ShapedNext ==
    ASSUME Control, Control', Tidied, stage # "declare" => Shaped, Next
    PROVE  stage' # "declare" => Shaped'
<1>0. declaration' = declaration /\ declaration \in Declarations
    BY SameSteps DEF Control
<1>1. /\ DerivedKeys' = DerivedKeys /\ \A class : Declared(class)' = Declared(class)
      /\ \A id : TypeDef(id)' = TypeDef(id)
    BY <1>0, SameDeclaration
<1>2. \A key, ty : Reshaped(key, ty)' <=> Reshaped(key, ty)
    BY <1>1 DEF Reshaped
<1>3. CASE Declare
    <2>1. instances' = [class \in DOMAIN Classes |-> Declared(class)]
        BY <1>3 DEF Declare, Control, IsSearch, instances
    <2>2. \A class \in DOMAIN Classes : \A key \in DOMAIN Declared(class) : key \in DerivedKeys =>
                Reshaped(key, Declared(class)[key])
        BY <1>0, DeclaredIs, DataTypeReshaped
    <2> QED
        BY <1>1, <1>2, <2>1, <2>2 DEF Shaped
<1>4. CASE ApplyUnifier
    <2>0. Shaped /\ stage = "items"
        BY <1>4 DEF ApplyUnifier, ItemsDone
    <2>1. PICK types : World(types)
        BY <2>0 DEF Tidied
    <2>2. PICK c, at, m : IsFor(types, c, at, m)
        BY <1>4, <2>0, <2>1, FirstUnifier, UnifierApplied
    <2>3. Reshaped(AtHand, NewAtHand)
        BY <2>0, <2>1, <2>2, NewAtHandFacts
    <2>4. /\ DOMAIN instances' = DOMAIN instances
          /\ \A class \in DOMAIN instances :
                /\ DOMAIN instances'[class] = DOMAIN instances[class]
                /\ \A key \in DOMAIN instances[class] :
                        instances'[class][key] = IF class = ClassAtHand /\ key = AtHand THEN NewAtHand ELSE instances[class][key]
        BY <1>4, <2>0, UnifierApplied
    <2>5. AtHand \in DerivedKeys
        BY <1>4, <2>0, AtHandFacts, UnifierApplied
    <2> QED
        BY <1>1, <1>2, <2>0, <2>3, <2>4, <2>5 DEF Shaped
<1>5. CASE ~Declare /\ ~ApplyUnifier
    <2>1. instances' = instances
        BY <1>5, InstancesKept
    <2>2. stage' # "declare" => stage # "declare"
        <3>1. CASE CheckConflicts \/ StartItems \/ EndItems \/ EndPass \/ CheckInstanceDependencies
            BY <3>1 DEF CheckConflicts, StartItems, EndItems, ItemsDone, EndPass, CheckInstanceDependencies
        <3>2. CASE StartClaim \/ CheckPending \/ Terminated
            BY <3>2 DEF StartClaim, CheckPending, Terminated, vars
        <3> QED
            BY <1>5, <3>1, <3>2 DEF Next
    <2> QED
        BY <1>0, <2>1, <2>2, SameShaped
<1> QED
    BY <1>3, <1>4, <1>5

\* What is declared is tidy.
LEMMA WorldDeclared ==
    ASSUME declaration \in Declarations
    PROVE  \E types : /\ DeclaredTypes(declaration) \subseteq types /\ Tidy(types, FirstIndex)
                      /\ HeadsIn([class \in DOMAIN Classes |-> Declared(class)], types)
<1> DEFINE declared == DeclaredTypes(declaration)
           data == {DataType(id) : id \in DOMAIN declaration.types}
<1>1. Tidy(declared, FirstIndex)
    BY DeclaredTidy
<1>2. data \in SUBSET Type /\ LeavesIn(data) \subseteq LeavesIn(declared)
    BY DataTypeIs DEF LeavesIn
<1>3. \A key \in DerivedKeys : DataType(key[1]) \in data
    BY KeyFacts
<1>4. \A class \in DOMAIN Classes : \A i \in DOMAIN declaration.instances[class] :
            declaration.instances[class][i] \in declared
    <2> TAKE class \in DOMAIN Classes
    <2> TAKE i \in DOMAIN declaration.instances[class]
    <2>1. declaration.instances[class][i] \in Range(declaration.instances[class])
        BY DEF Range
    <2>2. class \in DOMAIN declaration.instances
        BY DeclarationsAssumption
    <2> QED
        BY <2>1, <2>2 DEF DeclaredTypes
<1> HIDE DEF declared, data
<1>5. Tidy(declared \cup data, FirstIndex)
    <2>1. FirstIndex \in Nat /\ FirstIndex <= FirstIndex
        BY BoundsAssumption
    <2>2. \A l \in LeavesIn(data) : l.id < FirstIndex /\ l \in LeavesIn(declared)
        BY <1>1, <1>2 DEF Tidy
    <2>3. \A l, m \in LeavesIn(data) : l.id = m.id => l = m
        BY <1>1, <1>2 DEF Tidy
    <2> QED
        BY <1>1, <1>2, <2>1, <2>2, <2>3, TidyMore
<1>6. HeadsIn([class \in DOMAIN Classes |-> Declared(class)], declared \cup data)
    <2> SUFFICES ASSUME NEW class \in DOMAIN Classes, NEW key \in DOMAIN Declared(class)
                 PROVE  /\ key[1] \in Nat /\ key[2] \in Nat /\ key = <<key[1], key[2]>>
                        /\ Declared(class)[key] \in declared \cup data
        BY DEF HeadsIn
    <2>1. /\ key[1] \in Nat /\ key[2] \in Nat /\ key = <<key[1], key[2]>>
          /\ key \in DerivedKeys => Declared(class)[key] = DataType(key[1])
          /\ key \notin DerivedKeys => /\ key[2] \in DOMAIN declaration.instances[class]
                                       /\ Declared(class)[key] = declaration.instances[class][key[2]]
        BY DeclaredIs
    <2>2. CASE key \in DerivedKeys
        BY <1>3, <2>1, <2>2
    <2>3. CASE key \notin DerivedKeys
        BY <1>4, <2>1, <2>3
    <2> QED
        BY <2>1, <2>2, <2>3
<1> QED
    BY <1>5, <1>6 DEF declared

LEMMA SameAtHand ==
    ASSUME declaration' = declaration, todo' = todo
    PROVE  /\ AtHand' = AtHand /\ ClassAtHand' = ClassAtHand /\ ItemClaims(AtHand)' = ItemClaims(AtHand)
           /\ OpenClaims(AtHand)' = OpenClaims(AtHand) /\ TypeAtHand' = instances'[ClassAtHand][AtHand]
<1>1. AtHand' = AtHand /\ \A key : DerivedClass(key)' = DerivedClass(key) /\ ItemClaims(key)' = ItemClaims(key)
    BY SameDeclaration
<1>2. \A key : OpenClaims(key)' = OpenClaims(key)
    BY <1>1 DEF OpenClaims
<1>3. ItemClaims(AtHand)' = ItemClaims(AtHand)
    BY <1>1
<1>4. OpenClaims(AtHand)' = OpenClaims(AtHand)
    BY <1>1, <1>2
<1>5. ClassAtHand' = ClassAtHand
    BY <1>1 DEF ClassAtHand
<1>6. TypeAtHand' = instances'[ClassAtHand][AtHand]
    BY <1>1, <1>5 DEF TypeAtHand
<1> QED
    BY <1>1, <1>3, <1>4, <1>5, <1>6

LEMMA SameWorld ==
    ASSUME declaration' = declaration, instances' = instances, resolver'.next = resolver.next, stage' # "items",
           NEW types, World(types)
    PROVE  World(types)'
BY DEF World

LEMMA TidiedPending ==
    ASSUME Control, Shaped, stage = "items", CheckPending, NEW types, World(types)
    PROVE  \E more : World(more)'
<1> DEFINE asked == Range(ItemClaims(AtHand))
           open == OpenClaims(AtHand)
           ids == ArgIds(TypeAtHand)
           n == CheckNext(resolver)
<1>0. /\ declaration' = declaration /\ todo' = todo /\ stage' = stage /\ resolver' = n /\ resolver.pending # <<>>
      /\ declaration \in Declarations /\ IsSearch(resolver) /\ todo # {}
    BY DEF CheckPending, Idle, Control
<1>1. /\ AtHand \in DerivedKeys /\ ClassAtHand \in DOMAIN instances /\ AtHand \in DOMAIN instances[ClassAtHand]
      /\ Reshaped(AtHand, TypeAtHand)
    BY <1>0, AtHandFacts
<1>2. instances' = instances
    BY <1>0, SameInstances DEF instances
<1>3. /\ AtHand' = AtHand /\ ItemClaims(AtHand)' = ItemClaims(AtHand) /\ OpenClaims(AtHand)' = open
      /\ TypeAtHand' = TypeAtHand
    BY <1>0, <1>2, SameAtHand DEF TypeAtHand
<1>4. /\ DeclaredTypes(declaration) \subseteq types /\ Tidy(types, resolver.next) /\ FirstIndex <= resolver.next
      /\ HeadsIn(resolver.instances, types)
      /\ Expected(resolver.pending, asked, types) /\ Queue(resolver.unifiers, open, ids, types)
    BY DEF World, instances
<1>5. asked \in SUBSET (STRING \X types)
    <2>1. ItemClaims(AtHand) \in Seq(STRING \X DeclaredTypes(declaration))
        BY <1>0, <1>1, ItemClaimsIs
    <2>2. \A x \in Range(ItemClaims(AtHand)) : x \in STRING \X DeclaredTypes(declaration)
        BY <2>1, SeqTyped
    <2> QED
        BY <1>4, <2>2
<1>6. open = {c \in asked : Open(c)}
    BY DEF OpenClaims
<1>7. \A i \in ids : i \in Nat /\ i < resolver.next
    <2>1. TypeAtHand \in types
        BY <1>1, <1>4 DEF HeadsIn, TypeAtHand, instances
    <2>2. \A i \in ids : i \in Nat /\ \E l \in Leaves(TypeAtHand) : i = l.id
        BY <1>1, ReshapedParts
    <2> QED
        BY <1>4, <2>1, <2>2 DEF Tidy, LeavesIn
<1> HIDE DEF asked, open, ids, n
<1>8. \E more \in SUBSET Type : types \subseteq more /\ Advances(resolver, CheckNext(resolver), asked, more)
    BY <1>0, <1>4, <1>5, NextTidy
<1>9. PICK more \in SUBSET Type : types \subseteq more /\ Advances(resolver, n, asked, more)
    BY <1>8 DEF n
<1>10. Tidy(more, n.next) /\ resolver.next <= n.next /\ n.pending \in Seq(SUBSET Composite(more))
    BY <1>9 DEF Advances
<1>11. Queue(n.unifiers, open, ids, more)
    <2>1. CASE n.unifiers = resolver.unifiers
        BY <1>4, <1>9, <2>1 DEF Queue
    <2>2. CASE \E c \in asked : \E u : \E m \in more :
                /\ Open(c) /\ Renames(u, c[2].id, resolver.next, m) /\ n.unifiers = Append(resolver.unifiers, u)
        <3>1. PICK c \in asked : \E u : \E m \in more :
                /\ Open(c) /\ Renames(u, c[2].id, resolver.next, m) /\ n.unifiers = Append(resolver.unifiers, u)
            BY <2>2
        <3>2. PICK u, m : /\ m \in more /\ Renames(u, c[2].id, resolver.next, m)
                          /\ n.unifiers = Append(resolver.unifiers, u)
            BY <3>1
        <3>3. c \in open
            BY <1>6, <3>1
        <3>4. types \cup {m} \subseteq more
            BY <1>9, <3>2
        <3>5. Queue(Append(resolver.unifiers, u), open, ids, more)
            BY <1>4, <1>7, <3>2, <3>3, <3>4, QueueAppend
        <3> QED
            BY <3>2, <3>5
    <2> QED
        BY <1>9, <2>1, <2>2 DEF Advances
<1>12. FirstIndex <= n.next /\ HeadsIn(instances, more) /\ DeclaredTypes(declaration) \subseteq more
    <2>1. resolver.next \in Nat /\ n.next \in Nat /\ FirstIndex \in Nat
        BY <1>4, <1>10, BoundsAssumption DEF Tidy
    <2>2. HeadsIn(instances, more)
        BY <1>4, <1>9 DEF HeadsIn, instances
    <2> QED
        BY <1>4, <1>9, <1>10, <2>1, <2>2
<1>13. Expected(n.pending, asked, more)
    BY <1>10 DEF Expected
<1> QED
    BY <1>0, <1>2, <1>3, <1>10, <1>11, <1>12, <1>13 DEF World, asked, ids

LEMMA TidiedApplied ==
    ASSUME Control, Shaped, ApplyUnifier, declaration' = declaration, NEW types, World(types)
    PROVE  \E more : World(more)'
<1> DEFINE open == OpenClaims(AtHand)
           more == types \cup {NewAtHand}
           us == resolver.unifiers
<1>1. /\ stage = "items" /\ todo # {} /\ todo' = todo
      /\ us # <<>> /\ resolver'.unifiers = Tail(us) /\ resolver'.next = resolver.next
      /\ resolver'.pending = <<>>
      /\ DOMAIN instances' = DOMAIN instances
      /\ \A class \in DOMAIN instances :
            /\ DOMAIN instances'[class] = DOMAIN instances[class]
            /\ \A key \in DOMAIN instances[class] :
                    instances'[class][key] = IF class = ClassAtHand /\ key = AtHand THEN NewAtHand ELSE instances[class][key]
    BY UnifierApplied
<1>2. /\ ClassAtHand \in DOMAIN instances /\ AtHand \in DOMAIN instances[ClassAtHand]
      /\ Reshaped(AtHand, TypeAtHand)
    BY <1>1, AtHandFacts
<1>3. /\ DeclaredTypes(declaration) \subseteq types /\ Tidy(types, resolver.next) /\ FirstIndex <= resolver.next
      /\ HeadsIn(instances, types) /\ Queue(us, open, ArgIds(TypeAtHand), types)
    BY <1>1 DEF World
<1>4. PICK c, at, m : IsFor(types, c, at, m)
    BY <1>1, FirstUnifier
<1>5. /\ Reshaped(AtHand, NewAtHand)
      /\ \A i \in ArgIds(NewAtHand) : (i \in ArgIds(TypeAtHand) /\ i # c[2].id) \/ i = m.id
      /\ Leaves(NewAtHand) \subseteq Leaves(TypeAtHand) \cup {m}
    BY <1>1, <1>4, NewAtHandFacts
<1>6. m \in types /\ Renames(Head(us), c[2].id, at, m)
    BY <1>4 DEF IsFor
<1>7. /\ AtHand' = AtHand /\ ItemClaims(AtHand)' = ItemClaims(AtHand) /\ OpenClaims(AtHand)' = open
      /\ TypeAtHand' = NewAtHand
    BY <1>1, <1>2, SameAtHand
<1> HIDE DEF us, open
<1>8. Tidy(more, resolver.next)
    <2> DEFINE new == {NewAtHand}
    <2>1. TypeAtHand \in types
        BY <1>2, <1>3 DEF HeadsIn, TypeAtHand
    <2>2. Leaves(m) = {m}
        BY <1>6 DEF Renames
    <2>3. LeavesIn(new) \subseteq LeavesIn(types)
        BY <1>5, <1>6, <2>1, <2>2 DEF LeavesIn
    <2>4. new \in SUBSET Type
        BY <1>5, ReshapedParts
    <2>5. resolver.next \in Nat /\ resolver.next <= resolver.next
        BY <1>3 DEF Tidy
    <2>6. /\ \A l \in LeavesIn(new) : l.id < resolver.next /\ l \in LeavesIn(types)
          /\ \A l, k \in LeavesIn(new) : l.id = k.id => l = k
        BY <1>3, <2>3 DEF Tidy
    <2> HIDE DEF new
    <2>7. Tidy(types \cup new, resolver.next)
        BY <1>3, <2>4, <2>5, <2>6, TidyMore
    <2> QED
        BY <2>7 DEF new
<1>9. HeadsIn(instances', more)
    BY <1>1, <1>3 DEF HeadsIn
<1>10. Queue(Tail(us), open, ArgIds(NewAtHand), more)
    <2>1. c[2].id \in DOMAIN Head(us).sub /\ Head(us).sub[c[2].id] = m
        BY <1>6, RenamesAfter
    <2>2. \A n \in ArgIds(NewAtHand) : n \in ArgIds(TypeAtHand) \/ \E i \in DOMAIN Head(us).sub : n = Head(us).sub[i].id
        BY <1>5, <2>1
    <2>3. types \subseteq more
        OBVIOUS
    <2> QED
        BY <1>1, <1>3, <2>2, <2>3, QueueTail
<1>11. Expected(<<>>, Range(ItemClaims(AtHand)), more)
    BY DEF Expected
<1>12. DeclaredTypes(declaration) \subseteq more
    BY <1>3
<1> HIDE DEF more
<1>13. PICK all : all = more
    OBVIOUS
<1>14. World(all)'
    <2>1. Tidy(all, resolver'.next) /\ FirstIndex <= resolver'.next
        BY <1>1, <1>3, <1>8, <1>13
    <2>2. Expected(resolver'.pending, Range(ItemClaims(AtHand)'), all)
        BY <1>1, <1>7, <1>11, <1>13
    <2>3. Queue(resolver'.unifiers, OpenClaims(AtHand)', ArgIds(TypeAtHand'), all)
        BY <1>1, <1>7, <1>10, <1>13
    <2>4. HeadsIn(instances', all) /\ DeclaredTypes(declaration) \subseteq all
        BY <1>9, <1>12, <1>13
    <2> QED
        BY <2>1, <2>2, <2>3, <2>4 DEF World
<1> QED
    BY <1>14

LEMMA TidiedNext ==
    ASSUME Control, stage # "declare" => Shaped, Tidied, Next
    PROVE  Tidied'
<1>0. declaration' = declaration /\ declaration \in Declarations
    BY SameSteps DEF Control
<1> SUFFICES ASSUME stage' \in {"conflicts", "derive", "items"}
             PROVE  \E types : World(types)'
    BY DEF Tidied
<1>1. CASE Declare
    <2>1. /\ instances' = [class \in DOMAIN Classes |-> Declared(class)] /\ resolver'.next = FirstIndex
          /\ stage' = "conflicts"
        BY <1>1 DEF Declare, Control, IsSearch, instances
    <2>2. PICK types : /\ DeclaredTypes(declaration) \subseteq types /\ Tidy(types, FirstIndex)
                       /\ HeadsIn([class \in DOMAIN Classes |-> Declared(class)], types)
        BY <1>0, WorldDeclared
    <2>3. FirstIndex <= FirstIndex
        BY BoundsAssumption
    <2> QED
        BY <1>0, <2>1, <2>2, <2>3 DEF World
<1>2. CASE CheckConflicts \/ EndItems \/ EndPass
    <2>1. /\ stage \in {"conflicts", "derive", "items"} /\ stage' # "items"
          /\ resolver' = resolver /\ instances' = instances
        BY <1>2 DEF CheckConflicts, StartPass, EndItems, ItemsDone, EndPass, StartDependencies, instances
    <2>2. PICK types : World(types)
        BY <2>1 DEF Tidied
    <2> QED
        BY <1>0, <2>1, <2>2, SameWorld
<1>3. CASE StartItems
    <2>1. PICK types : World(types)
        BY <1>3 DEF StartItems, Tidied
    <2>2. /\ instances' = instances /\ resolver'.next = resolver.next /\ resolver'.unifiers = <<>>
          /\ resolver'.pending = <<>>
        BY <1>3 DEF StartItems, Control, Idle, IsSearch, instances
    <2>3. \A asked, all : Expected(<<>>, asked, all)
        BY DEF Expected
    <2>4. \A open, ids, all : Queue(<<>>, open, ids, all)
        BY DEF Queue
    <2> QED
        BY <1>0, <2>1, <2>2, <2>3, <2>4 DEF World
<1>4. CASE StartClaim
    <2>0. stage = "items" /\ stage' = "items" /\ todo' = todo /\ claims # <<>>
        BY <1>4 DEF StartClaim
    <2>1. PICK types : World(types)
        BY <2>0 DEF Tidied
    <2>2. /\ instances' = instances /\ resolver'.next = resolver.next /\ resolver'.unifiers = resolver.unifiers
          /\ resolver'.pending = <<{Head(claims)}>>
        BY <1>4 DEF StartClaim, Control, IsSearch, instances
    <2>3. Head(claims) \in Range(ItemClaims(AtHand))
        BY <2>0 DEF Control
    <2>4. \A all : Expected(<<{Head(claims)}>>, Range(ItemClaims(AtHand)), all)
        BY <2>3 DEF Expected
    <2>5. /\ AtHand' = AtHand /\ ItemClaims(AtHand)' = ItemClaims(AtHand) /\ OpenClaims(AtHand)' = OpenClaims(AtHand)
          /\ TypeAtHand' = TypeAtHand
        BY <1>0, <2>0, <2>2, SameAtHand DEF TypeAtHand
    <2> QED
        BY <1>0, <2>0, <2>1, <2>2, <2>4, <2>5 DEF World
<1>5. CASE CheckPending
    <2>1. stage \in {"items", "dependencies"} /\ stage' = stage
        BY <1>5 DEF CheckPending, Control
    <2>2. PICK types : World(types)
        BY <2>1 DEF Tidied
    <2> QED
        BY <1>5, <2>1, <2>2, TidiedPending
<1>6. CASE ApplyUnifier
    <2>1. stage = "items"
        BY <1>6 DEF ApplyUnifier, ItemsDone
    <2>2. PICK types : World(types)
        BY <2>1 DEF Tidied
    <2> QED
        BY <1>0, <1>6, <2>1, <2>2, TidiedApplied
<1>7. CASE CheckInstanceDependencies \/ Terminated
    BY <1>7 DEF CheckInstanceDependencies, Terminated, vars
<1> QED
    BY <1>1, <1>2, <1>3, <1>4, <1>5, <1>6, <1>7 DEF Next

-----------------------------------------------------------------------------
(* The first pass leaves the second one nothing to do.                      *)

\* The variables of items that lack the class are no arguments any more.
Settled(key) == \A c \in OpenClaims(key) : c[2].id \notin ArgIds(instances[DerivedClass(key)][key])

\* A claim of the items is ahead, at hand, or its unifier is, or it is settled.
Underway(c) ==
    \/ c \in Range(claims)
    \/ resolver.pending = <<{c}>>
    \/ \E k \in DOMAIN resolver.unifiers : c[2].id \in DOMAIN resolver.unifiers[k].sub
    \/ c[2].id \notin ArgIds(TypeAtHand)

Passes ==
    /\ pass \in 0..2
    /\ stage \in {"declare", "conflicts"} => pass = 0
    /\ stage \in {"derive", "items"} =>
        /\ pass # 0 /\ (changed => pass = 1)
        /\ \A key \in DerivedKeys : pass = 2 \/ key \notin todo => Settled(key)
    /\ stage = "items" => \A c \in OpenClaims(AtHand) : Underway(c)

LEMMA OpenIndex ==
    ASSUME declaration \in Declarations, NEW key \in DerivedKeys, NEW c \in OpenClaims(key)
    PROVE  c[2].id \in Nat /\ c[2].id < FirstIndex
<1>1. c[2] \in DeclaredTypes(declaration) /\ IsVar(c[2])
    BY ItemClaimsIs DEF OpenClaims, Open
<1>2. Tidy(DeclaredTypes(declaration), FirstIndex)
    BY DeclaredTidy
<1>3. c[2] \in Type /\ IsGeneric(c[2])
    BY <1>1, <1>2 DEF Tidy, IsGeneric
<1>4. c[2] \in Leaves(c[2]) /\ c[2].id \in Nat
    BY <1>3, GenericParts
<1> QED
    BY <1>1, <1>2, <1>4 DEF Tidy, LeavesIn

LEMMA SameSettled ==
    ASSUME declaration' = declaration, NEW key,
           instances'[DerivedClass(key)][key] = instances[DerivedClass(key)][key], Settled(key)
    PROVE  Settled(key)'
<1>1. \A k : DerivedClass(k)' = DerivedClass(k) /\ ItemClaims(k)' = ItemClaims(k)
    BY SameDeclaration
<1>2. OpenClaims(key)' = OpenClaims(key)
    BY <1>1 DEF OpenClaims
<1> QED
    BY <1>1, <1>2 DEF Settled

LEMMA UnderwayPending ==
    ASSUME Control, Shaped, stage = "items", CheckPending, NEW types, World(types),
           NEW c \in OpenClaims(AtHand), Underway(c)
    PROVE  Underway(c)'
<1> DEFINE asked == Range(ItemClaims(AtHand))
           us == resolver.unifiers
           n == CheckNext(resolver)
<1>0. /\ declaration' = declaration /\ todo' = todo /\ resolver' = n /\ resolver.pending # <<>> /\ claims' = claims
      /\ declaration \in Declarations /\ IsSearch(resolver) /\ todo # {}
    BY DEF CheckPending, Idle, Control
<1>1. AtHand \in DerivedKeys
    BY <1>0, AtHandFacts
<1>2. TypeAtHand' = TypeAtHand
    BY <1>0, SameInstances, SameAtHand DEF TypeAtHand, instances
<1>3. /\ DeclaredTypes(declaration) \subseteq types /\ Tidy(types, resolver.next)
      /\ HeadsIn(resolver.instances, types)
      /\ Expected(resolver.pending, asked, types) /\ us \in Seq(Unifiers)
    BY DEF World, instances, Queue
<1>4. asked \in SUBSET (STRING \X types)
    <2>1. ItemClaims(AtHand) \in Seq(STRING \X DeclaredTypes(declaration))
        BY <1>0, <1>1, ItemClaimsIs
    <2>2. \A x \in Range(ItemClaims(AtHand)) : x \in STRING \X DeclaredTypes(declaration)
        BY <2>1, SeqTyped
    <2> QED
        BY <1>3, <2>2
<1>5. c \in asked /\ Open(c)
    BY DEF OpenClaims
<1> HIDE DEF asked, n, us
<1>6. \E more \in SUBSET Type : types \subseteq more /\ Advances(resolver, CheckNext(resolver), asked, more)
    BY <1>0, <1>3, <1>4, NextTidy
<1>7. PICK more \in SUBSET Type : Advances(resolver, n, asked, more)
    BY <1>6 DEF n
<1>8. CASE n.unifiers = us /\ resolver.pending # <<{c}>>
    BY <1>0, <1>2, <1>8 DEF Underway, us
<1>9. CASE \E d \in asked : \E u : \E m \in more :
                /\ resolver.pending = <<{d}>> /\ Renames(u, d[2].id, resolver.next, m) /\ n.unifiers = Append(us, u)
    <2>1. PICK d \in asked : \E u : \E m \in more :
                /\ resolver.pending = <<{d}>> /\ Renames(u, d[2].id, resolver.next, m) /\ n.unifiers = Append(us, u)
        BY <1>9
    <2>2. PICK u, m : Renames(u, d[2].id, resolver.next, m) /\ n.unifiers = Append(us, u)
        BY <2>1
    <2>3. /\ \A k \in DOMAIN us : k \in DOMAIN n.unifiers /\ n.unifiers[k] = us[k]
          /\ Len(us) + 1 \in DOMAIN n.unifiers /\ n.unifiers[Len(us) + 1] = u
        BY <1>3, <2>2
    <2>4. CASE resolver.pending = <<{c}>>
        <3>1. d = c
            BY <2>1, <2>4
        <3>2. c[2].id \in DOMAIN u.sub
            BY <2>2, <3>1, RenamesAfter
        <3>3. \E k \in DOMAIN n.unifiers : c[2].id \in DOMAIN n.unifiers[k].sub
            BY <2>3, <3>2
        <3> QED
            BY <1>0, <3>3 DEF Underway
    <2>5. CASE \E k \in DOMAIN us : c[2].id \in DOMAIN us[k].sub
        <3>1. \E k \in DOMAIN n.unifiers : c[2].id \in DOMAIN n.unifiers[k].sub
            BY <2>3, <2>5
        <3> QED
            BY <1>0, <3>1 DEF Underway
    <2>6. CASE c \in Range(claims) \/ c[2].id \notin ArgIds(TypeAtHand)
        BY <1>0, <1>2, <2>6 DEF Underway
    <2> QED
        BY <2>4, <2>5, <2>6 DEF Underway, us
<1> QED
    BY <1>5, <1>7, <1>8, <1>9 DEF Advances, us

LEMMA UnderwayApplied ==
    ASSUME Control, Shaped, ApplyUnifier, declaration' = declaration, NEW types, World(types),
           NEW d \in OpenClaims(AtHand), Underway(d)
    PROVE  Underway(d)'
<1> DEFINE us == resolver.unifiers
<1>1. /\ stage = "items" /\ todo # {} /\ todo' = todo /\ claims = <<>> /\ resolver.pending = <<>>
      /\ us # <<>> /\ resolver'.unifiers = Tail(us)
    BY UnifierApplied
<1>2. /\ AtHand \in DerivedKeys /\ ClassAtHand \in DOMAIN instances /\ AtHand \in DOMAIN instances[ClassAtHand]
    BY <1>1, AtHandFacts
<1>3. TypeAtHand' = NewAtHand
    BY <1>1, <1>2, SameAtHand, UnifierApplied
<1>4. us \in Seq(Unifiers)
    BY <1>1 DEF World, Queue
<1>5. PICK c, at, m : IsFor(types, c, at, m)
    BY <1>1, FirstUnifier
<1>6. \A i \in ArgIds(NewAtHand) : (i \in ArgIds(TypeAtHand) /\ i # c[2].id) \/ i = m.id
    BY <1>1, <1>5, NewAtHandFacts
<1>7. Renames(Head(us), c[2].id, at, m) /\ FirstIndex <= at /\ at \in Nat /\ m.id = at + 1
    BY <1>5 DEF IsFor, Renames
<1>8. d[2].id \in Nat /\ d[2].id < FirstIndex /\ FirstIndex \in Nat
    BY <1>2, OpenIndex, BoundsAssumption DEF Control
<1>9. d[2].id # m.id /\ d[2].id # at
    BY <1>7, <1>8
<1> HIDE DEF us
<1>10. CASE d[2].id \notin ArgIds(TypeAtHand)
    BY <1>3, <1>6, <1>9, <1>10 DEF Underway
<1>11. CASE \E k \in DOMAIN us : d[2].id \in DOMAIN us[k].sub
    <2>1. PICK k \in DOMAIN us : d[2].id \in DOMAIN us[k].sub
        BY <1>11
    <2>2. CASE k = 1
        <3>1. DOMAIN Head(us).sub = {at, c[2].id} /\ Head(us) = us[1]
            BY <1>1, <1>4, <1>7 DEF Renames
        <3>2. d[2].id = c[2].id
            BY <1>9, <2>1, <2>2, <3>1
        <3> QED
            BY <1>3, <1>6, <1>9, <3>2 DEF Underway
    <2>3. CASE k # 1
        <3>1. k - 1 \in DOMAIN Tail(us) /\ Tail(us)[k - 1] = us[k]
            BY <1>1, <1>4, <2>3
        <3>2. \E i \in DOMAIN Tail(us) : d[2].id \in DOMAIN Tail(us)[i].sub
            BY <2>1, <3>1
        <3> QED
            BY <1>1, <3>2 DEF Underway
    <2> QED
        BY <2>2, <2>3
<1>12. d \notin Range(claims) /\ resolver.pending # <<{d}>>
    BY <1>1 DEF Range
<1> QED
    BY <1>10, <1>11, <1>12 DEF Underway, us

LEMMA PassesNext ==
    ASSUME Control, stage # "declare" => Shaped, Tidied, Passes, Next
    PROVE  Passes'
<1>0. declaration' = declaration /\ declaration \in Declarations /\ todo \subseteq DerivedKeys
    BY SameSteps DEF Control
<1>1. /\ DerivedKeys' = DerivedKeys
      /\ \A key : DerivedClass(key)' = DerivedClass(key) /\ ItemClaims(key)' = ItemClaims(key)
    BY <1>0, SameDeclaration
<1>2. CASE Declare
    BY <1>2 DEF Declare, Passes
<1>3. CASE CheckConflicts
    BY <1>1, <1>3 DEF CheckConflicts, StartPass, Passes
<1>4. CASE StartItems
    <2>1. /\ stage = "derive" /\ stage' = "items" /\ todo' = todo /\ pass' = pass /\ changed' = changed
          /\ claims' = ItemClaims(AtHand) /\ instances' = instances
        BY <1>4 DEF StartItems, Control, IsSearch, instances
    <2>2. \A key : Settled(key) => Settled(key)'
        BY <1>0, <2>1, SameSettled
    <2>3. \A c \in OpenClaims(AtHand)' : Underway(c)'
        <3>1. OpenClaims(AtHand)' = OpenClaims(AtHand)
            BY <1>0, <2>1, SameAtHand
        <3>2. \A c \in OpenClaims(AtHand) : c \in Range(ItemClaims(AtHand))
            BY DEF OpenClaims
        <3> QED
            BY <2>1, <3>1, <3>2 DEF Underway
    <2> QED
        BY <1>1, <2>1, <2>2, <2>3 DEF Passes
<1>5. CASE StartClaim
    <2>1. /\ stage \in {"items", "dependencies"} /\ stage' = stage /\ todo' = todo /\ pass' = pass /\ changed' = changed
          /\ claims # <<>> /\ claims' = Tail(claims) /\ instances' = instances
          /\ resolver.pending = <<>> /\ resolver'.pending = <<{Head(claims)}>> /\ resolver'.unifiers = resolver.unifiers
        BY <1>5 DEF StartClaim, Control, IsSearch, instances, Idle
    <2>2. \A key : Settled(key) => Settled(key)'
        BY <1>0, <2>1, SameSettled
    <2>3. ASSUME stage = "items"
          PROVE  \A c \in OpenClaims(AtHand)' : Underway(c)'
        <3>1. OpenClaims(AtHand)' = OpenClaims(AtHand) /\ TypeAtHand' = TypeAtHand
            BY <1>0, <2>1, SameAtHand DEF TypeAtHand
        <3>2. \A c \in Range(claims) : c = Head(claims) \/ c \in Range(Tail(claims))
            <4> DEFINE S == Range(ItemClaims(AtHand))
            <4>1. claims \in Seq(S)
                BY <2>3 DEF Control
            <4> HIDE DEF S
            <4>2. \A k \in DOMAIN claims : k = 1 \/ (k - 1 \in DOMAIN Tail(claims) /\ Tail(claims)[k - 1] = claims[k])
                BY <2>1, <4>1
            <4>3. Head(claims) = claims[1]
                BY <2>1, <4>1
            <4> QED
                BY <4>2, <4>3 DEF Range
        <3>3. ASSUME NEW c \in OpenClaims(AtHand)
              PROVE  Underway(c)'
            <4>1. Underway(c)
                BY <2>3, <3>3 DEF Passes
            <4>2. CASE c \in Range(claims)
                BY <2>1, <3>2, <4>2 DEF Underway
            <4>3. CASE c \notin Range(claims)
                BY <2>1, <3>1, <4>1, <4>3 DEF Underway
            <4> QED
                BY <4>2, <4>3
        <3> QED
            BY <3>1, <3>3
    <2> QED
        BY <1>1, <2>1, <2>2, <2>3 DEF Passes
<1>6. CASE CheckPending
    <2>1. /\ stage \in {"items", "dependencies"} /\ stage' = stage /\ todo' = todo /\ pass' = pass /\ changed' = changed
        BY <1>6 DEF CheckPending, Control
    <2>2. instances' = instances
        BY <1>6, SameInstances DEF CheckPending, Control, instances
    <2>3. \A key : Settled(key) => Settled(key)'
        BY <1>0, <2>2, SameSettled
    <2>4. ASSUME stage = "items"
          PROVE  \A c \in OpenClaims(AtHand)' : Underway(c)'
        <3>1. OpenClaims(AtHand)' = OpenClaims(AtHand)
            BY <1>0, <2>1, SameAtHand
        <3>2. PICK types : World(types)
            BY <2>4 DEF Tidied
        <3>3. \A c \in OpenClaims(AtHand) : Underway(c)
            BY <2>4 DEF Passes
        <3> QED
            BY <1>6, <2>4, <3>1, <3>2, <3>3, UnderwayPending
    <2> QED
        BY <1>1, <2>1, <2>3, <2>4 DEF Passes
<1>7. CASE ApplyUnifier
    <2>0. stage = "items" /\ Shaped
        BY <1>7 DEF ApplyUnifier, ItemsDone
    <2>1. PICK types : World(types)
        BY <2>0 DEF Tidied
    <2>2. /\ stage' = stage /\ todo' = todo /\ todo # {} /\ pass' = pass /\ (changed' => changed \/ NewAtHand # TypeAtHand)
          /\ resolver.unifiers # <<>>
          /\ \A class \in DOMAIN instances : \A key \in DOMAIN instances[class] :
                instances'[class][key] = IF class = ClassAtHand /\ key = AtHand THEN NewAtHand ELSE instances[class][key]
        BY <1>7, <2>0, UnifierApplied
    <2>3. AtHand \in todo /\ AtHand \in DerivedKeys /\ ClassAtHand = DerivedClass(AtHand)
        BY <2>0, <2>2, AtHandFacts DEF ClassAtHand
    <2>4. ASSUME pass = 2
          PROVE  NewAtHand = TypeAtHand
        <3>1. PICK c, at, m : IsFor(types, c, at, m)
            BY <2>0, <2>1, <2>2, FirstUnifier
        <3>2. c[2].id \notin ArgIds(TypeAtHand)
            BY <2>0, <2>3, <2>4, <3>1 DEF Passes, Settled, IsFor, TypeAtHand
        <3> QED
            BY <2>0, <2>1, <3>1, <3>2, NewAtHandFacts
    <2>5. ASSUME NEW key \in DerivedKeys, pass = 2 \/ key \notin todo
          PROVE  Settled(key)'
        <3>1. DerivedClass(key) \in DOMAIN instances /\ key \in DOMAIN instances[DerivedClass(key)]
            BY <1>0, <2>0, KeyFacts, DeclaredIs DEF Shaped
        <3>2. instances'[DerivedClass(key)][key] = instances[DerivedClass(key)][key]
            BY <2>2, <2>3, <2>4, <2>5, <3>1 DEF TypeAtHand
        <3>3. Settled(key)
            BY <2>0, <2>5 DEF Passes
        <3> QED
            BY <1>0, <3>2, <3>3, SameSettled
    <2>6. \A c \in OpenClaims(AtHand)' : Underway(c)'
        <3>1. OpenClaims(AtHand)' = OpenClaims(AtHand)
            BY <1>0, <2>2, SameAtHand
        <3>2. \A c \in OpenClaims(AtHand) : Underway(c)
            BY <2>0 DEF Passes
        <3> QED
            BY <1>0, <1>7, <2>0, <2>1, <3>1, <3>2, UnderwayApplied
    <2>7. changed' => pass = 1
        BY <2>0, <2>2, <2>4 DEF Passes
    <2> QED
        BY <1>1, <2>0, <2>2, <2>5, <2>6, <2>7 DEF Passes
<1>8. CASE EndItems
    <2>1. /\ stage = "items" /\ stage' = "derive" /\ todo' = todo \ {AtHand} /\ pass' = pass /\ changed' = changed
          /\ instances' = instances /\ claims = <<>> /\ resolver.pending = <<>> /\ resolver.unifiers = <<>>
        BY <1>8 DEF EndItems, ItemsDone, Idle, instances
    <2>2. Settled(AtHand)
        <3>1. \A c \in OpenClaims(AtHand) : Underway(c)
            BY <2>1 DEF Passes
        <3> QED
            BY <2>1, <3>1 DEF Underway, Settled, TypeAtHand, ClassAtHand, Range
    <2>3. \A key : Settled(key) => Settled(key)'
        BY <1>0, <2>1, SameSettled
    <2> QED
        BY <1>1, <2>1, <2>2, <2>3 DEF Passes
<1>9. CASE EndPass
    <2>1. stage = "derive" /\ todo = {} /\ instances' = instances
        BY <1>9 DEF EndPass, instances
    <2>2. \A key \in DerivedKeys : Settled(key)'
        BY <1>0, <2>1, SameSettled DEF Passes
    <2>3. CASE changed /\ errors = {}
        BY <1>1, <1>9, <2>1, <2>2, <2>3 DEF EndPass, StartPass, Passes
    <2>4. CASE ~(changed /\ errors = {})
        <3>1. stage' \in {"dependencies", "rejected"} /\ pass' = pass
            BY <1>9, <2>4 DEF EndPass, StartDependencies
        <3> QED
            BY <3>1 DEF Passes
    <2> QED
        BY <2>3, <2>4
<1>10. CASE CheckInstanceDependencies
    BY <1>10 DEF CheckInstanceDependencies, Passes
<1>11. CASE Terminated
    BY <1>11 DEF Terminated, vars, Passes
<1> QED
    BY <1>2, <1>3, <1>4, <1>5, <1>6, <1>7, <1>8, <1>9, <1>10, <1>11 DEF Next

-----------------------------------------------------------------------------
(* Instances without a conflict have no ground type in common.              *)

LEMMA ReadingIs ==
    ASSUME NEW ty, NEW r \in Readings(ty)
    PROVE  r.args \in [Indices(ty) -> GroundTypes] /\ r.ty = Apply(r.args, ty) /\ r.ty \in GroundTypes
<1>1. PICK args \in [Indices(ty) -> GroundTypes] : r = [ty |-> Apply(args, ty), args |-> args]
    BY DEF Readings
<1>2. r.ty \in GroundTypes
    BY DEF Readings
<1> QED
    BY <1>1, <1>2

LEMMA IsReading ==
    ASSUME NEW ty, NEW args \in [Indices(ty) -> GroundTypes], Apply(args, ty) \in GroundTypes
    PROVE  \E r \in Readings(ty) : r.ty = Apply(args, ty)
<1> DEFINE r == [ty |-> Apply(args, ty), args |-> args]
<1>1. r \in Readings(ty)
    BY DEF Readings
<1> QED
    BY <1>1

\* What the variables of a type are.
LEMMA GroundArgs ==
    ASSUME NEW leaves, \A l \in leaves : IsVar(l), NEW args \in [{l.id : l \in leaves} -> GroundTypes]
    PROVE  Grounds(args, leaves, Depth)
<1>1. \A i \in DOMAIN args : args[i] \in Layer[Depth] /\ Leaves(args[i]) = {}
    BY GroundAssumption DEF IsConcrete
<1> QED
    BY <1>1, BoundsAssumption DEF Grounds

LEMMA DeclaredHeads ==
    ASSUME declaration \in Declarations, NEW class \in DOMAIN Classes, NEW key \in DOMAIN Declared(class)
    PROVE  /\ Declared(class)[key] \in Type
           /\ \A l \in Leaves(Declared(class)[key]) : IsVar(l)
<1>1. CASE key \in DerivedKeys
    <2>1. key[1] \in DOMAIN declaration.types /\ Declared(class)[key] = DataType(key[1])
        BY <1>1, DeclaredIs, KeyFacts
    <2> QED
        BY <2>1, DataTypeIs, DeclaredTidy
<1>2. CASE key \notin DerivedKeys
    <2>1. /\ key[2] \in DOMAIN declaration.instances[class]
          /\ Declared(class)[key] = declaration.instances[class][key[2]]
        BY <1>2, DeclaredIs
    <2>2. Declared(class)[key] \in DeclaredTypes(declaration)
        BY <2>1, DeclarationsAssumption DEF DeclaredTypes, Range
    <2> QED
        BY <2>2, DeclaredTidy DEF Tidy, LeavesIn
<1> QED
    BY <1>1, <1>2

\* Two instances of a class have no variable in common, unless one type derives both.
LEMMA HeadsApart ==
    ASSUME declaration \in Declarations, NEW class \in DOMAIN Classes,
           NEW key \in DOMAIN Declared(class), NEW other \in DOMAIN Declared(class), key # other
    PROVE  \/ Indices(Declared(class)[key]) \cap Indices(Declared(class)[other]) = {}
           \/ key \in DerivedKeys /\ other \in DerivedKeys
<1> DEFINE user == declaration.instances[class]
<1>0. class \in DOMAIN declaration.instances
    BY DeclarationsAssumption
<1>1. \A k \in {key, other} :
        /\ k = <<k[1], k[2]>> /\ (k \in DerivedKeys <=> k[1] # 0)
        /\ k \notin DerivedKeys => k[2] \in DOMAIN user /\ Declared(class)[k] = user[k[2]]
        /\ k \in DerivedKeys => /\ k[1] \in DOMAIN declaration.types
                                /\ Declared(class)[k] = Named(k[1], declaration.types[k[1]].params)
    BY DeclaredIs, KeyFacts DEF DataType, TypeDef
<1>2. \A i \in DOMAIN user :
        /\ \A j \in DOMAIN user : i # j => Indices(user[i]) \cap Indices(user[j]) = {}
        /\ \A id \in DOMAIN declaration.types :
                Indices(user[i]) \cap Indices(Named(id, declaration.types[id].params)) = {}
    BY <1>0, HeadsAssumption DEF Apart
<1> HIDE DEF user
<1>3. CASE key \notin DerivedKeys /\ other \notin DerivedKeys
    <2>1. key[2] # other[2]
        BY <1>1, <1>3
    <2> QED
        BY <1>1, <1>2, <1>3, <2>1
<1>4. CASE key \notin DerivedKeys /\ other \in DerivedKeys
    BY <1>1, <1>2, <1>4
<1>5. CASE key \in DerivedKeys /\ other \notin DerivedKeys
    BY <1>1, <1>2, <1>5
<1> QED
    BY <1>3, <1>4, <1>5

LEMMA AllUnify ==
    ASSUME declaration \in Declarations, NEW class \in DOMAIN Classes,
           NEW key \in DOMAIN Declared(class), NEW other \in DOMAIN Declared(class),
           NEW leaves, leaves = Leaves(Declared(class)[key]) \cup Leaves(Declared(class)[other]),
           NEW s, Grounds(s, leaves, Depth), Apply(s, Declared(class)[key]) = Apply(s, Declared(class)[other])
    PROVE  Unify(NewUnifier(FirstIndex), Declared(class)[key], Declared(class)[other]).result = "ok"
<1> DEFINE heads == [c \in DOMAIN Classes |-> Declared(c)]
<1>1. PICK types : Tidy(types, FirstIndex) /\ HeadsIn(heads, types)
    BY WorldDeclared
<1>2. Declared(class)[key] \in types /\ Declared(class)[other] \in types
    BY <1>1 DEF HeadsIn
<1>3. FreshPair(Declared(class)[key], Declared(class)[other], FirstIndex)
    BY <1>1, <1>2, TidyPair
<1> QED
    BY <1>3, UnifySucceeds

\* Two instances of a type unify: the values of their variables say how.
LEMMA CommonUnify ==
    ASSUME declaration \in Declarations, NEW class \in DOMAIN Classes,
           NEW key \in DOMAIN Declared(class), NEW other \in DOMAIN Declared(class), key # other,
           BaseType(Declared(class)[key]) = BaseType(Declared(class)[other]),
           NEW r \in Readings(Declared(class)[key]), NEW s \in Readings(Declared(class)[other]), r.ty = s.ty
    PROVE  Unify(NewUnifier(FirstIndex), Declared(class)[key], Declared(class)[other]).result = "ok"
<1> DEFINE a == Declared(class)[key]
           b == Declared(class)[other]
<1>0. declaration \in Declarations /\ class \in DOMAIN Classes /\ key \in DOMAIN Declared(class) /\ other \in DOMAIN Declared(class)
    OBVIOUS
<1>1. /\ a \in Type /\ \A l \in Leaves(a) : IsVar(l)
      /\ b \in Type /\ \A l \in Leaves(b) : IsVar(l)
    BY DeclaredHeads
<1>2. /\ r.args \in [Indices(a) -> GroundTypes] /\ r.ty = Apply(r.args, a)
      /\ s.args \in [Indices(b) -> GroundTypes] /\ s.ty = Apply(s.args, b)
    BY ReadingIs
<1>3. Grounds(r.args, Leaves(a), Depth) /\ Grounds(s.args, Leaves(b), Depth)
    BY <1>1, <1>2, GroundArgs DEF Indices
<1>4. CASE key \in DerivedKeys /\ other \in DerivedKeys
    <2>1. a = DataType(key[1]) /\ b = DataType(other[1]) /\ key[1] \in DOMAIN declaration.types /\ other[1] \in DOMAIN declaration.types
        BY <1>4, DeclaredIs, KeyFacts
    <2>2. BaseType(a) = <<"Named", key[1]>> /\ BaseType(b) = <<"Named", other[1]>>
        BY <2>1, DataTypeIs DEF BaseType
    <2>3. a = b
        BY <2>1, <2>2
    <2> QED
        BY <1>0, <1>3, <2>3, AllUnify
<1>5. CASE Indices(a) \cap Indices(b) = {}
    <2> DEFINE both == [i \in Indices(a) \cup Indices(b) |-> IF i \in Indices(a) THEN r.args[i] ELSE s.args[i]]
               all == Leaves(a) \cup Leaves(b)
    <2>1. both \in [{l.id : l \in all} -> GroundTypes]
        <3>1. {l.id : l \in all} = Indices(a) \cup Indices(b)
            BY DEF Indices
        <3> QED
            BY <1>2, <3>1
    <2>2. /\ \A i \in Indices(a) : i \in DOMAIN both /\ both[i] = r.args[i]
          /\ \A i \in Indices(b) : i \in DOMAIN both /\ both[i] = s.args[i]
        BY <1>5
    <2> HIDE DEF both
    <2>3. Grounds(both, all, Depth)
        BY <1>1, <2>1, GroundArgs
    <2>4. ASSUME NEW ty \in Type, NEW args \in [Indices(ty) -> GroundTypes], Grounds(args, Leaves(ty), Depth),
                 \A i \in Indices(ty) : i \in DOMAIN both /\ both[i] = args[i]
          PROVE  Apply(both, ty) = Apply(args, ty)
        <3>1. \A l \in Leaves(ty) : l \in Type /\ IsGeneric(l) /\ l.id \in Indices(ty)
            BY LeavesGeneric DEF Indices
        <3>2. Resolvable(both) /\ \A t \in Type : IsGeneric(t) /\ t.id \in DOMAIN both => Apply(both, t) = both[t.id]
            BY <2>3, GroundsApply
        <3>3. Resolvable(args) /\ \A t \in Type : IsGeneric(t) /\ t.id \in DOMAIN args => Apply(args, t) = args[t.id]
            BY <2>4, GroundsApply
        <3>4. \A l \in Leaves(ty) : Apply(both, l) = Apply(args, l)
            BY <2>4, <3>1, <3>2, <3>3
        <3> QED
            BY <3>2, <3>3, <3>4, ApplyAgrees
    <2>5. Apply(both, a) = Apply(r.args, a) /\ Apply(both, b) = Apply(s.args, b)
        BY <1>1, <1>2, <1>3, <2>2, <2>4
    <2>6. Apply(both, a) = Apply(both, b)
        BY <1>2, <2>5
    <2> QED
        BY <1>0, <2>3, <2>6, AllUnify
<1> QED
    BY <1>4, <1>5, HeadsApart

LEMMA ImageFinite ==
    ASSUME NEW S, IsFiniteSet(S), NEW f, DOMAIN f = S
    PROVE  IsFiniteSet({f[x] : x \in S})
<1>1. [x \in S |-> f[x]] \in Surjection(S, {f[x] : x \in S})
    BY DEF Surjection
<1> QED
    BY <1>1, FS_Surjection

LEMMA DeclaredFinite ==
    ASSUME declaration \in Declarations, NEW class \in DOMAIN Classes
    PROVE  IsFiniteSet(DOMAIN Declared(class))
<1> DEFINE user == declaration.instances[class]
           keys == [id \in DOMAIN declaration.types |-> {<<id, nr>> : nr \in DOMAIN TypeDef(id).derives}]
<1>1. user \in Seq(Layer[Depth]) /\ IsFiniteSet(DOMAIN declaration.types)
    BY DeclarationsAssumption
<1>2. \A id \in DOMAIN declaration.types : IsFiniteSet(keys[id])
    <2> TAKE id \in DOMAIN declaration.types
    <2>1. TypeDef(id).derives \in Seq(DOMAIN Classes)
        BY TypeFacts
    <2>2. IsFiniteSet(1..Len(TypeDef(id).derives)) /\ DOMAIN TypeDef(id).derives = 1..Len(TypeDef(id).derives)
        BY <2>1, FS_Interval
    <2> DEFINE numbered == [nr \in DOMAIN TypeDef(id).derives |-> <<id, nr>>]
    <2>3. IsFiniteSet({numbered[nr] : nr \in DOMAIN TypeDef(id).derives})
        BY <2>2, ImageFinite
    <2>4. {numbered[nr] : nr \in DOMAIN TypeDef(id).derives} = {<<id, nr>> : nr \in DOMAIN TypeDef(id).derives}
        OBVIOUS
    <2> QED
        BY <2>3, <2>4
<1>3. IsFiniteSet({keys[id] : id \in DOMAIN declaration.types})
    BY <1>1, ImageFinite
<1>4. IsFiniteSet(UNION {keys[id] : id \in DOMAIN declaration.types})
    BY <1>2, <1>3, FS_UNION
<1>5. DerivedKeys = UNION {keys[id] : id \in DOMAIN declaration.types}
    BY DEF DerivedKeys
<1>6. IsFiniteSet({<<0, i>> : i \in DOMAIN user})
    <2> HIDE DEF user
    <2>1. IsFiniteSet(1..Len(user)) /\ DOMAIN user = 1..Len(user)
        BY <1>1, FS_Interval
    <2> DEFINE numbered == [i \in DOMAIN user |-> <<0, i>>]
    <2>2. IsFiniteSet({numbered[i] : i \in DOMAIN user})
        BY <2>1, ImageFinite
    <2>3. {numbered[i] : i \in DOMAIN user} = {<<0, i>> : i \in DOMAIN user}
        OBVIOUS
    <2> QED
        BY <2>2, <2>3
<1>7. DOMAIN Declared(class) \subseteq DerivedKeys \cup {<<0, i>> : i \in DOMAIN user}
    BY DEF Declared, Keyed
<1> QED
    BY <1>4, <1>5, <1>6, <1>7, FS_Union, FS_Subset

\* check_conflicts finds all instances that overlap.
LEMMA NoOverlap ==
    ASSUME declaration \in Declarations, resolver.next = FirstIndex,
           instances = [class \in DOMAIN Classes |-> Declared(class)],
           \A class \in DOMAIN Classes : ~Conflicting(instances[class])
    PROVE  ~Overlap
<1> SUFFICES ASSUME NEW class \in DOMAIN Classes,
                    NEW key \in DOMAIN Declared(class), NEW other \in DOMAIN Declared(class), key # other,
                    NEW r \in Readings(Declared(class)[key]), NEW s \in Readings(Declared(class)[other]), r.ty = s.ty
             PROVE  FALSE
    BY DEF Overlap
<1>0. declaration \in Declarations
    OBVIOUS
<1> DEFINE list == Declared(class)
<1>1. ~Conflicting(list)
    OBVIOUS
<1>2. \A i \in DOMAIN list : ~IsGeneric(list[i])
    <2> SUFFICES ASSUME \E i \in DOMAIN list : IsGeneric(list[i])
                 PROVE  FALSE
        OBVIOUS
    <2>1. ~(Cardinality(DOMAIN list) > 1)
        BY <1>1 DEF Conflicting
    <2>2. IsFiniteSet(DOMAIN list)
        BY <1>0, DeclaredFinite
    <2>3. Cardinality({key, other}) <= Cardinality(DOMAIN list) /\ Cardinality(DOMAIN list) \in Nat
        BY <2>2, FS_Subset, FS_CardinalityType
    <2>4. Cardinality({key, other}) = 2
        <3>1. Cardinality({key}) = 1 /\ IsFiniteSet({key}) /\ {key} \cup {other} = {key, other}
            BY FS_Singleton
        <3>2. Cardinality({key} \cup {other}) = Cardinality({key}) + 1
            BY <3>1, FS_AddElement
        <3> QED
            BY <3>1, <3>2
    <2> QED
        BY <2>1, <2>3, <2>4
<1>3. \A i, j \in DOMAIN list :
        ComesBefore(i, j) /\ BaseType(list[i]) = BaseType(list[j]) =>
            Unify(NewUnifier(FirstIndex), list[i], list[j]).result # "ok"
    BY <1>1, <1>2 DEF Conflicting, UnifyAll
<1>4. BaseType(list[key]) = BaseType(list[other])
    <2>1. ASSUME NEW k \in DOMAIN list, NEW q \in Readings(list[k])
          PROVE  <<q.ty.k, q.ty.id>> = BaseType(list[k])
        <3>1. list[k] \in Type /\ \A l \in Leaves(list[k]) : IsVar(l)
            BY <1>0, DeclaredHeads
        <3>2. q.args \in [Indices(list[k]) -> GroundTypes] /\ q.ty = Apply(q.args, list[k])
            BY ReadingIs
        <3>3. Grounds(q.args, Leaves(list[k]), Depth)
            BY <3>1, <3>2, GroundArgs DEF Indices
        <3>4. q.ty.k = list[k].k /\ q.ty.id = list[k].id
            BY <1>2, <3>1, <3>2, <3>3, GroundsApply, ApplyComposite
        <3> QED
            BY <1>2, <3>4 DEF BaseType
    <2>2. <<r.ty.k, r.ty.id>> = BaseType(list[key]) /\ <<s.ty.k, s.ty.id>> = BaseType(list[other])
        BY <2>1
    <2> QED
        BY <2>2
<1>5. Unify(NewUnifier(FirstIndex), list[key], list[other]).result = "ok"
    BY <1>0, <1>4, CommonUnify
<1>6. Unify(NewUnifier(FirstIndex), list[other], list[key]).result = "ok"
    BY <1>0, <1>4, CommonUnify
<1>7. ComesBefore(key, other) \/ ComesBefore(other, key)
    <2>1. \A k \in {key, other} : k[1] \in Nat /\ k[2] \in Nat /\ k = <<k[1], k[2]>>
        BY <1>0, DeclaredIs
    <2> QED
        BY <2>1 DEF ComesBefore
<1> QED
    BY <1>3, <1>4, <1>5, <1>6, <1>7

\* An instance is for the ground types it was declared for.
LEMMA SameReadings ==
    ASSUME Control, Shaped, NEW class \in DOMAIN instances, NEW key \in DOMAIN instances[class],
           NEW r \in Readings(instances[class][key])
    PROVE  /\ class \in DOMAIN Classes /\ key \in DOMAIN Declared(class)
           /\ \E s \in Readings(Declared(class)[key]) : s.ty = r.ty
<1>0. declaration \in Declarations /\ class \in DOMAIN Classes /\ key \in DOMAIN Declared(class)
    BY DEF Control, Shaped
<1>1. CASE key \notin DerivedKeys
    BY <1>0, <1>1 DEF Shaped
<1>2. CASE key \in DerivedKeys
    <2> DEFINE ty == instances[class][key]
               data == Declared(class)[key]
    <2>1. Reshaped(key, ty) /\ Reshaped(key, data)
        <3>1. data = DataType(key[1])
            BY <1>0, <1>2, DeclaredIs
        <3> QED
            BY <1>0, <1>2, <3>1, DataTypeReshaped DEF Shaped
    <2>2. /\ r.args \in [Indices(ty) -> GroundTypes] /\ r.ty = Apply(r.args, ty) /\ r.ty \in GroundTypes
        BY ReadingIs
    <2> HIDE DEF ty, data
    <2>3. /\ ty \in Type /\ data \in Type /\ ~IsGeneric(ty) /\ ~IsGeneric(data)
          /\ ty.k = data.k /\ ty.id = data.id /\ Len(ty.args) = Len(data.args) /\ DOMAIN ty.args = DOMAIN data.args
        BY <2>1, ReshapedParts DEF Reshaped
    <2>4. /\ \A i \in DOMAIN ty.args : ty.args[i] \in Type /\ IsGeneric(ty.args[i]) /\ ty.args[i].id \in Indices(ty)
          /\ \A i \in DOMAIN data.args : data.args[i] \in Type /\ IsGeneric(data.args[i]) /\ data.args[i].id \in Indices(data)
          /\ \A i, j \in DOMAIN data.args : data.args[i].id = data.args[j].id => i = j
          /\ Leaves(ty) = {ty.args[j] : j \in DOMAIN ty.args} /\ Leaves(data) = {data.args[j] : j \in DOMAIN data.args}
        <3>1. ASSUME NEW t \in {ty, data}
              PROVE  /\ \A i \in DOMAIN t.args : t.args[i] \in Type /\ IsGeneric(t.args[i]) /\ t.args[i] \in Leaves(t)
                     /\ \A i, j \in DOMAIN t.args : t.args[i].id = t.args[j].id => i = j
                     /\ Leaves(t) = {t.args[j] : j \in DOMAIN t.args}
            <4>1. Reshaped(key, t)
                BY <2>1
            <4>2. \A i, j \in DOMAIN t.args : t.args[i].id = t.args[j].id => i = j
                BY <4>1 DEF Reshaped
            <4> QED
                BY <4>1, <4>2, ReshapedParts
        <3>2. \A t \in {ty, data} : \A l \in Leaves(t) : l.id \in Indices(t)
            BY DEF Indices
        <3> QED
            BY <3>1, <3>2
    <2>5. /\ \A l \in Leaves(ty) : IsVar(l)
          /\ \A l \in Leaves(data) : IsVar(l)
        BY <2>1, ReshapedParts
    <2> DEFINE at(index) == CHOOSE j \in DOMAIN data.args : data.args[j].id = index
               args == [index \in Indices(data) |-> r.args[ty.args[at(index)].id]]
    <2>6. \A i \in DOMAIN data.args : at(data.args[i].id) = i
        BY <2>4
    <2>7. \A i \in DOMAIN data.args : args[data.args[i].id] = r.args[ty.args[i].id]
        BY <2>4, <2>6
    <2>8. args \in [Indices(data) -> GroundTypes]
        <3>1. \A index \in Indices(data) : \E i \in DOMAIN data.args : index = data.args[i].id
            BY <2>4 DEF Indices
        <3>2. \A index \in Indices(data) : at(index) \in DOMAIN data.args
            BY <3>1
        <3> HIDE DEF at
        <3> QED
            BY <2>2, <2>3, <2>4, <3>2
    <2> HIDE DEF args, at
    <2>9. Grounds(r.args, Leaves(ty), Depth) /\ Grounds(args, Leaves(data), Depth)
        BY <2>2, <2>5, <2>8, GroundArgs DEF Indices
    <2>10. /\ Resolvable(r.args) /\ \A i \in DOMAIN ty.args : Apply(r.args, ty.args[i]) = r.args[ty.args[i].id]
           /\ Resolvable(args) /\ \A i \in DOMAIN data.args : Apply(args, data.args[i]) = args[data.args[i].id]
        BY <2>2, <2>4, <2>8, <2>9, GroundsApply
    <2>11. Apply(args, data) = Apply(r.args, ty)
        BY <2>3, <2>7, <2>10, ApplyComposite, SameComposite
    <2> QED
        BY <1>0, <2>2, <2>8, <2>11, IsReading DEF ty, data
<1> QED
    BY <1>0, <1>1, <1>2

-----------------------------------------------------------------------------
(* The inductive invariant. *)

\* Behind check_conflicts no instances overlap.
Checked == stage \notin {"declare", "conflicts", "rejected"} => ~Overlap

IInv ==
    /\ Control
    /\ stage # "declare" => Shaped
    /\ Tidied
    /\ Passes
    /\ Checked

LEMMA SameOverlap ==
    ASSUME declaration' = declaration
    PROVE  Overlap' <=> Overlap
<1>1. \A class : Declared(class)' = Declared(class)
    BY SameDeclaration
<1> QED
    BY <1>1 DEF Overlap

LEMMA CheckedNext ==
    ASSUME Control, Checked, Next
    PROVE  Checked'
<1>0. declaration' = declaration /\ (Overlap' <=> Overlap)
    BY SameSteps, SameOverlap
<1>1. CASE Declare
    BY <1>1 DEF Declare, Checked
<1>2. CASE CheckConflicts
    <2> SUFFICES ASSUME stage' # "rejected"
                 PROVE  ~Overlap
        BY <1>0 DEF Checked
    <2>1. \A class \in DOMAIN Classes : ~Conflicting(instances[class])
        BY <1>2 DEF CheckConflicts
    <2>2. /\ declaration \in Declarations /\ resolver.next = FirstIndex
          /\ instances = [class \in DOMAIN Classes |-> Declared(class)]
        BY <1>2 DEF CheckConflicts, Control
    <2> QED
        BY <2>1, <2>2, NoOverlap
<1>3. CASE StartItems \/ EndItems \/ EndPass \/ CheckInstanceDependencies
    BY <1>0, <1>3 DEF StartItems, EndItems, ItemsDone, EndPass, CheckInstanceDependencies, Checked
<1>4. CASE StartClaim \/ CheckPending \/ ApplyUnifier \/ Terminated
    BY <1>0, <1>4 DEF StartClaim, CheckPending, ApplyUnifier, Terminated, vars, Checked
<1> QED
    BY <1>1, <1>2, <1>3, <1>4 DEF Next

LEMMA Initially == Init => IInv
<1> SUFFICES ASSUME Init
             PROVE  IInv
    OBVIOUS
<1>1. stage = "declare" /\ pass = 0
    BY DEF Init
<1> QED
    BY <1>1, ControlInit DEF IInv, Tidied, Passes, Checked

LEMMA Stutters ==
    ASSUME IInv, UNCHANGED vars
    PROVE  IInv'
<1>0. /\ declaration' = declaration /\ resolver' = resolver /\ claims' = claims /\ todo' = todo
      /\ changed' = changed /\ pass' = pass /\ errors' = errors /\ stage' = stage
    BY DEF vars
<1>1. /\ DerivedKeys' = DerivedKeys
      /\ \A key : DerivedClass(key)' = DerivedClass(key) /\ ItemClaims(key)' = ItemClaims(key)
      /\ \A class : Declared(class)' = Declared(class)
    BY <1>0, SameDeclaration
<1>2. /\ instances' = instances /\ AtHand' = AtHand /\ ItemClaims(AtHand)' = ItemClaims(AtHand)
      /\ OpenClaims(AtHand)' = OpenClaims(AtHand) /\ TypeAtHand' = TypeAtHand
    BY <1>0, SameAtHand DEF instances, TypeAtHand
<1>3. Control'
    BY <1>0, <1>1, <1>2 DEF IInv, Control, Idle
<1>4. (stage # "declare" => Shaped)'
    BY <1>0, <1>2, SameShaped DEF IInv
<1>5. Tidied'
    <2>1. \A types : World(types) => World(types)'
        BY <1>0, <1>2 DEF World
    <2> QED
        BY <1>0, <2>1 DEF IInv, Tidied
<1>6. Passes'
    <2>1. \A key : Settled(key) => Settled(key)'
        BY <1>0, <1>2, SameSettled
    <2>2. \A c : Underway(c) => Underway(c)'
        BY <1>0, <1>2 DEF Underway
    <2> QED
        BY <1>0, <1>1, <1>2, <2>1, <2>2 DEF IInv, Passes
<1>7. Checked'
    BY <1>0, SameOverlap DEF IInv, Checked
<1> QED
    BY <1>3, <1>4, <1>5, <1>6, <1>7 DEF IInv

LEMMA Inductive == IInv /\ [Next]_vars => IInv'
<1> SUFFICES ASSUME IInv, [Next]_vars
             PROVE  IInv'
    OBVIOUS
<1>1. CASE Next
    <2>1. Control'
        BY <1>1, ControlNext DEF IInv
    <2>2. (stage # "declare" => Shaped)'
        BY <1>1, <2>1, ShapedNext DEF IInv
    <2>3. Tidied' /\ Passes' /\ Checked'
        BY <1>1, TidiedNext, PassesNext, CheckedNext DEF IInv
    <2> QED
        BY <2>1, <2>2, <2>3 DEF IInv
<1>2. CASE UNCHANGED vars
    BY <1>2, Stutters
<1> QED
    BY <1>1, <1>2

LEMMA Invariant == Spec => []IInv
BY Initially, Inductive, PTL DEF Spec

-----------------------------------------------------------------------------
(* The results. *)

LEMMA ShapedInstances == IInv => TypeOK
<1> SUFFICES ASSUME IInv
             PROVE  TypeOK
    OBVIOUS
<1>1. ASSUME stage # "declare", NEW key \in DerivedKeys
      PROVE  Reshaped(key, instances[DerivedClass(key)][key])
    <2>1. DerivedClass(key) \in DOMAIN Classes /\ key \in DOMAIN Declared(DerivedClass(key))
        BY KeyFacts, DeclaredIs DEF IInv, Control
    <2> QED
        BY <1>1, <2>1 DEF IInv, Shaped
<1>2. ASSUME NEW key, NEW ty, Reshaped(key, ty)
      PROVE  /\ BaseType(ty) = <<"Named", key[1]>> /\ Len(ty.args) = Len(TypeDef(key[1]).params)
             /\ \A j \in DOMAIN ty.args : IsVar(ty.args[j])
             /\ IsInjective(ty.args)
    BY <1>2, ReshapedParts DEF Reshaped, BaseType, IsInjective
<1> QED
    BY <1>1, <1>2 DEF TypeOK, IInv, Control

LEMMA ApartInstances == IInv => OneInstance
<1> SUFFICES ASSUME IInv, stage = "accepted",
                    NEW class \in DOMAIN instances,
                    NEW key \in DOMAIN instances[class], NEW other \in DOMAIN instances[class], key # other,
                    NEW r \in Readings(instances[class][key]), NEW s \in Readings(instances[class][other]), r.ty = s.ty
             PROVE  FALSE
    BY DEF OneInstance
<1>1. Control /\ Shaped /\ ~Overlap
    BY DEF IInv, Checked
<1>2. /\ class \in DOMAIN Classes /\ key \in DOMAIN Declared(class) /\ other \in DOMAIN Declared(class)
      /\ \E p \in Readings(Declared(class)[key]) : p.ty = r.ty
      /\ \E p \in Readings(Declared(class)[other]) : p.ty = s.ty
    BY <1>1, SameReadings
<1> QED
    BY <1>1, <1>2 DEF Overlap

\* Whatever unifiers are applied to a derived instance, it keeps its
\* parameters, distinct variables as they were declared.
THEOREM ShapesKept == Spec => []TypeOK
BY Invariant, ShapedInstances, PTL

\* No program is accepted with two instances of a class for one ground type:
\* check_conflicts finds all that overlap as they are declared, and the
\* constraints that are found later make none for more types.
THEOREM OneInstanceAlways == Spec => []OneInstance
BY Invariant, ApartInstances, PTL

\* process_derived_instances makes two passes at most: the first one finds all
\* constraints of an instance when it processes it.
THEOREM TwoPassesAlways == Spec => []TwoPasses
<1>1. IInv => TwoPasses
    BY DEF IInv, Passes, TwoPasses
<1> QED
    BY <1>1, Invariant, PTL

=============================================================================
