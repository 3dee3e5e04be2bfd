---------------------------- MODULE UnifierCalls ----------------------------
(***************************************************************************)
(* A unifier that is used for several calls of unify, as                   *)
(* Interpreter::get_call_unifier uses one for the arguments and the result *)
(* of a call, and what it promises.                                        *)
(*                                                                         *)
(* The reference is the set of ground solutions: the ways to replace the   *)
(* variables by types without variables.                                   *)
(***************************************************************************)
EXTENDS Unifier, TLC

CONSTANTS
    Depth,          \* bound: how deep the types of the calls are
    FirstPairs,     \* the pairs of types of the first call
    LaterPairs,     \* the pairs of types of the calls after it
    MaxCalls,       \* bound: calls of unify
    GroundTypes,    \* bound: the types that may stand for a variable
    Instances,      \* the classes, and the ground types of each
    FirstIndex      \* the counter behind new type variables at the start

ASSUME TypesAssumption ==
    /\ Depth \in Nat /\ FirstIndex \in Nat
    /\ FirstPairs \cup LaterPairs \subseteq Layer[Depth] \X Layer[Depth]
    /\ GroundTypes \subseteq Layer[Depth]

\* The indices come from the counter, each for one variable or fixed type
\* argument and its constraints; ground types have no variables.
ASSUME LeavesAssumption ==
    LET pairs == LeavesOfPairs(FirstPairs \cup LaterPairs)
        ground == UNION {Leaves(ty) : ty \in GroundTypes}
    IN  /\ \A l \in pairs \cup ground : l.id < FirstIndex
        /\ \A l, m \in pairs \cup ground : l.id = m.id => l = m
        /\ \A l \in ground : IsFixed(l)

VARIABLES
    unifier,        \* the unifier
    equations       \* the pairs of types unify was called with

vars == <<unifier, equations>>

Init ==
    /\ unifier = NewUnifier(FirstIndex)
    /\ equations = {}

\* After a failure the unifier is dropped.
UnifyPair(pair) ==
    /\ unifier.result = "ok" /\ unifier.pending = <<>>
    /\ Cardinality(equations) < MaxCalls
    /\ unifier' = CallUnify(unifier, pair[1], pair[2])
    /\ equations' = equations \cup {pair}

\* The call goes on: its own types, or those of items.
UnifyItem ==
    /\ unifier.pending # <<>>
    /\ unifier' = UnifyNext(unifier)
    /\ UNCHANGED equations

Next ==
    \/ \E pair \in IF equations = {} THEN FirstPairs ELSE LaterPairs : UnifyPair(pair)
    \/ UnifyItem

Spec == Init /\ [][Next]_vars

-----------------------------------------------------------------------------
(* Ground solutions. *)

Satisfies(ty, class) ==
    IF IsFixed(ty) THEN class \in ty.cs ELSE ty \in Instances[class]

\* The variables of the equations, and those the unifier made.
EquationVars == {leaf \in LeavesOfPairs(equations) : IsVar(leaf)}
UnifierVars ==
    {leaf \in UNION {Leaves(unifier.sub[i]) : i \in DOMAIN unifier.sub} : IsVar(leaf)}

\* Ways to replace a set of variables that respect their constraints.
Grounding(leaves) ==
    {g \in [{v.id : v \in leaves} -> GroundTypes] :
        \A v \in leaves : \A c \in v.cs : Satisfies(g[v.id], c)}

Solutions ==
    {g \in Grounding(EquationVars) : \A e \in equations : Apply(g, e[1]) = Apply(g, e[2])}

\* A type with everything the unifier found out about it.
Final(ty) == Apply(unifier.sub, ty)

\* What is left open by the unifier, and ways to fill it in that satisfy the
\* constraints it recorded.
Open == {v \in EquationVars \cup UnifierVars : v.id \notin DOMAIN unifier.sub}

Completions ==
    {h \in Grounding(Open) : \A c \in unifier.constraints :
        LET ty == Apply(h, Final(c[2]))
        IN  ty \in GroundTypes => Satisfies(ty, c[1])}

-----------------------------------------------------------------------------
(* Properties. *)

\* No call of unify is under way.
Returned == unifier.pending = <<>>

\* No variable is bound to a type that leads back to it, so that
\* Substitution::apply, which follows every binding to its end, returns.
Acyclic ==
    LET leadsTo(i) == {j \in DOMAIN unifier.sub : Occurs(unifier.sub[i], j)}
        reach[n \in 0..Cardinality(DOMAIN unifier.sub)] ==
            IF n = 0 THEN [i \in DOMAIN unifier.sub |-> leadsTo(i)]
            ELSE [i \in DOMAIN unifier.sub |->
                    reach[n - 1][i] \cup UNION {leadsTo(j) : j \in reach[n - 1][i]}]
    IN  \A i \in DOMAIN unifier.sub : i \notin reach[Cardinality(DOMAIN unifier.sub)][i]

\* A unifier that did not fail makes the types of all its calls equal, the
\* earlier ones included.
Solves ==
    Returned /\ unifier.result = "ok" =>
        \A e \in equations : Final(e[1]) = Final(e[2])

\* unify fails only when no types for the variables make the calls equal and
\* satisfy the constraints; and when it does not fail it is most general: every
\* such choice of types fills in what the unifier left open.
MostGeneral ==
    Returned => \A g \in Solutions :
        /\ unifier.result = "ok"
        /\ \E h \in Completions : \A v \in EquationVars : Apply(h, Final(v)) = g[v.id]

\* No constraint is lost: types that satisfy what the unifier left open and
\* recorded satisfy the constraints of every variable of the calls.
ConstraintsKept ==
    Returned /\ unifier.result = "ok" =>
        \A h \in Completions : \A v \in EquationVars : \A c \in v.cs :
            LET ty == Apply(h, Final(v))
            IN  ty \in GroundTypes \/ IsFixed(ty) => Satisfies(ty, c)

=============================================================================
