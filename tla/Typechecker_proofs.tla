-------------------------- MODULE Typechecker_proofs --------------------------
(***************************************************************************)
(* Proofs about Typechecker for every well-formed program: the lookups the *)
(* code expects to succeed do succeed, the callees of a group are ready,   *)
(* and a lambda is checked in the group of its host.                       *)
(***************************************************************************)
EXTENDS Typechecker, Reachability, FiniteSetTheorems, SequenceTheorems, TLAPS

-----------------------------------------------------------------------------
(* Programs and their dependencies. *)

\* The component of an item is the component of each of its members.
LEMMA ComponentOfMember ==
    ASSUME NEW I, NEW d \in [I -> SUBSET I],
           NEW x \in I, NEW y \in Component(d, x), NEW z \in I, Connected(d, y, z)
    PROVE  z \in Component(d, x)
<1>1. ASSUME NEW a \in I, NEW b \in I, NEW c \in I, Reaches(d, a, b), Reaches(d, b, c)
      PROVE  Reaches(d, a, c)
    BY <1>1 DEF Reaches, Closed
<1> QED
    BY <1>1 DEF Component, Connected

\* In a program without untyped extern functions every dependency is an item.
LEMMA CollectedItems ==
    ASSUME NEW F \in SUBSET FunctionIds, NEW p \in [F -> Function], WellFormed(p),
           NEW f \in Items(p),
           \A g \in F : p[g].typed \/ p[g].body
    PROVE  Collect(p, f) \in SUBSET Items(p)
<1>1. /\ f \in F /\ DOMAIN p = F
      /\ p[f].calls \subseteq F
      /\ WellFormedFunction(p, f)
    BY DEF WellFormed, WellFormedFunction, Items
<1>2. {g \in p[f].calls : ~p[g].typed} \subseteq Items(p)
    BY <1>1 DEF Items
<1>3. p[f].kind \in {"Lambda", "NamedFunction", "Constructor"}
    BY <1>1 DEF Function
<1>4. CASE p[f].kind = "Lambda"
    <2>1. p[f].host \in Items(p)
        BY <1>1, <1>4 DEF WellFormedFunction, Items
    <2>2. QED
        BY <1>2, <2>1 DEF Collect
<1>5. CASE p[f].kind \in {"NamedFunction", "Constructor"}
    <2>1. p[f].host = NoHost
        BY <1>1, <1>5 DEF WellFormedFunction
    <2>2. QED
        BY <1>2, <2>1 DEF Collect
<1>6. QED
    BY <1>3, <1>4, <1>5

\* A lambda and the function it is written in depend on each other.  The host
\* reaches the lambda through the lambdas between them: those of its lambdas
\* that a closed set around its dependencies misses would be written in each
\* other only.
LEMMA LambdaConnected ==
    ASSUME NEW F \in SUBSET FunctionIds, NEW p \in [F -> Function], WellFormed(p),
           NEW l \in Lambdas(p), NEW d \in [Items(p) -> SUBSET Items(p)],
           \A f \in Items(p) : d[f] = Collect(p, f)
    PROVE  /\ l \in Items(p) /\ p[l].host \in Items(p)
           /\ Connected(d, l, p[l].host)
<1> DEFINE h == p[l].host
<1>1. \A m \in Lambdas(p) :
        /\ m \in Items(p) /\ m \in F /\ ~p[m].typed /\ p[m].host \in F
        /\ p[m].host \in Items(p)
        /\ p[m].host \in FunctionIds
    BY DEF WellFormed, WellFormedFunction, Lambdas, Items
<1>2. \A m \in Lambdas(p) : p[m].host # NoHost
    BY <1>1, FunctionIdsAssumption
<1>3. Reaches(d, l, h)
    <2>1. h \in d[l]
        BY <1>1, <1>2 DEF Collect
    <2>2. QED
        BY <1>1, <2>1 DEF Reaches
<1>4. Reaches(d, h, l)
    <2>1. SUFFICES ASSUME NEW S \in SUBSET Items(p), d[h] \subseteq S, Closed(d, S)
                   PROVE  l \in S
        BY DEF Reaches
    <2> DEFINE L == {m \in Lambdas(p) : p[m].host = h /\ m \notin S}
    <2>2. ASSUME L # {}
          PROVE  FALSE
        <3>1. PICK m \in L : \E f \in DOMAIN p \ L : Encloses(p, f, m)
            BY <2>2 DEF WellFormed, LambdasNested
        <3>2. PICK f \in DOMAIN p \ L : Encloses(p, f, m)
            BY <3>1
        <3>3. m \in p[f].calls /\ m \in Lambdas(p) /\ m \notin S /\ p[m].host = h
            BY <3>2 DEF Encloses
        <3>4. f \in Items(p) => m \in d[f]
            BY <1>1, <3>3 DEF Collect
        <3>5. CASE f = h
            BY <1>1, <2>1, <3>3, <3>4, <3>5
        <3>6. CASE f \in Lambdas(p) /\ p[f].host = h
            <4>1. f \in S
                BY <3>2, <3>6
            <4>2. QED
                BY <2>1, <3>3, <3>4, <4>1 DEF Closed
        <3>7. QED
            BY <3>2, <3>3, <3>5, <3>6 DEF Encloses
    <2>3. QED
        BY <2>2
<1>5. QED
    BY <1>1, <1>3, <1>4 DEF Connected

-----------------------------------------------------------------------------
(* The inductive invariant. *)

Before == {"declarations", "derived", "instances", "functions", "collect"}
Ordering == {"order", "groups"}

\* The program is well formed, and what its functions lack is known after the gates.
ProgramInv ==
    /\ WellFormed(functions)
    /\ stage \in {"collect"} \cup Ordering =>
            /\ infos = DOMAIN functions
            /\ \A f \in DOMAIN functions : functions[f].typed \/ functions[f].body

\* The groups come from the dependencies of the program.
GroupInv ==
    /\ stage \in Before => groups = <<>>
    /\ stage \in Ordering =>
            /\ items = Items(functions)
            /\ \A f \in items : deps[f] = Collect(functions, f)
    /\ \A k \in DOMAIN groups : \A f \in groups[k] :
            deps[f] \subseteq UNION {groups[j] : j \in 1..k}

\* What the loop over the groups has done.
LoopInv ==
    /\ stage \in Before \cup {"order"} =>
            current = 1 /\ initialised = {} /\ checked = {} /\ exprTypes = {}
    /\ stage = "groups" =>
            /\ items \subseteq Order!HandedOut
            /\ current <= Len(groups) + 1
            /\ initialised \subseteq IF current <= Len(groups) THEN groups[current] ELSE {}
            /\ Earlier \subseteq checked
            /\ checked \subseteq items
            /\ exprTypes = Earlier

Inv ==
    /\ TypeOK
    /\ ProgramInv
    /\ GroupInv
    /\ LoopInv
    /\ LambdaWithHost
    /\ OkMeansChecked

-----------------------------------------------------------------------------
(* The initial states and the steps. *)

LEMMA InvInit == Init => Inv
<1> SUFFICES ASSUME Init
             PROVE  Inv
    OBVIOUS
<1> USE DEF Init
<1>1. deps \in [items -> SUBSET items] /\ groups \in Seq(SUBSET items) /\ DOMAIN groups = {}
    BY EmptySeq
<1>2. TypeOK
    <2>1. \E F \in SUBSET FunctionIds : functions \in [F -> Function]
        OBVIOUS
    <2>2. /\ infos \subseteq DOMAIN functions /\ items \subseteq DOMAIN functions
          /\ initialised \subseteq DOMAIN functions /\ checked \subseteq DOMAIN functions
          /\ exprTypes \subseteq DOMAIN functions
        OBVIOUS
    <2> HIDE DEF Init
    <2>3. errors \in BOOLEAN /\ functionTypes \in BOOLEAN
        BY Zenon DEF Init
    <2>4. current \in Nat \ {0}
        BY DEF Init
    <2>5. stage = "declarations"
        BY DEF Init
    <2>6. QED
        BY <1>1, <2>1, <2>2, <2>3, <2>4, <2>5 DEF TypeOK
<1>3. QED
    BY <1>1, <1>2 DEF Inv, ProgramInv, GroupInv, LoopInv, LambdaWithHost, OkMeansChecked,
                      Ordering

\* The stages before the functions are ordered change neither the groups nor the loop.
LEMMA StageStep ==
    ASSUME Inv,
           \/ CheckDeclarations \/ ProcessDerivedInstances \/ CheckInstanceDependencies
           \/ ProcessFunctions
    PROVE  Inv'
<1> USE DEF programVars, depVars, groupVars
<1>1. /\ UNCHANGED <<functions, items, deps, groups, current, initialised, checked,
                     exprTypes, functionTypes>>
      /\ stage \in Before /\ stage # "collect"
      /\ stage' \in Before \cup {"failed"}
      /\ errors' \in BOOLEAN
    BY DEF CheckDeclarations, ProcessDerivedInstances, CheckInstanceDependencies,
           ProcessFunctions, Gate, Before
<1>2. infos' \subseteq DOMAIN functions
    BY DEF Inv, TypeOK, CheckDeclarations, ProcessDerivedInstances,
           CheckInstanceDependencies, ProcessFunctions
<1>3. TypeOK'
    <2>1. stage' \in {"declarations", "derived", "instances", "functions", "collect", "order",
                      "groups", "ok", "failed"}
        BY <1>1 DEF Before
    <2>2. QED
        BY <1>1, <1>2, <2>1 DEF Inv, TypeOK
<1>4. stage' = "collect" =>
            /\ infos' = DOMAIN functions
            /\ \A f \in DOMAIN functions : functions[f].typed \/ functions[f].body
    BY DEF CheckDeclarations, ProcessDerivedInstances, CheckInstanceDependencies,
           ProcessFunctions, Gate, UntypedExtern
<1>5. stage' \notin Ordering /\ stage' # "ok" /\ stage' # "groups"
    BY <1>1 DEF Before, Ordering
<1>6. ProgramInv'
    BY <1>1, <1>4, <1>5 DEF Inv, ProgramInv
<1>7. GroupInv'
    BY <1>1, <1>5 DEF Inv, GroupInv
<1>8. LoopInv'
    BY <1>1, <1>5 DEF Inv, LoopInv
<1>9. LambdaWithHost'
    BY <1>1 DEF Inv, LambdaWithHost
<1>10. QED
    BY <1>3, <1>5, <1>6, <1>7, <1>8, <1>9 DEF Inv, OkMeansChecked

LEMMA CollectStep ==
    ASSUME Inv, CollectDependencies
    PROVE  Inv'
<1> USE DEF programVars, depVars, groupVars
<1>1. /\ UNCHANGED <<functions, infos, groups, current, initialised, checked, exprTypes,
                     errors, functionTypes>>
      /\ stage = "collect" /\ stage' = "order" /\ groups = <<>>
      /\ items' = Items(functions)
      /\ deps' = [f \in Items(functions) |-> Collect(functions, f)]
      /\ infos = DOMAIN functions
      /\ \A f \in DOMAIN functions : functions[f].typed \/ functions[f].body
      /\ WellFormed(functions)
    BY DEF CollectDependencies, Inv, ProgramInv, GroupInv, Before
<1>2. PICK F \in SUBSET FunctionIds : functions \in [F -> Function]
    BY DEF Inv, TypeOK
<1>3. \A f \in Items(functions) : Collect(functions, f) \in SUBSET Items(functions)
    BY <1>1, <1>2, CollectedItems
<1>4. deps' \in [items' -> SUBSET items'] /\ items' \subseteq DOMAIN functions
    BY <1>1, <1>3 DEF Items
<1>5. groups' \in Seq(SUBSET items') /\ DOMAIN groups' = {}
    BY <1>1, EmptySeq
<1>6. TypeOK'
    BY <1>1, <1>4, <1>5 DEF Inv, TypeOK
<1>7. QED
    BY <1>1, <1>4, <1>5, <1>6
    DEF Inv, ProgramInv, GroupInv, LoopInv, LambdaWithHost, OkMeansChecked, Before, Ordering

\* A group that is handed out is a component: it holds the hosts of its
\* lambdas, and what it uses was handed out before.
LEMMA HandOutStep ==
    ASSUME Inv, HandOutGroup
    PROVE  Inv'
<1> USE DEF programVars, depVars, groupVars
<1>1. /\ UNCHANGED <<functions, infos, items, deps, current, initialised, checked,
                     exprTypes, errors, functionTypes, stage>>
      /\ stage = "order"
      /\ WellFormed(functions)
      /\ items = Items(functions)
      /\ \A f \in items : deps[f] = Collect(functions, f)
      /\ deps \in [items -> SUBSET items] /\ groups \in Seq(SUBSET items)
    BY DEF HandOutGroup, Inv, TypeOK, ProgramInv, GroupInv, Ordering, Order!Next, Order!HandOut
<1>2. PICK x \in items : Order!HandOut(x)
    BY DEF HandOutGroup, Order!Next
<1> DEFINE C == Component(deps, x)
<1>3. Order!Component(deps, x) = C
    BY DEF Order!Component, Order!Connected, Order!Reaches, Order!Closed,
           Component, Connected, Reaches, Closed
<1>4. /\ \A y \in C : deps[y] \subseteq Order!HandedOut \cup C
      /\ groups' = Append(groups, C)
    BY <1>2, <1>3 DEF Order!HandOut
<1>5. C \in SUBSET items
    BY <1>1 DEF Component
<1>6. PICK n \in Nat : n = Len(groups) + 1
    BY <1>1, LenProperties
<1>7. /\ DOMAIN groups = 1..Len(groups) /\ Len(groups) \in Nat
      /\ DOMAIN groups' = 1..n
      /\ \A k \in 1..Len(groups) : groups'[k] = groups[k]
      /\ groups'[n] = C
      /\ groups' \in Seq(SUBSET items)
    BY <1>1, <1>4, <1>5, <1>6, AppendProperties, LenProperties
<1> HIDE DEF C
<1>8. TypeOK'
    BY <1>1, <1>7 DEF Inv, TypeOK
<1>9. ASSUME NEW l \in C, functions[l].kind = "Lambda"
      PROVE  functions[l].host \in C
    <2>1. PICK F \in SUBSET FunctionIds : functions \in [F -> Function]
        BY DEF Inv, TypeOK
    <2>2. l \in Lambdas(functions)
        BY <1>1, <1>5, <1>9 DEF Lambdas, Items
    <2>3. functions[l].host \in items /\ Connected(deps, l, functions[l].host)
        BY <1>1, <2>1, <2>2, LambdaConnected
    <2>4. QED
        BY <1>1, <1>5, <2>3, ComponentOfMember DEF C
<1>10. LambdaWithHost'
    <2>1. ASSUME NEW k \in 1..n, NEW l \in groups'[k], functions[l].kind = "Lambda"
          PROVE  functions[l].host \in groups'[k]
        <3>1. CASE k = n
            BY <1>7, <1>9, <2>1, <3>1
        <3>2. CASE k # n
            <4>1. k \in 1..Len(groups)
                BY <1>6, <1>7, <3>2
            <4>2. QED
                BY <1>7, <2>1, <4>1 DEF Inv, LambdaWithHost
        <3>3. QED
            BY <3>1, <3>2
    <2>2. QED
        BY <1>1, <1>7, <2>1 DEF LambdaWithHost
<1>11. ASSUME NEW k \in 1..n, NEW f \in groups'[k]
       PROVE  deps[f] \subseteq UNION {groups'[j] : j \in 1..k}
    <2>1. CASE k = n
        <3>1. 1..n = 1..Len(groups) \cup {n}
            BY <1>6, <1>7
        <3>2. UNION {groups'[j] : j \in 1..n} = Order!HandedOut \cup C
            BY <1>7, <3>1 DEF Order!HandedOut
        <3>3. QED
            BY <1>4, <1>7, <1>11, <2>1, <3>2
    <2>2. CASE k # n
        <3>1. k \in 1..Len(groups) /\ \A j \in 1..k : j \in 1..Len(groups)
            BY <1>6, <1>7, <2>2
        <3>2. UNION {groups'[j] : j \in 1..k} = UNION {groups[j] : j \in 1..k}
            BY <1>7, <3>1
        <3>3. QED
            BY <1>7, <1>11, <3>1, <3>2 DEF Inv, GroupInv
    <2>3. QED
        BY <2>1, <2>2
<1>12. GroupInv'
    BY <1>1, <1>7, <1>11 DEF Inv, GroupInv, Before
<1>13. QED
    BY <1>1, <1>8, <1>10, <1>12 DEF Inv, ProgramInv, LoopInv, OkMeansChecked

LEMMA CheckMainStep ==
    ASSUME Inv, CheckMain
    PROVE  Inv'
<1> USE DEF programVars, depVars, groupVars
<1>1. /\ UNCHANGED <<functions, infos, items, deps, groups, current, initialised, checked,
                     exprTypes, functionTypes>>
      /\ stage = "order" /\ stage' \in {"groups", "failed"}
      /\ errors' \in BOOLEAN
      /\ items \subseteq Order!HandedOut
      /\ current = 1 /\ initialised = {} /\ checked = {} /\ exprTypes = {}
    BY DEF CheckMain, Gate, Inv, LoopInv
<1>2. Earlier' = {}
    BY <1>1 DEF Earlier
<1>3. Len(groups) \in Nat
    BY LenProperties DEF Inv, TypeOK
<1>4. stage' = "groups" =>
            /\ current' <= Len(groups') + 1
            /\ Order!HandedOut' = Order!HandedOut
    BY <1>1, <1>3 DEF Order!HandedOut
<1>5. LoopInv'
    <2>1. stage' \notin Before \cup {"order"}
        BY <1>1 DEF Before
    <2>2. QED
        BY <1>1, <1>2, <1>4, <2>1 DEF LoopInv
<1>6. TypeOK'
    BY <1>1 DEF Inv, TypeOK
<1>7. QED
    BY <1>1, <1>5, <1>6
    DEF Inv, ProgramInv, GroupInv, LambdaWithHost, OkMeansChecked, Before, Ordering

\* A step inside a group.
LEMMA FunctionStep ==
    ASSUME Inv, NEW f \in DOMAIN functions, InitExprTypes(f) \/ ProcessFunction(f)
    PROVE  Inv'
<1> USE DEF programVars, depVars, groupVars
<1>1. /\ UNCHANGED <<functions, infos, items, deps, groups, current, exprTypes,
                     functionTypes, stage>>
      /\ stage = "groups" /\ current <= Len(groups)
      /\ errors' \in BOOLEAN
      /\ f \in groups[current]
      /\ initialised' \subseteq initialised \cup {f}
      /\ checked' \subseteq checked \cup {f} /\ checked \subseteq checked'
    BY DEF InitExprTypes, ProcessFunction, InLoop, First
<1>2. /\ current \in DOMAIN groups
      /\ groups[current] \in SUBSET items
    BY <1>1, LenProperties DEF Inv, TypeOK
<1>3. TypeOK'
    BY <1>1, <1>2 DEF Inv, TypeOK
<1>4. LoopInv'
    <2>1. Earlier' = Earlier /\ Order!HandedOut' = Order!HandedOut
        BY <1>1 DEF Earlier, Order!HandedOut
    <2>2. stage' \notin Before \cup {"order"}
        BY <1>1 DEF Before
    <2>3. QED
        BY <1>1, <1>2, <2>1, <2>2 DEF Inv, LoopInv
<1>5. QED
    BY <1>1, <1>3, <1>4
    DEF Inv, ProgramInv, GroupInv, LambdaWithHost, OkMeansChecked, Before, Ordering

LEMMA SaveStep ==
    ASSUME Inv, SaveExprTypes
    PROVE  Inv'
<1> USE DEF programVars, depVars, groupVars
<1>1. /\ UNCHANGED <<functions, infos, items, deps, groups, checked, functionTypes, stage, errors>>
      /\ stage = "groups" /\ current <= Len(groups)
      /\ groups[current] \subseteq initialised /\ groups[current] \subseteq checked
      /\ initialised \subseteq groups[current]
      /\ exprTypes' = exprTypes \cup initialised
      /\ initialised' = {} /\ current' = current + 1
      /\ exprTypes = Earlier /\ Earlier \subseteq checked
    BY DEF SaveExprTypes, InLoop, Inv, LoopInv
<1>2. /\ current \in Nat \ {0} /\ Len(groups) \in Nat
      /\ exprTypes \subseteq DOMAIN functions /\ initialised \subseteq DOMAIN functions
    BY LenProperties DEF Inv, TypeOK
<1>3. Earlier' = Earlier \cup groups[current]
    <2>1. 1..(current' - 1) = 1..(current - 1) \cup {current}
        BY <1>1, <1>2
    <2>2. QED
        BY <1>1, <2>1 DEF Earlier
<1>4. TypeOK'
    BY <1>1, <1>2 DEF Inv, TypeOK
<1>5. LoopInv'
    <2>1. Order!HandedOut' = Order!HandedOut
        BY <1>1 DEF Order!HandedOut
    <2>2. stage' \notin Before \cup {"order"}
        BY <1>1 DEF Before
    <2>3. current' <= Len(groups') + 1
        BY <1>1, <1>2
    <2>4. QED
        BY <1>1, <1>3, <2>1, <2>2, <2>3 DEF Inv, LoopInv
<1>6. QED
    BY <1>1, <1>4, <1>5
    DEF Inv, ProgramInv, GroupInv, LambdaWithHost, OkMeansChecked, Before, Ordering

LEMMA FinishStep ==
    ASSUME Inv, Finish
    PROVE  Inv'
<1> USE DEF programVars, depVars, groupVars
<1>1. /\ UNCHANGED <<functions, infos, items, deps, groups, current, initialised, checked,
                     exprTypes, errors>>
      /\ stage = "groups" /\ current > Len(groups)
      /\ functionTypes' = ~errors
      /\ stage' = IF errors THEN "failed" ELSE "ok"
      /\ items \subseteq Order!HandedOut /\ current <= Len(groups) + 1
      /\ Earlier \subseteq checked /\ checked \subseteq items /\ exprTypes = Earlier
      /\ infos = DOMAIN functions /\ items = Items(functions)
    BY DEF Finish, Inv, ProgramInv, GroupInv, LoopInv, Ordering
<1>2. /\ DOMAIN groups = 1..Len(groups) /\ Len(groups) \in Nat /\ current \in Nat
      /\ errors \in BOOLEAN
    BY LenProperties DEF Inv, TypeOK
<1>3. Earlier = Order!HandedOut
    <2>1. 1..(current - 1) = DOMAIN groups
        BY <1>1, <1>2
    <2>2. QED
        BY <2>1 DEF Earlier, Order!HandedOut
<1>4. checked = items /\ exprTypes = items
    BY <1>1, <1>3
<1>5. stage' \in {"ok", "failed"} /\ (stage' = "ok" => ~errors)
    BY <1>1
<1>6. OkMeansChecked'
    BY <1>1, <1>4, <1>5 DEF OkMeansChecked
<1>7. functionTypes' \in BOOLEAN
    BY <1>1, <1>2
<1>8. TypeOK'
    BY <1>1, <1>5, <1>7 DEF Inv, TypeOK
<1>9. ProgramInv' /\ GroupInv' /\ LoopInv' /\ LambdaWithHost'
    BY <1>1, <1>5 DEF Inv, ProgramInv, GroupInv, LoopInv, LambdaWithHost, Before, Ordering
<1>10. QED
    BY <1>6, <1>8, <1>9 DEF Inv

LEMMA StutterStep ==
    ASSUME Inv, UNCHANGED vars
    PROVE  Inv'
<1> USE DEF vars, programVars, depVars, groupVars
<1>1. TypeOK'
    BY DEF Inv, TypeOK
<1>2. QED
    BY <1>1 DEF Inv, ProgramInv, GroupInv, LoopInv, LambdaWithHost, OkMeansChecked, Earlier,
                Order!HandedOut

LEMMA InvStep == Inv /\ [Next]_vars => Inv'
BY StageStep, CollectStep, HandOutStep, CheckMainStep, FunctionStep, SaveStep, FinishStep,
   StutterStep DEF Next, Step, Terminated

\* The inductive invariant holds in every reachable state.
THEOREM Invariance == Spec => []Inv
BY InvInit, InvStep, PTL DEF Spec

-----------------------------------------------------------------------------
(* The theorems. *)

\* The state of the type checker is well typed.
THEOREM TypeCorrect == Spec => []TypeOK
<1>1. Inv => TypeOK
    BY DEF Inv
<1>2. QED
    BY <1>1, Invariance, PTL

\* The lookups of type information and of dependencies never fail.
THEOREM LookupsSucceed == Spec => []InfoPresent
<1>1. Inv => InfoPresent
    <2>1. SUFFICES ASSUME Inv, stage \in {"collect", "order", "groups"},
                          NEW f \in Items(functions)
                   PROVE  /\ f \in infos
                          /\ functions[f].calls \subseteq infos
                          /\ Collect(functions, f) \subseteq Items(functions)
        BY DEF InfoPresent
    <2>2. /\ infos = DOMAIN functions /\ WellFormed(functions)
          /\ \A g \in DOMAIN functions : functions[g].typed \/ functions[g].body
        BY <2>1 DEF Inv, ProgramInv, Ordering
    <2>3. PICK F \in SUBSET FunctionIds : functions \in [F -> Function]
        BY <2>1 DEF Inv, TypeOK
    <2>4. Collect(functions, f) \in SUBSET Items(functions)
        BY <2>1, <2>2, <2>3, CollectedItems
    <2>5. f \in DOMAIN functions /\ functions[f].calls \subseteq DOMAIN functions
        BY <2>1, <2>2 DEF Items, WellFormed, WellFormedFunction
    <2>6. QED
        BY <2>2, <2>4, <2>5
<1>2. QED
    BY <1>1, Invariance, PTL

\* A body is checked only when the types of the functions it calls are final.
THEOREM CalleesAreReady == Spec => []CalleesReady
<1>1. Inv => CalleesReady
    <2>1. SUFFICES ASSUME Inv, InLoop
                   PROVE  /\ Earlier \subseteq checked
                          /\ \A f \in groups[current] : \A g \in functions[f].calls :
                                functions[g].typed \/ g \in groups[current] \/ g \in Earlier
        BY DEF CalleesReady
    <2>2. /\ stage = "groups" /\ current <= Len(groups) /\ Earlier \subseteq checked
          /\ \A f \in items : deps[f] = Collect(functions, f)
        BY <2>1 DEF InLoop, Inv, LoopInv, GroupInv, Ordering
    <2>3. /\ current \in DOMAIN groups /\ current \in Nat \ {0}
          /\ groups[current] \in SUBSET items
        BY <2>1, <2>2, LenProperties DEF Inv, TypeOK
    <2>4. ASSUME NEW f \in groups[current], NEW g \in functions[f].calls, ~functions[g].typed
          PROVE  g \in groups[current] \/ g \in Earlier
        <3>1. g \in deps[f]
            BY <2>2, <2>3, <2>4 DEF Collect
        <3>2. g \in UNION {groups[j] : j \in 1..current}
            BY <2>1, <2>3, <3>1 DEF Inv, GroupInv
        <3>3. 1..current = 1..(current - 1) \cup {current}
            BY <2>3
        <3>4. QED
            BY <3>2, <3>3 DEF Earlier
    <2>5. QED
        BY <2>2, <2>4
<1>2. QED
    BY <1>1, Invariance, PTL

\* A lambda is checked in the group of the function it is written in.
THEOREM LambdasWithHosts == Spec => []LambdaWithHost
<1>1. Inv => LambdaWithHost
    BY DEF Inv
<1>2. QED
    BY <1>1, Invariance, PTL

\* Ok is returned only for programs whose functions were all checked.
THEOREM OkIsSound == Spec => []OkMeansChecked
<1>1. Inv => OkMeansChecked
    BY DEF Inv
<1>2. QED
    BY <1>1, Invariance, PTL

=============================================================================
