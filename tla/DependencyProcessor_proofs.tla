---------------------- MODULE DependencyProcessor_proofs ----------------------
(***************************************************************************)
(* Proofs about DependencyProcessor for every finite set of items and      *)
(* every dependency graph: the state is well typed, groups are exactly the *)
(* strongly connected components, the ordering never gets stuck, and the   *)
(* whole algorithm implements DependencyOrder.                             *)
(***************************************************************************)
EXTENDS DependencyProcessor, FiniteSetTheorems, SequenceTheorems, WellFoundedInduction, TLAPS

-----------------------------------------------------------------------------
(* Reachability, for every set of items I and every dependency function d on *)
(* it.                                                                       *)

\* One dependency is a path.
LEMMA ReachesDirect ==
    ASSUME NEW I, NEW d \in [I -> SUBSET I], NEW a \in I, NEW b \in d[a]
    PROVE  Reaches(d, a, b)
BY DEF Reaches

\* A dependency in front of a path makes a path.
LEMMA ReachesCons ==
    ASSUME NEW I, NEW d \in [I -> SUBSET I],
           NEW a \in I, NEW b \in d[a], NEW c, Reaches(d, b, c)
    PROVE  Reaches(d, a, c)
BY DEF Reaches, Closed

\* Paths compose.
LEMMA ReachesTransitive ==
    ASSUME NEW I, NEW d \in [I -> SUBSET I],
           NEW a \in I, NEW b \in I, NEW c,
           Reaches(d, a, b), Reaches(d, b, c)
    PROVE  Reaches(d, a, c)
BY DEF Reaches, Closed

\* A closed set that holds what a uses holds everything reachable from a.
LEMMA ReachesStaysInClosed ==
    ASSUME NEW I, NEW d \in [I -> SUBSET I], NEW a \in I, NEW b,
           NEW S \in SUBSET I, d[a] \subseteq S, Closed(d, S),
           Reaches(d, a, b)
    PROVE  b \in S
BY DEF Reaches

\* Connected is an equivalence on the items.
LEMMA ConnectedEquivalence ==
    ASSUME NEW I, NEW d \in [I -> SUBSET I]
    PROVE  /\ \A x \in I : Connected(d, x, x)
           /\ \A x, y \in I : Connected(d, x, y) => Connected(d, y, x)
           /\ \A x, y, z \in I :
                Connected(d, x, y) /\ Connected(d, y, z) => Connected(d, x, z)
BY ReachesTransitive DEF Connected

-----------------------------------------------------------------------------
(* Facts about the operators. *)

\* A nonempty set of naturals has a least element, the one Least chooses.
LEMMA LeastProperties ==
    ASSUME NEW S \in SUBSET Nat, S # {}
    PROVE  /\ Least(S) \in S
           /\ \A y \in S : Least(S) <= y
<1>1. PICK n \in S : TRUE
    OBVIOUS
<1> DEFINE Below(x) == {y \in S : y <= x}
           Segments == {Below(x) : x \in S \cap 0..n}
<1>2. IsFiniteSet(0..n)
    BY FS_Interval
<1>3. IsWellFoundedOn(StrictSubsetOrdering(0..n), SUBSET (0..n))
    BY <1>2, FS_StrictSubsetOrderingWellFounded, FS_FiniteSubsetsOfFinite
<1>4. ASSUME NEW x \in S \cap 0..n
      PROVE  Below(x) \in SUBSET (0..n)
    <2>1. \A y \in S : y \in Nat
        OBVIOUS
    <2>2. x \in Nat /\ n \in Nat /\ x <= n
        BY <2>1
    <2>3. \A y \in Below(x) : y \in Nat /\ y <= x
        BY <2>1
    <2>4. \A y \in Below(x) : y \in 0..n
        BY <2>2, <2>3
    <2>5. QED
        BY <2>4
<1>5. Segments \in SUBSET SUBSET (0..n) /\ Segments # {}
    <2>1. n \in S \cap 0..n
        BY <1>1
    <2>2. Below(n) \in Segments
        BY <2>1
    <2> HIDE DEF Below
    <2>3. QED
        BY <2>2, <1>4
<1> HIDE DEF Segments
<1>6. PICK s \in Segments :
        \A t \in Segments : <<t, s>> \notin StrictSubsetOrdering(0..n)
    BY <1>3, <1>5, WFMin
<1>7. PICK x \in S \cap 0..n : s = Below(x)
    BY <1>6 DEF Segments
<1>8. \A y \in S : x <= y
    <2>1. SUFFICES ASSUME NEW y \in S, y < x
                   PROVE  FALSE
        BY <1>7
    <2>2. y \in S \cap 0..n
        BY <2>1, <1>7
    <2>3. Below(y) \in Segments
        BY <2>2 DEF Segments
    <2>4. Below(y) \subseteq Below(x) /\ x \in Below(x) /\ x \notin Below(y)
        <3>1. \A z \in S : z \in Nat
            OBVIOUS
        <3>2. \A z \in S : z <= y => z <= x
            BY <2>1, <3>1
        <3>3. x <= x /\ ~(x <= y)
            BY <2>1, <3>1
        <3>4. QED
            BY <3>2, <3>3
    <2>5. <<Below(y), s>> \in StrictSubsetOrdering(0..n)
        BY <2>3, <2>4, <1>5, <1>6, <1>7 DEF StrictSubsetOrdering
    <2>6. QED
        BY <2>3, <2>5, <1>6
<1>9. QED
    BY <1>7, <1>8 DEF Least

-----------------------------------------------------------------------------
(***************************************************************************)
(* The inductive invariant.  TypeOK alone is not inductive: the steps of a *)
(* query read the top of the stack and the pair the merge loop is at, so   *)
(* both must exist while a query runs.                                     *)
(***************************************************************************)

QueryHasPair == pc = "query" => stack # <<>> /\ Waiting # {}

TypeInv == TypeOK /\ QueryHasPair

\* The items the current query has met: visited, or waiting to be called.
Met == visited \cup UNION {stack[k] : k \in DOMAIN stack}

\* The state of the depth-first search: it started at Used, everything it
\* met is reachable from there, and what a visited item uses was met too and
\* is not the searched item.
QueryInv ==
    pc = "query" =>
        /\ Used \in Met
        /\ \A x \in Met : x = Used \/ Reaches(deps, Used, x)
        /\ \A x \in visited : deps[x] \subseteq Met /\ User \notin deps[x]

\* The circular dependencies the merge loop has passed are merged.
MergedSoFar ==
    /\ \A x \in items : pending[x] \subseteq deps[x]
    /\ \A x \in items : \A y \in deps[x] \ pending[x] :
            Reaches(deps, y, x) => table[x] = table[y]

\* The state of the ordering loop.
OrderInv ==
    /\ pc \in {"merge", "query"} =>
            unprocessed = {} /\ processed = {} /\ ordered = <<>>
    /\ pc \in {"order", "done"} =>
            /\ Waiting = {}
            /\ processed = {x \in items : table[x] \notin unprocessed}
            /\ unprocessed \subseteq {table[x] : x \in items}
    /\ pc = "done" => unprocessed = {}
    /\ processed = UNION {ordered[k] : k \in DOMAIN ordered}
    /\ \A j, k \in DOMAIN ordered : j # k => ordered[j] \cap ordered[k] = {}

MergeInv ==
    /\ TypeInv
    /\ QueryInv
    /\ GroupsSound
    /\ MergedSoFar

Inv ==
    /\ MergeInv
    /\ OrderInv
    /\ DependenciesFirst

-----------------------------------------------------------------------------
(* Type correctness. *)

\* The rank of an item is a natural number, and ranks of different items differ.
LEMMA RankProperties ==
    ASSUME items \in SUBSET Universe
    PROVE  /\ \A x \in items : Rank(x) \in Nat
           /\ \A x, y \in items : Rank(x) = Rank(y) => x = y
<1>1. IsFiniteSet(items) /\ items \subseteq Nat
    BY UniverseAssumption, FS_Subset
<1> DEFINE Less(x) == {y \in items : y < x}
<1>2. \A x \in items : IsFiniteSet(Less(x)) /\ Cardinality(Less(x)) \in Nat
    BY <1>1, FS_Subset, FS_CardinalityType
<1>3. ASSUME NEW x \in items, NEW y \in items, x < y
      PROVE  Cardinality(Less(x)) # Cardinality(Less(y))
    <2>1. \A z \in items : z < x => z < y
        BY <1>1, <1>3
    <2>2. Less(x) \subseteq Less(y)
        BY <2>1
    <2> x \in Less(y) /\ x \notin Less(x)
        BY <1>1, <1>3
    <2>3. Less(x) # Less(y) /\ Less(x) \in SUBSET Less(y)
        BY <2>2
    <2> HIDE DEF Less
    <2>4. QED
        BY <2>3, <1>2, FS_Subset
<1>4. \A x, y \in items : Rank(x) = Rank(y) => x = y
    <2>1. SUFFICES ASSUME NEW x \in items, NEW y \in items, x # y
                   PROVE  Rank(x) # Rank(y)
        OBVIOUS
    <2>2. x < y \/ y < x
        BY <2>1, <1>1
    <2>3. QED
        BY <2>2, <1>3 DEF Rank
<1>5. QED
    BY <1>2, <1>4 DEF Rank

\* While the merge loop waits for work, its current pair is a dependency.
LEMMA PairProperties ==
    ASSUME TypeOK, Waiting # {}
    PROVE  /\ User \in items
           /\ Used \in pending[User]
           /\ Used \in items
<1>1. items \subseteq Nat
    BY UniverseAssumption DEF TypeOK
<1>2. Waiting \in SUBSET Nat /\ Waiting \subseteq items
    BY <1>1 DEF Waiting
<1>3. User \in Waiting
    BY <1>2, LeastProperties DEF User
<1>4. User \in items /\ pending[User] # {} /\ pending[User] \in SUBSET items
    BY <1>2, <1>3 DEF Waiting, TypeOK
<1>5. Used \in pending[User]
    BY <1>1, <1>4, LeastProperties DEF Used
<1>6. QED
    BY <1>4, <1>5

\* The next call of a query is on a frame of the stack.
LEMMA CalleeProperties ==
    ASSUME TypeOK, stack # <<>>, Top # {}
    PROVE  /\ Len(stack) \in 1..Len(stack)
           /\ Top \in SUBSET items
           /\ Callee \in Top
           /\ Callee \in items
<1>1. Len(stack) \in 1..Len(stack)
    BY EmptySeq, LenProperties DEF TypeOK
<1>2. Top \in SUBSET items
    BY <1>1 DEF TypeOK, Top
<1>3. items \subseteq Nat
    BY UniverseAssumption DEF TypeOK
<1>4. Callee \in Top
    BY <1>2, <1>3, LeastProperties DEF Callee
<1>5. QED
    BY <1>1, <1>2, <1>4

LEMMA TypeInit == Init => TypeInv
<1> SUFFICES ASSUME Init
             PROVE  TypeInv
    OBVIOUS
<1> USE DEF Init, InitRest, InitTable
<1>1. table \in [items -> Nat]
    BY RankProperties
<1>2. stack \in Seq(SUBSET items) /\ ordered \in Seq(SUBSET items)
    BY EmptySeq
<1>3. QED
    BY <1>1, <1>2 DEF TypeInv, TypeOK, QueryHasPair

\* Every step keeps the state well typed and a running query its pair.
LEMMA TypeStep == TypeInv /\ [Next]_vars => TypeInv'
<1> SUFFICES ASSUME TypeInv, [Next]_vars
             PROVE  TypeInv'
    OBVIOUS
<1> USE DEF TypeInv, TypeOK, QueryHasPair, graphVars, mergeVars, queryVars, orderVars
<1>1. CASE StartQuery
    <2>1. Used \in items
        BY <1>1, PairProperties DEF StartQuery
    <2>2. stack' \in Seq(SUBSET items') /\ stack' # <<>>
        BY <1>1, <2>1 DEF StartQuery
    <2>3. QED
        BY <1>1, <2>2 DEF StartQuery, Waiting
<1>2. CASE SkipVisited
    <2>1. Top # {} /\ stack # <<>> /\ Waiting # {}
        BY <1>2 DEF SkipVisited, Calling
    <2>2. Top \ {Callee} \in SUBSET items /\ Len(stack) \in DOMAIN stack
        BY <2>1, CalleeProperties
    <2>3. stack' \in Seq(SUBSET items') /\ stack' # <<>>
        BY <1>2, <2>1, <2>2 DEF SkipVisited, PopCall, Top
    <2>4. QED
        BY <1>2, <2>1, <2>3 DEF SkipVisited, Waiting
<1>3. CASE Descend
    <2>1. Top # {} /\ stack # <<>> /\ Waiting # {}
        BY <1>3 DEF Descend, Calling
    <2>2. Top \ {Callee} \in SUBSET items /\ Len(stack) \in DOMAIN stack
        BY <2>1, CalleeProperties
    <2>3. PopCall \in Seq(SUBSET items)
        BY <2>1, <2>2 DEF PopCall, Top
    <2>4. Callee \in items /\ deps[Callee] \in SUBSET items
        BY <2>1, CalleeProperties
    <2>5. stack' \in Seq(SUBSET items') /\ stack' # <<>>
        BY <1>3, <2>3, <2>4, AppendProperties DEF Descend
    <2>6. visited' \in SUBSET items'
        BY <1>3, <2>4 DEF Descend
    <2>7. QED
        BY <1>3, <2>1, <2>5, <2>6 DEF Descend, Waiting
<1>4. CASE FoundCycle
    <2>1. Top # {} /\ stack # <<>> /\ Waiting # {}
        BY <1>4 DEF FoundCycle, Calling
    <2>2. User \in items /\ Used \in items /\ Callee \in items
        BY <2>1, PairProperties, CalleeProperties
    <2>3. table' \in [items' -> Nat]
        BY <1>4, <2>2 DEF FoundCycle, Merged
    <2>4. pending' \in [items' -> SUBSET items']
        BY <1>4, <2>2 DEF FoundCycle, PairDone
    <2>5. QED
        BY <1>4, <2>2, <2>3, <2>4, EmptySeq DEF FoundCycle
<1>5. CASE ReturnFalse
    <2>1. stack' \in Seq(SUBSET items') /\ Len(stack') = Len(stack) - 1
        <3>1. \A i \in 1..(Len(stack) - 1) : stack[i] \in SUBSET items
            BY LenProperties
        <3>2. QED
            BY <1>5, <3>1, SubSeqProperties, LenProperties DEF ReturnFalse
    <2>2. stack' # <<>>
        <3>1. Len(stack) \in Nat /\ Len(stack) > 1
            BY <1>5, LenProperties DEF ReturnFalse
        <3>2. Len(stack') > 0
            BY <2>1, <3>1
        <3>3. Len(<<>>) = 0
            BY EmptySeq
        <3>4. QED
            BY <3>2, <3>3
    <2>3. QED
        BY <1>5, <2>1, <2>2 DEF ReturnFalse, Waiting
<1>6. CASE NotCircular
    <2>1. User \in items
        BY <1>6, PairProperties DEF NotCircular
    <2>2. pending' \in [items' -> SUBSET items']
        BY <1>6, <2>1 DEF NotCircular, PairDone
    <2>3. QED
        BY <1>6, <2>2, EmptySeq DEF NotCircular
<1>7. CASE BuildLookup
    BY <1>7 DEF BuildLookup
<1>8. CASE EmitGroup
    <2>1. Group(Least(Ready)) \in SUBSET items
        BY DEF Group
    <2>2. ordered' \in Seq(SUBSET items')
        BY <1>8, <2>1, AppendProperties DEF EmitGroup
    <2>3. QED
        BY <1>8, <2>1, <2>2 DEF EmitGroup
<1>9. CASE Return
    BY <1>9 DEF Return
<1>10. CASE UNCHANGED vars
    BY <1>10 DEF vars, Waiting
<1>11. QED
    BY <1>1, <1>2, <1>3, <1>4, <1>5, <1>6, <1>7, <1>8, <1>9, <1>10
    DEF Next, Step, Terminated

\* The type invariant of the dependency ordering, for every set of items.
THEOREM TypeCorrect == Safety => []TypeOK
<1>1. TypeInv => TypeOK
    BY DEF TypeInv
<1>2. QED
    BY <1>1, TypeInit, TypeStep, PTL DEF Safety

-----------------------------------------------------------------------------
(* The merge loop: groups are strongly connected components. *)

\* A query that finds the searched item proves that the pair is circular.
LEMMA FoundCycleConnected ==
    ASSUME TypeInv, QueryInv, MergedSoFar, FoundCycle
    PROVE  Connected(deps, User, Used)
<1>1. Top # {} /\ stack # <<>> /\ Waiting # {} /\ pc = "query"
    BY DEF FoundCycle, Calling, TypeInv, QueryHasPair
<1>2. User \in items /\ Used \in items /\ Used \in deps[User]
    BY <1>1, PairProperties DEF TypeInv, MergedSoFar
<1>3. Callee \in items /\ Callee \in Top /\ Len(stack) \in DOMAIN stack
    BY <1>1, CalleeProperties, LenProperties DEF TypeInv, TypeOK
<1>4. Callee \in Met
    BY <1>3 DEF Met, Top
<1>5. User \in deps[Callee]
    BY DEF FoundCycle
<1>6. deps \in [items -> SUBSET items]
    BY DEF TypeInv, TypeOK
<1>7. Reaches(deps, Callee, User)
    BY <1>3, <1>5, <1>6, ReachesDirect
<1>8. Callee = Used \/ Reaches(deps, Used, Callee)
    BY <1>1, <1>4 DEF QueryInv
<1>9. Reaches(deps, Used, User)
    BY <1>2, <1>3, <1>6, <1>7, <1>8, ReachesTransitive
<1>10. Reaches(deps, User, Used)
    BY <1>2, <1>6, ReachesDirect
<1>11. QED
    BY <1>9, <1>10 DEF Connected

\* A query that ends without finding the searched item proves that no path
\* leads back to it: the visited items are closed and do not use it.
LEMMA NotCircularUnreachable ==
    ASSUME TypeInv, QueryInv, NotCircular
    PROVE  ~Reaches(deps, Used, User)
<1>1. pc = "query" /\ Waiting # {} /\ Len(stack) = 1 /\ Top = {}
    BY DEF NotCircular, TypeInv, QueryHasPair
<1>2. User \in items /\ Used \in items
    BY <1>1, PairProperties DEF TypeInv
<1>3. DOMAIN stack = {1} /\ stack[1] = {}
    BY <1>1, LenProperties DEF TypeInv, TypeOK, Top
<1>4. Met = visited
    BY <1>3 DEF Met
<1> DEFINE S == visited \ {User}
<1>5. \A x \in visited : deps[x] \subseteq S
    BY <1>1, <1>4 DEF QueryInv
<1>6. Used \in visited
    BY <1>1, <1>4 DEF QueryInv
<1>7. S \in SUBSET items /\ deps[Used] \subseteq S /\ Closed(deps, S)
    BY <1>5, <1>6 DEF Closed, TypeInv, TypeOK
<1>8. deps \in [items -> SUBSET items]
    BY DEF TypeInv, TypeOK
<1>9. Reaches(deps, Used, User) => User \in S
    BY <1>2, <1>7, <1>8, ReachesStaysInClosed
<1>10. QED
    BY <1>9

\* The steps of a query keep what is known about the items it met.
LEMMA QueryStep ==
    ASSUME TypeInv, QueryInv, [Next]_vars
    PROVE  QueryInv'
<1> USE DEF graphVars, mergeVars, queryVars, orderVars
<1>1. CASE StartQuery
    <2>1. User' = User /\ Used' = Used
        BY <1>1 DEF StartQuery, User, Used, Waiting
    <2>2. Met' = {Used}
        <3>1. DOMAIN <<{Used}>> = {1} /\ <<{Used}>>[1] = {Used}
            OBVIOUS
        <3>2. QED
            BY <1>1, <3>1 DEF StartQuery, Met
    <2>3. QED
        BY <1>1, <2>1, <2>2 DEF StartQuery, QueryInv
<1>2. ASSUME Calling
      PROVE  /\ stack \in Seq(SUBSET items) /\ Len(stack) \in DOMAIN stack
             /\ Callee \in Top /\ Callee \in items /\ Callee \in Met
             /\ PopCall \in Seq(SUBSET items)
             /\ DOMAIN PopCall = DOMAIN stack
             /\ Met \subseteq (UNION {PopCall[k] : k \in DOMAIN stack}) \cup visited \cup {Callee}
             /\ UNION {PopCall[k] : k \in DOMAIN stack} \subseteq Met
    <2>1. Top # {} /\ stack # <<>>
        BY <1>2 DEF Calling, TypeInv, QueryHasPair
    <2>2. /\ stack \in Seq(SUBSET items) /\ Len(stack) \in DOMAIN stack
          /\ Callee \in Top /\ Callee \in items /\ Top \in SUBSET items
        BY <2>1, CalleeProperties, LenProperties DEF TypeInv, TypeOK
    <2>3. PopCall \in Seq(SUBSET items) /\ DOMAIN PopCall = DOMAIN stack
        BY <2>2 DEF PopCall, Top
    <2>4. \A k \in DOMAIN stack :
            /\ PopCall[k] \subseteq stack[k]
            /\ stack[k] \subseteq PopCall[k] \cup {Callee}
        BY <2>2 DEF PopCall, Top
    <2>5. QED
        BY <2>2, <2>3, <2>4 DEF Met, Top
<1>3. CASE SkipVisited
    <2>1. User' = User /\ Used' = Used
        BY <1>3 DEF SkipVisited, User, Used, Waiting
    <2>2. Calling /\ Callee \in visited /\ stack' = PopCall /\ visited' = visited
        BY <1>3 DEF SkipVisited
    <2>3. Met' = Met
        BY <1>2, <2>2 DEF Met
    <2>4. QED
        BY <1>3, <2>1, <2>3 DEF SkipVisited, QueryInv
<1>4. CASE Descend
    <2>1. User' = User /\ Used' = Used /\ deps' = deps
        BY <1>4 DEF Descend, User, Used, Waiting
    <2>2. /\ Calling /\ User \notin deps[Callee]
          /\ stack' = Append(PopCall, deps[Callee])
          /\ visited' = visited \cup {Callee}
        BY <1>4 DEF Descend
    <2>3. deps \in [items -> SUBSET items] /\ deps[Callee] \in SUBSET items
        BY <1>2, <2>2 DEF TypeInv, TypeOK
    <2>4. /\ DOMAIN stack' = DOMAIN PopCall \cup {Len(PopCall) + 1}
          /\ \A k \in DOMAIN PopCall : stack'[k] = PopCall[k]
          /\ stack'[Len(PopCall) + 1] = deps[Callee]
        BY <1>2, <2>2, <2>3, AppendProperties, LenProperties
    <2>5. UNION {stack'[k] : k \in DOMAIN stack'}
            = (UNION {PopCall[k] : k \in DOMAIN stack}) \cup deps[Callee]
        BY <1>2, <2>2, <2>4
    <2>6. Met' = Met \cup deps[Callee]
        BY <1>2, <2>2, <2>5 DEF Met
    <2>7. pc = "query" /\ pc' = "query"
        BY <1>4 DEF Descend, Calling
    <2>8. Callee = Used \/ Reaches(deps, Used, Callee)
        BY <1>2, <2>2, <2>7 DEF QueryInv
    <2>9. Used \in items
        BY <2>7, PairProperties DEF TypeInv, QueryHasPair
    <2>10. \A x \in deps[Callee] : Reaches(deps, Used, x)
        BY <1>2, <2>2, <2>3, <2>8, <2>9, ReachesDirect, ReachesTransitive
    <2>11. QED
        BY <2>1, <2>2, <2>6, <2>7, <2>10 DEF QueryInv
<1>5. CASE ReturnFalse
    <2>1. User' = User /\ Used' = Used
        BY <1>5 DEF ReturnFalse, User, Used, Waiting
    <2>2. Len(stack) \in Nat /\ Len(stack) > 1 /\ DOMAIN stack = 1..Len(stack)
        BY <1>5, LenProperties DEF ReturnFalse, TypeInv, TypeOK
    <2>3. \A i \in 1..(Len(stack) - 1) : stack[i] \in SUBSET items
        BY <2>2 DEF TypeInv, TypeOK
    <2>4. /\ DOMAIN stack' = 1..(Len(stack) - 1)
          /\ \A k \in 1..(Len(stack) - 1) : stack'[k] = stack[k]
        BY <1>5, <2>2, <2>3, SubSeqProperties, LenProperties DEF ReturnFalse
    <2>5. \A k \in DOMAIN stack : stack[k] # {} => k \in DOMAIN stack'
        BY <1>5, <2>2, <2>4 DEF ReturnFalse, Top
    <2>6. Met' = Met
        BY <1>5, <2>2, <2>4, <2>5 DEF ReturnFalse, Met
    <2>7. QED
        BY <1>5, <2>1, <2>6 DEF ReturnFalse, QueryInv
<1>6. CASE UNCHANGED vars
    <2>1. Met' = Met /\ User' = User /\ Used' = Used
        BY <1>6 DEF vars, Met, User, Used, Waiting
    <2>2. QED
        BY <1>6, <2>1 DEF vars, QueryInv
<1>7. CASE FoundCycle \/ NotCircular \/ BuildLookup \/ EmitGroup \/ Return
    <2>1. pc' # "query"
        BY <1>7 DEF FoundCycle, NotCircular, BuildLookup, EmitGroup, Return
    <2>2. QED
        BY <2>1 DEF QueryInv
<1>8. QED
    BY <1>1, <1>3, <1>4, <1>5, <1>6, <1>7 DEF Next, Step, Terminated

\* A merge of two connected items leaves every group connected.
LEMMA MergeKeepsSound ==
    ASSUME TypeInv, GroupsSound, NEW a \in items, NEW b \in items,
           Connected(deps, a, b), items' = items, deps' = deps,
           table' = Merged(a, b)
    PROVE  GroupsSound'
<1>1. deps \in [items -> SUBSET items]
    BY DEF TypeInv, TypeOK
<1>2. SUFFICES ASSUME NEW x \in items, NEW y \in items, table'[x] = table'[y]
               PROVE  Connected(deps, x, y)
    BY DEF GroupsSound
<1>3. /\ table'[x] = IF table[x] = table[a] THEN table[b] ELSE table[x]
      /\ table'[y] = IF table[y] = table[a] THEN table[b] ELSE table[y]
    BY DEF Merged
<1>4. \A u, v \in items : table[u] = table[v] => Connected(deps, u, v)
    BY DEF GroupsSound
<1>5. CASE table[x] = table[y]
    BY <1>4, <1>5
<1>6. CASE table[x] = table[a] /\ table[y] = table[b]
    <2>1. Connected(deps, x, a) /\ Connected(deps, b, y)
        BY <1>4, <1>6
    <2>2. QED
        BY <1>1, <2>1, ConnectedEquivalence
<1>7. CASE table[y] = table[a] /\ table[x] = table[b]
    <2>1. Connected(deps, y, a) /\ Connected(deps, b, x)
        BY <1>4, <1>7
    <2>2. Connected(deps, y, x)
        BY <1>1, <2>1, ConnectedEquivalence
    <2>3. QED
        BY <1>1, <2>2, ConnectedEquivalence
<1>8. QED
    BY <1>2, <1>3, <1>5, <1>6, <1>7

\* The merge loop keeps what it knows about the dependencies it passed.
LEMMA MergeStep ==
    ASSUME MergeInv, [Next]_vars
    PROVE  GroupsSound' /\ MergedSoFar'
<1> USE DEF graphVars, mergeVars, queryVars, orderVars
<1>1. TypeInv /\ QueryInv /\ GroupsSound /\ MergedSoFar
    BY DEF MergeInv
<1>2. /\ deps \in [items -> SUBSET items]
      /\ table \in [items -> Nat]
      /\ pending \in [items -> SUBSET items]
    BY <1>1 DEF TypeInv, TypeOK
<1>3. CASE FoundCycle
    <2>1. Waiting # {}
        BY <1>1, <1>3 DEF FoundCycle, Calling, TypeInv, QueryHasPair
    <2>2. User \in items /\ Used \in items
        BY <1>1, <2>1, PairProperties DEF TypeInv
    <2>3. /\ items' = items /\ deps' = deps /\ table' = Merged(User, Used)
          /\ pending' = [pending EXCEPT ![User] = @ \ {Used}]
        BY <1>3 DEF FoundCycle, PairDone
    <2>4. GroupsSound'
        BY <1>1, <1>3, <2>2, <2>3, FoundCycleConnected, MergeKeepsSound
    <2>5. \A x, y \in items : table[x] = table[y] => table'[x] = table'[y]
        BY <2>3 DEF Merged
    <2>6. table'[User] = table'[Used]
        BY <2>2, <2>3 DEF Merged
    <2>7. \A x \in items : pending'[x] = IF x = User THEN pending[x] \ {Used} ELSE pending[x]
        BY <1>2, <2>3
    <2>8. ASSUME NEW x \in items, NEW y \in deps[x] \ pending'[x],
                 Reaches(deps, y, x)
          PROVE  table'[x] = table'[y]
        <3>1. y \in items
            BY <1>2
        <3>2. CASE y \notin pending[x]
            BY <1>1, <2>5, <2>8, <3>1, <3>2 DEF MergedSoFar
        <3>3. CASE y \in pending[x]
            <4>1. x = User /\ y = Used
                BY <2>7, <2>8, <3>3
            <4>2. QED
                BY <2>6, <4>1
        <3>4. QED
            BY <3>2, <3>3
    <2>9. \A x \in items : pending'[x] \subseteq deps[x]
        BY <1>1, <2>7 DEF MergedSoFar
    <2>10. QED
        BY <2>3, <2>4, <2>8, <2>9 DEF MergedSoFar
<1>4. CASE NotCircular
    <2>1. Waiting # {}
        BY <1>1, <1>4 DEF NotCircular, TypeInv, QueryHasPair
    <2>2. ~Reaches(deps, Used, User)
        BY <1>1, <1>4, NotCircularUnreachable
    <2>3. /\ items' = items /\ deps' = deps /\ table' = table
          /\ pending' = [pending EXCEPT ![User] = @ \ {Used}]
        BY <1>4 DEF NotCircular, PairDone
    <2>4. \A x \in items : pending'[x] = IF x = User THEN pending[x] \ {Used} ELSE pending[x]
        BY <1>2, <2>3
    <2>5. GroupsSound'
        BY <1>1, <2>3 DEF GroupsSound
    <2>6. ASSUME NEW x \in items, NEW y \in deps[x] \ pending'[x],
                 Reaches(deps, y, x)
          PROVE  table[x] = table[y]
        <3>1. ~(x = User /\ y = Used)
            BY <2>2, <2>6
        <3>2. y \notin pending[x]
            BY <2>4, <3>1
        <3>3. QED
            BY <1>1, <2>6, <3>2 DEF MergedSoFar
    <2>7. \A x \in items : pending'[x] \subseteq deps[x]
        BY <1>1, <2>4 DEF MergedSoFar
    <2>8. QED
        BY <2>3, <2>5, <2>6, <2>7 DEF MergedSoFar
<1>5. CASE \/ StartQuery \/ SkipVisited \/ Descend \/ ReturnFalse
           \/ BuildLookup \/ EmitGroup \/ Return \/ UNCHANGED vars
    <2>1. UNCHANGED <<items, deps, table, pending>>
        BY <1>5 DEF StartQuery, SkipVisited, Descend, ReturnFalse, BuildLookup,
                    EmitGroup, Return, vars
    <2>2. QED
        BY <1>1, <2>1 DEF GroupsSound, MergedSoFar
<1>6. QED
    BY <1>3, <1>4, <1>5 DEF Next, Step, Terminated

\* When no dependency is left to look at, connected items share a group:
\* the items that share the group of x, or do not reach x, are closed.
LEMMA MergedAll ==
    ASSUME TypeInv, GroupsSound, MergedSoFar, Waiting = {},
           NEW x \in items, NEW y \in items, Connected(deps, x, y)
    PROVE  table[x] = table[y]
<1>1. deps \in [items -> SUBSET items]
    BY DEF TypeInv, TypeOK
<1>2. \A u \in items : \A v \in deps[u] : Reaches(deps, v, u) => table[u] = table[v]
    <2>1. \A u \in items : pending[u] = {}
        BY DEF Waiting
    <2>2. QED
        BY <2>1 DEF MergedSoFar
<1>3. SUFFICES ASSUME Reaches(deps, x, y), Reaches(deps, y, x)
               PROVE  table[x] = table[y]
    BY DEF Connected
<1> DEFINE S == {z \in items : table[z] = table[x] \/ ~Reaches(deps, z, x)}
<1>4. ASSUME NEW z \in S, NEW w \in deps[z], Reaches(deps, w, x)
      PROVE  table[w] = table[x]
    <2>1. z \in items /\ w \in items
        BY <1>1
    <2>2. Reaches(deps, z, x)
        BY <1>1, <1>4, <2>1, ReachesCons
    <2>3. table[z] = table[x]
        BY <2>2
    <2>4. x = z \/ Reaches(deps, x, z)
        BY <2>1, <2>3 DEF GroupsSound, Connected
    <2>5. Reaches(deps, w, z)
        BY <1>1, <1>4, <2>1, <2>4, ReachesTransitive
    <2>6. QED
        BY <1>2, <2>1, <2>3, <2>5
<1>5. S \in SUBSET items /\ Closed(deps, S)
    BY <1>1, <1>4 DEF Closed
<1>6. deps[x] \subseteq S
    BY <1>5 DEF Closed
<1>7. y \in S
    BY <1>1, <1>3, <1>5, <1>6, ReachesStaysInClosed
<1>8. QED
    BY <1>3, <1>7

-----------------------------------------------------------------------------
(* The ordering loop. *)

\* The step of EmitGroup: a ready group is an unprocessed, nonempty group.
LEMMA ReadyProperties ==
    ASSUME TypeOK, Ready # {}
    PROVE  /\ Least(Ready) \in Ready
           /\ Least(Ready) \in unprocessed
           /\ \A x \in Group(Least(Ready)) :
                deps[x] \subseteq processed \cup Group(Least(Ready))
<1>1. Ready \in SUBSET Nat
    BY DEF Ready, TypeOK
<1>2. Least(Ready) \in Ready
    BY <1>1, LeastProperties
<1>3. QED
    BY <1>2 DEF Ready

\* The steps of the ordering loop keep its bookkeeping consistent.
LEMMA OrderStep ==
    ASSUME TypeInv, OrderInv, [Next]_vars
    PROVE  OrderInv'
<1> USE DEF graphVars, mergeVars, queryVars, orderVars
<1>1. CASE EmitGroup
    <2> DEFINE g == Least(Ready)
    <2>1. /\ g \in unprocessed
          /\ pc = "order" /\ pc' = "order"
          /\ ordered' = Append(ordered, Group(g))
          /\ processed' = processed \cup Group(g)
          /\ unprocessed' = unprocessed \ {g}
          /\ UNCHANGED <<items, deps, table, pending>>
        BY <1>1, ReadyProperties DEF EmitGroup, TypeInv
    <2>2. /\ Waiting = {}
          /\ processed = {x \in items : table[x] \notin unprocessed}
          /\ unprocessed \subseteq {table[x] : x \in items}
          /\ processed = UNION {ordered[k] : k \in DOMAIN ordered}
          /\ \A j, k \in DOMAIN ordered : j # k => ordered[j] \cap ordered[k] = {}
        BY <2>1 DEF OrderInv
    <2>3. Group(g) = {x \in items : table[x] = g}
        BY DEF Group
    <2>4. processed' = {x \in items : table[x] \notin unprocessed'}
        BY <2>1, <2>2, <2>3
    <2>5. Group(g) \cap processed = {}
        BY <2>1, <2>2, <2>3
    <2>6. /\ Len(ordered) \in Nat /\ DOMAIN ordered = 1..Len(ordered)
          /\ ordered \in Seq(SUBSET items) /\ Group(g) \in SUBSET items
        BY <2>3, LenProperties DEF TypeInv, TypeOK
    <2> DEFINE n == Len(ordered) + 1
    <2>7. /\ DOMAIN ordered' = DOMAIN ordered \cup {n}
          /\ \A k \in DOMAIN ordered : ordered'[k] = ordered[k]
          /\ ordered'[n] = Group(g)
          /\ n \notin DOMAIN ordered
        BY <2>1, <2>6, AppendProperties, LenProperties
    <2> HIDE DEF n, g
    <2>8. processed' = UNION {ordered'[k] : k \in DOMAIN ordered'}
        BY <2>1, <2>2, <2>7
    <2>9. ASSUME NEW j \in DOMAIN ordered', NEW k \in DOMAIN ordered', j # k
          PROVE  ordered'[j] \cap ordered'[k] = {}
        <3>1. \A i \in DOMAIN ordered : ordered[i] \cap Group(g) = {}
            BY <2>2, <2>5
        <3>2. QED
            BY <2>2, <2>7, <2>9, <3>1
    <2>10. Waiting' = {}
        BY <2>1, <2>2 DEF Waiting
    <2>11. QED
        BY <2>1, <2>2, <2>4, <2>8, <2>9, <2>10 DEF OrderInv
<1>2. CASE BuildLookup
    <2>1. /\ pc = "merge" /\ pc' = "order" /\ Waiting = {} /\ Waiting' = {}
          /\ unprocessed' = {table[x] : x \in items}
          /\ UNCHANGED <<items, table, processed, ordered>>
        BY <1>2 DEF BuildLookup, Waiting
    <2>2. QED
        BY <2>1 DEF OrderInv
<1>3. CASE Return
    BY <1>3 DEF Return, OrderInv, Waiting
<1>4. CASE UNCHANGED vars
    BY <1>4 DEF vars, OrderInv, Waiting
<1>5. CASE StartQuery \/ SkipVisited \/ Descend \/ FoundCycle \/ ReturnFalse \/ NotCircular
    <2>1. /\ pc \in {"merge", "query"} /\ pc' \in {"merge", "query"}
          /\ UNCHANGED <<unprocessed, processed, ordered>>
        BY <1>5 DEF StartQuery, SkipVisited, Descend, FoundCycle, ReturnFalse,
                    NotCircular, Calling
    <2>2. QED
        BY <2>1 DEF OrderInv
<1>6. QED
    BY <1>1, <1>2, <1>3, <1>4, <1>5 DEF Next, Step, Terminated

\* A group is emitted after the groups it uses.
LEMMA DependenciesStep ==
    ASSUME TypeInv, OrderInv, DependenciesFirst, [Next]_vars
    PROVE  DependenciesFirst'
<1> USE DEF graphVars, mergeVars, queryVars, orderVars
<1>1. CASE EmitGroup
    <2> DEFINE g == Least(Ready)
    <2>0. PICK n \in Nat : n = Len(ordered) + 1
        BY LenProperties DEF TypeInv, TypeOK
    <2>1. /\ \A x \in Group(g) : deps[x] \subseteq processed \cup Group(g)
          /\ ordered' = Append(ordered, Group(g)) /\ deps' = deps
        BY <1>1, ReadyProperties DEF EmitGroup, TypeInv
    <2>2. /\ Len(ordered) \in Nat /\ DOMAIN ordered = 1..Len(ordered)
          /\ ordered \in Seq(SUBSET items) /\ Group(g) \in SUBSET items
        BY LenProperties DEF TypeInv, TypeOK, Group
    <2>3. /\ DOMAIN ordered' = 1..n
          /\ \A k \in 1..Len(ordered) : ordered'[k] = ordered[k]
          /\ ordered'[n] = Group(g)
        BY <2>0, <2>1, <2>2, AppendProperties, LenProperties
    <2> HIDE DEF g
    <2>4. \A k \in 1..Len(ordered) : \A j \in 1..k : j \in 1..Len(ordered)
        BY <2>2
    <2>5. \A k \in 1..Len(ordered) : Emitted(k)' = Emitted(k)
        BY <2>3, <2>4 DEF Emitted
    <2>6. Emitted(n)' = processed \cup Group(g)
        <3>1. processed = UNION {ordered[k] : k \in 1..Len(ordered)}
            BY <2>2 DEF OrderInv
        <3>2. 1..n = 1..Len(ordered) \cup {n}
            BY <2>0, <2>2
        <3>3. QED
            BY <2>3, <3>1, <3>2 DEF Emitted
    <2>7. ASSUME NEW k \in 1..n, NEW x \in ordered'[k]
          PROVE  deps'[x] \subseteq Emitted(k)'
        <3>1. CASE k = n
            BY <2>1, <2>3, <2>6, <2>7, <3>1
        <3>2. CASE k # n
            <4>1. k \in 1..Len(ordered)
                BY <2>0, <2>2, <3>2
            <4>2. QED
                BY <2>1, <2>2, <2>3, <2>5, <2>7, <4>1 DEF DependenciesFirst
        <3>3. QED
            BY <3>1, <3>2
    <2>8. QED
        BY <2>3, <2>7 DEF DependenciesFirst
<1>2. CASE ordered' = ordered /\ deps' = deps
    BY <1>2 DEF DependenciesFirst, Emitted
<1>3. ~EmitGroup => ordered' = ordered /\ deps' = deps
    BY DEF Next, Step, Terminated, vars, StartQuery, SkipVisited, Descend, FoundCycle,
           ReturnFalse, NotCircular, BuildLookup, Return
<1>4. QED
    BY <1>1, <1>2, <1>3

\* While groups are left, one of them is ready: the group of an item from
\* which the fewest items can be reached uses nothing that is unprocessed.
LEMMA SomeGroupReady ==
    ASSUME MergeInv, OrderInv, pc = "order", unprocessed # {}
    PROVE  Ready # {}
<1>1. /\ deps \in [items -> SUBSET items]
      /\ IsFiniteSet(items)
    BY UniverseAssumption, FS_Subset DEF MergeInv, TypeInv, TypeOK
<1>2. /\ Waiting = {}
      /\ processed = {x \in items : table[x] \notin unprocessed}
      /\ unprocessed \subseteq {table[x] : x \in items}
    BY DEF OrderInv
<1> DEFINE Down(x) == {y \in items : y = x \/ Reaches(deps, x, y)}
           Downs == {Down(x) : x \in {z \in items : table[z] \in unprocessed}}
<1>3. IsWellFoundedOn(StrictSubsetOrdering(items), SUBSET items)
    BY <1>1, FS_StrictSubsetOrderingWellFounded, FS_FiniteSubsetsOfFinite
<1>4. Downs \in SUBSET SUBSET items /\ Downs # {}
    <2>1. PICK x \in items : table[x] \in unprocessed
        BY <1>2
    <2>2. Down(x) \in Downs
        BY <2>1
    <2>3. \A z \in items : Down(z) \in SUBSET items
        OBVIOUS
    <2> HIDE DEF Down
    <2>4. Downs \in SUBSET SUBSET items
        BY <2>3
    <2> HIDE DEF Downs
    <2>5. QED
        BY <2>2, <2>4
<1>5. PICK s \in Downs : \A t \in Downs : <<t, s>> \notin StrictSubsetOrdering(items)
    BY <1>3, <1>4, WFMin
<1>6. PICK x \in items : table[x] \in unprocessed /\ s = Down(x)
    BY <1>5
<1>7. ASSUME NEW z \in Group(table[x]), NEW w \in deps[z],
             w \notin processed, w \notin Group(table[x])
      PROVE  FALSE
    <2>1. z \in items /\ table[z] = table[x] /\ w \in items
        BY <1>1, <1>7 DEF Group
    <2>2. table[w] \in unprocessed /\ table[w] # table[x]
        BY <1>2, <1>7, <2>1 DEF Group
    <2>3. x = z \/ Reaches(deps, x, z)
        BY <2>1 DEF MergeInv, GroupsSound, Connected
    <2>4. Reaches(deps, z, w)
        BY <1>1, <2>1, ReachesDirect
    <2>5. Reaches(deps, x, w)
        BY <1>1, <2>1, <2>3, <2>4, ReachesTransitive
    <2>6. Down(w) \subseteq Down(x)
        BY <1>1, <2>1, <2>5, ReachesTransitive
    <2>7. ~Reaches(deps, w, x)
        <3>1. Reaches(deps, w, x) => Connected(deps, x, w)
            BY <2>5 DEF Connected
        <3>2. Connected(deps, x, w) => table[x] = table[w]
            BY <1>2, <2>1, MergedAll DEF MergeInv
        <3>3. QED
            BY <2>2, <3>1, <3>2
    <2>8. x \in Down(x) /\ x \notin Down(w)
        BY <2>2, <2>7
    <2>9. Down(w) \in Downs
        BY <2>1, <2>2
    <2>10. Down(w) \in SUBSET items /\ Down(x) \in SUBSET items
        OBVIOUS
    <2> HIDE DEF Down, Downs
    <2>11. <<Down(w), s>> \in StrictSubsetOrdering(items)
        BY <1>6, <2>6, <2>8, <2>10 DEF StrictSubsetOrdering
    <2>12. QED
        BY <1>5, <2>9, <2>11
<1>8. table[x] \in Ready
    BY <1>6, <1>7 DEF Ready
<1>9. QED
    BY <1>8

-----------------------------------------------------------------------------
(* The theorems. *)

LEMMA InvInit == Init => Inv
<1> SUFFICES ASSUME Init
             PROVE  Inv
    OBVIOUS
<1>1. TypeInv
    BY TypeInit
<1>2. QueryInv /\ MergedSoFar
    BY DEF Init, InitRest, QueryInv, MergedSoFar
<1>3. GroupsSound
    BY RankProperties DEF Init, InitRest, InitTable, GroupsSound, Connected
<1>4. ordered = <<>> /\ DOMAIN ordered = {}
    BY EmptySeq DEF Init, InitRest
<1>5. OrderInv /\ DependenciesFirst
    BY <1>4 DEF Init, InitRest, OrderInv, DependenciesFirst
<1>6. QED
    BY <1>1, <1>2, <1>3, <1>5 DEF Inv, MergeInv

LEMMA InvStep == Inv /\ [Next]_vars => Inv'
BY TypeStep, QueryStep, MergeStep, OrderStep, DependenciesStep DEF Inv, MergeInv

\* The inductive invariant holds in every reachable state.
THEOREM Invariance == Safety => []Inv
BY InvInit, InvStep, PTL DEF Safety

\* Items are in one group only when they depend on each other.
THEOREM SoundGroups == Safety => []GroupsSound
<1>1. Inv => GroupsSound
    BY DEF Inv, MergeInv
<1>2. QED
    BY <1>1, Invariance, PTL

\* After the merge loop, items that depend on each other are in one group.
THEOREM CompleteGroups == Safety => []GroupsComplete
<1>1. Inv => GroupsComplete
    BY MergedAll DEF Inv, MergeInv, OrderInv, GroupsComplete
<1>2. QED
    BY <1>1, Invariance, PTL

\* panic!("Cyclic dep groups") is never reached.
THEOREM NeverStuck == Safety => []NoCyclicGroups
<1>1. Inv => NoCyclicGroups
    BY SomeGroupReady DEF Inv, NoCyclicGroups
<1>2. QED
    BY <1>1, Invariance, PTL

\* A group comes after every group it uses.
THEOREM OrderedGroups == Safety => []DependenciesFirst
<1>1. Inv => DependenciesFirst
    BY DEF Inv
<1>2. QED
    BY <1>1, Invariance, PTL

\* No item is lost and none is handed out twice.
THEOREM CompleteOrder == Safety => []EachItemOnce
<1>1. ASSUME Inv, pc = "done", NEW x \in items
      PROVE  \E k \in DOMAIN ordered :
                /\ x \in ordered[k]
                /\ \A j \in DOMAIN ordered : x \in ordered[j] => j = k
    <2>1. x \in UNION {ordered[k] : k \in DOMAIN ordered}
        BY <1>1 DEF Inv, OrderInv
    <2>2. PICK k \in DOMAIN ordered : x \in ordered[k]
        BY <2>1
    <2>3. \A j \in DOMAIN ordered : x \in ordered[j] => j = k
        BY <1>1, <2>2 DEF Inv, OrderInv
    <2>4. QED
        BY <2>2, <2>3
<1>2. Inv => EachItemOnce
    BY <1>1 DEF EachItemOnce
<1>3. QED
    BY <1>2, Invariance, PTL

-----------------------------------------------------------------------------
(* Refinement. *)

\* An emitted group is the strongly connected component of each of its members.
LEMMA EmitHandsOut ==
    ASSUME Inv, EmitGroup
    PROVE  Order!Next
<1> DEFINE g == Least(Ready)
<1>1. /\ g \in unprocessed
      /\ \A x \in Group(g) : deps[x] \subseteq processed \cup Group(g)
      /\ ordered' = Append(ordered, Group(g))
      /\ UNCHANGED <<items, deps>>
      /\ pc = "order"
    BY ReadyProperties DEF EmitGroup, Inv, MergeInv, TypeInv, graphVars
<1>2. /\ Waiting = {}
      /\ processed = {x \in items : table[x] \notin unprocessed}
      /\ unprocessed \subseteq {table[x] : x \in items}
      /\ processed = Order!HandedOut
    BY <1>1 DEF Inv, OrderInv, Order!HandedOut
<1>3. DOMAIN deps = items
    BY DEF Inv, MergeInv, TypeInv, TypeOK
<1> HIDE DEF g
<1>4. PICK x \in items : table[x] = g
    BY <1>1, <1>2
<1>5. ASSUME NEW y \in items
      PROVE  Connected(deps, x, y) <=> table[y] = g
    BY <1>2, <1>4, MergedAll DEF Inv, MergeInv, GroupsSound
<1>6. Order!Component(deps, x) = Group(g)
    BY <1>3, <1>5 DEF Order!Component, Order!Connected, Order!Reaches, Order!Closed,
                      Connected, Reaches, Closed, Group
<1>7. Order!HandOut(x)
    BY <1>1, <1>2, <1>4, <1>6 DEF Order!HandOut
<1>8. QED
    BY <1>4, <1>7 DEF Order!Next

\* The dependency ordering implements DependencyOrder: every run hands out
\* strongly connected components, dependencies first.
THEOREM Implements == Safety => Order!Safety
<1>1. Init => Order!Init
    BY DEF Init, InitRest, Order!Init
<1>2. Inv /\ [Next]_vars => [Order!Next]_(Order!vars)
    <2>1. SUFFICES ASSUME Inv, [Next]_vars
                   PROVE  Order!Next \/ UNCHANGED Order!vars
        OBVIOUS
    <2>2. CASE EmitGroup
        BY <2>1, <2>2, EmitHandsOut
    <2>3. CASE ~EmitGroup
        <3>1. UNCHANGED <<items, deps, ordered>>
            BY <2>1, <2>3
            DEF Next, Step, Terminated, vars, StartQuery, SkipVisited, Descend,
                FoundCycle, ReturnFalse, NotCircular, BuildLookup, Return,
                graphVars, mergeVars, queryVars, orderVars
        <3>2. QED
            BY <3>1 DEF Order!vars
    <2>4. QED
        BY <2>2, <2>3
<1>3. QED
    BY <1>1, <1>2, Invariance, PTL DEF Safety, Order!Safety

=============================================================================
