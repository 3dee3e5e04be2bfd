------------------------- MODULE DependencyProcessor -------------------------
(***************************************************************************)
(* The dependency ordering of the type checker: siko_type_checker's        *)
(* dependency_processor.rs.  Items (function ids) are merged into groups   *)
(* of circular dependencies and the groups are ordered so that each one    *)
(* comes after everything it uses.                                         *)
(*                                                                         *)
(* Every step of the program is a step here: the depth-first search        *)
(* depends_on is a machine with an explicit call stack, the merge loop     *)
(* runs one query per dependency, and the ordering loop one action per     *)
(* iteration of its while.  An iterator over a BTreeMap, a BTreeSet or a   *)
(* sorted Vec takes the least element first.                               *)
(***************************************************************************)
EXTENDS Naturals, Sequences, FiniteSets, Reachability

CONSTANT
    Universe    \* the ids an item may have (T: Ord)

ASSUME UniverseAssumption == Universe \subseteq Nat /\ IsFiniteSet(Universe)

VARIABLES
    items,         \* DependencyProcessor.items
    deps,          \* items_dependencies, as filled by collect_dependencies
    table,         \* GroupTable.table: the group id of every item
    pending,       \* the dependencies the merge loop has not looked at yet
    stack,         \* call stack of depends_on: a frame is the set of calls it has left
    visited,       \* the visited set of the current query
    unprocessed,   \* unprocessed_groups
    processed,     \* processed_items
    ordered,       \* ordered_groups
    pc             \* "merge", "query", "order" or "done"

graphVars == <<items, deps>>
mergeVars == <<table, pending>>
queryVars == <<stack, visited>>
orderVars == <<unprocessed, processed, ordered>>
vars == <<graphVars, mergeVars, queryVars, orderVars, pc>>

\* The element an ordered iterator yields first.
Least(S) == CHOOSE x \in S : \A y \in S : x <= y

\* The index that enumerate() gives an item of the sorted table.
Rank(x) == Cardinality({y \in items : y < x})

(***************************************************************************)
(* collect_dependencies, and step 1 of process_items: every item is a      *)
(* group of its own.                                                       *)
(***************************************************************************)
\* Mutant: items that use nothing get no entry in the group table.
InitTableUsersOnly == table = [x \in {y \in items : deps[y] # {}} |-> Rank(x)]

InitTable == table = [x \in items |-> Rank(x)]

InitRest ==
    /\ InitTable
    /\ pending = deps
    /\ stack = <<>>
    /\ visited = {}
    /\ unprocessed = {}
    /\ processed = {}
    /\ ordered = <<>>
    /\ pc = "merge"

Init ==
    /\ items \in SUBSET Universe
    /\ deps \in [items -> SUBSET items]
    /\ InitRest

-----------------------------------------------------------------------------
(* Step 2: merge the groups of circular dependencies. *)

\* The ids whose buckets the merge loop has not finished.
Waiting == {x \in items : pending[x] # {}}

\* The pair the merge loop is at: (id, dependency) of process_items.
User == Least(Waiting)
Used == Least(pending[User])

PairDone == pending' = [pending EXCEPT ![User] = @ \ {Used}]

\* Mutant: merge moves one item instead of its whole group.
MergedItemOnly(id1, id2) == [table EXCEPT ![id1] = table[id2]]

\* GroupTable::merge
Merged(id1, id2) ==
    [x \in items |-> IF table[x] = table[id1] THEN table[id2] ELSE table[x]]

\* self.depends_on(dependency, id, &mut visited) is called.
StartQuery ==
    /\ pc = "merge"
    /\ Waiting # {}
    /\ stack' = <<{Used}>>
    /\ visited' = {}
    /\ pc' = "query"
    /\ UNCHANGED <<graphVars, mergeVars, orderVars>>

Top == stack[Len(stack)]
Callee == Least(Top)

PopCall == [stack EXCEPT ![Len(stack)] = @ \ {Callee}]

\* The call depends_on(Callee, ...) is next.
Calling == pc = "query" /\ Top # {}

\* The callee was visited before: the call returns false.
SkipVisited ==
    /\ Calling
    /\ Callee \in visited
    /\ stack' = PopCall
    /\ UNCHANGED <<graphVars, mergeVars, visited, orderVars, pc>>

\* The callee uses neither the searched item nor was it visited: recurse into its dependencies.
Descend ==
    /\ Calling
    /\ Callee \notin visited
    /\ User \notin deps[Callee]
    /\ stack' = Append(PopCall, deps[Callee])
    /\ visited' = visited \cup {Callee}
    /\ UNCHANGED <<graphVars, mergeVars, orderVars, pc>>

\* Mutant: the search answers true for every item it has not visited.
FoundCycleUnchecked ==
    /\ Calling
    /\ Callee \notin visited
    /\ table' = Merged(User, Used)
    /\ PairDone
    /\ stack' = <<>>
    /\ visited' = visited \cup {Callee}
    /\ pc' = "merge"
    /\ UNCHANGED <<graphVars, orderVars>>

\* The callee uses the searched item: true is returned through all frames and the groups merge.
FoundCycle ==
    /\ Calling
    /\ Callee \notin visited
    /\ User \in deps[Callee]
    /\ table' = Merged(User, Used)
    /\ PairDone
    /\ stack' = <<>>
    /\ visited' = visited \cup {Callee}
    /\ pc' = "merge"
    /\ UNCHANGED <<graphVars, orderVars>>

\* A frame below the outermost one has no call left: it returns false.
ReturnFalse ==
    /\ pc = "query"
    /\ Top = {}
    /\ Len(stack) > 1
    /\ stack' = SubSeq(stack, 1, Len(stack) - 1)
    /\ UNCHANGED <<graphVars, mergeVars, visited, orderVars, pc>>

\* Mutant: the merge loop does not move on to the next dependency.
NotCircularAgain ==
    /\ pc = "query"
    /\ Top = {}
    /\ Len(stack) = 1
    /\ stack' = <<>>
    /\ pc' = "merge"
    /\ UNCHANGED <<graphVars, mergeVars, visited, orderVars>>

\* The outermost call returned false: the dependency is not circular.
NotCircular ==
    /\ pc = "query"
    /\ Top = {}
    /\ Len(stack) = 1
    /\ PairDone
    /\ stack' = <<>>
    /\ pc' = "merge"
    /\ UNCHANGED <<graphVars, table, visited, orderVars>>

-----------------------------------------------------------------------------
(* Steps 3 and 4: the group lookup table, and the ordering loop. *)

Group(g) == {x \in items : table[x] = g}

BuildLookup ==
    /\ pc = "merge"
    /\ Waiting = {}
    /\ unprocessed' = {table[x] : x \in items}
    /\ pc' = "order"
    /\ UNCHANGED <<graphVars, mergeVars, queryVars, processed, ordered>>

\* Mutant: dep_missing is reset for every item instead of for every group.
ReadyAnyMember == {g \in unprocessed :
                     \E x \in Group(g) : deps[x] \subseteq processed \cup Group(g)}

\* No member of the group misses a dependency: dep_missing stays false.
Ready == {g \in unprocessed :
            \A x \in Group(g) : deps[x] \subseteq processed \cup Group(g)}

\* One iteration of the while: the first ready group is emitted.  With no
\* ready group the code panics with "Cyclic dep groups"; here nothing is
\* enabled then.
EmitGroup ==
    /\ pc = "order"
    /\ Ready # {}
    /\ LET g == Least(Ready)
       IN  /\ ordered' = Append(ordered, Group(g))
           /\ processed' = processed \cup Group(g)
           /\ unprocessed' = unprocessed \ {g}
    /\ UNCHANGED <<graphVars, mergeVars, queryVars, pc>>

\* Mutant: the loop stops one group too early.
ReturnEarly ==
    /\ pc = "order"
    /\ Cardinality(unprocessed) <= 1
    /\ pc' = "done"
    /\ UNCHANGED <<graphVars, mergeVars, queryVars, orderVars>>

Return ==
    /\ pc = "order"
    /\ unprocessed = {}
    /\ pc' = "done"
    /\ UNCHANGED <<graphVars, mergeVars, queryVars, orderVars>>

Terminated == pc = "done" /\ UNCHANGED vars

Step ==
    \/ StartQuery \/ SkipVisited \/ Descend \/ FoundCycle \/ ReturnFalse
    \/ NotCircular \/ BuildLookup \/ EmitGroup \/ Return

Next == Step \/ Terminated

\* process_items is one sequential call: it keeps running until it returns.
Safety == Init /\ [][Next]_vars
Spec == Safety /\ WF_vars(Step)

-----------------------------------------------------------------------------
(* Properties. *)

TypeOK ==
    /\ items \in SUBSET Universe
    /\ deps \in [items -> SUBSET items]
    /\ table \in [items -> Nat]
    /\ pending \in [items -> SUBSET items]
    /\ stack \in Seq(SUBSET items)
    /\ visited \in SUBSET items
    /\ unprocessed \in SUBSET Nat
    /\ processed \in SUBSET items
    /\ ordered \in Seq(SUBSET items)
    /\ pc \in {"merge", "query", "order", "done"}

\* Items share a group only when they depend on each other: the merges never
\* join functions that are merely related.
GroupsSound ==
    \A x, y \in items : table[x] = table[y] => Connected(deps, x, y)

\* When the merge loop is over every circular dependency is inside one group,
\* although each query only compared one item with one of its dependencies.
GroupsComplete ==
    pc \in {"order", "done"} =>
        \A x, y \in items : Connected(deps, x, y) => table[x] = table[y]

\* The assumption behind panic!("Cyclic dep groups"): while groups are left,
\* one of them has all its dependencies processed.
NoCyclicGroups == pc = "order" /\ unprocessed # {} => Ready # {}

Emitted(k) == UNION {ordered[j] : j \in 1..k}

\* A group is emitted after everything it uses: the type checker meets a
\* function of another group only when its type is final.
DependenciesFirst ==
    \A k \in DOMAIN ordered :
        \A x \in ordered[k] : deps[x] \subseteq Emitted(k)

\* When the ordering returns, every item is in exactly one group.
EachItemOnce ==
    pc = "done" =>
        \A x \in items :
            \E k \in DOMAIN ordered :
                /\ x \in ordered[k]
                /\ \A j \in DOMAIN ordered : x \in ordered[j] => j = k

\* The search, its visited set and the ordering loop end for every graph.
Terminates == <>(pc = "done")

\* The implementation refines the abstract ordering.
Order == INSTANCE DependencyOrder WITH groups <- ordered
ImplementsOrder == Order!Spec

=============================================================================
