--------------------------- MODULE DependencyOrder ---------------------------
(***************************************************************************)
(* What DependencyProcessor::process_items promises, without the way it    *)
(* computes it: the items are handed out in groups, each group is exactly  *)
(* one strongly connected component of the dependency graph, and a group   *)
(* is handed out only when everything its members use outside the group   *)
(* has been handed out before.                                             *)
(***************************************************************************)
EXTENDS Sequences, Reachability

VARIABLES
    items,    \* the items to order
    deps,     \* deps[i]: the items i uses
    groups    \* the groups handed out so far, in order

vars == <<items, deps, groups>>

HandedOut == UNION {groups[k] : k \in DOMAIN groups}

Init ==
    /\ deps \in [items -> SUBSET items]
    /\ groups = <<>>

HandOut(x) ==
    LET C == Component(deps, x)
    IN  /\ x \notin HandedOut
        /\ \A y \in C : deps[y] \subseteq HandedOut \cup C
        /\ groups' = Append(groups, C)
        /\ UNCHANGED <<items, deps>>

Next == \E x \in items : HandOut(x)

\* The safety part of the promise, and the promise that all items are handed out.
Safety == Init /\ [][Next]_vars
Spec == Safety /\ WF_vars(Next)

=============================================================================
