----------------------- MODULE MCDependencyProcessor -----------------------
(***************************************************************************)
(* Instance of DependencyProcessor for TLC.  The graphs are all graphs on  *)
(* the items 1..n with at most MaxDeps dependencies per item.              *)
(***************************************************************************)
EXTENDS DependencyProcessor

CONSTANT
    MaxDeps    \* bound on the dependencies of one item

MCInit == Init /\ \A x \in items : Cardinality(deps[x]) <= MaxDeps

MCSafety == MCInit /\ [][Next]_vars
MCSpec == MCSafety /\ WF_vars(Step)

=============================================================================
