---------------------------- MODULE Reachability ----------------------------
(***************************************************************************)
(* Reachability in the graph of a dependency function d, which maps every  *)
(* item of its domain to the set of items it uses.  The definition is by   *)
(* closed sets instead of paths: b is reachable from a when every set that *)
(* holds what a uses and is closed under d holds b.  It needs no recursion *)
(* and is what the proofs of DependencyProcessor_proofs argue with.        *)
(***************************************************************************)

\* S is closed under d: what a member of S uses is in S.
Closed(d, S) == \A x \in S : d[x] \subseteq S

\* There is a path of at least one edge from a to b.
Reaches(d, a, b) ==
    \A S \in SUBSET (DOMAIN d) : d[a] \subseteq S /\ Closed(d, S) => b \in S

\* a and b lie on a common cycle, or are the same item.
Connected(d, a, b) == a = b \/ (Reaches(d, a, b) /\ Reaches(d, b, a))

\* The strongly connected component of x.
Component(d, x) == {y \in DOMAIN d : Connected(d, x, y)}

=============================================================================
