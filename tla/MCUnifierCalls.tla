--------------------------- MODULE MCUnifierCalls ---------------------------
(***************************************************************************)
(* Instance of UnifierCalls for TLC: types of depth two over two classes,  *)
(* four variables, one fixed type argument and one plain type.            *)
(***************************************************************************)
EXTENDS UnifierCalls

IntTy == Named(1, <<>>)
List(ty) == Named(2, <<ty>>)
A == Var(1, {})
B == Var(2, {"Show"})
C == Var(3, {"Ord"})
D == Var(4, {})
F == FixedTypeArg(5, {"Show"})

MCLeaves == {A, B, C, D, F, IntTy}
MCTypes ==
    MCLeaves \cup {List(ty) : ty \in MCLeaves} \cup {Fn(x, y) : x, y \in MCLeaves}

MCFirstPairs == MCTypes \X MCTypes
MCLaterPairs ==
    {<<A, D>>, <<D, A>>, <<B, C>>, <<List(D), C>>, <<D, F>>, <<A, IntTy>>, <<Fn(A, B), Fn(B, D)>>}

\* Plain values and their lists are shown and ordered, the fixed type argument
\* is only shown, functions are neither.
MCGroundTypes == {IntTy, F, List(IntTy), List(F), Fn(IntTy, IntTy)}
MCInstances == [Show |-> {IntTy, List(IntTy), List(F)}, Ord |-> {IntTy, List(IntTy)}]

=============================================================================
