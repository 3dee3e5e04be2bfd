------------------------- MODULE MCDerivedInstances -------------------------
(***************************************************************************)
(* Instance of DerivedInstances for TLC: two data types with one parameter *)
(* and up to two items, which derive PartialOrd, Ord or both, programs     *)
(* that add user-defined instances, and some with a type that has two      *)
(* parameters and up to three items.                                       *)
(***************************************************************************)
EXTENDS DerivedInstances

IntType == Named(1, <<>>)
FloatType == Named(2, <<>>)
Function == Fn(IntType, IntType)
A == Var(1, {})
B == Var(2, {})
C == Var(3, {})
First(ty) == Named(3, <<ty>>)
Second(ty) == Named(4, <<ty>>)
Pair(ty, other) == Named(5, <<ty, other>>)

\* class PartialOrd a;  class (PartialOrd a) => Ord a;  class Show a
MCClasses == [PartialOrd |-> {}, Ord |-> {"PartialOrd"}, Show |-> {}]
MCAutoDerivable == {"PartialOrd", "Ord"}
MCGroundTypes ==
    LET base == {IntType, FloatType, Function}
    IN  base \cup {First(ty) : ty \in base} \cup {Second(ty) : ty \in base} \cup
        {Pair(ty, other) : ty, other \in {IntType, Function}}

Items(var) == {var, IntType, FloatType, Function, First(var), Second(var), First(FloatType), Second(Function)}

\* Zero, one or two items; which of two is first makes no difference to most.
ItemLists(var, items) ==
    {<<>>} \cup {<<i>> : i \in items} \cup {<<var, i>> : i \in items} \cup {<<i, var>> : i \in items}

Data(kind, var, items, derives) == [kind |-> kind, params |-> <<var>>, items |-> items, derives |-> derives]

Base == [PartialOrd |-> <<IntType, FloatType>>, Ord |-> <<IntType>>, Show |-> <<IntType>>]
With(class, heads) == [Base EXCEPT ![class] = @ \o heads]

Program(first, second, user) ==
    [types |-> [id \in {3, 4} |-> IF id = 3 THEN first ELSE second], instances |-> user]

Both == <<"PartialOrd", "Ord">>

\* Everything derived; the classes derived by one type only are few.
Derived ==
    {Program(Data("adt", A, i, <<"PartialOrd">>), Data(kind, B, j, d), Base) :
        i \in ItemLists(A, Items(A)), j \in ItemLists(B, Items(B)),
        d \in {<<"PartialOrd">>, <<>>}, kind \in {"record", "adt"}} \cup
    {Program(Data("adt", A, i, d), Data("record", B, j, Both), Base) :
        i \in ItemLists(A, {A, FloatType, Second(A), Second(FloatType)}), j \in ItemLists(B, Items(B)),
        d \in {Both, <<"Ord">>, <<"Ord", "PartialOrd">>, <<"Show">>, <<"Ord", "Ord">>}}

\* Instances the user defines: for all types, for a type that is derived as
\* well, for some arguments only, two or three of a type, with constraints.
U == Var(5, {})
V == Var(6, {})
PartialOrds ==
    {<<U>>, <<First(U)>>, <<First(Var(5, {"PartialOrd"}))>>, <<First(Var(5, {"Ord"}))>>,
     <<First(IntType)>>, <<First(IntType), First(FloatType)>>, <<First(IntType), First(U)>>,
     <<First(IntType), Second(U), First(V)>>, <<Function>>}
UserDefined ==
    {Program(Data("adt", A, i, d), Data("adt", B, j, e), With("PartialOrd", heads)) :
        i \in {<<A>>, <<Second(A)>>}, d \in {<<>>, <<"Ord">>, <<"PartialOrd">>},
        j \in ItemLists(B, {B, Function, First(B), First(FloatType)}),
        e \in {<<"PartialOrd">>, Both}, heads \in PartialOrds} \cup
    {Program(Data("adt", A, <<A>>, d), Data("adt", B, j, Both), With("Ord", heads)) :
        d \in {<<"PartialOrd">>, Both}, j \in ItemLists(B, {B, First(B), First(FloatType)}),
        heads \in {<<First(U)>>, <<First(Var(5, {"Ord"}))>>, <<First(Var(5, {"PartialOrd"}))>>, <<FloatType>>}} \cup
    {Program(Data("adt", A, <<A>>, <<"PartialOrd">>), Data("adt", B, <<First(B)>>, Both), [Base EXCEPT ![class] = <<U>>]) :
        class \in {"Show", "Ord"}}

\* A data type with two parameters.
TwoParameters ==
    {[types |-> [id \in {3, 5} |->
                    IF id = 3 THEN Data("record", A, <<A>>, Both)
                    ELSE [kind |-> "adt", params |-> <<B, C>>, items |-> i, derives |-> d]],
      instances |-> Base] :
        i \in {<<B, C>>, <<C, B>>, <<B>>, <<First(B), C>>, <<First(C), B, C>>, <<B, Function>>, <<Pair(C, B)>>},
        d \in {Both, <<"Ord">>, <<"PartialOrd">>}}

MCDeclarations == Derived \cup UserDefined \cup TwoParameters

=============================================================================
