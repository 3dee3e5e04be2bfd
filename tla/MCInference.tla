----------------------------- MODULE MCInference -----------------------------
(***************************************************************************)
(* Instance of Inference for TLC: programs made of a function f and a main *)
(* that calls it.  The bodies of f are all combinations of the expression  *)
(* and pattern forms up to a depth of two.                                 *)
(***************************************************************************)
EXTENDS Inference

OptionType(item) == Named(5, <<item>>)
BoxType(item) == Named(6, <<item>>)
NoteType == Named(7, <<>>)
MarkType(item) == Named(9, <<item>>)

\* data Option a = None | Some a;  data Box a = { val :: a, tag :: Int };
\* data Note = { num :: Int, text :: String };  data Twin a = { left :: a, right :: a };
\* data Mark a = { val :: Int, num :: [a] }, which shares a name with Box and one with Note
MCTypeDefs ==
    <<[kind |-> "adt", params |-> <<>>, variants |-> <<>>, names |-> <<>>],
      [kind |-> "adt", params |-> <<>>, variants |-> <<>>, names |-> <<>>],
      [kind |-> "adt", params |-> <<>>, variants |-> <<<<>>, <<>>>>, names |-> <<>>],
      [kind |-> "adt", params |-> <<1>>, variants |-> <<>>, names |-> <<>>],
      [kind |-> "adt", params |-> <<2>>, variants |-> <<<<>>, <<Var(2, {})>>>>, names |-> <<>>],
      [kind |-> "record", params |-> <<3>>, variants |-> <<<<Var(3, {}), IntType>>>>,
       names |-> <<"val", "tag">>],
      [kind |-> "record", params |-> <<>>, variants |-> <<<<IntType, StringType>>>>,
       names |-> <<"num", "text">>],
      [kind |-> "record", params |-> <<4>>, variants |-> <<<<Var(4, {}), Var(4, {})>>>>,
       names |-> <<"left", "right">>],
      [kind |-> "record", params |-> <<5>>, variants |-> <<<<IntType, ListType(Var(5, {}))>>>>,
       names |-> <<"val", "num">>]>>

Shown == FixedTypeArg(10, {"Show"})
MCMembers == <<[class |-> "Show", argument |-> Shown, type |-> Fn(Shown, StringType)]>>

MCInstanceMap ==
    [Show |-> Keyed(<<IntType, StringType, BoolType, ListType(Var(11, {"Show"})),
                      OptionType(Var(12, {"Show"})), BoxType(Var(13, {"Show"}))>>)]

\* From the field tag of Box, for which Show is derived.
MCDeclaredCache == {<<"Show", IntType>>}

Rigid == FixedTypeArg(20, {"Show"})
MCGroundTypes ==
    {IntType, StringType, BoolType, Rigid, OptionType(IntType), BoxType(IntType), ListType(IntType),
     NoteType, MarkType(IntType), Tuple(<<IntType, StringType>>), Fn(IntType, IntType)}

WithItems(types) == types \cup UNION {{OptionType(a), BoxType(a), ListType(a)} : a \in types}
MCInstances == [Show |-> WithItems(WithItems({IntType, StringType, BoolType, Rigid}))]

-----------------------------------------------------------------------------
(* Programs are written as trees. *)

T(k, at, ix, kids) == [k |-> k, at |-> at, ix |-> ix, kids |-> kids, ty |-> UnitType]

RECURSIVE Flat(_, _)
Flat(tree, base) ==
    LET Add1(s, kid) ==
            LET nodes == Flat(kid, base + Len(s.nodes))
            IN  [nodes |-> s.nodes \o nodes, ids |-> Append(s.ids, base + Len(s.nodes) + Len(nodes))]
        kids == FoldLeft(Add1, [nodes |-> <<>>, ids |-> <<>>], tree.kids)
    IN  Append(kids.nodes, [Node(tree.k, tree.at, tree.ix, kids.ids) EXCEPT !.ty = tree.ty])

Function(kind, arity, captured, signature, typedef, variant) ==
    [kind |-> kind, arity |-> arity, captured |-> captured, signature |-> signature, body |-> 0,
     typedef |-> typedef, variant |-> variant]

inc == 1
some == 2
true == 3
mark == 4
box == 5
f == 6
main == 7
lambda == 8
apply == 9

Library ==
    <<Function("named", 1, 0, <<Fn(IntType, IntType)>>, 0, 0),
      Function("variant", 1, 0, <<>>, 5, 2),
      Function("variant", 0, 0, <<>>, 3, 1),
      Function("record", 2, 0, <<>>, 9, 1),
      Function("record", 2, 0, <<>>, 6, 1)>>

\* The functions after the library, their bodies and the groups of functions
\* that are checked together.
Build(functions, bodies, groups, start) ==
    LET Place(s, i) ==
            LET nodes == s.nodes \o Flat(bodies[i], Len(s.nodes))
            IN  [nodes |-> nodes, functions |-> Append(s.functions, [functions[i] EXCEPT !.body = Len(nodes)])]
        all == FoldLeft(Place, [nodes |-> <<>>, functions |-> Library], [i \in DOMAIN bodies |-> i])
    IN  [functions |-> all.functions, nodes |-> all.nodes, groups |-> groups, main |-> start]

Int1 == T("IntegerLiteral", 1, <<>>, <<>>)
Str1 == T("StringLiteral", 1, <<>>, <<>>)
Arg(fn, index, captured) == T("ArgRef", fn, <<index, captured>>, <<>>)
X == Arg(f, 1, 0)
Use(name) == T("ExprValue", name, <<>>, <<>>)
CallOf(fn, args) == T("StaticFunctionCall", fn, <<>>, args)
Show(arg) == T("ClassFunctionCall", 1, <<>>, <<arg>>)
CallValue(fn, args) == T("DynamicFunctionCall", 0, <<>>, <<fn>> \o args)
Do(items) == T("Do", 0, <<>>, items)
Bound(name) == T("Binding", name, <<>>, <<>>)
Wild == T("Wildcard", 0, <<>>, <<>>)
BindTo(pattern, e) == T("Bind", 0, <<>>, <<pattern, e>>)
Cond(c, a, b) == T("If", 0, <<>>, <<c, a, b>>)
Case(e, cases) == T("CaseOf", 0, <<>>, <<e>> \o cases)
Pair(a, b) == T("Tuple", 0, <<>>, <<a, b>>)
ListOf(items) == T("List", 0, <<>>, items)
Format(places, args) == T("Formatter", 0, <<places>>, args)
Field(e, name) == T("FieldAccess", name, <<>>, <<e>>)
Item(e, index) == T("TupleFieldAccess", 0, <<index>>, <<e>>)
Box(val, tag) == T("RecordInitialization", 6, <<1, 2>>, <<val, tag>>)
Updated(e, names, values) == T("RecordUpdate", 0, names, <<e>> \o values)
SomeP(p) == T("VariantPattern", 5, <<2>>, <<p>>)
PairP(p, q) == T("TuplePattern", 0, <<>>, <<p, q>>)
BoxP(p, q) == T("RecordPattern", 6, <<>>, <<p, q>>)
Note(num, text) == T("RecordInitialization", 7, <<1, 2>>, <<num, text>>)
Mark(val, num) == T("RecordInitialization", 9, <<1, 2>>, <<val, num>>)
IntP(n) == T("IntegerPattern", n, <<>>, <<>>)
StrP(n) == T("StringPattern", n, <<>>, <<>>)
When(p, guard) == T("Guarded", 0, <<>>, <<p, guard>>)
Typed(p, ty) == [T("Typed", 0, <<>>, <<p>>) EXCEPT !.ty = ty]
\* The cases of alternatives that bind the same names: pairs of names that agree.
Alternatives(e, names, cases) == [Case(e, cases) EXCEPT !.ix = names]
True == CallOf(true, <<>>)

-----------------------------------------------------------------------------

Operands == {Int1, Str1, X}

\* One level of expressions: with a type that is one of the ground types ...
Simple ==
    Operands \cup
    {CallOf(inc, <<a>>) : a \in Operands} \cup {CallOf(inc, <<X, Int1>>), CallOf(inc, <<>>)} \cup
    {Show(a) : a \in Operands} \cup
    {Format(1, <<a>>) : a \in Operands} \cup {Format(2, <<X>>)} \cup
    {CallValue(X, <<a>>) : a \in Operands} \cup
    {Cond(True, a, b) : a, b \in Operands} \cup {Cond(X, Int1, X), Cond(X, X, X)} \cup
    {Field(X, "val"), Item(X, 1)} \cup
    {Case(X, <<SomeP(Bound(1)), a, Wild, b>>) : a \in Operands \cup {Use(1)}, b \in Operands} \cup
    {Case(X, <<PairP(Bound(1), Wild), Use(1)>>), Case(X, <<BoxP(Wild, Bound(1)), Use(1)>>)}

\* ... and with a type made of them.
Small ==
    Simple \cup
    {Pair(a, b) : a, b \in Operands} \cup
    {ListOf(<<a, b>>) : a, b \in Operands} \cup {ListOf(<<>>)} \cup
    {CallOf(some, <<a>>) : a \in Operands} \cup
    {Box(a, b) : a, b \in Operands}

\* What is done with a name.
Uses(e) ==
    {Pair(e, X), CallOf(inc, <<e>>), CallValue(e, <<X>>), CallValue(X, <<e>>),
     Cond(True, X, e), Field(e, "val"), Item(e, 1), ListOf(<<X, e>>),
     Case(e, <<SomeP(Bound(2)), Use(2), Wild, X>>), Case(e, <<PairP(Bound(2), Bound(3)), Use(3)>>)}

Bodies ==
    Small \cup
    UNION {{Do(<<BindTo(Bound(9), e), u>>) : u \in Uses(Use(9))} : e \in Small} 

Patterns ==
    {Case(X, <<p, a, Wild, b>>) : p \in {IntP(1), IntP(2), StrP(1), When(Wild, True), When(Wild, X),
                                        Typed(Wild, IntType), PairP(IntP(1), Wild),
                                        SomeP(StrP(1)), T("VariantPattern", 5, <<2>>, <<>>),
                                        T("RecordPattern", 6, <<>>, <<Wild>>)},
                                 a \in Operands, b \in Operands} \cup
    {Case(X, <<When(PairP(Bound(1), Bound(2)), Use(1)), Use(2), PairP(Wild, Bound(3)), Use(3)>>)} \cup
    {Alternatives(X, <<1, 2>>, <<PairP(Bound(1), a), b, PairP(Wild, Bound(2)), Int1>>) :
        a \in {Wild, StrP(1), IntP(1)}, b \in {Int1, Use(1)}} \cup
    {Do(<<BindTo(PairP(Bound(1), Bound(2)), e), Use(1)>>) : e \in {X, Pair(X, Str1), Int1}}

\* One or two fields are updated, of one record or, with num or val alone, of
\* either of two.
Made == {Note(Int1, Str1), Int1, Box(X, Int1), Note(X, X), Mark(X, ListOf(<<X>>)), Mark(Int1, ListOf(<<>>))}
Records ==
    {Do(<<BindTo(Bound(1), e), Updated(Use(1), names, <<a>>)>>) :
        e \in Made, names \in {<<"num">>, <<"text">>, <<"val">>, <<"tag">>}, a \in {X, Int1, Str1}} \cup
    {Do(<<BindTo(Bound(1), Note(X, Str1)), Field(Updated(Use(1), <<"num", "text">>, <<a, b>>), "text")>>) :
        a, b \in Operands} \cup
    {Do(<<BindTo(Bound(1), Mark(X, ListOf(<<X>>))), Updated(Use(1), <<"val", "num">>, <<a, ListOf(<<b>>)>>)>>) :
        a, b \in Operands} \cup
    {Do(<<BindTo(Bound(1), e), Field(Use(1), name)>>) : e \in Made, name \in {"num", "val"}}

\* What a function with a record as its argument does with it.
FieldsOfX == {Field(X, "num"), Field(X, "val"), Updated(X, <<"tag">>, <<Int1>>),
              Updated(X, <<"val", "num">>, <<Int1, Field(X, "num")>>), Pair(Field(X, "val"), Field(X, "num"))}
RecordTypes == {NoteType, BoxType(IntType), MarkType(IntType)}

\* A record's constructor as a function, with all its arguments or a part of them.
Constructed ==
    {CallOf(mark, <<a, b>>) : a \in Operands, b \in Operands \cup {ListOf(<<c>>) : c \in Operands}} \cup
    {CallOf(mark, <<a>>) : a \in Operands} \cup {CallOf(mark, <<>>)} \cup
    {Field(CallOf(mark, <<Int1, e>>), "num") : e \in {X, ListOf(<<X>>), ListOf(<<>>)}}

\* f calls itself in one branch.
Recursive ==
    {Cond(True, e, CallOf(f, <<a>>)) : e \in Simple, a \in Operands} \cup
    {Case(X, <<IntP(1), e, Bound(8), CallOf(f, <<Use(8)>>)>>) : e \in Operands}

\* A lambda that captures the argument of f.
Captured == Arg(lambda, 1, 1)
Own == Arg(lambda, 1, 0)
LambdaBodies ==
    {Own, Captured, Pair(Own, Captured), CallOf(inc, <<Captured>>), CallOf(inc, <<Own>>),
     CallValue(Captured, <<Own>>), CallValue(Own, <<Captured>>), Cond(True, Own, Captured),
     Cond(Captured, Own, Int1), Show(Own), Field(Captured, "num")}
Lambda == CallOf(lambda, <<X>>)
LambdaUses ==
    {CallValue(Lambda, <<a>>) : a \in Operands} \cup
    {Do(<<BindTo(Bound(9), Lambda), CallValue(Use(9), <<a>>), CallValue(Use(9), <<X>>)>>) : a \in Operands}

Arguments ==
    {Int1, Str1, Pair(Int1, Str1), CallOf(some, <<Int1>>), CallOf(inc, <<>>), Box(Int1, Int1)}

MainOf(e) == Do(<<e, Int1>>)
Mains == {MainOf(CallOf(f, <<a>>)) : a \in Arguments}
FewMains == {MainOf(CallOf(f, <<a>>)) : a \in {Int1, Pair(Int1, Str1), CallOf(inc, <<>>)}}
MoreMains ==
    {Do(<<CallOf(f, <<Int1>>), CallOf(f, <<Str1>>), Int1>>),
     MainOf(Show(CallOf(f, <<Int1>>))), MainOf(CallOf(inc, <<CallOf(f, <<Int1>>)>>)),
     MainOf(CallOf(f, <<Note(Int1, Str1)>>)), MainOf(CallOf(f, <<Int1, Int1>>))}

Free == Function("named", 1, 0, <<>>, 0, 0)
Main == Function("named", 0, 0, <<>>, 0, 0)
Declared(ty) == Function("named", 1, 0, <<ty>>, 0, 0)
Closure == Function("lambda", 1, 1, <<>>, 0, 0)

Signatures ==
    {Fn(Rigid, Rigid), Fn(Rigid, StringType), Fn(IntType, IntType), Fn(Rigid, OptionType(Rigid)),
     Fn(Fn(IntType, IntType), IntType), IntType}

WithMain(function, bodies, mains) ==
    {Build(<<function, Main>>, <<b, m>>, <<<<f>>, <<main>>>>, main) : b \in bodies, m \in mains}

MCPrograms ==
    WithMain(Free, Small, Mains) \cup
    WithMain(Free, Bodies, FewMains) \cup
    WithMain(Free, Small \cup Patterns \cup Records, MoreMains) \cup
    WithMain(Free, Patterns \cup Records \cup Recursive, {MainOf(CallOf(f, <<a>>)) : a \in {Int1, Pair(Int1, Str1)}}) \cup
    WithMain(Free, Constructed, FewMains) \cup
    UNION {WithMain(Declared(Fn(ty, result)), FieldsOfX, {MainOf(CallOf(f, <<a>>)) :
                a \in {Note(Int1, Str1), Box(Int1, Int1), Mark(Int1, ListOf(<<Int1>>))}}) :
            ty \in RecordTypes, result \in {IntType, ListType(IntType)} \cup RecordTypes} \cup
    UNION {WithMain(Declared(ty), Small, {MainOf(CallOf(f, <<Int1>>))}) : ty \in Signatures} \cup
    {Build(<<Free, Main, Closure>>, <<u, m, b>>, <<<<f, lambda>>, <<main>>>>, main) :
        u \in LambdaUses, b \in LambdaBodies,
        m \in FewMains}

-----------------------------------------------------------------------------
(* Programs that the checker accepts and the interpreter stops at.  Their   *)
(* shapes are left out above: what a function calling itself returns in an  *)
(* operand, two parts of a record that share a type parameter, a class      *)
(* member used on a composite type with a variable, and a callable with     *)
(* some of its arguments handed to another function.                        *)

IncOf(e) == MainOf(CallOf(inc, <<e>>))

\* f x = if True then "s" else do { inc (f x); "s" }
StaleResult ==
    WithMain(Free, {Cond(True, Str1, Do(<<CallOf(inc, <<CallOf(f, <<X>>)>>), Str1>>))},
             {IncOf(CallOf(f, <<Int1>>))})

\* f x = Twin { left: 1, right: "s" }
StaleFields ==
    WithMain(Free, {T("RecordInitialization", 8, <<1, 2>>, <<Int1, Str1>>)},
             {IncOf(Field(CallOf(f, <<Int1>>), "right"))})

\* f x = show [x]
LostConstraint == WithMain(Free, {Show(ListOf(<<X>>))}, {MainOf(CallOf(f, <<Int1>>))})

\* apply g y = g y; f x = apply (\y -> x) 1
PartialCall ==
    {Build(<<Free, Main, Closure, Function("named", 2, 0, <<>>, 0, 0)>>,
           <<CallOf(apply, <<Lambda, Int1>>), MainOf(CallOf(f, <<Int1>>)), Captured,
             CallValue(Arg(apply, 1, 0), <<Arg(apply, 2, 0)>>)>>,
           <<<<apply>>, <<f, lambda>>, <<main>>>>, main)}

=============================================================================
