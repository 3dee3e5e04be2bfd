------------------------------ MODULE MCImports ------------------------------
(***************************************************************************)
(* Instance of Imports for TLC: a library with a type, a record, a class   *)
(* and a function, another module that declares some of the same names, a  *)
(* module that is imported implicitly, and a main module with two imports. *)
(***************************************************************************)
EXTENDS Imports

MCImplicitModules == <<"Ops">>

Decl(kind, name, parts) == [kind |-> kind, name |-> name, parts |-> parts]
Entry(name) == [name |-> name, group |-> FALSE, members |-> <<>>]
Group(name, parts) == [name |-> name, group |-> TRUE, members |-> parts]
List(entries) == [all |-> FALSE, items |-> entries]

ImportOf(from, list) == [from |-> from, hiding |-> FALSE, names |-> <<>>, list |-> list, as |-> None]
ImportAs(from, list, name) == [ImportOf(from, list) EXCEPT !.as = name]
Hiding(from, names) == [from |-> from, hiding |-> TRUE, names |-> names, list |-> All, as |-> None]

Module(name, decls, exports, imports) ==
    [name |-> name, decls |-> decls, exports |-> exports, imports |-> imports]

\* data T = T | U;  data R = { x :: .., y :: .. };  class C a where m;  f = ..
Library == <<Decl("adt", "T", <<"T", "U">>), Decl("record", "R", <<"x", "y">>),
             Decl("class", "C", <<"m">>), Decl("function", "f", <<>>)>>
\* data T = V;  data S = U;  f = ..
Others == <<Decl("adt", "T", <<"V">>), Decl("adt", "S", <<"U">>), Decl("function", "f", <<>>)>>

\* What is listed in parentheses after a type: its variants, or all of it.  A text
\* cannot name a field there, the parser wants a type identifier.
Lists ==
    {All, List(<<>>), List(<<Entry("T"), Entry("f")>>), List(<<Group("T", <<"*">>), Entry("C")>>),
     List(<<Group("T", <<"U">>), Group("R", <<"*">>)>>), List(<<Entry("R"), Group("R", <<"*">>)>>)}
BadLists ==
    {List(<<Entry("U")>>), List(<<Group("C", <<"*">>)>>), List(<<Entry("m")>>), List(<<Group("T", <<"V">>)>>),
     List(<<Group("f", <<>>)>>), List(<<Group("R", <<"U">>), Entry("T")>>)}

MainImports ==
    {ImportOf("Lib", list) : list \in Lists \cup BadLists} \cup
    {ImportAs("Lib", list, "L") : list \in Lists} \cup
    {Hiding("Lib", names) : names \in {<<"T">>, <<"U", "x">>, <<"C">>, <<"f", "f">>, <<"S">>}} \cup
    {ImportOf("Other", All), ImportAs("Other", All, "Lib"), Hiding("Other", <<"T">>), Hiding("Ops", <<"show">>),
     ImportOf("Ops", List(<<Entry("Show")>>)), ImportOf("Nowhere", All), Hiding("Nowhere", <<"f">>)}

Own == {<<>>, <<Decl("adt", "A", <<"U">>)>>, <<Decl("record", "T", <<"x">>), Decl("function", "m", <<>>)>>}
Conflicting ==
    {<<Decl("function", "f", <<>>), Decl("function", "f", <<>>)>>, <<Decl("record", "A", <<"x", "x">>)>>,
     <<Decl("adt", "A", <<"B", "B">>)>>, <<Decl("adt", "A", <<"B">>), Decl("record", "B", <<"x">>)>>,
     <<Decl("adt", "A", <<"B">>), Decl("adt", "B", <<"A">>)>>}

Ops == Module("Ops", <<Decl("class", "Show", <<"show">>)>>, All, <<>>)

Program(exports, own, imports) ==
    <<Module("Lib", Library, exports, <<>>), Module("Main", own, All, imports), Ops,
      Module("Other", Others, All, <<>>)>>

\* Two imports in either order, and three of which two are of the library.
MCPrograms ==
    {Program(exports, own, <<i, j>>) : exports \in Lists, own \in Own, i \in MainImports, j \in MainImports} \cup
    {Program(exports, <<>>, <<Hiding("Lib", <<"T", "U">>), i, j>>) :
        exports \in Lists, i \in MainImports, j \in {ImportOf("Lib", All), ImportOf("Other", All)}} \cup
    {Program(exports, own, <<ImportOf("Lib", All)>>) : exports \in BadLists, own \in Own} \cup
    {Program(All, own, <<>>) : own \in Conflicting}
=============================================================================
