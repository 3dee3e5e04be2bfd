----------------------------- MODULE MCCompiler -----------------------------
(***************************************************************************)
(* Instance of Compiler for TLC: texts of small modules, written in        *)
(* several layouts, and texts that are cut, mixed up or have comments.     *)
(***************************************************************************)
EXTENDS Compiler

-----------------------------------------------------------------------------
(* Names, literals and what the module imports. *)

MCCapitalised == {"M", "N", "Some", "None", "True", "Note", "Pair", "Show", "Int", "Std", "Util", "P", "Class"}
MCNumerals == {"0", "1", "2"}
LiteralTexts == <<"1", "2", "s", "t", "x", "do", "">>
MCLiteralIds == [n \in ToSet(LiteralTexts) \cup {"0"} |-> IF n = "0" THEN 0 ELSE CHOOSE k \in DOMAIN LiteralTexts : LiteralTexts[k] = n]
MCPlaces == [s \in {"s", "t"} |-> IF s = "s" THEN 1 ELSE 2]
MCSpelling == [n \in {"Std.Util", "Std.inc", "Std.Some"} |->
    CASE n = "Std.Util" -> <<"Std", "Util">> [] n = "Std.inc" -> <<"Std", "inc">> [] n = "Std.Some" -> <<"Std", "Some">>]

\* data Option a = None | Some a;  data Note = { num :: Int, text :: String }
OptionType(item) == Named(5, <<item>>)
Datatype(kind, params, variants, names) ==
    [kind |-> kind, params |-> params, variants |-> variants, names |-> names]
MCTypeDefs ==
    <<Datatype("adt", <<>>, <<>>, <<>>), Datatype("adt", <<>>, <<>>, <<>>),
      Datatype("adt", <<>>, <<<<>>, <<>>>>, <<>>), Datatype("adt", <<1>>, <<>>, <<>>),
      Datatype("adt", <<2>>, <<<<>>, <<Var(2, {})>>>>, <<>>),
      Datatype("record", <<>>, <<<<IntType, StringType>>>>, <<"num", "text">>)>>

Shown == FixedTypeArg(10, {"Show"})
MCMembers == <<[class |-> "Show", argument |-> Shown, type |-> Fn(Shown, StringType)]>>
MCInstanceMap ==
    [Show |-> Keyed(<<IntType, StringType, BoolType, ListType(Var(11, {"Show"})), OptionType(Var(12, {"Show"}))>>)]

LibraryFunction(kind, arity, signature, typedef, variant) ==
    [kind |-> kind, arity |-> arity, captured |-> 0, signature |-> signature, body |-> 0,
     typedef |-> typedef, variant |-> variant]
Imported(kind, id, typedef, variant) ==
    [kind |-> kind, id |-> id, typedef |-> typedef, index |-> variant, times |-> 1, ambiguous |-> FALSE]

IntToInt == Fn(IntType, IntType)
MCLibrary ==
    <<LibraryFunction("named", 1, <<IntToInt>>, 0, 0),
      LibraryFunction("variant", 0, <<>>, 5, 1),
      LibraryFunction("variant", 1, <<>>, 5, 2),
      LibraryFunction("variant", 0, <<>>, 3, 1),
      LibraryFunction("record", 2, <<>>, 6, 1),
      LibraryFunction("named", 2, <<Fn(IntType, IntToInt)>>, 0, 0)>>

MCGlobals ==
    [name \in {"inc", "Std.inc", "None", "Some", "Std.Some", "True", "Note", "+", "show", "twice", "Class"} |->
        CASE name \in {"inc", "Std.inc"} -> Imported("function", 1, 0, 0)
          [] name = "None" -> Imported("variant", 2, 5, 1)
          [] name \in {"Some", "Std.Some"} -> Imported("variant", 3, 5, 2)
          [] name = "True" -> Imported("variant", 4, 3, 1)
          [] name = "Note" -> Imported("record", 5, 6, 0)
          [] name = "+" -> Imported("function", 6, 0, 0)
          [] name = "show" -> Imported("member", 1, 0, 0)
          [] name = "twice" -> [Imported("function", 1, 0, 0) EXCEPT !.times = 2, !.ambiguous = TRUE]
          [] name = "Class" -> Imported("class", 0, 0, 0)]

-----------------------------------------------------------------------------
(* Layout: the pieces of a text. *)

PieceOf(c, name, w) == [c |-> c, name |-> name, w |-> w]
Char(c) == PieceOf(c, "", 1)
WordPiece(name) == PieceOf("word", name, 2)
Blank(w) == <<PieceOf(" ", "", w)>>

Spelt(op) ==
    CASE op = "<-" -> <<"<", "-">> [] op = "->" -> <<"-", ">">> [] op = "::" -> <<":", ":">>
      [] op = "=>" -> <<"=", ">">> [] op = "|>" -> <<"|", ">">> [] op = "&&" -> <<"&", "&">>
      [] op = "||" -> <<"|", "|">> [] op = "==" -> <<"=", "=">> [] op = "!=" -> <<"!", "=">>
      [] op = "<=" -> <<"<", "=">> [] op = ">=" -> <<">", "=">> [] op = ".." -> <<".", ".">>
      [] OTHER -> <<op>>

PiecesOf(token) ==
    CASE token.kind \in {"Var", "Type", "Int"} -> <<WordPiece(token.name)>>
      [] token.kind = "Float" -> <<WordPiece("1"), Char("."), WordPiece("2")>>
      [] token.kind = "String" -> <<Char("\""), WordPiece(token.name), Char("\"")>>
      [] token.kind = "Wildcard" -> <<WordPiece("_")>>
      [] token.kind \in Keywords -> <<WordPiece(token.kind)>>
      [] OTHER -> [k \in DOMAIN Spelt(token.kind) |-> Char(Spelt(token.kind)[k])]

\* A style: whether the first item of a block is on a line of its own, whether
\* every token of an item is, and whether a block goes on to be closed by a
\* parenthesis.
Style(hang, broken, closed) == [hang |-> hang, broken |-> broken, closed |-> closed]
Styles == {Style(h, b, h # b) : h, b \in BOOLEAN} \cup {Style(TRUE, TRUE, TRUE)}

WidthOf(pieces) == FoldLeft(LAMBDA w, p : w + p.w, 0, pieces)

\* One token after the text so far, in s: its pieces, the column it ends at, the
\* columns of the open blocks, and the kind of the token or end before.
Placed(s, token, style, gap) ==
    LET top == Last(s.blocks)
        first == s.last \in Openers \cup {"module"}
        item == s.last = ItemEnd
        closing == s.last = BlockEnd
        fresh ==
            CASE s.last = "start" -> FALSE
              [] first -> style.hang
              [] item -> TRUE
              [] closing -> ~(token.kind = ")" /\ style.closed)
              [] s.last = ModuleEnd -> TRUE
              [] OTHER -> style.broken /\ token.kind \notin Openers
        column1 ==
            CASE s.last \in {"start", ModuleEnd} -> 0
              [] s.last \notin {"start", ModuleEnd} /\ fresh ->
                    IF first THEN top + 4 ELSE IF item THEN top ELSE top + 2
              [] s.last \notin {"start", ModuleEnd} /\ ~fresh -> s.column + 1
        before == gap \o (IF fresh THEN <<Char("\n")>> \o Blank(column1)
                          ELSE IF s.last = "start" THEN <<>> ELSE Blank(1))
        pieces == PiecesOf(token)
    IN  [pieces |-> s.pieces \o before \o pieces, column |-> column1 + WidthOf(pieces),
         blocks |-> IF first THEN Append(s.blocks, column1) ELSE s.blocks, last |-> token.kind]

After1(s, token, style, gap) ==
    CASE token.kind \in {BlockEnd, ModuleEnd} -> [s EXCEPT !.blocks = Front(@), !.last = token.kind]
      [] token.kind = ItemEnd -> [s EXCEPT !.last = ItemEnd]
      [] token.kind \notin Ends -> Placed(s, token, style, gap)

RECURSIVE LaidFrom(_, _, _, _, _)
LaidFrom(s, tokenSeq, i, style, gap) ==
    IF s.blocks = <<>> \/ i > Len(tokenSeq) THEN s.pieces ELSE LaidFrom(After1(s, tokenSeq[i], style, gap), tokenSeq, i + 1, style, gap)

Laid(tokenSeq, style, gap) ==
    LaidFrom([pieces |-> <<>>, column |-> 0, blocks |-> <<0>>, last |-> "start"], tokenSeq, 1, style, gap)

TextOf(modules, style) == Laid(WrittenFile(modules), style, <<>>)

-----------------------------------------------------------------------------
(* Syntax trees. *)

V(name) == Leaf("Path", name)
I(n) == Leaf("Int", n)
S(s) == Leaf("String", s)
Fl == Leaf("Float", "1.2")
Ap(g, args) == FunctionCall(g, args)
Bin(op, a, b) == FunctionCall(Operator(op), <<a, b>>)
Pre(op, a) == Prefixed(op, a)
Fld(e, name) == Tree("FieldAccess", name, <<e>>)
Itm(e, n) == Tree("TupleFieldAccess", n, <<e>>)
Tup(es) == Tree("Tuple", "", es)
Lst(es) == Tree("List", "", es)
IfE(c, a, b) == Tree("If", "", <<c, a, b>>)
DoE(items) == Tree("Do", "", items)
BindE(p, e) == Tree("Bind", "", <<p, e>>)
CaseE(e, cases) == Tree("CaseOf", "", <<e>> \o cases)
Alt(p, e) == Tree("Case", "", <<p, e>>)
LamE(ps, e) == WithPatterns("Lambda", "", 0, ps, e)
FormatE(s, es) == Tree("Formatter", s, es)
FieldE(name, e) == Tree("Field", name, <<e>>)
Rec(name, fields) == Tree("RecordInitialization", name, fields)
Upd(name, fields) == Tree("RecordUpdate", name, fields)
PB(name) == Leaf("PBinding", name)
PW == Leaf("PWildcard", "")
PC(name, ps) == Tree("PConstructor", name, ps)
PT(ps) == Tree("PTuple", "", ps)
PR(name, fields) == Tree("PRecord", name, fields)
POr(ps) == Tree("POr", "", ps)
PG(p, e) == Tree("PGuarded", "", <<p, e>>)

FnItem(name, ps, e) ==
    IF ps = <<>> THEN Tree("Function", name, <<Leaf("Args", ""), e>>)
    ELSE WithPatterns("Function", name, 0, ps, e)
ModuleOf(items) == Tree("Module", "M", <<Leaf("ImplicitAll", "")>> \o items)
Calling(ps, e) ==
    ModuleOf(<<FnItem("f", ps, e), FnItem("main", <<>>, DoE(<<Ap(V("f"), <<I("1")>>), I("1")>>))>>)

\* Forms with one or two parts ...
Operands2 == {V("x"), I("1"), Tup(<<>>)}
Forms1(a, b) ==
    {Bin("+", a, b), Bin("-", a, b), Bin("*", a, b), Bin("==", a, b), Bin("|>", a, b), Bin("&&", a, b),
     Bin("<", a, b), Pre("!", a), Pre("-", a), Ap(V("x"), <<a>>), Ap(a, <<b, I("1")>>), Fld(a, "num"),
     Itm(a, "1"), Tup(<<a>>), Tup(<<a, b>>), Lst(<<a, b>>), Lst(<<a>>), IfE(a, b, I("2")),
     DoE(<<a, b>>), DoE(<<BindE(PB("y"), a), b>>), CaseE(a, <<Alt(PB("y"), b), Alt(PW, I("1"))>>),
     LamE(<<PB("y")>>, a), LamE(<<PW, PT(<<PB("y"), PW>>)>>, b), FormatE("s", <<a>>), FormatE("t", <<a, b>>),
     Rec("Note", <<FieldE("num", a), FieldE("text", b)>>), Upd("x", <<FieldE("num", a)>>)}

\* ... one in another.
Nested1 == UNION {Forms1(e, V("y")) \cup Forms1(V("y"), e) : e \in Forms1(V("x"), V("z"))}

FormTrees == {<<Calling(<<PB("x")>>, e)>> : e \in Nested1}

\* Numbers, strings and patterns by themselves ...
SomeOf(a) == PC("Some", <<a>>)
PatternForms ==
    {PB("y"), PW, Leaf("PInt", "1"), Leaf("PString", "s"), Leaf("PFloat", "1.2"), PC("None", <<>>),
     SomeOf(PB("y")), PC("Std.Some", <<SomeOf(PW)>>), SomeOf(PT(<<PB("y"), PW>>)), PT(<<PB("y")>>), PT(<<>>),
     PR("Note", <<FieldE("num", PB("y")), FieldE("text", PC("None", <<>>))>>),
     PR("Note", <<FieldE("text", SomeOf(PW)), FieldE("num", PT(<<>>))>>)}
PatternTrees ==
    {<<Calling(<<PB("x")>>, CaseE(V("x"), <<Alt(q, Fl), Alt(PG(p, V("x")), I("1"))>>)),
       [ModuleOf(<<FnItem("g", <<p, PB("z"), q>>, V("Std.inc"))>>) EXCEPT !.name = "N"]>> :
        p \in PatternForms, q \in PatternForms} \cup
    {<<Calling(<<PB("x")>>, CaseE(V("x"), <<Alt(POr(<<p, PC("None", <<>>)>>), S("t")), Alt(PW, S("s"))>>))>> :
        p \in PatternForms}

\* ... types and the other items of a module, ...
TN(name, args) == Tree("TNamed", name, args)
TV(name) == Leaf("TArg", name)
TF(a, b) == Tree("TFunction", "", <<a, b>>)
TT(types) == Tree("TTuple", "", types)
TypeForms ==
    {TV("x"), TN("Int", <<>>), TN("Std.Util", <<TV("x"), TN("Int", <<>>)>>), TN("List.List", <<TV("x")>>),
     TN("Some", <<TN("Some", <<TV("x")>>), TT(<<TV("x"), TV("y")>>)>>), TF(TV("x"), TF(TV("y"), TV("x"))),
     TF(TF(TV("x"), TV("y")), TT(<<>>)), TF(TN("List.List", <<TF(TV("x"), TV("y"))>>), TT(<<TF(TV("x"), TV("y"))>>)),
     TN("Some", <<TF(TV("x"), TV("y"))>>)}

NamesOf(op, names) == Tree(op, "", [k \in DOMAIN names |-> Leaf(IF op = "Args" THEN "Var" ELSE "Name", names[k])])
NoConstraints == Leaf("Constraints", "")
ShowX == Tree("Constraints", "", <<Tree("Constraint", "Show", <<Leaf("Var", "x")>>)>>)
Typed1(name, args, constraints, ty) == Tree("FunctionType", name, <<Tree("Args", "", [k \in DOMAIN args |-> V(args[k])]), constraints, ty>>)
External1(name, args) == Tree("Function", name, <<Tree("Args", "", [k \in DOMAIN args |-> V(args[k])]), Leaf("Extern", "")>>)
Variant1(name, args) == Tree("Variant", name, <<Tree("TVariant", name, args)>>)
RecordOf(types) ==
    Tree("Record", "", [k \in DOMAIN types |-> Tree("RecordField", IF k = 1 THEN "num" ELSE "text", <<types[k]>>)])
DataItem(args, body, classes) == Tree("Data", "Note", <<NamesOf("Args", args), body, NamesOf("Deriving", classes)>>)
Members1(items) == Tree("Members", "", items)
Class1(op, constraints, ty, items) == Tree(op, "", <<constraints, Leaf("Type", "Show"), ty, Members1(items)>>)
Named1(name) == Leaf("Named", name)
Group1(name, members) == Tree("Group", name, members)
ListOf1(op, items) == Tree(op, "", items)
ImportOf(name, parts) == Tree("Import", name, parts)

ItemForms ==
    UNION {{Typed1("f", <<>>, NoConstraints, ty), Typed1("f", <<"x", "y">>, ShowX, ty),
            DataItem(<<"x">>, Tree("Adt", "", <<Variant1("Some", <<ty>>), Variant1("None", <<>>)>>), <<"Show">>),
            DataItem(<<>>, RecordOf(<<ty, TV("x")>>), <<"Show", "Std.Util">>),
            Class1("Class", NoConstraints, TV("x"), <<Typed1("f", <<>>, NoConstraints, ty), External1("g", <<"x">>)>>),
            Class1("Instance", ShowX, ty, <<FnItem("f", <<PW>>, DoE(<<V("x")>>)), FnItem("g", <<>>, V("x"))>>),
            Class1("Instance", NoConstraints, ty, <<>>),
            Tree("Protocol", "P", <<ty>>),
            Tree("Actor", "P", <<ty, Tree("Handler", "M", <<Leaf("Name", "inc")>>),
                                 Tree("Handler", "N", <<Leaf("Name", "Std.inc")>>)>>)} : ty \in TypeForms} \cup
    {External1("f", <<>>), Tree("Data", "Note", <<NamesOf("Args", <<>>), Leaf("External", "")>>),
     ImportOf("Std.Util", <<Leaf("ImplicitAll", "")>>), ImportOf("Std.Util", <<Leaf("ImplicitAll", ""), Leaf("Type", "P")>>),
     ImportOf("Int", <<ListOf1("Hiding", <<Leaf("Var", "inc"), Leaf("Type", "Some")>>)>>),
     ImportOf("N", <<ListOf1("Explicit", <<>>)>>),
     ImportOf("N", <<ListOf1("Explicit", <<Named1("inc"), Group1("Some", <<Leaf("All", "")>>),
                                           Group1("Note", <<Leaf("Specific", "None"), Leaf("Specific", "Some")>>)>>),
                     Leaf("Type", "M")>>)}

ExportLists == {Leaf("ImplicitAll", ""), ListOf1("Explicit", <<Named1("f"), Group1("Note", <<Leaf("All", "")>>)>>)}
ItemTrees ==
    {<<Tree("Module", name, <<list, a, FnItem("f", <<>>, I("1"))>>)>> :
        name \in {"Std.Util", "Int"}, list \in ExportLists, a \in ItemForms}

\* ... and blocks within blocks.
BlocksOf(e) ==
    {DoE(<<e, V("x")>>), DoE(<<BindE(PB("y"), e), e>>), Ap(V("x"), <<e, V("y")>>), Ap(e, <<e>>), Bin("+", e, e),
     CaseE(e, <<Alt(PB("y"), e), Alt(PW, e)>>), LamE(<<PB("y")>>, e), IfE(e, e, e), Tup(<<e, e>>), Lst(<<e>>)}
BlockForms == UNION {BlocksOf(e) : e \in UNION {BlocksOf(d) : d \in {V("x"), DoE(<<V("x")>>)}}}
BlockTrees == {<<Calling(<<>>, e)>> : e \in BlockForms}

OneLine == Style(FALSE, FALSE, FALSE)
-----------------------------------------------------------------------------
(* Programs about scopes: the names x and y are bound around a use of both, *)
(* three times, each time by a lambda, a block or a case.  What they are    *)
(* bound to uses the names that are in scope there.                        *)

BindersAround(e, name, other) ==
    {Ap(LamE(<<PB(name)>>, e), <<V(other)>>), Ap(LamE(<<PB(name), PW>>, e), <<V(name), V(other)>>),
     DoE(<<BindE(PB(name), V(other)), e>>), CaseE(V(other), <<Alt(PB(name), e)>>)}
AroundX(es) == UNION {BindersAround(e, "x", "y") : e \in es}
AroundAll(es) == AroundX(es) \cup UNION {BindersAround(e, "y", "x") : e \in es}
Uses == {Tup(<<V("x"), V("y"), V("x")>>)}

\* Guards, alternatives, records, lambdas one after the other, and names that are
\* bound nowhere, twice, or to something else.
SomeX == PC("Some", <<PB("x")>>)
FieldsXY == <<FieldE("text", PB("x")), FieldE("num", PB("y"))>>
ScopeForms(e) ==
    {CaseE(V("x"), <<Alt(PG(PB("y"), Bin("+", V("y"), V("x"))), e), Alt(PW, V("y"))>>),
     CaseE(V("y"), <<Alt(POr(<<PT(<<PB("x"), PW>>), PT(<<Leaf("PInt", "1"), SomeX>>)>>), e), Alt(PW, e)>>),
     CaseE(V("y"), <<Alt(POr(<<PT(<<PB("x"), PB("y")>>), PT(<<PB("y"), SomeX>>)>>), LamE(<<PB("z")>>, e)), Alt(PW, e)>>),
     CaseE(V("y"), <<Alt(POr(<<SomeX, PC("None", <<>>)>>), e)>>),
     CaseE(V("y"), <<Alt(PT(<<PB("x"), PB("x")>>), e)>>),
     CaseE(V("y"), <<Alt(PC("Class", <<PB("x")>>), e), Alt(PC("P", <<>>), e), Alt(PC("Note", <<PB("x"), PW>>), e)>>),
     CaseE(V("y"), <<Alt(PR("Note", FieldsXY), e), Alt(PR("Some", FieldsXY), e), Alt(PR("P", FieldsXY), e)>>),
     CaseE(V("y"), <<Alt(PR("Note", <<FieldE("num", PB("x"))>>), e)>>),
     CaseE(V("y"), <<Alt(PR("Note", FieldsXY \o <<FieldE("num", PW)>>), e)>>),
     CaseE(V("y"), <<Alt(PR("Note", <<FieldE("val", PW)>> \o FieldsXY), e)>>),
     DoE(<<BindE(PT(<<PB("y"), PB("x")>>), Tup(<<V("x"), V("y")>>)), BindE(PB("x"), V("x")), e>>),
     DoE(<<BindE(SomeX, V("y")), e>>), DoE(<<BindE(Leaf("PInt", "1"), e), e>>), DoE(<<BindE(PR("Note", FieldsXY), V("x")), e>>),
     DoE(<<BindE(PB("y"), LamE(<<PB("x")>>, Tup(<<e, LamE(<<PB("y")>>, e)>>))), BindE(PB("x"), e), LamE(<<PB("z")>>, e)>>),
     Ap(LamE(<<PB("x"), PB("x")>>, e), <<e, e>>), LamE(<<PT(<<PB("x"), PB("y")>>), PB("z")>>, Tup(<<e, V("z")>>)),
     Ap(V("x"), <<e, V("z")>>), Ap(V("inc"), <<V("main")>>), Ap(V("show"), <<e>>), Bin("*", e, e), Bin("|>", e, V("x")),
     Tup(<<V("show"), V("Some"), V("Note"), V("f")>>), Ap(V("twice"), <<e>>), Ap(V("Class"), <<e>>), Ap(V("P"), <<e>>),
     Rec("Note", <<FieldE("text", e), FieldE("num", V("y"))>>), Rec("Note", <<FieldE("num", e), FieldE("num", e)>>),
     Rec("Some", <<FieldE("num", e)>>), Rec("P", <<>>), Rec("Std.inc", <<FieldE("num", e)>>),
     Rec("Class", <<FieldE("num", Rec("Std.inc", <<>>)), FieldE("val", V("z"))>>),
     CaseE(e, <<Alt(PR("P", <<FieldE("num", PB("z"))>>), V("z"))>>), Rec("Note", <<FieldE("num", Rec("Std.inc", <<>>))>>), Rec("Note", <<FieldE("val", e)>>),
     Upd("y", <<FieldE("num", e), FieldE("text", S("s"))>>), Upd("y", <<FieldE("val", e)>>), Upd("y", <<>>),
     Upd("z", <<FieldE("num", e), FieldE("num", e)>>), Fld(e, "num"), Fld(e, "val"), Itm(e, "1"),
     FormatE("t", <<e, V("x")>>), Lst(<<e, e>>), IfE(V("True"), e, V("x")), I("1")}

Scopes(e) ==
    ModuleOf(<<FnItem("f", <<PB("x"), PB("y")>>, e),
               FnItem("main", <<>>, DoE(<<Ap(V("f"), <<I("1"), S("s")>>), Bin("+", I("1"), I("2"))>>))>>)
ScopeTrees ==
    {<<Scopes(e)>> : e \in AroundX(AroundAll(AroundX(Uses))) \cup
        UNION {ScopeForms(e) : e \in Uses \cup {w \in AroundAll(Uses) : w.op # "Do"}} \cup
        AroundX(UNION {ScopeForms(e) : e \in Uses})} \cup
    {<<ModuleOf(<<FnItem("f", <<PB("x"), PB("x")>>, V("x")), External1("g", <<"x">>), FnItem("main", <<>>, I("1"))>>)>>}

-----------------------------------------------------------------------------
(* Texts that do not follow the rules do not begin with a word. *)

MCWellFormed(t) == t # <<>> /\ t[1].c = "word"

Start == Blank(1) \o <<WordPiece("module")>> \o Blank(1) \o <<WordPiece("M")>>
CharsOf(cs) == [k \in DOMAIN cs |-> IF cs[k] \in {"x", "1", "2", "do", "of", "where", "module", "case", "n"}
                                    THEN WordPiece(cs[k]) ELSE Char(cs[k])]
UpTo(n, S1) == UNION {[1..k -> S1] : k \in 0..n}

\* Comments within comments, with and without an end.
Marks1 == {<<"/", "*">>, <<"*", "/">>, <<"{", "-">>, <<"-", "}">>, <<"x">>}
Comments ==
    {Blank(1) \o <<Char("/"), Char("*")>> \o CharsOf(cs) \o <<WordPiece("module")>> :
        cs \in UpTo(6, {"/", "*"}) \cup {FlattenSeq(ms) : ms \in UpTo(4, Marks1)}}

\* A few words and parentheses, on the line or in one of two columns.
NewLine(w) == <<Char("\n")>> \o Blank(w)
Pieces1 ==
    {Blank(1) \o <<piece>> : piece \in {WordPiece("x"), WordPiece("do"), Char("("), Char(")")}} \cup
    {NewLine(w) \o <<piece>> : w \in {2, 4}, piece \in {WordPiece("x"), Char(")")}} \cup
    {NewLine(4) \o <<WordPiece("module")>>}
Mixed ==
    {Start \o Blank(1) \o <<WordPiece("where")>> \o NewLine(2) \o <<WordPiece("x")>> \o FlattenSeq(ps) :
        ps \in UpTo(3, Pieces1)}

\* Strings, numbers, operators and characters that are no tokens.
Lines ==
    {<<"\"", "x", "\"">>, <<"\"", "x", "\\", "n", "\"">>, <<"\"", "x", "\\", "x", "\"">>, <<"\"", "x">>,
     <<"\"", "x", "\n", "\"">>, <<"\"", "x", "\\", "\\", "\"">>, <<"\"", "x", "\\", "\"", "\"">>,
     <<"1", ".", "2">>, <<"x", ".", "1", ".", "2">>, <<"1", ".", "x">>, <<"+", "/">>, <<"-", "-", "x">>, <<"/", "/", "?">>,
     <<"?", "x">>, <<"+", "/", "*", "*", "/">>, <<"-", "1">>, <<"x", "=", "-", "x">>, <<"do">>, <<"=", "=">>,
     <<"/", "*">>, <<"/", "*", "x", "/", "*">>, <<"/", "*", "/", "*", "x", "*", "/">>}
Odd == {Start \o Blank(1) \o <<WordPiece("where")>> \o Blank(1) \o CharsOf(cs) : cs \in Lines} \cup
       {<<>>, Blank(1), Blank(1) \o CharsOf(<<"x">>), Blank(1) \o CharsOf(<<"module">>), Start}

\* A module that is cut, or has a piece too few or a wrong one.
Body1 ==
    TextOf(<<Scopes(CaseE(V("x"), <<Alt(PR("Note", FieldsXY), Tup(<<V("x"), DoE(<<V("y")>>)>>)), Alt(PW, Lst(<<>>))>>))>>,
           OneLine)
Cut ==
    {<<Char("\n")>> \o SubSeq(Body1, 1, k - 1) \o piece \o SubSeq(Body1, k + 1, Len(Body1)) :
        k \in DOMAIN Body1, piece \in {<<>>, <<WordPiece("do")>>, <<Char(")")>>, <<WordPiece("x")>>, <<Char("}")>>}} \cup
    {<<Char("\n")>> \o SubSeq(Body1, 1, k) : k \in DOMAIN Body1}

Panicking ==
    {<<Char("\n")>> \o TextOf(<<Scopes(CaseE(V("x"), <<Alt(p, V("y")), Alt(PW, V("y"))>>))>>, OneLine) :
        p \in {PG(POr(<<SomeX, PB("x")>>), V("True"))}}

\* main = do { do { x <- 1; x }; x }: a name is used after its block.
LeakTexts ==
    {TextOf(<<ModuleOf(<<FnItem("main", <<>>, DoE(<<DoE(<<BindE(PB("x"), I("1")), V("x")>>), V("x")>>))>>)>>, style) :
        style \in Styles}

MCTexts ==
    {TextOf(tree, OneLine) : tree \in FormTrees \cup PatternTrees \cup ScopeTrees} \cup
    {TextOf(tree, IF tree[1].name = "Int" THEN Style(TRUE, FALSE, FALSE) ELSE Style(TRUE, TRUE, TRUE)) :
        tree \in ItemTrees} \cup
    {TextOf(tree, style) : tree \in BlockTrees, style \in Styles} \cup
    Comments \cup Mixed \cup Odd \cup Cut \cup Panicking

=============================================================================
