-------------------------------- MODULE Parser --------------------------------
(***************************************************************************)
(* From tokens to syntax trees: siko_parser/parser.rs, expr.rs, util.rs.   *)
(*                                                                         *)
(* A tree is a record [op, name, subs]: what it is, a name or the text of  *)
(* a literal, and its parts.  Parsing something at position i of the       *)
(* tokens t gives [ok, panic, trees, next]: the trees it stands for, and   *)
(* the position after it.  Locations are left out.  The productions are    *)
(* operators of Parse by their names, which a sequence of steps mixes with *)
(* the kinds of tokens that are expected.                                  *)
(***************************************************************************)
EXTENDS Lexer

Tree(op, name, subs) == [op |-> op, name |-> name, subs |-> subs]
Leaf(op, name) == Tree(op, name, <<>>)

Parsed(trees, i) == [ok |-> TRUE, panic |-> FALSE, trees |-> trees, next |-> i]
Unexpected == [ok |-> FALSE, panic |-> FALSE, trees |-> <<>>, next |-> 0]
ParserPanic == [ok |-> FALSE, panic |-> TRUE, trees |-> <<>>, next |-> 0]

\* What follows a result, if there is one, and what is made of its trees.
After(r, Use(_)) == IF r.ok THEN Use(r) ELSE r
Following(r, more) == IF more.ok THEN Parsed(r.trees \o more.trees, more.next) ELSE more
As(r, op, name) == After(r, LAMBDA x : Parsed(<<Tree(op, name, x.trees)>>, x.next))

KindAt(t, i) == IF i <= Len(t) THEN t[i].kind ELSE "nothing"

\* The first of the kinds that comes from i on is the last of them.
ComesFirst(t, i, kinds, kind) ==
    \E j \in i..Len(t) : t[j].kind = kind /\ \A k \in i..(j - 1) : t[k].kind \notin kinds

\* Mutant: what is not expected is unwrapped.
ExpectPanics(t, i, kind) ==
    IF KindAt(t, i) # kind THEN ParserPanic
    ELSE Parsed(IF kind \in Literals THEN <<Leaf(kind, t[i].name)>> ELSE <<>>, i + 1)

\* Parser::expect.  There is nothing to look at after the last token.
Expect(t, i, kind) ==
    IF i > Len(t) THEN ParserPanic
    ELSE IF t[i].kind # kind THEN Unexpected
    ELSE Parsed(IF kind \in Literals THEN <<Leaf(kind, t[i].name)>> ELSE <<>>, i + 1)

\* irrefutable_pattern_follows, constraint_follows
BindFollows(t, i) == ComesFirst(t, i, {ItemEnd, "do"}, "<-")
ConstraintFollows(t, i) == ComesFirst(t, i, {ItemEnd}, "=>")

\* The operators of each level, from those that bind least.
BinaryOperators ==
    <<{"&&", "||"}, {"==", "!="}, {"<", "<=", ">", ">="}, {"+", "-"}, {"*", "/"}, {"|>"}>>

ArgumentStarts == {"!", "Type", "Var", "Int", "Float", "String", "(", "if", "do", "[", "\\"}
PatternStarts == {"(", "Int", "Float", "String", "Var", "Type", "Wildcard"}

FunctionCall(f, args) == Tree("FunctionCall", "", <<f>> \o args)
Operator(op) == Leaf("Builtin", op)

\* The sign of a literal.
Negated(literal) == [literal EXCEPT !.subs = IF @ = <<>> THEN <<Leaf("Minus", "")>> ELSE <<>>]

\* A minus before a literal is part of it; otherwise the operator for
\* subtraction is called with one argument.
Prefixed(op, tree) ==
    IF op = "-" /\ tree.op \in {"Int", "Float"} THEN Negated(tree)
    ELSE FunctionCall(Operator(op), <<tree>>)

\* Arguments that are patterns: the function has arguments with names of its
\* own, of which the patterns are bound first in its body.  get_temp_var_name
\* counts, here the position tells the names apart.
TempNames(i, patterns) == [k \in DOMAIN patterns |-> Leaf("Path", "$" \o ToString(i) \o "." \o ToString(k))]

WithPatterns(op, name, i, patterns, body) ==
    LET names == TempNames(i, patterns)
        bind == Tree("Bind", "", <<Tree("PTuple", "", patterns), Tree("Tuple", "", names)>>)
    IN  Tree(op, name, <<Tree("Args", "", names), Tree("Do", "", <<bind, body>>)>>)

RECURSIVE Parse(_, _, _), ListRest(_, _, _, _, _), Many(_, _, _, _), SeparatedBy(_, _, _, _),
          Block(_, _, _), Dotted(_, _, _, _), Binary(_, _, _), BinaryRest(_, _, _, _),
          Unary(_, _, _), Accesses(_, _, _), Signature(_, _, _)

\* The symbols one after the other: the trees of all of them.
Steps(t, i, symbols) ==
    FoldLeft(LAMBDA r, symbol : After(r, LAMBDA x : Following(x, Parse(t, x.next, symbol))),
             Parsed(<<>>, i), symbols)

\* One symbol, if a token of the kind is next.
Optional(t, i, kind, symbols) == IF KindAt(t, i) = kind THEN Steps(t, i, symbols) ELSE Parsed(<<>>, i)

\* Lists up to a closing token, in all their variants in parser.rs, expr.rs and
\* util.rs: a comma may come after the last item; a loose list needs no commas.
ListRest(t, i, item, close, loose) ==
    IF KindAt(t, i) = close THEN Parsed(<<>>, i + 1)
    ELSE After(Parse(t, i, item), LAMBDA x :
            IF KindAt(t, x.next) = "," THEN Following(x, ListRest(t, x.next + 1, item, close, loose))
            ELSE IF loose THEN Following(x, ListRest(t, x.next, item, close, loose))
            ELSE Following(x, Expect(t, x.next, close)))

List0(t, i, open, item, close) ==
    After(Expect(t, i, open), LAMBDA x : ListRest(t, x.next, item, close, FALSE))

List1(t, i, item) ==
    IF KindAt(t, i + 1) = ")" THEN Unexpected ELSE List0(t, i, "(", item, ")")

\* parse_parens: one item without a comma is no tuple.
Parens(t, i, item, op) ==
    After(List0(t, i, "(", item, ")"), LAMBDA x :
        IF Len(x.trees) = 1 /\ t[x.next - 2].kind # "," THEN x ELSE As(x, op, ""))

Many(t, i, starts, item) ==
    IF i > Len(t) THEN ParserPanic
    ELSE IF KindAt(t, i) \notin starts THEN Parsed(<<>>, i)
    ELSE After(Parse(t, i, item), LAMBDA x : Following(x, Many(t, x.next, starts, item)))

SeparatedBy(t, i, item, separator) ==
    After(Parse(t, i, item), LAMBDA x :
        IF KindAt(t, x.next) # separator THEN x
        ELSE Following(x, SeparatedBy(t, x.next + 1, item, separator)))

\* The items up to the end of the block.
Block(t, i, item) ==
    IF KindAt(t, i) = BlockEnd THEN Parsed(<<>>, i + 1)
    ELSE After(Parse(t, i, item), LAMBDA x : Following(x, Block(t, x.next, item)))

\* A block that has an item.
Block1(t, i, item) == After(Parse(t, i, item), LAMBDA x : Following(x, Block(t, x.next, item)))

\* Names with dots, from the first part on.  A name of an expression may end
\* with a part that is no type's, or with the dot if no part comes after it.
Dotted(t, i, name, ofType) ==
    LET kind == KindAt(t, i)
        part == Parsed(<<Leaf("Name", name \o t[i].name)>>, i + 1)
    IN  CASE i > Len(t) -> ParserPanic
          [] kind = "Type" ->
                IF KindAt(t, i + 1) = "." THEN Dotted(t, i + 2, name \o t[i].name \o ".", ofType) ELSE part
          [] kind = "Var" /\ ~ofType -> part
          [] i <= Len(t) /\ kind # "Type" /\ ~(kind = "Var" /\ ~ofType) ->
                IF ofType THEN Unexpected ELSE Parsed(<<Leaf("Name", name)>>, i)

\* What is named by the first tree, and has the others as its parts.
NamedAs(r, op) == After(r, LAMBDA x : Parsed(<<Tree(op, x.trees[1].name, Tail(x.trees))>>, x.next))

-----------------------------------------------------------------------------
(* Types. *)

\* The name for a type that may have wildcards in it.
SignatureSymbol(wild) == IF wild THEN "WildcardSignature" ELSE "Signature"

TypeArgument(t, i, wild) ==
    CASE KindAt(t, i) = "Type" -> NamedAs(Dotted(t, i, "", TRUE), "TNamed")
      [] KindAt(t, i) = "Var" -> NamedAs(Expect(t, i, "Var"), "TArg")
      [] KindAt(t, i) \notin {"Type", "Var"} -> Parens(t, i, SignatureSymbol(wild), "TTuple")

TypePart(t, i, wild) ==
    LET kind == KindAt(t, i)
    IN  CASE kind \in {"(", "Var"} -> TypeArgument(t, i, wild)
          [] kind = "[" -> As(Steps(t, i, <<"[", SignatureSymbol(wild), "]">>), "TNamed", "List.List")
          [] kind = "Type" ->
                NamedAs(After(Dotted(t, i, "", TRUE), LAMBDA x :
                            Following(x, Many(t, x.next, {"Type", "Var", "("},
                                              IF wild THEN "WildcardArgument" ELSE "TypeArgument"))),
                        "TNamed")
          [] kind = "Wildcard" /\ wild -> Parsed(<<Leaf("TWildcard", "")>>, i + 1)
          [] kind \notin {"(", "Var", "[", "Type"} /\ ~(kind = "Wildcard" /\ wild) -> Unexpected

\* parse_function_type
Signature(t, i, wild) ==
    After(TypePart(t, i, wild), LAMBDA x :
        IF KindAt(t, x.next) # "->" THEN x
        ELSE As(Following(x, Signature(t, x.next + 1, wild)), "TFunction", ""))

-----------------------------------------------------------------------------
(* Patterns. *)

Constructor(t, i, inner) ==
    After(Dotted(t, i, "", TRUE), LAMBDA x :
        IF inner THEN NamedAs(x, "PConstructor")
        ELSE IF KindAt(t, x.next) = "{"
        THEN NamedAs(Following(x, List0(t, x.next, "{", "FieldPattern", "}")), "PRecord")
        ELSE NamedAs(Following(x, Many(t, x.next, PatternStarts, "InnerPattern")), "PConstructor"))

\* parse_sub_pattern: an inner constructor has no arguments without parentheses.
Pattern(t, i, inner) ==
    LET kind == KindAt(t, i)
    IN  CASE kind = "(" -> Parens(t, i, "Pattern", "PTuple")
          [] kind = "Type" -> Constructor(t, i, inner)
          [] kind = "Var" -> NamedAs(Expect(t, i, kind), "PBinding")
          [] kind \in PatternStarts \ {"(", "Type", "Var"} -> NamedAs(Expect(t, i, kind), "P" \o kind)
          [] i > Len(t) -> ParserPanic
          [] i <= Len(t) /\ kind \notin PatternStarts -> Unexpected

\* A field without a pattern is unimplemented!().
FieldPattern(t, i) ==
    After(Steps(t, i, <<"Var", "=">>), LAMBDA x :
        IF KindAt(t, x.next) \notin PatternStarts THEN ParserPanic
        ELSE NamedAs(Following(x, Parse(t, x.next, "InnerPattern")), "Field"))

-----------------------------------------------------------------------------
(* Expressions. *)

\* Mutant: operators of one level are grouped to the right.
BinaryRight(t, i, level, left) ==
    IF KindAt(t, i) \notin BinaryOperators[level] THEN Parsed(<<left>>, i)
    ELSE After(Binary(t, i + 1, level), LAMBDA x :
            Parsed(<<FunctionCall(Operator(KindAt(t, i)), <<left, x.trees[1]>>)>>, x.next))

\* The operators of a level and what they stand between, from left to right.
BinaryRest(t, i, level, left) ==
    IF KindAt(t, i) \notin BinaryOperators[level] THEN Parsed(<<left>>, i)
    ELSE After(Binary(t, i + 1, level + 1), LAMBDA x :
            BinaryRest(t, x.next, level, FunctionCall(Operator(KindAt(t, i)), <<left, x.trees[1]>>)))

\* parse_composition: members of what an application gives.
Accesses(t, i, left) ==
    IF KindAt(t, i) # "." THEN Parsed(<<left>>, i)
    ELSE IF KindAt(t, i + 1) \notin {"Var", "Int"} THEN Unexpected
    ELSE Accesses(t, i + 2, Tree(IF t[i + 1].kind = "Var" THEN "FieldAccess" ELSE "TupleFieldAccess",
                                 t[i + 1].name, <<left>>))

\* parse_primary
Application(t, i) ==
    After(Unary(t, i, {"!", "-"}), LAMBDA f :
        After(Many(t, f.next, ArgumentStarts, "Argument"), LAMBDA args :
            IF args.trees = <<>> THEN f
            ELSE Parsed(<<FunctionCall(f.trees[1], args.trees)>>, args.next)))

Binary(t, i, level) ==
    IF level > Len(BinaryOperators)
    THEN After(Application(t, i), LAMBDA x : Accesses(t, x.next, x.trees[1]))
    ELSE After(Binary(t, i, level + 1), LAMBDA x : BinaryRest(t, x.next, level, x.trees[1]))

\* A name, or the record that is made or updated.
NameOrRecord(t, name, op) ==
    After(name, LAMBDA x :
        IF KindAt(t, x.next) # "{" THEN NamedAs(x, "Path")
        ELSE NamedAs(Following(x, List0(t, x.next, "{", "FieldValue", "}")), op))

Formatted(t, i) ==
    As(IF KindAt(t, i + 2) = "(" THEN List1(t, i + 2, "Expr") ELSE Parse(t, i + 2, "Expr"),
       "Formatter", t[i].name)

Lambda(t, i) ==
    After(SeparatedBy(t, i + 1, "Pattern", ","), LAMBDA patterns :
        After(Steps(t, patterns.next, <<"->", "Expr">>), LAMBDA x :
            Parsed(<<WithPatterns("Lambda", "", i, patterns.trees, x.trees[1])>>, x.next)))

CaseOf(t, i) ==
    After(Steps(t, i, <<"case", "Expr", "of">>), LAMBDA x :
        Following(x, Block1(t, x.next, "Alternative")))

\* parse_arg
Arg(t, i) ==
    LET kind == KindAt(t, i)
    IN  CASE kind = "Type" -> NameOrRecord(t, Dotted(t, i, "", FALSE), "RecordInitialization")
          [] kind = "Var" -> NameOrRecord(t, Expect(t, i, "Var"), "RecordUpdate")
          [] kind \in {"Int", "Float"} -> Expect(t, i, kind)
          [] kind = "String" -> IF KindAt(t, i + 1) = "%" THEN Formatted(t, i) ELSE Expect(t, i, kind)
          [] kind = "(" -> Parens(t, i, "Expr", "Tuple")
          [] kind = "[" -> As(ListRest(t, i + 1, "Expr", "]", TRUE), "List", "")
          [] kind = "if" -> As(Steps(t, i, <<"if", "Expr", "then", "Expr", "else", "Expr">>), "If", "")
          [] kind = "do" -> As(Block1(t, i + 1, "Statement"), "Do", "")
          [] kind = "\\" -> Lambda(t, i)
          [] kind = "case" -> As(CaseOf(t, i), "CaseOf", "")
          [] i > Len(t) -> ParserPanic
          [] i <= Len(t) /\ kind \notin (ArgumentStarts \ {"!"}) \cup {"case"} -> Unexpected

\* parse_unary: an argument cannot begin with a minus.
Unary(t, i, ops) ==
    IF KindAt(t, i) \notin ops THEN Arg(t, i)
    ELSE After(Unary(t, i + 1, ops), LAMBDA x :
            Parsed(<<Prefixed(KindAt(t, i), x.trees[1])>>, x.next))

\* A part of a do block.
TypedPattern(t, i) ==
    After(Pattern(t, i, FALSE), LAMBDA x :
        IF KindAt(t, x.next) # "::" THEN x
        ELSE As(Following(x, Signature(t, x.next + 1, TRUE)), "PTyped", ""))

Statement(t, i) ==
    IF BindFollows(t, i)
    THEN As(After(TypedPattern(t, i), LAMBDA x : Following(x, Steps(t, x.next, <<"<-", "Expr", ItemEnd>>))),
            "Bind", "")
    ELSE Steps(t, i, <<"Expr", ItemEnd>>)

\* A case: alternative patterns, and a guard for all of them.
Alternative(t, i) ==
    LET patterns ==
            After(SeparatedBy(t, i, "Pattern", "|"), LAMBDA x :
                IF Len(x.trees) = 1 THEN x ELSE As(x, "POr", ""))
        guarded ==
            After(patterns, LAMBDA x :
                IF KindAt(t, x.next) # "if" THEN x
                ELSE As(Following(x, Parse(t, x.next + 1, "Expr")), "PGuarded", ""))
    IN  As(After(guarded, LAMBDA x : Following(x, Steps(t, x.next, <<"->", "Expr", ItemEnd>>))), "Case", "")

-----------------------------------------------------------------------------
(* Items of a module. *)

Names(patterns) == [k \in DOMAIN patterns |-> Leaf("Path", patterns[k].name)]
AllBindings(patterns) == \A k \in DOMAIN patterns : patterns[k].op = "PBinding"

\* The constraints in front of a type, if there are any.
Constraints(t, i, given) ==
    IF ~given THEN Parsed(<<Leaf("Constraints", "")>>, i)
    ELSE After(As(List1(t, i, "Constraint"), "Constraints", ""), LAMBDA x :
            Following(x, Expect(t, x.next, "=>")))

FunctionTypeItem(t, i, name, patterns) ==
    After(Constraints(t, i, ConstraintFollows(t, i)), LAMBDA x :
        After(Following(x, Steps(t, x.next, <<"Signature", ItemEnd>>)), LAMBDA y :
            IF ~AllBindings(patterns) THEN Unexpected
            ELSE Parsed(<<Tree("FunctionType", name, <<Tree("Args", "", Names(patterns))>> \o y.trees)>>, y.next)))

\* A function with arguments binds their patterns first; one from outside
\* can have names only.
FunctionBody(t, i, name, patterns) ==
    IF KindAt(t, i) = "extern"
    THEN IF ~AllBindings(patterns) THEN Unexpected
         ELSE Following(Parsed(<<Tree("Function", name,
                                      <<Tree("Args", "", Names(patterns)), Leaf("Extern", "")>>)>>, 0),
                        Expect(t, i + 1, ItemEnd))
    ELSE After(Steps(t, i, <<"Expr", ItemEnd>>), LAMBDA x :
            Parsed(<<IF patterns = <<>>
                     THEN Tree("Function", name, <<Leaf("Args", ""), x.trees[1]>>)
                     ELSE WithPatterns("Function", name, i, patterns, x.trees[1])>>, x.next))

\* parse_function_or_function_type
FunctionItem(t, i) ==
    After(Expect(t, i, "Var"), LAMBDA name :
        After(Many(t, name.next, PatternStarts, "Pattern"), LAMBDA args :
            IF KindAt(t, args.next) = "::" THEN FunctionTypeItem(t, args.next + 1, t[i].name, args.trees)
            ELSE After(Expect(t, args.next, "="), LAMBDA x :
                    IF x.next > Len(t) THEN ParserPanic
                    ELSE FunctionBody(t, x.next, t[i].name, args.trees))))

AnyIdentifier(t, i) == Expect(t, i, IF KindAt(t, i) = "Type" THEN "Type" ELSE "Var")

ListedItem(t, i) ==
    After(AnyIdentifier(t, i), LAMBDA x :
        IF KindAt(t, x.next) # "(" THEN NamedAs(x, "Named")
        ELSE NamedAs(Following(x, List0(t, x.next, "(", "ListedMember", ")")), "Group"))

ListedMember(t, i) ==
    IF KindAt(t, i) = ".." THEN Parsed(<<Leaf("All", "")>>, i + 1) ELSE NamedAs(Expect(t, i, "Type"), "Specific")

ItemList(t, i) ==
    IF KindAt(t, i) # "(" THEN Parsed(<<Leaf("ImplicitAll", "")>>, i)
    ELSE As(List0(t, i, "(", "ListedItem", ")"), "Explicit", "")

Import(t, i) ==
    After(Steps(t, i, <<"import", "TypeName">>), LAMBDA x :
        NamedAs(
            After(IF KindAt(t, x.next) = "hiding"
                  THEN Following(x, As(List1(t, x.next + 1, "AnyIdentifier"), "Hiding", ""))
                  ELSE After(Following(x, ItemList(t, x.next)), LAMBDA y :
                            Following(y, Optional(t, y.next, "as", <<"as", "Type">>))),
                  LAMBDA y : Following(y, Expect(t, y.next, ItemEnd))),
            "Import"))

\* The names after deriving, in parentheses or not.
Deriving(t, i) ==
    IF KindAt(t, i) # "deriving" THEN Parsed(<<Leaf("Deriving", "")>>, i)
    ELSE As(IF KindAt(t, i + 1) = "(" THEN List0(t, i + 1, "(", "TypeName", ")")
            ELSE SeparatedBy(t, i + 1, "TypeName", ","), "Deriving", "")

\* The name of a variant is that of its type up to the first dot.
VariantItem(t, i) ==
    After(Expect(t, i, "Type"), LAMBDA x :
        As(After(TypePart(t, i, FALSE), LAMBDA y : Parsed(<<[y.trees[1] EXCEPT !.op = "TVariant"]>>, y.next)),
           "Variant", t[i].name))

DataBody(t, i) ==
    LET derived(r, op) == After(As(r, op, ""), LAMBDA x : Following(x, Deriving(t, x.next)))
    IN  CASE KindAt(t, i) = "{" -> derived(ListRest(t, i + 1, "RecordField", "}", FALSE), "Record")
          [] KindAt(t, i) = "extern" -> Parsed(<<Leaf("External", "")>>, i + 1)
          [] KindAt(t, i) \notin {"{", "extern"} -> derived(SeparatedBy(t, i, "VariantItem", "|"), "Adt")

Data(t, i) ==
    After(Steps(t, i, <<"data", "Type">>), LAMBDA name :
        After(As(Many(t, name.next, {"Var"}, "Var"), "Args", ""), LAMBDA args :
            After(Expect(t, args.next, "="), LAMBDA x :
                After(DataBody(t, x.next), LAMBDA body :
                    Following(Parsed(<<Tree("Data", name.trees[1].name, args.trees \o body.trees)>>, 0),
                              Expect(t, body.next, ItemEnd))))))

\* The functions of a class or an instance.
MemberFunctions(t, i) ==
    After(As(IF KindAt(t, i) = "where" THEN Block(t, i + 1, "FunctionItem") ELSE Parsed(<<>>, i), "Members", ""),
          LAMBDA x : Following(x, Expect(t, x.next, ItemEnd)))

\* What classes and instances have in common.
ClassItem(t, i, op) ==
    As(After(Constraints(t, i, KindAt(t, i) = "("), LAMBDA x :
        After(Following(x, Steps(t, x.next, <<"Type", "Signature">>)), LAMBDA y :
            Following(y, MemberFunctions(t, y.next)))), op, "")

InstanceItem(t, i) ==
    IF KindAt(t, i) = "as"
    THEN After(Expect(t, i + 1, "Type"), LAMBDA name : ClassItem(t, name.next, "Instance"))
    ELSE ClassItem(t, i, "Instance")

Actor(t, i) ==
    NamedAs(After(Steps(t, i, <<"actor", "Type", "Signature", "where">>), LAMBDA x :
                After(Following(x, Block1(t, x.next, "Handler")), LAMBDA y :
                    Following(y, Expect(t, y.next, ItemEnd)))), "Actor")

ModuleItem(t, i) ==
    LET kind == KindAt(t, i)
    IN  CASE kind = "import" -> Import(t, i)
          [] kind = "data" -> Data(t, i)
          [] kind = "class" -> ClassItem(t, i + 1, "Class")
          [] kind = "instance" -> InstanceItem(t, i + 1)
          [] kind = "protocol" -> NamedAs(Steps(t, i, <<"protocol", "Type", "=", "Signature", ItemEnd>>), "Protocol")
          [] kind = "actor" -> Actor(t, i)
          [] kind \notin {"import", "data", "class", "instance", "protocol", "actor"} -> FunctionItem(t, i)

Module(t, i) ==
    NamedAs(After(Steps(t, i, <<"module", "TypeName", "ItemList", "where">>), LAMBDA x :
                After(Following(x, Block(t, x.next, "ModuleItem")), LAMBDA y :
                    Following(y, Expect(t, y.next, ModuleEnd)))), "Module")

Parse(t, i, symbol) ==
    CASE symbol \in Kinds \cup Ends -> Expect(t, i, symbol)
      [] symbol = "Signature" -> Signature(t, i, FALSE)
      [] symbol = "WildcardSignature" -> Signature(t, i, TRUE)
      [] symbol = "TypeArgument" -> TypeArgument(t, i, FALSE)
      [] symbol = "WildcardArgument" -> TypeArgument(t, i, TRUE)
      [] symbol = "TypeName" -> Dotted(t, i, "", TRUE)
      [] symbol = "QualifiedName" -> Dotted(t, i, "", FALSE)
      [] symbol = "Pattern" -> Pattern(t, i, FALSE)
      [] symbol = "InnerPattern" -> Pattern(t, i, TRUE)
      [] symbol = "FieldPattern" -> FieldPattern(t, i)
      [] symbol = "FieldValue" -> NamedAs(Steps(t, i, <<"Var", "=", "Expr">>), "Field")
      [] symbol = "Expr" -> Binary(t, i, 1)
      [] symbol = "Argument" -> Unary(t, i, {"!"})
      [] symbol = "Statement" -> Statement(t, i)
      [] symbol = "Alternative" -> Alternative(t, i)
      [] symbol = "Constraint" -> NamedAs(Steps(t, i, <<"TypeName", "Var">>), "Constraint")
      [] symbol = "FunctionItem" -> FunctionItem(t, i)
      [] symbol = "AnyIdentifier" -> AnyIdentifier(t, i)
      [] symbol = "ListedItem" -> ListedItem(t, i)
      [] symbol = "ListedMember" -> ListedMember(t, i)
      [] symbol = "ItemList" -> ItemList(t, i)
      [] symbol = "RecordField" -> NamedAs(Steps(t, i, <<"Var", "::", "Signature">>), "RecordField")
      [] symbol = "VariantItem" -> VariantItem(t, i)
      [] symbol = "Handler" -> NamedAs(Steps(t, i, <<"Type", "->", "QualifiedName", ItemEnd>>), "Handler")
      [] symbol = "ModuleItem" -> ModuleItem(t, i)
      [] symbol = "Module" -> Module(t, i)

-----------------------------------------------------------------------------
(* The modules of a file. *)

ImplicitModules ==
    <<"Int", "Float", "String", "Bool", "Ordering", "Option", "Result", "List", "Std.Util.Basic",
      "Std.Ops">>

\* Modules that every module imports, unless it is one of them or imports it
\* by itself.
WithImplicitImports(module) ==
    LET imports(name) == \E k \in DOMAIN module.subs : module.subs[k].op = "Import" /\ module.subs[k].name = name
        missing == SelectSeq(ImplicitModules, LAMBDA name : name # module.name /\ ~imports(name))
    IN  [module EXCEPT !.subs = @ \o [k \in DOMAIN missing |->
                                        Tree("Import", missing[k], <<Leaf("ImplicitAll", "")>>)]]

RECURSIVE Modules(_, _)
Modules(t, i) ==
    IF i > Len(t) THEN Parsed(<<>>, i)
    ELSE After(Module(t, i), LAMBDA x : Following(x, Modules(t, x.next)))

\* Parser::parse
ParseFile(t) ==
    After(Modules(t, 1), LAMBDA x :
        Parsed([k \in DOMAIN x.trees |-> WithImplicitImports(x.trees[k])], x.next))

=============================================================================
