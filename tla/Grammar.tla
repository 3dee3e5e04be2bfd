------------------------------- MODULE Grammar -------------------------------
(***************************************************************************)
(* How a syntax tree is written: the tokens of its text, with the ends of  *)
(* items and blocks, and with parentheses only where they are needed.      *)
(* This is the reference for siko_parser: it says what binds stronger and  *)
(* what belongs together, and knows nothing of how a text is read.         *)
(***************************************************************************)
EXTENDS Parser

CONSTANT Spelling   \* the names with dots in them -> their parts

Mark(kind) == [kind |-> kind, name |-> ""]
Marks(kinds) == [k \in DOMAIN kinds |-> Mark(kinds[k])]
Word(name) == [kind |-> IF name \in Capitalised THEN "Type" ELSE "Var", name |-> name]

\* Sequences of tokens with a token between them.
Joined(parts, kind) ==
    FoldLeft(LAMBDA s, k : s \o (IF k = 1 THEN <<>> ELSE Marks(<<kind>>)) \o parts[k], <<>>,
             [k \in DOMAIN parts |-> k])

Name(name) ==
    IF name \in DOMAIN Spelling
    THEN Joined([k \in DOMAIN Spelling[name] |-> <<Word(Spelling[name][k])>>], ".")
    ELSE <<Word(name)>>

Between(open, tokenSeq, close) == Marks(<<open>>) \o tokenSeq \o Marks(<<close>>)
Grouped(needed, tokenSeq) == IF needed THEN Between("(", tokenSeq, ")") ELSE tokenSeq

\* A tuple of one part has a comma after it.
Tupled(parts) == Between("(", Joined(parts, ",") \o (IF Len(parts) = 1 THEN Marks(<<",">>) ELSE <<>>), ")")
BlockOf(items) == FlattenSeq([k \in DOMAIN items |-> items[k] \o Marks(<<ItemEnd>>)]) \o Marks(<<BlockEnd>>)

-----------------------------------------------------------------------------
(* Types: what is before an arrow, and what is an argument of a type, is   *)
(* grouped.                                                                *)

RECURSIVE WrittenType(_, _), WrittenPattern(_, _), Written(_, _, _)

WrittenType(ty, place) ==
    LET parts(where) == [k \in DOMAIN ty.subs |-> WrittenType(ty.subs[k], where)]
    IN  CASE ty.op = "TFunction" ->
                Grouped(place # "whole",
                        WrittenType(ty.subs[1], "before") \o Marks(<<"->">>) \o WrittenType(ty.subs[2], "whole"))
          [] ty.op = "TTuple" -> Tupled(parts("whole"))
          [] ty.op = "TArg" -> <<Word(ty.name)>>
          [] ty.op = "TWildcard" -> Marks(<<"Wildcard">>)
          [] ty.op \in {"TNamed", "TVariant"} ->
                IF ty.name = "List.List"
                THEN Grouped(place = "argument", Between("[", parts("whole")[1], "]"))
                ELSE Grouped(place = "argument" /\ ty.subs # <<>>,
                             Name(ty.name) \o FlattenSeq(parts("argument")))

-----------------------------------------------------------------------------
(* Patterns: a constructor takes what follows it as its arguments.         *)

\* place is "whole", "argument" of a constructor, or "parameter" when another
\* pattern follows.
WrittenPattern(p, place) ==
    CASE p.op = "PBinding" -> <<Word(p.name)>>
      [] p.op = "PWildcard" -> Marks(<<"Wildcard">>)
      [] p.op \in {"PInt", "PFloat", "PString"} ->
            <<[kind |-> CASE p.op = "PInt" -> "Int" [] p.op = "PFloat" -> "Float" [] p.op = "PString" -> "String",
               name |-> p.name]>>
      [] p.op = "PTuple" -> Tupled([k \in DOMAIN p.subs |-> WrittenPattern(p.subs[k], "whole")])
      [] p.op = "PConstructor" ->
            Grouped(place = "parameter" \/ (place = "argument" /\ p.subs # <<>>),
                    Name(p.name) \o FlattenSeq([k \in DOMAIN p.subs |-> WrittenPattern(p.subs[k], "argument")]))
      [] p.op = "PRecord" ->
            Grouped(place = "argument",
                    Name(p.name) \o
                    Between("{", Joined([k \in DOMAIN p.subs |->
                                <<Word(p.subs[k].name)>> \o Marks(<<"=">>) \o WrittenPattern(p.subs[k].subs[1], "argument")],
                            ","), "}"))
      [] p.op = "PTyped" ->
            WrittenPattern(p.subs[1], "whole") \o Marks(<<"::">>) \o WrittenType(p.subs[2], "whole")
      [] p.op = "POr" -> Joined([k \in DOMAIN p.subs |-> WrittenPattern(p.subs[k], "whole")], "|")
      [] p.op = "PGuarded" ->
            WrittenPattern(p.subs[1], "whole") \o Marks(<<"if">>) \o Written(p.subs[2], 1, TRUE)

Parameters(patterns) ==
    FlattenSeq([k \in DOMAIN patterns |->
        WrittenPattern(patterns[k], IF k < Len(patterns) THEN "parameter" ELSE "whole")])

-----------------------------------------------------------------------------
(* Expressions.  How strong a form is: the levels of operators, then       *)
(* members, applications, a minus, a not, and what stands by itself.       *)

MemberLevel == 7
ApplicationLevel == 8
MinusLevel == 9
NotLevel == 10
AloneLevel == 11

\* The name of a binary operator, none if the call is of another kind.
IsOperator(e, arity) == e.op = "FunctionCall" /\ e.subs[1].op = "Builtin" /\ Len(e.subs) = arity + 1
LevelOf(op) == CHOOSE level \in DOMAIN BinaryOperators : op \in BinaryOperators[level]

Strength(e) ==
    CASE IsOperator(e, 2) -> LevelOf(e.subs[1].name)
      [] IsOperator(e, 1) -> IF e.subs[1].name = "-" THEN MinusLevel ELSE NotLevel
      [] e.op = "FunctionCall" /\ e.subs[1].op # "Builtin" -> ApplicationLevel
      [] e.op \in {"FieldAccess", "TupleFieldAccess"} -> MemberLevel
      [] e.op \in {"Int", "Float"} /\ e.subs # <<>> -> MinusLevel
      [] e.op = "CaseOf" -> MinusLevel
      [] e.op \notin {"FunctionCall", "FieldAccess", "TupleFieldAccess", "CaseOf"}
         /\ ~(e.op \in {"Int", "Float"} /\ e.subs # <<>>) -> AloneLevel

\* One argument of a formatter needs no parentheses, unless it begins with one.
BareArgument(e) == Len(e.subs) = 1 /\ Written(e.subs[1], 1, TRUE)[1].kind # "("

\* These take everything that follows: they stand last or in parentheses.
TakesTheRest(e) == e.op \in {"If", "Lambda"} \/ (e.op = "Formatter" /\ BareArgument(e))

\* The patterns of a function or lambda and its body, without the names and
\* the binding between them.
Patterns(e) == e.subs[2].subs[1].subs[1].subs
BodyIn(e) == e.subs[2].subs[2]

WrittenFields(e) ==
    Name(e.name) \o
    Between("{", Joined([k \in DOMAIN e.subs |->
                <<Word(e.subs[k].name)>> \o Marks(<<"=">>) \o Written(e.subs[k].subs[1], 1, TRUE)], ","), "}")

Statements(e) ==
    [k \in DOMAIN e.subs |->
        IF e.subs[k].op = "Bind"
        THEN WrittenPattern(e.subs[k].subs[1], "whole") \o Marks(<<"<-">>) \o Written(e.subs[k].subs[2], 1, TRUE)
        ELSE Written(e.subs[k], 1, TRUE)]

Cases(e) ==
    [k \in 1..(Len(e.subs) - 1) |->
        WrittenPattern(e.subs[k + 1].subs[1], "whole") \o Marks(<<"->">>) \o
        Written(e.subs[k + 1].subs[2], 1, TRUE)]

\* The tokens of an expression where it must have a strength; last if nothing
\* follows that it could take.
Written(e, strength, last) ==
    LET grouped == Strength(e) < strength \/ (TakesTheRest(e) /\ ~last)
        free == last \/ grouped
        at(k, level, end) == Written(e.subs[k], level, end)
        all == [k \in DOMAIN e.subs |-> at(k, 1, TRUE)]
        literal == <<[kind |-> e.op, name |-> e.name]>>
    IN  Grouped(grouped,
          CASE IsOperator(e, 2) ->
                LET level == LevelOf(e.subs[1].name)
                IN  at(2, level, FALSE) \o Marks(<<e.subs[1].name>>) \o at(3, level + 1, free)
            [] IsOperator(e, 1) -> Marks(<<e.subs[1].name>>) \o at(2, IF e.subs[1].name = "-" THEN MinusLevel ELSE NotLevel, free)
            [] e.op = "FunctionCall" /\ e.subs[1].op # "Builtin" ->
                at(1, MinusLevel, FALSE) \o
                FlattenSeq([k \in 1..(Len(e.subs) - 1) |-> at(k + 1, NotLevel, free /\ k + 1 = Len(e.subs))])
            [] e.op \in {"FieldAccess", "TupleFieldAccess"} ->
                at(1, MemberLevel, FALSE) \o Marks(<<".">>) \o
                <<[kind |-> IF e.op = "FieldAccess" THEN "Var" ELSE "Int", name |-> e.name]>>
            [] e.op \in {"Int", "Float"} -> Marks(IF e.subs = <<>> THEN <<>> ELSE <<"-">>) \o literal
            [] e.op = "String" -> literal
            [] e.op = "Path" -> Name(e.name)
            [] e.op = "Formatter" ->
                <<[kind |-> "String", name |-> e.name]>> \o Marks(<<"%">>) \o
                (IF BareArgument(e) THEN all[1] ELSE Between("(", Joined(all, ","), ")"))
            [] e.op = "Tuple" -> Tupled(all)
            [] e.op = "List" -> Between("[", Joined(all, ","), "]")
            [] e.op = "If" ->
                Marks(<<"if">>) \o all[1] \o Marks(<<"then">>) \o all[2] \o Marks(<<"else">>) \o all[3]
            [] e.op = "Do" -> Marks(<<"do">>) \o BlockOf(Statements(e))
            [] e.op = "CaseOf" -> Marks(<<"case">>) \o all[1] \o Marks(<<"of">>) \o BlockOf(Cases(e))
            [] e.op = "Lambda" ->
                Marks(<<"\\">>) \o Joined([k \in DOMAIN Patterns(e) |-> WrittenPattern(Patterns(e)[k], "whole")], ",") \o
                Marks(<<"->">>) \o Written(BodyIn(e), 1, TRUE)
            [] e.op \in {"RecordInitialization", "RecordUpdate"} -> WrittenFields(e))

-----------------------------------------------------------------------------
(* Items of a module. *)

Arguments(args) == [k \in DOMAIN args.subs |-> Word(args.subs[k].name)]

WrittenConstraints(constraints) ==
    IF constraints.subs = <<>> THEN <<>>
    ELSE Between("(", Joined([k \in DOMAIN constraints.subs |->
                        Name(constraints.subs[k].name) \o <<Word(constraints.subs[k].subs[1].name)>>], ","), ")")
         \o Marks(<<"=>">>)

WrittenFunction(item) ==
    LET args == item.subs[1]
    IN  <<Word(item.name)>> \o
        (CASE item.op = "FunctionType" ->
                Arguments(args) \o Marks(<<"::">>) \o WrittenConstraints(item.subs[2]) \o
                WrittenType(item.subs[3], "whole")
           [] item.op = "Function" /\ item.subs[2].op = "Extern" -> Arguments(args) \o Marks(<<"=", "extern">>)
           [] item.op = "Function" /\ item.subs[2].op # "Extern" ->
                IF args.subs = <<>> THEN Marks(<<"=">>) \o Written(item.subs[2], 1, TRUE)
                ELSE Parameters(Patterns(item)) \o Marks(<<"=">>) \o Written(BodyIn(item), 1, TRUE))

WrittenList(list, Item(_)) ==
    IF list.op = "ImplicitAll" THEN <<>>
    ELSE Between("(", Joined([k \in DOMAIN list.subs |-> Item(list.subs[k])], ","), ")")

ListedMembers(member) == IF member.op = "All" THEN Marks(<<"..">>) ELSE <<Word(member.name)>>
Listed(item) ==
    <<Word(item.name)>> \o
    (IF item.op = "Group" THEN WrittenList(item, ListedMembers) ELSE <<>>)
Hidden(item) == <<Word(item.name)>>

WrittenImport(item) ==
    Marks(<<"import">>) \o Name(item.name) \o
    (IF item.subs[1].op = "Hiding" THEN Marks(<<"hiding">>) \o WrittenList(item.subs[1], Hidden)
     ELSE WrittenList(item.subs[1], Listed) \o
          (IF Len(item.subs) = 1 THEN <<>> ELSE Marks(<<"as">>) \o <<Word(item.subs[2].name)>>))

WrittenData(item) ==
    LET args == item.subs[1]
        body == item.subs[2]
        classes == [k \in DOMAIN item.subs[3].subs |-> Name(item.subs[3].subs[k].name)]
        deriving ==
            IF Len(item.subs) < 3 \/ classes = <<>> THEN <<>>
            ELSE Marks(<<"deriving">>) \o Grouped(Len(classes) > 1, Joined(classes, ","))
    IN  Marks(<<"data">>) \o <<Word(item.name)>> \o Arguments(args) \o Marks(<<"=">>) \o
        (CASE body.op = "External" -> Marks(<<"extern">>)
           [] body.op = "Record" ->
                Between("{", Joined([k \in DOMAIN body.subs |->
                    <<Word(body.subs[k].name)>> \o Marks(<<"::">>) \o WrittenType(body.subs[k].subs[1], "whole")], ","), "}")
           [] body.op = "Adt" ->
                Joined([k \in DOMAIN body.subs |-> WrittenType(body.subs[k].subs[1], "whole")], "|"))
        \o deriving

WrittenClass(item) ==
    Marks(<<IF item.op = "Class" THEN "class" ELSE "instance">>) \o WrittenConstraints(item.subs[1]) \o
    <<Word(item.subs[2].name)>> \o WrittenType(item.subs[3], "whole") \o
    (IF item.subs[4].subs = <<>> THEN <<>>
     ELSE Marks(<<"where">>) \o
          BlockOf([k \in DOMAIN item.subs[4].subs |-> WrittenFunction(item.subs[4].subs[k])]))

WrittenItem(item) ==
    CASE item.op \in {"Function", "FunctionType"} -> WrittenFunction(item)
      [] item.op = "Import" -> WrittenImport(item)
      [] item.op = "Data" -> WrittenData(item)
      [] item.op \in {"Class", "Instance"} -> WrittenClass(item)
      [] item.op = "Protocol" ->
            Marks(<<"protocol">>) \o <<Word(item.name)>> \o Marks(<<"=">>) \o WrittenType(item.subs[1], "whole")
      [] item.op = "Actor" ->
            Marks(<<"actor">>) \o <<Word(item.name)>> \o WrittenType(item.subs[1], "whole") \o Marks(<<"where">>) \o
            BlockOf([k \in 1..(Len(item.subs) - 1) |->
                <<Word(item.subs[k + 1].name)>> \o Marks(<<"->">>) \o Name(item.subs[k + 1].subs[1].name)])

\* The modules of a file, the imports left out that every module has.
OwnItems(module) ==
    SelectSeq(Tail(module.subs), LAMBDA item :
        ~(item.op = "Import" /\ item.subs = <<Leaf("ImplicitAll", "")>> /\ item.name \in ToSet(ImplicitModules)))

WrittenModule(module) ==
    Marks(<<"module">>) \o Name(module.name) \o WrittenList(module.subs[1], Listed) \o
    Marks(<<"where">>) \o
    BlockOf([k \in DOMAIN OwnItems(module) |-> WrittenItem(OwnItems(module)[k])]) \o Marks(<<ModuleEnd>>)

WrittenFile(modules) == FlattenSeq([k \in DOMAIN modules |-> WrittenModule(modules[k])])

=============================================================================
