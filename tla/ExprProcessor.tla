---------------------------- MODULE ExprProcessor ----------------------------
(***************************************************************************)
(* From syntax trees to the expressions of siko_ir, in                     *)
(* siko_name_resolver/expr_processor.rs: names are resolved, lambdas       *)
(* become functions, patterns with alternatives become cases.              *)
(*                                                                         *)
(* The state of the resolver is a record s:                                *)
(*   nodes      the expressions and patterns made so far                   *)
(*   functions  the functions of the program                               *)
(*   scopes     the environments, the innermost last: name -> reference    *)
(*   helpers    the lambda helpers                                         *)
(*   globals    what the names of the module stand for                     *)
(*   bound      the names bound by the current pattern, in order           *)
(*   bindings   the number of bindings made so far                         *)
(*   groups     the functions processed, each with the lambdas in it       *)
(*   errors, panic                                                         *)
(*   id         the node the last step made                                *)
(* A global is [kind, id, typedef, index, times, ambiguous]: the kind of   *)
(* item, a function or class member, the type definition, the variant, and *)
(* how often it was imported.                                              *)
(***************************************************************************)
EXTENDS Program, LambdaHelper

CONSTANTS
    LiteralIds, \* the text of a literal -> a number for it
    Places      \* the text of a string -> the places in it for a formatter

Failed(s, error) == [s EXCEPT !.errors = @ \cup {error}]
FailedIf(s, condition, error) == IF condition THEN Failed(s, error) ELSE s

AddNode(s, k, at, ix, args) ==
    [s EXCEPT !.nodes = Append(@, Node(k, at, ix, args)), !.id = Len(s.nodes) + 1]

\* What stands for something that could not be resolved.
AddNothing(s) == AddNode(s, "Tuple", 0, <<>>, <<>>)

Repeated(names) == \E i, j \in DOMAIN names : i < j /\ names[i] = names[j]

NewFunction(kind, arity) ==
    [kind |-> kind, arity |-> arity, captured |-> 0, signature |-> <<>>, body |-> 0, typedef |-> 0, variant |-> 0]

Signed(literal) == IF literal.subs = <<>> THEN LiteralIds[literal.name] ELSE 0 - LiteralIds[literal.name]

\* The arguments of a function, in the innermost scope.
ArgumentScope(fn, names) ==
    [name \in ToSet(names) |-> ArgumentRef(fn, CHOOSE i \in DOMAIN names :
        names[i] = name /\ \A j \in DOMAIN names : names[j] = name => j <= i)]

Opened(s, scope) == [s EXCEPT !.scopes = Append(@, scope)]
Closed(s) == [s EXCEPT !.scopes = Front(@)]
Level(s) == Len(s.scopes) - 1

NodeOf(s, ref) == AddNode(s, ref.k, ref.at, ref.ix, <<>>)

-----------------------------------------------------------------------------
(* Names. *)

\* Environment::get_ref: the innermost scope that has the name.
ScopesWith(s, name) == {l \in DOMAIN s.scopes : name \in DOMAIN s.scopes[l] /\ \A m \in (l + 1)..Len(s.scopes) : name \notin DOMAIN s.scopes[m]}

\* What a name is resolved to: a variable, which is a node of its own, a
\* function, or a class member.
Resolved(s, is, id) == [s |-> s, is |-> is, id |-> id]
Variable(s) == Resolved(s, "variable", s.id)

LocalName(s, name) ==
    LET l == CHOOSE l \in ScopesWith(s, name) : TRUE
        seen == ProcessNamedRef(s.helpers, s.scopes[l][name], l - 1)
    IN  Variable(NodeOf([s EXCEPT !.helpers = seen.helpers], seen.ref))

\* resolve_item_path
ResolveItemPath(s, name) ==
    IF ScopesWith(s, name) # {} THEN LocalName(s, name)
    ELSE IF name \notin DOMAIN s.globals THEN Variable(AddNothing(Failed(s, "UnknownFunction")))
    ELSE IF s.globals[name].ambiguous THEN Variable(AddNothing(Failed(s, "AmbiguousName")))
    ELSE IF s.globals[name].kind \in {"function", "record", "variant"}
    THEN Resolved(s, "function", s.globals[name].id)
    ELSE IF s.globals[name].kind = "member" THEN Resolved(s, "member", s.globals[name].id)
    ELSE Variable(AddNothing(Failed(s, "UnknownFunction")))

\* What it is when it stands alone, and when it is called.
Referred(r) ==
    CASE r.is = "variable" -> r.s
      [] r.is = "function" -> AddNode(r.s, "StaticFunctionCall", r.id, <<>>, <<>>)
      [] r.is = "member" -> AddNode(r.s, "ClassFunctionCall", r.id, <<>>, <<>>)

Called(r, args) ==
    CASE r.is = "variable" -> AddNode(r.s, "DynamicFunctionCall", 0, <<>>, <<r.id>> \o args)
      [] r.is = "function" -> AddNode(r.s, "StaticFunctionCall", r.id, <<>>, args)
      [] r.is = "member" -> AddNode(r.s, "ClassFunctionCall", r.id, <<>>, args)

\* process_field_access
FieldKnown(s, name) ==
    FailedIf(s, ~\E id \in RecordIds : HasField(id, name), "UnknownFieldName")

\* What is not expected is unreachable!(), and ends the compiler.
Unreachable(s) == [s EXCEPT !.panic = TRUE]

\* resolve_record_type: a name that was imported twice is ambiguous here even
\* if it is one item.
RecordError(s, name) ==
    IF name \notin DOMAIN s.globals THEN "UnknownTypeName"
    ELSE IF s.globals[name].times > 1 THEN "AmbiguousName"
    ELSE CASE s.globals[name].kind = "record" -> "none"
           [] s.globals[name].kind = "variant" -> "NotRecordType"
           [] s.globals[name].kind = "function" -> "unreachable"
           [] s.globals[name].kind \notin {"record", "variant", "function"} -> "UnknownTypeName"

NoRecord(s, name) ==
    IF RecordError(s, name) = "unreachable" THEN Unreachable(s) ELSE Failed(s, RecordError(s, name))

\* The fields that are given, for a record: the index of one that is not its own
\* is the first.
GivenIndex(id, name) == IF HasField(id, name) THEN FieldIndex(id, name) ELSE 1

FieldErrors(s, id, names) ==
    LET known == {i \in DOMAIN names : HasField(id, names[i])}
    IN  FailedIf(FailedIf(FailedIf(s, known # DOMAIN names, "NoSuchField"),
                          ~ToSet(TypeDefs[id].names) \subseteq ToSet(names), "MissingFields"),
                 \E i, j \in known : i < j /\ names[i] = names[j], "FieldsInitializedMultipleTimes")

-----------------------------------------------------------------------------
(* Patterns and expressions. *)

RECURSIVE ProcessPattern(_, _, _), ProcessExpr(_, _)

\* One after the other: the state after the last, and their nodes.
NoneYet(s) == [s |-> s, ids |-> <<>>]
Collected(r, s) == [s |-> s, ids |-> Append(r.ids, s.id)]

EachPattern(s, patterns, irrefutable) ==
    FoldLeft(LAMBDA r, p : Collected(r, ProcessPattern(r.s, p, irrefutable)), NoneYet(s), patterns)

EachExpr(s, exprs) == FoldLeft(LAMBDA r, e : Collected(r, ProcessExpr(r.s, e)), NoneYet(s), exprs)

\* The node that has them as its parts.
Made(r, k, at, ix) == AddNode(r.s, k, at, ix, r.ids)

Values(fields) == [i \in DOMAIN fields |-> fields[i].subs[1]]
FieldNames(fields) == [i \in DOMAIN fields |-> fields[i].name]

AddWildcard(s) == AddNode(s, "Wildcard", 0, <<>>, <<>>)

\* The binding of a name is added to the innermost scope.
BindName(s, name) ==
    LET at == s.bindings + 1
        l == Len(s.scopes)
    IN  AddNode([s EXCEPT !.bindings = at, !.bound = Append(@, name),
                          !.scopes[l] = [n \in DOMAIN @ \cup {name} |-> IF n = name THEN BindingRef(at) ELSE @[n]]],
                "Binding", at, <<>>, <<>>)

\* resolve_pattern_type_constructor, after the parts of the pattern.
ConstructorPattern(s, name, ids, irrefutable) ==
    IF name \notin DOMAIN s.globals THEN AddWildcard(Failed(s, "UnknownTypeName"))
    ELSE LET item == s.globals[name]
         IN  CASE item.ambiguous -> AddWildcard(Failed(s, "AmbiguousName"))
               [] ~item.ambiguous /\ item.kind = "record" ->
                    AddNode(s, "RecordPattern", item.typedef, <<>>, ids)
               [] ~item.ambiguous /\ item.kind = "variant" ->
                    IF irrefutable THEN AddWildcard(Failed(s, "NotIrrefutablePattern"))
                    ELSE AddNode(s, "VariantPattern", item.typedef, <<item.index>>, ids)
               [] ~item.ambiguous /\ item.kind = "function" -> AddWildcard(Unreachable(s))
               [] ~item.ambiguous /\ item.kind \notin {"record", "variant", "function"} ->
                    AddWildcard(Failed(s, "UnknownTypeName"))

LiteralPattern(s, k, text, irrefutable) ==
    IF irrefutable THEN AddWildcard(Failed(s, "NotIrrefutablePattern"))
    ELSE AddNode(s, k, LiteralIds[text], <<>>, <<>>)

\* The parts of a record pattern are in the order of the fields.
FieldPatterns(s, p, irrefutable) ==
    IF RecordError(s, p.name) # "none" THEN AddWildcard(NoRecord(s, p.name))
    ELSE LET id == s.globals[p.name].typedef
             names == FieldNames(p.subs)
             parts == EachPattern(s, Values(p.subs), irrefutable)
             order == SortSeq([i \in DOMAIN names |-> i],
                              LAMBDA i, j : GivenIndex(id, names[i]) < GivenIndex(id, names[j]))
         IN  AddNode(FieldErrors(parts.s, id, names), "RecordPattern", id, <<>>,
                     [i \in DOMAIN order |-> parts.ids[order[i]]])

\* A guard binds names of its own.
GuardedPattern(s, p, irrefutable) ==
    LET pattern == ProcessPattern(s, p.subs[1], irrefutable)
        guard == ProcessExpr(pattern, p.subs[2])
    IN  AddNode([guard EXCEPT !.bound = pattern.bound], "Guarded", 0, <<>>, <<pattern.id, guard.id>>)

\* Alternatives within a pattern are unreachable!().
InnerAlternatives(s) == AddWildcard(Unreachable(s))

\* process_pattern
ProcessPattern(s, p, irrefutable) ==
    CASE p.op = "PBinding" -> BindName(s, p.name)
      [] p.op = "POr" -> InnerAlternatives(s)
      [] p.op = "PTuple" -> Made(EachPattern(s, p.subs, irrefutable), "TuplePattern", 0, <<>>)
      [] p.op = "PConstructor" ->
            LET parts == EachPattern(s, p.subs, irrefutable)
            IN  ConstructorPattern(parts.s, p.name, parts.ids, irrefutable)
      [] p.op = "PGuarded" -> GuardedPattern(s, p, irrefutable)
      [] p.op = "PWildcard" -> AddWildcard(s)
      [] p.op = "PInt" -> LiteralPattern(s, "IntegerPattern", p.name, irrefutable)
      [] p.op = "PString" -> LiteralPattern(s, "StringPattern", p.name, irrefutable)
      [] p.op = "PRecord" -> FieldPatterns(s, p, irrefutable)

\* A pattern by itself: no name is bound twice.
BoundOnce(s) == FailedIf(s, Repeated(s.bound), "PatternBindConflict")
WholePattern(s, p, irrefutable) == BoundOnce(ProcessPattern([s EXCEPT !.bound = <<>>], p, irrefutable))

ProcessLambda(s, e) ==
    LET names == FieldNames(e.subs[1].subs)
        fn == Len(s.functions) + 1
        inside == [Opened(FailedIf(s, Repeated(names), "LambdaArgumentConflict"), ArgumentScope(fn, names))
                    EXCEPT !.functions = Append(@, NewFunction("lambda", Len(names)))]
        body == ProcessExpr([inside EXCEPT !.helpers = Append(@, NewHelper(Level(inside), fn))], e.subs[2])
        captures == Last(body.helpers).captures
        outside == [Closed(body) EXCEPT !.helpers = Front(@),
                        !.functions[fn].captured = Len(captures), !.functions[fn].body = body.id]
    IN  Made(FoldLeft(LAMBDA r, ref : Collected(r, NodeOf(r.s, ref)), NoneYet(outside), captures),
             "StaticFunctionCall", fn, <<>>)

\* The arguments are processed before what is called.
ProcessCall(s, e) ==
    LET callee == e.subs[1]
        args == EachExpr(s, Tail(e.subs))
        operator == ResolveItemPath(args.s, callee.name)
        value == ProcessExpr(args.s, callee)
    IN  CASE callee.op = "Path" -> Called(ResolveItemPath(args.s, callee.name), args.ids)
          [] callee.op = "Builtin" /\ callee.name = "|>" ->
                AddNode(args.s, "DynamicFunctionCall", 0, <<>>, <<args.ids[2], args.ids[1]>>)
          [] callee.op = "Builtin" /\ callee.name # "|>" ->
                IF operator.is = "variable" THEN AddNothing(operator.s) ELSE Called(operator, args.ids)
          [] callee.op \notin {"Path", "Builtin"} ->
                AddNode(value, "DynamicFunctionCall", 0, <<>>, <<value.id>> \o args.ids)

\* One case: its names are in a scope of its own.
CaseMatched(r, matched, body) ==
    LET done == ProcessExpr(matched, body)
    IN  [s |-> Closed(done), ids |-> r.ids \o <<matched.id, done.id>>,
         bound |-> Append(r.bound, [i \in DOMAIN matched.bound |->
                        [name |-> matched.bound[i], at |-> Last(matched.scopes)[matched.bound[i]].at]])]

ProcessCase(r, pattern, body) ==
    CaseMatched(r, WholePattern(Opened(r.s, [n \in {} |-> BindingRef(0)]), pattern, FALSE), body)

\* The bindings of a name in the alternatives have one type: the groups, as
\* pairs of neighbours.
BindGroups(bound) ==
    LET at(k, name) == bound[k][CHOOSE i \in DOMAIN bound[k] : bound[k][i].name = name].at
        pairs(name) == FlattenSeq([k \in 1..(Len(bound) - 1) |-> <<at(k, name), at(k + 1, name)>>])
    IN  FlattenSeq([i \in DOMAIN bound[1] |-> pairs(bound[1][i].name)])

InAll(bound) ==
    \A k, l \in DOMAIN bound : {bound[k][i].name : i \in DOMAIN bound[k]} = {bound[l][i].name : i \in DOMAIN bound[l]}

\* The alternatives of a case bind the same names.
JoinedGroups(groups, all) ==
    IF all.s.errors # {} THEN [all EXCEPT !.bound = groups]
    ELSE IF ~InAll(all.bound) THEN [all EXCEPT !.bound = groups, !.s = Failed(@, "PatternBindNotPresent")]
    ELSE [all EXCEPT !.bound = groups \o BindGroups(@)]

Alternatives(case) == IF case.subs[1].op = "POr" THEN case.subs[1].subs ELSE <<case.subs[1]>>

\* The body is processed anew for each alternative.
ProcessAlternatives(r, case) ==
    JoinedGroups(r.bound, FoldLeft(LAMBDA q, p : ProcessCase(q, p, case.subs[2]), [r EXCEPT !.bound = <<>>], Alternatives(case)))

CasesMade(r) == AddNode(r.s, "CaseOf", 0, r.bound, r.ids)
ProcessCaseOf(s, e) ==
    LET value == ProcessExpr(s, e.subs[1])
    IN  CasesMade(FoldLeft(ProcessAlternatives, [s |-> value, ids |-> <<value.id>>, bound |-> <<>>], Tail(e.subs)))

RecordMade(s, e) ==
    IF RecordError(s, e.name) # "none" THEN AddNothing(NoRecord(s, e.name))
    ELSE LET id == s.globals[e.name].typedef
             names == FieldNames(e.subs)
             values == EachExpr(s, Values(e.subs))
         IN  AddNode(FieldErrors(values.s, id, names), "RecordInitialization", id,
                     [i \in DOMAIN names |-> GivenIndex(id, names[i])], values.ids)

Updated(s, e) ==
    LET record == Referred(ResolveItemPath(s, e.name))
        names == FieldNames(e.subs)
        known == FoldLeft(FieldKnown, record, names)
        values == EachExpr(known, Values(e.subs))
        checked == FailedIf(FailedIf(values.s, names = <<>> \/ RecordsWith(names) = <<>>, "NoRecordFoundWithFields"),
                            Repeated(names), "FieldsInitializedMultipleTimes")
    IN  AddNode(checked, "RecordUpdate", 0, names, <<record.id>> \o values.ids)

BindMade(pattern, value) == AddNode(pattern, "Bind", 0, <<>>, <<pattern.id, value>>)

\* process_expr: a block has no scope of its own.
ProcessExpr(s, e) ==
    LET made(k, ix) == Made(EachExpr(s, e.subs), k, 0, ix)
    IN  CASE e.op = "Lambda" -> ProcessLambda(s, e)
          [] e.op = "FunctionCall" -> ProcessCall(s, e)
          [] e.op \in {"If", "Tuple", "List", "Do"} -> made(e.op, <<>>)
          [] e.op = "Path" -> Referred(ResolveItemPath(s, e.name))
          [] e.op = "Int" -> AddNode(s, "IntegerLiteral", Signed(e), <<>>, <<>>)
          [] e.op = "String" -> AddNode(s, "StringLiteral", LiteralIds[e.name], <<>>, <<>>)
          [] e.op = "Bind" ->
                LET value == ProcessExpr(s, e.subs[2])
                IN  BindMade(WholePattern(value, e.subs[1], TRUE), value.id)
          [] e.op = "FieldAccess" ->
                LET record == ProcessExpr(s, e.subs[1])
                IN  AddNode(FieldKnown(record, e.name), "FieldAccess", e.name, <<>>, <<record.id>>)
          [] e.op = "TupleFieldAccess" -> made("TupleFieldAccess", <<LiteralIds[e.name] + 1>>)
          [] e.op = "Formatter" -> made("Formatter", <<Places[e.name]>>)
          [] e.op = "CaseOf" -> ProcessCaseOf(s, e)
          [] e.op = "RecordInitialization" -> RecordMade(s, e)
          [] e.op = "RecordUpdate" -> Updated(s, e)

-----------------------------------------------------------------------------
(* The functions of a module. *)

\* A function and its lambdas: those that are there after its body and were not
\* before.
FunctionMade(s, body, fn) ==
    LET lambdas == [k \in 1..(Len(body.functions) - Len(s.functions)) |-> Len(s.functions) + k]
    IN  [body EXCEPT !.functions[fn].body = body.id, !.groups = Append(@, <<fn>> \o lambdas)]

\* process_function, for a tree of siko_parser.
ProcessFunction(s, item, fn) ==
    LET names == FieldNames(item.subs[1].subs)
        inside == [FailedIf(s, Repeated(names), "ArgumentConflict")
                    EXCEPT !.scopes = <<ArgumentScope(fn, names)>>, !.helpers = <<NewHelper(0, fn)>>]
    IN  IF item.subs[2].op = "Extern" THEN s ELSE FunctionMade(s, ProcessExpr(inside, item.subs[2]), fn)

\* The functions have their ids before the first one is processed.
StartOf(items, library, globals) ==
    LET own == [name \in {items[i].name : i \in DOMAIN items} |->
                    [kind |-> "function", id |-> Len(library) + CHOOSE i \in DOMAIN items : items[i].name = name,
                     typedef |-> 0, index |-> 0, times |-> 1, ambiguous |-> FALSE]]
    IN  [nodes |-> <<>>,
         functions |-> library \o [i \in DOMAIN items |-> NewFunction("named", Len(items[i].subs[1].subs))],
         scopes |-> <<>>, helpers |-> <<>>, globals |-> own @@ globals, bound |-> <<>>, bindings |-> 0,
         groups |-> <<>>, errors |-> {}, panic |-> FALSE, id |-> 0]

ProcessFunctions(items, library, globals) ==
    FoldLeft(LAMBDA s, i : ProcessFunction(s, items[i], Len(library) + i), StartOf(items, library, globals),
             [i \in DOMAIN items |-> i])

=============================================================================
