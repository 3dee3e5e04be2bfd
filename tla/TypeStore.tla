------------------------------ MODULE TypeStore ------------------------------
(***************************************************************************)
(* What siko_type_checker knows about functions and about the expressions  *)
(* and patterns of a dependency group, and how it is first filled in:      *)
(* type_store.rs, type_info_provider.rs, common.rs, process_functions of   *)
(* typechecker.rs, and type_store_initializer.rs.                          *)
(*                                                                         *)
(* A store is a record: infos (function -> information), nodes (expression *)
(* or pattern of the group -> information), errors (kinds of the errors    *)
(* reported), next (the counter behind type variables), cache (resolved    *)
(* instances), and panic, whether an assertion of the code failed.         *)
(***************************************************************************)
EXTENDS Program, InstanceResolver

\* FunctionTypeInfo, RecordTypeInfo and the chosen variant of an AdtTypeInfo:
\* the result or value type, the types of the arguments, fields or items, and
\* the function type.
Info(ty, parts, whole) == [ty |-> ty, parts |-> parts, whole |-> whole]
Plain(ty) == Info(ty, <<>>, ty)

ApplyInfo(sub, info) ==
    Info(Apply(sub, info.ty),
         [i \in DOMAIN info.parts |-> Apply(sub, info.parts[i])],
         Apply(sub, info.whole))

\* Information together with the counter after new variables were taken.
Counted(info, next) == [info |-> info, next |-> next]

General(count, next) ==
    LET args == [i \in 1..count |-> Var(next + i - 1, {})]
        result == Var(next + count, {})
    IN  Counted(Info(result, args, FunctionType(args, result)), next + count + 1)

TypeDefInfo(id, variant) ==
    LET ty == Named(id, [i \in DOMAIN TypeDefs[id].params |-> Var(TypeDefs[id].params[i], {})])
    IN  Info(ty, TypeDefs[id].variants[variant], ty)

DuplicateInfo(info, next) ==
    LET Whole(copy) == Counted(Info(copy.types[1], SubSeq(copy.types, 3, Len(copy.types)), copy.types[2]),
                               copy.next)
    IN  Whole(Duplicate(<<info.ty, info.whole>> \o info.parts, next))

-----------------------------------------------------------------------------
(* process_functions: the type information every function starts with.     *)

\* Mutant: the items of a variant are left as declared, as for a record.
ConstructorInfoDeclared(fn, next) ==
    LET general == General(fn.arity, next)
        Learn(s, u) ==
            [info |-> ApplyInfo(u.sub, s.info),
             def |-> s.def,
             next |-> u.next]
        Step(s, i) == Learn(s, Unify(NewUnifier(s.next), s.def.parts[i], s.info.parts[i]))
        Closed(s) == Learn(s, Unify(NewUnifier(s.next), s.def.ty, s.info.ty))
        Result(s) == Counted(s.info, s.next)
    IN  Result(Closed(FoldLeft(Step,
                        [info |-> general.info, def |-> TypeDefInfo(fn.typedef, fn.variant),
                         next |-> general.next],
                        [i \in 1..fn.arity |-> i])))

\* The types of a constructor's fields or items are unified with its
\* arguments one by one.  For a variant the items learn from each other what
\* the type parameters stand for; for a record the fields are left as declared.
ConstructorInfo(fn, next) ==
    LET general == General(fn.arity, next)
        Learn(s, u) ==
            [info |-> ApplyInfo(u.sub, s.info),
             def |-> IF fn.kind = "record" THEN s.def ELSE ApplyInfo(u.sub, s.def),
             next |-> u.next]
        Step(s, i) == Learn(s, Unify(NewUnifier(s.next), s.def.parts[i], s.info.parts[i]))
        Closed(s) == Learn(s, Unify(NewUnifier(s.next), s.def.ty, s.info.ty))
        Result(s) == Counted(s.info, s.next)
    IN  Result(Closed(FoldLeft(Step,
                        [info |-> general.info, def |-> TypeDefInfo(fn.typedef, fn.variant),
                         next |-> general.next],
                        [i \in 1..fn.arity |-> i])))

Known(store, f, counted) ==
    [store EXCEPT !.infos = (f :> counted.info) @@ @, !.next = counted.next]

\* The signature of a function is unified with as many variables as it has arguments.
KnownSigned(store, f, general, u) ==
    IF u.result = "ok"
    THEN Known(store, f, Counted(ApplyInfo(u.sub, general.info), u.next))
    ELSE [Known(store, f, general) EXCEPT !.errors = @ \cup {"FunctionArgAndSignatureMismatch"}]

RegisterFunction(store, fn, f) ==
    LET general == General(fn.arity + fn.captured, store.next)
    IN  CASE fn.kind \in {"variant", "record"} -> Known(store, f, ConstructorInfo(fn, store.next))
          [] fn.kind \in {"named", "lambda"} /\ fn.signature = <<>> -> Known(store, f, general)
          [] fn.kind = "named" /\ fn.signature # <<>> ->
                KnownSigned(store, f, general,
                            Unify(NewUnifier(general.next), fn.signature[1], general.info.whole))

-----------------------------------------------------------------------------
(* TypeStoreInitializer. *)

\* initialize_expr asserts that the expression is new; patterns are replaced.
Initialized(store, node, n, info, next) ==
    [store EXCEPT
        !.panic = @ \/ (n \in DOMAIN store.nodes /\ node.k \notin PatternKinds),
        !.nodes = (n :> info) @@ @,
        !.next = next]

\* Mutant: functions of earlier groups are not instantiated for the call.
GetFunctionTypeShared(store, group, f) ==
    [type |-> store.infos[f].whole, next |-> store.next]

\* get_function_type: functions of the group are used as they are, others get
\* new variables for every call.
GetFunctionType(store, group, f) ==
    IF f \in group THEN [type |-> store.infos[f].whole, next |-> store.next]
    ELSE LET copy == DuplicateInfo(store.infos[f], store.next)
         IN  [type |-> RemoveFixed(copy.info.whole), next |-> copy.next]

GetClassMemberType(member, next) ==
    LET copy == Duplicate(<<Members[member].type>>, next)
    IN  [type |-> RemoveFixed(copy.types[1]), next |-> copy.next]

\* A call with its arguments and result as variables, unified with the type of
\* what is called.  If that fails an error is reported, and what the unifier
\* had found by then is used.
InitCall(store, node, n, callee) ==
    LET general == General(Len(node.args), callee.next)
        Called(u) ==
            [Initialized(store, node, n, ApplyInfo(u.sub, general.info), u.next) EXCEPT
                !.panic = @ \/ u.result = "panic",
                !.errors = @ \cup (IF u.result = "ok" THEN {} ELSE {"FunctionArgumentMismatch"})]
    IN  Called(Unify(NewUnifier(general.next), general.info.whole, callee.type))

InitTypeDef(store, node, n, id, variant, error) ==
    LET Copied(copy) ==
            [Initialized(store, node, n, copy.info, copy.next) EXCEPT
                !.errors = @ \cup (IF error # "" /\ Len(copy.info.parts) # Len(node.args)
                                   THEN {error} ELSE {})]
    IN  Copied(DuplicateInfo(TypeDefInfo(id, variant), store.next))

InitVisit(store, nodes, group, n) ==
    LET node == nodes[n]
        next == store.next
        plain(ty, count) == Initialized(store, node, n, Plain(ty), next + count)
        vars == [i \in DOMAIN node.args |-> Var(next + i - 1, {})]
        dynamic == General(Len(node.args) - 1, next)
    IN  CASE node.k \in {"IntegerLiteral", "IntegerPattern"} -> plain(IntType, 0)
          [] node.k \in {"StringLiteral", "StringPattern", "Formatter"} -> plain(StringType, 0)
          [] node.k = "List" -> plain(ListType(Var(next, {})), 1)
          [] node.k \in {"Tuple", "TuplePattern"} -> plain(Tuple(vars), Len(vars))
          [] node.k = "Typed" -> plain(node.ty, 0)
          [] node.k = "StaticFunctionCall" ->
                InitCall(store, node, n, GetFunctionType(store, group, node.at))
          [] node.k = "ClassFunctionCall" ->
                InitCall(store, node, n, GetClassMemberType(node.at, next))
          [] node.k = "DynamicFunctionCall" ->
                Initialized(store, node, n, dynamic.info, dynamic.next)
          [] node.k = "RecordInitialization" -> InitTypeDef(store, node, n, node.at, 1, "")
          [] node.k = "RecordPattern" ->
                InitTypeDef(store, node, n, node.at, 1, "InvalidRecordPattern")
          [] node.k = "VariantPattern" ->
                InitTypeDef(store, node, n, node.at, node.ix[1], "InvalidVariantPattern")
          [] OTHER -> plain(Var(next, {}), 1)

=============================================================================
