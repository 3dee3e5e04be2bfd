-------------------------- MODULE ExpressionChecker --------------------------
(***************************************************************************)
(* ExpressionChecker of siko_type_checker/expression_checker.rs: what is   *)
(* unified when an expression or a pattern is visited, and in which order. *)
(***************************************************************************)
EXTENDS TypeStore

CONSTANT InstanceMap    \* class -> its instances, which are types by their keys

ApplyAll(store, group, sub) ==
    [store EXCEPT
        !.nodes = [n \in DOMAIN @ |-> ApplyInfo(sub, @[n])],
        !.infos = [f \in DOMAIN @ |-> IF f \in group THEN ApplyInfo(sub, @[f]) ELSE @[f]]]

\* Mutant: the constraints of the unifier are not checked.
UnifiedUnchecked(store, group, ty1, ty2) ==
    LET Unchecked(u) ==
            IF u.result # "ok" THEN [store EXCEPT !.errors = @ \cup {"TypeMismatch"}]
            ELSE [ApplyAll(store, group, u.sub) EXCEPT !.next = u.next]
    IN  Unchecked(Unify(NewUnifier(store.next), ty1, ty2))

\* ExpressionChecker::unify: a unifier of its own for each pair of types, whose
\* constraints need instances (the unifiers of the search are not used); what it
\* found is applied to the types of the group's expressions, patterns and functions.
Unified(store, group, ty1, ty2) ==
    LET Settled(u, search) ==
            CASE u.result = "panic" -> [store EXCEPT !.panic = TRUE]
              [] u.result # "panic" /\ ~search.ok ->
                    [store EXCEPT !.cache = search.cache, !.next = search.next,
                                  !.errors = @ \cup {"TypeMismatch"}]
              [] u.result # "panic" /\ search.ok ->
                    [ApplyAll(store, group, u.sub) EXCEPT
                        !.cache = search.cache, !.next = search.next]
        Checked(u) ==
            Settled(u, CheckConstraints(
                        [Search(InstanceMap, store.cache, u.next) EXCEPT !.ok = u.result = "ok"],
                        u.constraints))
    IN  Checked(Unify(NewUnifier(store.next), ty1, ty2))

\* Where a type comes from: the type of a node or of one of its parts, read
\* when it is its turn, or a type that was read before the visit.
TypeOf(n) == [node |-> n, part |-> 0, ty |-> UnitType]
PartOf(n, i) == [node |-> n, part |-> i, ty |-> UnitType]
Read(ty) == [node |-> 0, part |-> 0, ty |-> ty]

Value(store, source) ==
    CASE source.node = 0 -> source.ty
      [] source.node # 0 /\ source.part = 0 -> store.nodes[source.node].ty
      [] source.node # 0 /\ source.part # 0 -> store.nodes[source.node].parts[source.part]

Matched(store, group, matches) ==
    FoldLeft(LAMBDA s, m : IF s.panic THEN s
                           ELSE Unified(s, group, Value(s, m[1]), Value(s, m[2])),
             store, matches)

\* What a visit does: the pairs that are unified, the errors it reports by
\* itself, and the counter after the variables it takes.
Visit(matches, errors, next) == [matches |-> matches, errors |-> errors, next |-> next]
Failure(store, error) == Visit(<<>>, {error}, store.next)

\* The types of a record's or a variant's parts as they were when the visit
\* began, each against the part.
FieldMatches(info, parts, indices) ==
    [i \in DOMAIN indices |-> <<Read(info.parts[indices[i]]), TypeOf(parts[i])>>]

\* The items that have a type to be matched with.
Zipped(parts, info) == SelectSeq([i \in DOMAIN parts |-> i], LAMBDA i : i \in DOMAIN info.parts)

CaseMatches(nodes, node, n) ==
    LET bindings == [i \in 1..(Len(node.ix) \div 2) |->
                        <<TypeOf(BindingOf(nodes, node.ix[2 * i - 1])),
                          TypeOf(BindingOf(nodes, node.ix[2 * i]))>>]
        cases == FlattenSeq([i \in 1..((Len(node.args) - 1) \div 2) |->
                    <<<<TypeOf(node.args[1]), TypeOf(node.args[2 * i])>>,
                      <<TypeOf(n), TypeOf(node.args[2 * i + 1])>>>>])
    IN  bindings \o <<<<TypeOf(n), TypeOf(node.args[3])>>>> \o cases

\* The matches of the visits that always make the same ones.
Matches(store, program, n) ==
    LET node == program.nodes[n]
        info == store.nodes[n]
        arg(i) == TypeOf(node.args[i])
    IN  CASE node.k = "ArgRef" ->
                <<<<Read(store.infos[node.at].parts[ArgIndex(program.functions, node)]), TypeOf(n)>>>>
          [] node.k = "Bind" -> <<<<arg(2), arg(1)>>, <<Read(UnitType), TypeOf(n)>>>>
          [] node.k = "CaseOf" -> CaseMatches(program.nodes, node, n)
          [] node.k \in {"StaticFunctionCall", "ClassFunctionCall"} ->
                [i \in DOMAIN node.args |-> <<PartOf(n, i), arg(i)>>]
          [] node.k = "DynamicFunctionCall" ->
                [i \in DOMAIN node.args |->
                    <<IF i = 1 THEN Read(info.whole) ELSE PartOf(n, i - 1), arg(i)>>]
          [] node.k = "Do" -> <<<<TypeOf(n), arg(Len(node.args))>>>>
          [] node.k = "ExprValue" -> <<<<TypeOf(n), TypeOf(BindingOf(program.nodes, node.at))>>>>
          [] node.k = "If" ->
                <<<<Read(BoolType), arg(1)>>, <<arg(2), arg(3)>>, <<TypeOf(n), arg(2)>>>>
          [] node.k = "List" /\ node.args # <<>> ->
                <<<<Read(ListType(store.nodes[node.args[1]].ty)), TypeOf(n)>>>> \o
                [i \in DOMAIN node.args |-> <<arg(1), arg(i)>>]
          [] node.k = "Tuple" ->
                <<<<Read(Tuple([i \in DOMAIN node.args |-> store.nodes[node.args[i]].ty])), TypeOf(n)>>>>
          [] node.k = "RecordInitialization" -> FieldMatches(info, node.args, node.ix)
          [] node.k \in {"RecordPattern", "VariantPattern"} ->
                FieldMatches(info, node.args, Zipped(node.args, info))
          [] node.k = "TuplePattern" ->
                [i \in DOMAIN node.args |-> <<Read(info.ty.args[i]), arg(i)>>]
          [] node.k = "Typed" -> <<<<arg(1), TypeOf(n)>>>>
          [] node.k = "Guarded" -> <<<<arg(1), TypeOf(n)>>, <<Read(BoolType), arg(2)>>>>
          [] OTHER -> <<>>

\* Every argument of a format string has to be shown: each is matched with a
\* variable of its own.  The index of the node is the number of places the
\* string has for arguments.
VisitFormatter(store, node) ==
    Visit([i \in DOMAIN node.args |-> <<Read(Var(store.next + i - 1, {"Show"})), TypeOf(node.args[i])>>],
          IF node.ix[1] = Len(node.args) THEN {} ELSE {"InvalidFormatString"},
          store.next + Len(node.args))

\* The record is found by the type the receiver has by now.
VisitFieldAccess(store, node, n) ==
    LET receiver == store.nodes[node.args[1]].ty
        Field(copy, u) ==
            Visit(<<<<Read(Apply(u.sub, copy.info.parts[FieldIndex(receiver.id, node.at)])), TypeOf(n)>>>>,
                  {}, u.next)
        FieldOf(copy) == Field(copy, Unify(NewUnifier(copy.next), copy.info.ty, receiver))
    IN  IF receiver.k # "Named" THEN Failure(store, "TypeAnnotationNeeded")
        ELSE IF ~(receiver.id \in RecordIds /\ HasField(receiver.id, node.at))
        THEN Failure(store, "TypeMismatch")
        ELSE FieldOf(DuplicateInfo(TypeDefInfo(receiver.id, 1), store.next))

VisitTupleFieldAccess(store, node, n) ==
    LET receiver == store.nodes[node.args[1]].ty
    IN  CASE receiver.k = "Tuple" /\ node.ix[1] <= Len(receiver.args) ->
                Visit(<<<<Read(receiver.args[node.ix[1]]), TypeOf(n)>>>>, {}, store.next)
          [] IsVar(receiver) -> Failure(store, "TypeAnnotationNeeded")
          [] OTHER -> Failure(store, "TypeMismatch")

\* The types of the fields are read once for the whole update.
VisitRecordUpdate(store, node, n) ==
    LET receiver == store.nodes[node.args[1]].ty
        candidates == RecordsWith(node.ix)
        indices == [i \in DOMAIN node.ix |-> FieldIndex(receiver.id, node.ix[i])]
        Update(copy) ==
            Visit(<<<<Read(copy.info.ty), TypeOf(node.args[1])>>>> \o
                  FieldMatches(copy.info, Tail(node.args), indices) \o
                  <<<<Read(copy.info.ty), TypeOf(n)>>>>,
                  {}, copy.next)
    IN  IF receiver.k = "Named" /\ \E i \in DOMAIN candidates : candidates[i] = receiver.id
        THEN Update(DuplicateInfo(TypeDefInfo(receiver.id, 1), store.next))
        ELSE Failure(store, "TypeMismatch")

VisitOf(store, program, n) ==
    LET node == program.nodes[n]
    IN  CASE node.k = "Formatter" -> VisitFormatter(store, node)
          [] node.k = "FieldAccess" -> VisitFieldAccess(store, node, n)
          [] node.k = "TupleFieldAccess" -> VisitTupleFieldAccess(store, node, n)
          [] node.k = "RecordUpdate" -> VisitRecordUpdate(store, node, n)
          [] OTHER -> Visit(Matches(store, program, n), {}, store.next)

CheckVisit(store, program, group, n) ==
    LET Performed(visit) ==
            Matched([store EXCEPT !.next = visit.next, !.errors = @ \cup visit.errors], group, visit.matches)
    IN  Performed(VisitOf(store, program, n))

=============================================================================
