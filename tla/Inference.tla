------------------------------ MODULE Inference ------------------------------
(***************************************************************************)
(* From a resolved program to its result: the type information functions   *)
(* start with, the inference of one dependency group after the other, and  *)
(* the run of main.  Typechecker has the stages around it and the order of *)
(* the groups; here the groups are given.                                  *)
(***************************************************************************)
EXTENDS ExpressionChecker, Interpreter, Typing

CONSTANTS
    Programs,       \* the programs that are considered
    DeclaredCache,  \* the instances resolved when the declarations were checked
    FirstIndex      \* the counter behind type variables at the start

VARIABLES
    program,        \* the program, which does not change
    store,          \* the type information of the functions and of the current group
    group,          \* the position of the current group
    tasks,          \* what is still to be done for it
    expected,       \* the result type of the function that is checked, as it was at the start
    exprTypes,      \* the saved types of the expressions
    outcome         \* "checking", "accepted", "rejected", or how the run went

vars == <<program, store, group, tasks, expected, exprTypes, outcome>>

Empty == [n \in {} |-> UnitType]

Init ==
    /\ program \in Programs
    /\ store = [infos |-> Empty, nodes |-> Empty, errors |-> {}, next |-> FirstIndex,
                cache |-> DeclaredCache, panic |-> FALSE]
    /\ group = 0
    /\ tasks = [f \in DOMAIN program.functions |-> [do |-> "register", fn |-> f, node |-> 0]]
    /\ expected = UnitType
    /\ exprTypes = Empty
    /\ outcome = "checking"

Body(f) == program.functions[f].body
Items(g) == program.groups[g]
GroupItems == {Items(group)[i] : i \in DOMAIN Items(group)}

Each(do, f, nodes) == [i \in DOMAIN nodes |-> [do |-> do, fn |-> f, node |-> nodes[i]]]

\* process_dep_group: the types of every function of the group are initialised
\* before the first one is checked.
GroupTasks(items) ==
    FlattenSeq([i \in DOMAIN items |-> Each("init", items[i], Walk(program.nodes, Body(items[i])))]) \o
    FlattenSeq([i \in DOMAIN items |->
        Each("enter", items[i], <<0>>) \o
        Each("check", items[i], Walk(program.nodes, Body(items[i]))) \o
        Each("result", items[i], <<Body(items[i])>>) \o
        Each("undefined", items[i], <<0>>)])

Running(do) == outcome = "checking" /\ ~store.panic /\ tasks # <<>> /\ Head(tasks).do = do
Task == Head(tasks)
TaskDone == tasks' = Tail(tasks) /\ UNCHANGED <<program, group, exprTypes, outcome>>

\* process_functions, one function of the loop.
Register ==
    /\ Running("register")
    /\ store' = RegisterFunction(store, program.functions[Task.fn], Task.fn)
    /\ TaskDone
    /\ UNCHANGED expected

\* A stage that failed ends the check before the groups are processed.
StartGroups ==
    /\ outcome = "checking" /\ group = 0 /\ tasks = <<>>
    /\ IF store.errors = {}
       THEN /\ group' = 1
            /\ tasks' = GroupTasks(Items(1))
            /\ UNCHANGED outcome
       ELSE outcome' = "rejected" /\ UNCHANGED <<group, tasks>>
    /\ UNCHANGED <<program, store, expected, exprTypes>>

InitNode ==
    /\ Running("init")
    /\ store' = InitVisit(store, program.nodes, GroupItems, Task.node)
    /\ TaskDone
    /\ UNCHANGED expected

\* process_function: the result type is read before the body is visited.
EnterFunction ==
    /\ Running("enter")
    /\ expected' = store.infos[Task.fn].ty
    /\ TaskDone
    /\ UNCHANGED store

CheckNode ==
    /\ Running("check")
    /\ store' = CheckVisit(store, program, GroupItems, Task.node)
    /\ TaskDone
    /\ UNCHANGED expected

MatchResult ==
    /\ Running("result")
    /\ store' = Matched(store, GroupItems, <<<<Read(expected), TypeOf(Task.node)>>>>)
    /\ TaskDone
    /\ UNCHANGED expected

\* Mutant: variables that are left open are not reported.
NotUndefined(f) == {}

\* UndefinedVarChecker: variables of an expression or pattern that are not in
\* the type of its function.
UndefinedVars(f) ==
    LET walk == Walk(program.nodes, Body(f))
    IN  UNION {Indices(store.nodes[walk[i]].ty) : i \in DOMAIN walk} \ Indices(store.infos[f].whole)

CheckUndefined ==
    /\ Running("undefined")
    /\ store' = IF UndefinedVars(Task.fn) = {} THEN store ELSE [store EXCEPT !.errors = @ \cup {"TypeAnnotationNeeded"}]
    /\ TaskDone
    /\ UNCHANGED expected

\* Mutant: only the types of the last group are kept.
SaveLastExprTypes ==
    /\ outcome = "checking" /\ group > 0 /\ tasks = <<>> /\ ~store.panic
    /\ exprTypes' = [n \in {m \in DOMAIN store.nodes : program.nodes[m].k \notin PatternKinds} |->
                        store.nodes[n].ty]
    /\ store' = [store EXCEPT !.nodes = Empty]
    /\ IF group < Len(program.groups)
       THEN /\ group' = group + 1
            /\ tasks' = GroupTasks(Items(group + 1))
            /\ UNCHANGED outcome
       ELSE /\ outcome' = IF store.errors = {} THEN "accepted" ELSE "rejected"
            /\ UNCHANGED <<group, tasks>>
    /\ UNCHANGED <<program, expected>>

\* The types of the group's expressions are saved and the type store is
\* dropped.  After the last group the errors decide.
SaveExprTypes ==
    /\ outcome = "checking" /\ group > 0 /\ tasks = <<>> /\ ~store.panic
    /\ exprTypes' = [n \in {m \in DOMAIN store.nodes : program.nodes[m].k \notin PatternKinds} |->
                        store.nodes[n].ty] @@ exprTypes
    /\ store' = [store EXCEPT !.nodes = Empty]
    /\ IF group < Len(program.groups)
       THEN /\ group' = group + 1
            /\ tasks' = GroupTasks(Items(group + 1))
            /\ UNCHANGED outcome
       ELSE /\ outcome' = IF store.errors = {} THEN "accepted" ELSE "rejected"
            /\ UNCHANGED <<group, tasks>>
    /\ UNCHANGED <<program, expected>>

Executable ==
    [functions |-> program.functions, nodes |-> program.nodes, exprTypes |-> exprTypes,
     functionTypes |-> [f \in DOMAIN store.infos |-> store.infos[f].whole],
     cache |-> store.cache, next |-> store.next]

RunMain ==
    /\ outcome = "accepted"
    /\ outcome' = ExecuteMain(Executable, program.main).status
    /\ UNCHANGED <<program, store, group, tasks, expected, exprTypes>>

\* A rejected program is reported, a run comes to its end.
Terminated ==
    /\ outcome \in {"rejected", "ok", "deep"} \cup Panics \/ store.panic
    /\ UNCHANGED vars

Next ==
    \/ Register
    \/ StartGroups
    \/ InitNode
    \/ EnterFunction
    \/ CheckNode
    \/ MatchResult
    \/ CheckUndefined
    \/ SaveExprTypes
    \/ RunMain
    \/ Terminated

Spec == Init /\ [][Next]_vars

-----------------------------------------------------------------------------
(* Properties. *)

\* The shape of the state; and when the groups are done every expression of the
\* program has a saved type.
TypeOK ==
    /\ group \in 0..Len(program.groups)
    /\ DOMAIN store.infos \subseteq DOMAIN program.functions
    /\ DOMAIN store.nodes \subseteq DOMAIN program.nodes
    /\ outcome # "checking" /\ group > 0 =>
            DOMAIN exprTypes = {n \in DOMAIN program.nodes : program.nodes[n].k \notin PatternKinds}
    /\ store.errors \subseteq
        {"FunctionArgAndSignatureMismatch", "FunctionArgumentMismatch", "InvalidFormatString",
         "InvalidRecordPattern", "InvalidVariantPattern", "TypeAnnotationNeeded", "TypeMismatch"}
    /\ outcome \in {"checking", "accepted", "rejected", "ok", "deep"} \cup Panics

InfoLeaves(info) == Leaves(info.ty) \cup Leaves(info.whole) \cup
                    UNION {Leaves(info.parts[i]) : i \in DOMAIN info.parts}

\* A type variable has the same class constraints wherever it occurs in the
\* types of functions and expressions.  Unifier::unify asserts it when it meets
\* a variable twice (unifier.rs:38), and types are replaced one by one.
ConstraintsAgree ==
    LET leaves == UNION {InfoLeaves(store.infos[f]) : f \in DOMAIN store.infos} \cup
                  UNION {InfoLeaves(store.nodes[n]) : n \in DOMAIN store.nodes}
    IN  \A a, b \in leaves : a.id = b.id => a = b

\* The updates of fields that several records have.
SharedUpdates ==
    {n \in DOMAIN program.nodes :
        program.nodes[n].k = "RecordUpdate" /\ Len(RecordsWith(program.nodes[n].ix)) > 1}

\* The checker reaches a failed assertion exactly for a program with such an
\* update: its values are listed once per record (expr_processor.rs:1092), so
\* walk_expr comes to them again and initialize_expr finds their type
\* (type_store.rs:102).  It never gets a type; everything else is visited once.
CheckerPanicsKnown ==
    /\ store.panic => SharedUpdates # {}
    /\ SharedUpdates \cap DOMAIN exprTypes = {}

\* What the constructor of a typedef is as a function: it takes what is declared,
\* but a field of a record that is a type parameter itself takes anything.
ConstructorTypings(fn) ==
    LET parts == TypeDefs[fn.typedef].variants[fn.variant]
        loose == {i \in DOMAIN parts : fn.kind = "record" /\ IsVar(parts[i])}
    IN  UNION {{FunctionType([i \in DOMAIN parts |-> IF i \in loose THEN any[i] ELSE t[2][i]], t[1]) :
                    any \in [loose -> GroundTypes]} : t \in TypeDefTypings(fn.typedef, fn.variant)}

\* Constructors are typed from the declarations by unifying one part after the
\* other; for a record the declared fields do not follow the bindings
\* (typechecker.rs:404), and what was bound first is forgotten.
ConstructorsTyped ==
    group = 0 /\ tasks = <<>> =>
        \A f \in DOMAIN store.infos :
            program.functions[f].kind \in {"variant", "record"} =>
                GroundInstances(RemoveFixed(store.infos[f].whole)) = ConstructorTypings(program.functions[f])

\* The ground types of all functions, as the groups come one after the other.
\* A lambda has the types its uses give it.
RECURSIVE GroupTypings(_, _)
GroupTypings(g, known) ==
    IF g > Len(program.groups) THEN known
    ELSE LET items == {h \in {Items(g)[i] : i \in DOMAIN Items(g)} : program.functions[h].kind = "named"}
         IN  GroupTypings(g + 1, [f \in items |-> FunctionTypings(program, known, f)] @@ known)

AllTypings ==
    GroupTypings(1, [f \in {h \in DOMAIN program.functions : Body(h) = 0} |->
                        FunctionTypings(program, Empty, f)])

\* The types with arguments that are considered.
Within(types, f) ==
    {ty \in types : \A i \in 1..program.functions[f].arity :
                        ResultType(ty, i - 1).args[1] \in GroundTypes}

\* The inference finds exactly the types there are.  When a program is accepted,
\* the ground types an inferred type stands for are those the rules give the
\* function: none is lost because of the order in which types were found out,
\* and none is let in.  When it is rejected for more than a type that is left open,
\* some function has no type at all.
PrincipalTypes ==
    LET typings == AllTypings
        functions == {f \in DOMAIN typings : Body(f) # 0}
    IN  /\ outcome = "accepted" =>
            \A f \in functions :
                Within(GroundInstances(RemoveFixed(store.infos[f].whole)), f) = Within(typings[f], f)
        /\ outcome = "rejected" /\ store.errors \ {"TypeAnnotationNeeded"} # {} =>
            \E f \in functions : typings[f] = {}

\* What the interpreter asserts about types holds whenever the checker accepted
\* the program: the arguments and the result of a call fit the function's type,
\* values have concrete types, and instances are found.
RunsCleanly == outcome \notin Panics

\* The parts of RunsCleanly by themselves: assert!(r.is_ok()) in
\* get_call_unifier, and the expect of InstanceResolutionCache::get.
CallsFit == outcome # "mismatch"
InstancesFound == outcome # "unresolved"

=============================================================================
