----------------------------- MODULE Typechecker -----------------------------
(***************************************************************************)
(* Typechecker::check of siko_type_checker/typechecker.rs: the stages, the *)
(* gates between them that return the errors found so far, and the loop    *)
(* over the dependency groups.                                             *)
(*                                                                         *)
(* What a stage finds wrong in declarations and expressions is data: a     *)
(* stage that can push errors may push some.  The groups are handed out by *)
(* DependencyOrder, which DependencyProcessor implements.                  *)
(***************************************************************************)
EXTENDS FunctionDepProcessor, Sequences

VARIABLES
    functions,      \* program.functions
    infos,          \* the functions function_type_info_store has an entry for
    items, deps,    \* what FunctionDependencyProcessor collected
    groups,         \* ordered_dep_groups
    stage,          \* what check does next
    errors,         \* errors is not empty
    current,        \* the index of the group the loop is at
    initialised,    \* functions of the group with initialised expression types
    checked,        \* functions process_function was called for
    exprTypes,      \* functions whose expression types were saved in the program
    functionTypes   \* the function types were saved in the program

programVars == <<functions, infos>>
depVars == <<items, deps, groups>>
groupVars == <<current, initialised, checked, exprTypes>>
vars == <<programVars, depVars, groupVars, stage, errors, functionTypes>>

Order == INSTANCE DependencyOrder

Init ==
    /\ \E F \in SUBSET FunctionIds : functions \in [F -> Function]
    /\ WellFormed(functions)
    /\ infos = {}
    /\ items = {} /\ deps = [f \in {} |-> {}] /\ groups = <<>>
    /\ stage = "declarations"
    /\ errors = FALSE
    /\ current = 1
    /\ initialised = {} /\ checked = {} /\ exprTypes = {}
    /\ functionTypes = FALSE

\* if !errors.is_empty() { return Err(..) }
Gate(next) ==
    /\ stage' = IF errors' THEN "failed" ELSE next

-----------------------------------------------------------------------------
(* The stages before the functions. *)

\* Classes, instances, class members, data types, conflicts: every part runs
\* and the errors of all of them are returned together.
CheckDeclarations ==
    /\ stage = "declarations"
    /\ errors' \in BOOLEAN
    /\ Gate("derived")
    /\ UNCHANGED <<programVars, depVars, groupVars, functionTypes>>

ProcessDerivedInstances ==
    /\ stage = "derived"
    /\ errors' \in BOOLEAN
    /\ Gate("instances")
    /\ UNCHANGED <<programVars, depVars, groupVars, functionTypes>>

CheckInstanceDependencies ==
    /\ stage = "instances"
    /\ errors' \in BOOLEAN
    /\ Gate("functions")
    /\ UNCHANGED <<programVars, depVars, groupVars, functionTypes>>

\* A function without signature and without body.
UntypedExtern(f) == ~functions[f].typed /\ ~functions[f].body

\* Mutant: the errors of process_functions are returned with those of main.
ProcessFunctionsNoGate ==
    /\ stage = "functions"
    /\ infos' = {f \in DOMAIN functions : ~UntypedExtern(f)}
    /\ errors' \in {e \in BOOLEAN : (\E f \in DOMAIN functions : UntypedExtern(f)) => e}
    /\ stage' = "collect"
    /\ UNCHANGED <<functions, depVars, groupVars, functionTypes>>

\* process_functions: every function gets type information, except an
\* untyped extern function, which is an error.  A signature that does not
\* fit the arguments is an error, too.
ProcessFunctions ==
    /\ stage = "functions"
    /\ infos' = {f \in DOMAIN functions : ~UntypedExtern(f)}
    /\ errors' \in {e \in BOOLEAN : (\E f \in DOMAIN functions : UntypedExtern(f)) => e}
    /\ Gate("collect")
    /\ UNCHANGED <<functions, depVars, groupVars, functionTypes>>

-----------------------------------------------------------------------------
(* The order of the functions. *)

CollectDependencies ==
    /\ stage = "collect"
    /\ items' = Items(functions)
    /\ deps' = [f \in items' |-> Collect(functions, f)]
    /\ stage' = "order"
    /\ UNCHANGED <<programVars, groups, groupVars, errors, functionTypes>>

HandOutGroup ==
    /\ stage = "order"
    /\ Order!Next
    /\ UNCHANGED <<programVars, groupVars, stage, errors, functionTypes>>

\* check_main: without a Main.main there is an error.
CheckMain ==
    /\ stage = "order"
    /\ items \subseteq Order!HandedOut
    /\ errors' \in {e \in BOOLEAN :
                      (\A f \in DOMAIN functions : functions[f].kind # "NamedFunction") => e}
    /\ Gate("groups")
    /\ UNCHANGED <<programVars, depVars, groupVars, functionTypes>>

-----------------------------------------------------------------------------
(* process_dep_group, and the loop around it. *)

InLoop == stage = "groups" /\ current <= Len(groups)

First(f, S) == f \in S /\ \A g \in S : f <= g

\* init_expr_types: every call gets the type of the function it calls.
InitExprTypes(f) ==
    /\ InLoop
    /\ First(f, groups[current] \ initialised)
    /\ initialised' = initialised \cup {f}
    /\ errors' \in {e \in BOOLEAN : errors => e}
    /\ UNCHANGED <<programVars, depVars, current, checked, exprTypes, stage, functionTypes>>

\* process_function: the body is checked against the type of the function.
ProcessFunction(f) ==
    /\ InLoop
    /\ groups[current] \subseteq initialised
    /\ First(f, groups[current] \ checked)
    /\ checked' = checked \cup {f}
    /\ errors' \in {e \in BOOLEAN : errors => e}
    /\ UNCHANGED <<programVars, depVars, current, initialised, exprTypes, stage, functionTypes>>

\* type_store.save_expr_types(program): the type store of the group is dropped.
SaveExprTypes ==
    /\ InLoop
    /\ groups[current] \subseteq initialised /\ groups[current] \subseteq checked
    /\ exprTypes' = exprTypes \cup initialised
    /\ initialised' = {}
    /\ current' = current + 1
    /\ UNCHANGED <<programVars, depVars, checked, stage, errors, functionTypes>>

\* Mutant: only the errors of the last group count.
FinishLastGroup ==
    /\ stage = "groups"
    /\ current >= Len(groups)
    /\ functionTypes' = ~errors
    /\ stage' = IF errors THEN "failed" ELSE "ok"
    /\ UNCHANGED <<programVars, depVars, groupVars, errors>>

\* The end of check: with errors in any group no function type is saved.
Finish ==
    /\ stage = "groups"
    /\ current > Len(groups)
    /\ functionTypes' = ~errors
    /\ stage' = IF errors THEN "failed" ELSE "ok"
    /\ UNCHANGED <<programVars, depVars, groupVars, errors>>

Terminated == stage \in {"ok", "failed"} /\ UNCHANGED vars

Step ==
    \/ CheckDeclarations \/ ProcessDerivedInstances \/ CheckInstanceDependencies
    \/ ProcessFunctions \/ CollectDependencies \/ HandOutGroup \/ CheckMain
    \/ \E f \in DOMAIN functions : InitExprTypes(f) \/ ProcessFunction(f)
    \/ SaveExprTypes \/ Finish

Next == Step \/ Terminated

Spec == Init /\ [][Next]_vars

-----------------------------------------------------------------------------
(* Properties. *)

TypeOK ==
    /\ \E F \in SUBSET FunctionIds : functions \in [F -> Function]
    /\ infos \subseteq DOMAIN functions
    /\ items \subseteq DOMAIN functions
    /\ deps \in [items -> SUBSET items]
    /\ groups \in Seq(SUBSET items)
    /\ stage \in {"declarations", "derived", "instances", "functions", "collect", "order",
                  "groups", "ok", "failed"}
    /\ errors \in BOOLEAN
    /\ current \in Nat \ {0}
    /\ initialised \subseteq DOMAIN functions
    /\ checked \subseteq DOMAIN functions
    /\ exprTypes \subseteq DOMAIN functions
    /\ functionTypes \in BOOLEAN

\* Every function a body calls, and every lambda's host, has type information
\* when the dependencies are collected and the bodies are checked:
\* expect("Function type info not found") and expect("dep info not found")
\* hold because the gate after process_functions returns first.
InfoPresent ==
    stage \in {"collect", "order", "groups"} =>
        \A f \in Items(functions) :
            /\ f \in infos
            /\ functions[f].calls \subseteq infos
            /\ Collect(functions, f) \subseteq Items(functions)

Earlier == UNION {groups[k] : k \in 1..(current - 1)}

\* When the bodies of a group are checked, every function they call is typed,
\* is in the group itself, or was checked with an earlier group: its type is
\* the inferred one and not the general one of register_untyped_function.
CalleesReady ==
    InLoop =>
        /\ Earlier \subseteq checked
        /\ \A f \in groups[current] : \A g \in functions[f].calls :
                functions[g].typed \/ g \in groups[current] \/ g \in Earlier

\* A lambda is always checked together with the function it is written in,
\* even when that function is typed: its captured arguments are typed in the
\* type store of the group, which is dropped after it.
LambdaWithHost ==
    \A k \in DOMAIN groups : \A l \in groups[k] :
        functions[l].kind = "Lambda" => functions[l].host \in groups[k]

\* check returns Ok only when every body was checked and saved and nothing
\* reported an error.
OkMeansChecked ==
    stage = "ok" =>
        /\ ~errors
        /\ functionTypes
        /\ checked = Items(functions) /\ exprTypes = Items(functions)
        /\ infos = DOMAIN functions

=============================================================================
