---------------------------- MODULE MCTypechecker ----------------------------
(***************************************************************************)
(* Instance of Typechecker for TLC: all well-formed programs on the        *)
(* function ids.  The set of records is cut to the shapes the resolver     *)
(* builds before WellFormed filters, so that TLC can enumerate it.         *)
(***************************************************************************)
EXTENDS Typechecker

Shape(kind, typed, body, calls, hosts) ==
    [kind : {kind}, typed : typed, body : {body}, calls : calls, host : hosts]

Shapes ==
    Shape("Constructor", {TRUE}, FALSE, {{}}, {NoHost})
        \cup Shape("NamedFunction", BOOLEAN, FALSE, {{}}, {NoHost})
        \cup Shape("NamedFunction", BOOLEAN, TRUE, SUBSET FunctionIds, {NoHost})
        \cup Shape("Lambda", {FALSE}, TRUE, SUBSET FunctionIds, FunctionIds)

MCInit ==
    /\ functions \in [FunctionIds -> Shapes]
    /\ WellFormed(functions)
    /\ infos = {}
    /\ items = {} /\ deps = [f \in {} |-> {}] /\ groups = <<>>
    /\ stage = "declarations"
    /\ errors = FALSE
    /\ current = 1
    /\ initialised = {} /\ checked = {} /\ exprTypes = {}
    /\ functionTypes = FALSE

MCSpec == MCInit /\ [][Next]_vars

=============================================================================
