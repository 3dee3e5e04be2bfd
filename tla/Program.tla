------------------------------- MODULE Program -------------------------------
(***************************************************************************)
(* The resolved program of siko_ir: type definitions, functions, and the   *)
(* expressions and patterns of their bodies, with the order in which       *)
(* siko_ir/walker.rs visits them.                                          *)
(*                                                                         *)
(* A program is a record:                                                  *)
(*   functions  a sequence of [kind, arity, captured, signature, body,     *)
(*              typedef, variant]; a function's id is its position         *)
(*   groups     the dependency groups, each a sequence of function ids     *)
(*   nodes      the expressions and patterns: a node's id is its position  *)
(*   main       the function the interpreter starts with                   *)
(* signature is <<>> or <<type>>.  body is a node, or 0 for an extern      *)
(* function or a constructor.  A node is a record [k, at, ix, args, ty]:   *)
(* its kind, the thing it names, indices, its parts, and the type of a     *)
(* typed pattern.  Float literals are checked like integer literals and    *)
(* are left out.                                                           *)
(***************************************************************************)
EXTENDS Types

CONSTANT
    TypeDefs,   \* id -> [kind, params, variants, names]; a record has one variant
    Members     \* class member id -> [class, argument, type]

IntType == Named(1, <<>>)
StringType == Named(2, <<>>)
BoolType == Named(3, <<>>)
ListType(item) == Named(4, <<item>>)
UnitType == Tuple(<<>>)

Node(k, at, ix, args) == [k |-> k, at |-> at, ix |-> ix, args |-> args, ty |-> UnitType]

PatternKinds ==
    {"Binding", "Wildcard", "IntegerPattern", "StringPattern", "TuplePattern", "RecordPattern",
     "VariantPattern", "Guarded", "Typed"}

RecordIds == {id \in DOMAIN TypeDefs : TypeDefs[id].kind = "record"}

HasField(id, name) == \E i \in DOMAIN TypeDefs[id].names : TypeDefs[id].names[i] = name
FieldIndex(id, name) == CHOOSE i \in DOMAIN TypeDefs[id].names : TypeDefs[id].names[i] = name

\* The records that have all the fields, in the order the resolver lists them.
RecordsWith(names) ==
    SetToSortSeq({id \in RecordIds : \A i \in DOMAIN names : HasField(id, names[i])}, <)

\* Mutant: the value of a case expression is visited with every case.
PartsPerCase(node) ==
    CASE node.k = "Bind" -> <<node.args[2], node.args[1]>>
      [] node.k = "CaseOf" ->
            FlattenSeq([i \in 1..((Len(node.args) - 1) \div 2) |->
                <<node.args[1], node.args[2 * i + 1], node.args[2 * i]>>])
      [] OTHER -> node.args

\* The parts of a node in the order walk_expr and walk_pattern visit them.
\* The values of a record update are visited once for every record that has
\* the fields.
Parts(node) ==
    CASE node.k = "Bind" -> <<node.args[2], node.args[1]>>
      [] node.k = "CaseOf" ->
            <<node.args[1]>> \o
            [i \in 1..(Len(node.args) - 1) |-> node.args[IF i % 2 = 1 THEN i + 2 ELSE i]]
      [] node.k = "RecordUpdate" ->
            <<node.args[1]>> \o
            FlattenSeq([i \in DOMAIN RecordsWith(node.ix) |-> Tail(node.args)])
      [] OTHER -> node.args

RECURSIVE Walk(_, _)
Walk(nodes, n) ==
    LET parts == Parts(nodes[n])
    IN  Append(FlattenSeq([i \in DOMAIN parts |-> Walk(nodes, parts[i])]), n)

\* The argument a name refers to: the captured arguments of a lambda come first.
ArgIndex(functions, node) ==
    IF node.ix[2] = 1 THEN node.ix[1] ELSE functions[node.at].captured + node.ix[1]

\* The binding pattern a name refers to.
BindingOf(nodes, at) == CHOOSE n \in DOMAIN nodes : nodes[n].k = "Binding" /\ nodes[n].at = at

=============================================================================
