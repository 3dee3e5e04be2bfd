------------------------ MODULE FunctionDepProcessor ------------------------
(***************************************************************************)
(* The functions of a resolved program, and what                           *)
(* siko_type_checker/function_dep_processor.rs takes from them: the items  *)
(* that are ordered and their dependencies.                                *)
(*                                                                         *)
(* A program is a function from function ids to records:                   *)
(*   kind      "Lambda", "NamedFunction" or "Constructor" (FunctionInfo)   *)
(*   typed     FunctionTypeInfo.typed: the function has a signature        *)
(*   body      the function has a body                                     *)
(*   calls     the functions of its StaticFunctionCall expressions         *)
(*   host      LambdaInfo.host_function: the named function around it      *)
(***************************************************************************)
EXTENDS Naturals, FiniteSets, Reachability

CONSTANT
    FunctionIds,    \* the ids a function may have
    NoHost          \* the host of a function that is no lambda

ASSUME FunctionIdsAssumption ==
    FunctionIds \subseteq Nat /\ IsFiniteSet(FunctionIds) /\ NoHost \notin FunctionIds

Function ==
    [kind : {"Lambda", "NamedFunction", "Constructor"},
     typed : BOOLEAN,
     body : BOOLEAN,
     calls : SUBSET FunctionIds,
     host : FunctionIds \cup {NoHost}]

Lambdas(p) == {f \in DOMAIN p : p[f].kind = "Lambda"}

\* What a record of each kind looks like when the resolver has built it.
WellFormedFunction(p, f) ==
    /\ p[f].calls \subseteq DOMAIN p
    /\ ~p[f].body => p[f].calls = {}
    /\ CASE p[f].kind = "Lambda" ->
              /\ p[f].body /\ ~p[f].typed
              /\ p[f].host \in DOMAIN p
              /\ p[p[f].host].kind = "NamedFunction" /\ p[p[f].host].body
         [] p[f].kind = "NamedFunction" -> p[f].host = NoHost
         [] p[f].kind = "Constructor" -> p[f].typed /\ ~p[f].body /\ p[f].host = NoHost

\* f is the body around lambda l: its host, or a lambda of the same host.
Encloses(p, f, l) ==
    /\ l \in p[f].calls
    /\ f = p[l].host \/ (f \in Lambdas(p) /\ p[f].host = p[l].host)

\* A lambda is called by the one body it is written in, and lambdas nest:
\* no set of lambdas consists of lambdas written in each other only.
LambdasNested(p) ==
    /\ \A l \in Lambdas(p) : \A f, g \in DOMAIN p :
            l \in p[f].calls /\ l \in p[g].calls => f = g
    /\ \A L \in SUBSET Lambdas(p) :
            L # {} => \E l \in L : \E f \in DOMAIN p \ L : Encloses(p, f, l)

\* The programs the resolver hands to the type checker.
WellFormed(p) ==
    /\ \A f \in DOMAIN p : WellFormedFunction(p, f)
    /\ LambdasNested(p)

-----------------------------------------------------------------------------
(* FunctionDependencyProcessor *)

\* Mutant: functions with a signature are not ordered.
ItemsUntyped(p) == {f \in DOMAIN p : p[f].body /\ ~p[f].typed}

\* process_functions: the functions with a body are ordered.
Items(p) == {f \in DOMAIN p : p[f].body}

\* Mutant: a lambda does not depend on its host.
CollectWithoutHost(p, f) == {g \in p[f].calls : ~p[g].typed}

\* Mutant: the dependencies of typed functions are not collected.
CollectUntypedOnly(p, f) ==
    IF p[f].typed THEN {} ELSE {g \in p[f].calls : ~p[g].typed} \cup ({p[f].host} \ {NoHost})

\* DependencyCollector::collect: the untyped functions the body calls, and
\* the host of a lambda whether it is typed or not.
Collect(p, f) ==
    {g \in p[f].calls : ~p[g].typed} \cup ({p[f].host} \ {NoHost})

=============================================================================
