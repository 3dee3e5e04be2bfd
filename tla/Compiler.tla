------------------------------- MODULE Compiler -------------------------------
(***************************************************************************)
(* The compiler on one file, in siko_compiler/compiler.rs: its text is     *)
(* scanned and laid out, parsed, its names are resolved, its types are     *)
(* inferred, and main is run.                                              *)
(*                                                                         *)
(* A file that has more than functions, or a form that Program leaves out, *)
(* is followed up to its syntax tree.  The names that are imported are     *)
(* given.  The functions of a file come after those they call: a function  *)
(* and its lambdas are a group.                                            *)
(***************************************************************************)
EXTENDS Grammar, Scoping, Inference

CONSTANTS
    WellFormed(_),  \* whether a text follows the rules of Grammar
    Library,        \* the functions of the program that are not in the file
    Globals         \* the names the file imports -> what they stand for

VARIABLES
    stage,      \* "lexing", "parsed", "resolved", or how it ended early:
                \* "syntax error", "not resolved", "panicked"
    trees,      \* the syntax trees of the file's modules
    resolved    \* the state of the resolver when it is done

frontVars == <<stage, trees, resolved>>
compilerVars == <<lexVars, frontVars, vars>>

NoProgram == [functions |-> <<>>, nodes |-> <<>>, groups |-> <<>>, main |-> 0]
NothingResolved == StartOf(<<>>, <<>>, [n \in {} |-> 0])

CompilerInit ==
    /\ LexInit
    /\ stage = "lexing" /\ trees = <<>> /\ resolved = NothingResolved
    /\ program = NoProgram
    /\ store = [infos |-> Empty, nodes |-> Empty, errors |-> {}, next |-> FirstIndex,
                cache |-> DeclaredCache, panic |-> FALSE]
    /\ group = 0 /\ tasks = <<>> /\ expected = UnitType /\ exprTypes = Empty
    /\ outcome = "waiting"

Lex ==
    /\ stage = "lexing"
    /\ LexNext
    /\ UNCHANGED <<frontVars, vars>>

ParseTokens ==
    /\ stage = "lexing" /\ lexing = "lexed"
    /\ \E r \in {ParseFile(lexed)} :
        /\ stage' = CASE r.ok -> "parsed" [] r.panic -> "panicked" [] ~r.ok /\ ~r.panic -> "syntax error"
        /\ trees' = r.trees
    /\ UNCHANGED <<lexVars, resolved, vars>>

\* What Program has a form for.
FollowedForms ==
    {"Module", "ImplicitAll", "Import", "Function", "Args", "Extern", "Path", "Lambda", "FunctionCall", "Builtin",
     "If", "Tuple", "List", "Do", "Int", "Minus", "String", "Bind", "FieldAccess", "TupleFieldAccess", "Formatter",
     "CaseOf", "Case", "RecordInitialization", "RecordUpdate", "Field", "PBinding", "PWildcard", "PInt", "PString",
     "PTuple", "PConstructor", "PRecord", "POr", "PGuarded"}

RECURSIVE Forms(_)
Forms(tree) == {tree.op} \cup UNION {Forms(tree.subs[k]) : k \in DOMAIN tree.subs}

FunctionItems(modules) == SelectSeq(modules[1].subs, LAMBDA item : item.op = "Function")

Followed ==
    /\ Len(trees) = 1 /\ Forms(trees[1]) \subseteq FollowedForms
    /\ \E k \in DOMAIN FunctionItems(trees) : FunctionItems(trees)[k].name = "main"

Main(functions) == Len(Library) + CHOOSE k \in DOMAIN functions : functions[k].name = "main"

ResolveNames ==
    /\ stage = "parsed" /\ Followed
    /\ \E r \in {ProcessFunctions(FunctionItems(trees), Library, Globals)} :
        /\ resolved' = r
        /\ IF r.panic \/ r.errors # {}
           THEN /\ stage' = IF r.panic THEN "panicked" ELSE "not resolved"
                /\ UNCHANGED <<program, tasks, outcome>>
           ELSE /\ stage' = "resolved"
                /\ program' = [functions |-> r.functions, nodes |-> r.nodes, groups |-> r.groups,
                               main |-> Main(FunctionItems(trees))]
                /\ tasks' = [f \in DOMAIN r.functions |-> [do |-> "register", fn |-> f, node |-> 0]]
                /\ outcome' = "checking"
    /\ UNCHANGED <<lexVars, trees, store, group, expected, exprTypes>>

\* The type checker and the interpreter.
CheckAndRun ==
    /\ stage = "resolved"
    /\ Next
    /\ UNCHANGED <<lexVars, frontVars>>

\* Errors are reported, a panic ends the program.
Stop ==
    /\ \/ lexing \in {"failed", "panicked"}
       \/ stage \in {"syntax error", "not resolved", "panicked"}
       \/ stage = "parsed" /\ ~Followed
    /\ UNCHANGED compilerVars

CompilerNext ==
    \/ Lex
    \/ ParseTokens
    \/ ResolveNames
    \/ CheckAndRun
    \/ Stop

CompilerSpec == CompilerInit /\ [][CompilerNext]_compilerVars

-----------------------------------------------------------------------------
(* Properties. *)

\* Every module imports what every module needs, whether it says so or not.
ImplicitImports(module) ==
    \A k \in DOMAIN ImplicitModules :
        LET imports == {i \in DOMAIN module.subs :
                            module.subs[i].op = "Import" /\ module.subs[i].name = ImplicitModules[k]}
        IN  ImplicitModules[k] # module.name => imports # {}

\* A text that follows the rules is read, in any layout, and its trees are written
\* as the tokens it has: nothing binds stronger or weaker than it should, nothing is
\* lost, and every block is where its columns put it.
RoundTrip ==
    /\ lexing \in {"failed", "panicked"} \/ stage = "syntax error" => ~WellFormed(text)
    /\ stage = "parsed" /\ WellFormed(text) =>
            /\ WrittenFile(trees) = lexed
            /\ \A k \in DOMAIN trees : ImplicitImports(trees[k])

\* What the name before the braces of a record stands for, if it is one thing.
RecordKind(tree) ==
    LET once == tree.name \in DOMAIN resolved.globals /\ resolved.globals[tree.name].times = 1
    IN  IF once THEN resolved.globals[tree.name].kind ELSE "none"

\* A tree without what is never resolved: the fields of a record that is not found.
RECURSIVE Reached(_)
Reached(tree) ==
    LET lost == tree.op \in {"RecordInitialization", "PRecord"} /\ RecordKind(tree) # "record"
    IN  [tree EXCEPT !.subs = IF lost THEN <<>> ELSE [k \in DOMAIN @ |-> Reached(@[k])]]

\* The names that no binder and no import has anything for, of those that are resolved.
UnknownNames ==
    LET items == FunctionItems(trees)
    IN  {name \in UNION {FreeNames(Reached(items[k]), {}) : k \in DOMAIN items} :
            \/ name \notin DOMAIN resolved.globals
            \/ /\ ~resolved.globals[name].ambiguous
               /\ resolved.globals[name].kind \notin {"function", "record", "variant", "member"}}

\* Every name means its innermost binder.  An unknown name is reported exactly if
\* there is one.  In a program without errors a name stands for what binds it: in the
\* lambda where it is used, through the captures of all the lambdas between, and for
\* each alternative of a case by itself.  The resolver counts levels of environments
\* and copies what lambdas capture as it goes (environment.rs, lambda_helper.rs).
NamesAgree ==
    /\ stage \in {"resolved", "not resolved"} /\ DOMAIN store.infos = {} =>
            ("UnknownFunction" \in resolved.errors) = (UnknownNames # {})
    /\ stage = "resolved" /\ DOMAIN store.infos = {} =>
            \A k \in DOMAIN FunctionItems(trees) :
                AgreesFunction(resolved, FunctionItems(trees)[k], Len(Library) + k)

\* A name that the resolver found has a value when it is used:
\* Environment::get_value of the interpreter.
NamesBound == outcome # "unbound"

\* A field of a record pattern without a pattern.
OpenField ==
    \E i \in 1..(Len(lexed) - 3) :
        /\ lexed[i].kind \in {"{", ","} /\ lexed[i + 1].kind = "Var" /\ lexed[i + 2].kind = "="
        /\ lexed[i + 3].kind \notin PatternStarts

\* Alternatives with a guard, or a record made with the name of a function.
RECURSIVE StopsResolver(_)
StopsResolver(tree) ==
    \/ tree.op = "PGuarded" /\ tree.subs[1].op = "POr"
    \/ tree.op = "RecordInitialization" /\ RecordKind(tree) = "function"
    \/ \E k \in DOMAIN tree.subs : StopsResolver(tree.subs[k])

\* Whatever the text is, the front end stops with an error and does not panic, but
\* for five cases: a file without tokens, one that ends with the word module, a field
\* of a record pattern without a pattern, alternatives with a guard, and a record made
\* with the name of a function.  It takes the first token of a sequence it knows to
\* have one in more than sixty places, and the resolver has arms for items it does not
\* expect.
PanicsKnown ==
    /\ lexing = "panicked" => tokens = <<>>
    /\ stage = "panicked" /\ trees = <<>> => Last(tokens).kind = "module" \/ OpenField
    /\ trees # <<>> /\ stage # "parsed" =>
            (stage = "panicked") = (\E k \in DOMAIN trees : StopsResolver(Reached(trees[k])))

=============================================================================
