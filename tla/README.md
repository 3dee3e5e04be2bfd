# siko: a verification project

siko is a compiler front end and an interpreter for a small functional language:
source text is lexed and parsed, names are resolved into an intermediate
representation, types are inferred group by group, and `Main.main` is evaluated.
The program is sequential. What is hard about it is the ORDER in which things are
found out: which function is inferred before which, what a type stands for at the
moment it is read, what the checker leaves behind for the interpreter, which
relies on it with assertions.

This directory has TLA+ models of the parts that carry that logic, TLC
configurations that check them on small instances, and TLAPS proofs. The paths
below are relative to `src/crates/`.

## Inventory

| Part | State it keeps | Operations | Interacts with | What makes it correct | Modelled |
|---|---|---|---|---|---|
| Lexer (`siko_parser/lexer.rs`) | position, tokens, columns of open blocks | tokens, nested comments, layout (`process_block`, `process_item`), merging of numbers | parser, driver | blocks and items end where their columns say, no token is lost, a comment ends where its level is 0 | `Lexer`, proved |
| Parser (`parser.rs`, `expr.rs`, `util.rs`) | token index, names handed out | recursive descent, precedence, lookahead | syntax, locations | the tree is the one that would be written with these tokens; an error for anything else | `Parser` |
| Syntax (`siko_syntax`) | containers by id | none | parser, resolver | data only | its forms, in `Parser` |
| Modules and types (`resolver.rs`, `type_processor.rs`, `type_arg_resolver.rs`) | modules, items, IR containers | registration, processing of types, classes, instances | all of the resolver | every name resolves to one item, or there is an error | registration and lookups in `Imports` |
| Imports and exports (`export_processor.rs`, `import_processor.rs`, `export_import_pattern.rs`) | exported and imported items and members, hide patterns and their `matched` flags | matching patterns, hiding, namespaces | resolver | a module sees what the other exports and it imports and did not hide; unused patterns are reported | `Imports`, proved |
| Expressions (`expr_processor.rs`, `environment.rs`, `lambda_helper.rs`) | scopes, captures per lambda, lambda counter | scoping, captures, desugaring of operators, sections and partial calls | resolver, IR | a use refers to its innermost binding; captured arguments agree with the call that makes the lambda | `ExprProcessor`, `LambdaHelper` (in part proved) |
| IR (`siko_ir`: expressions, patterns, functions, `walker.rs`) | containers by id, saved types | walking | everything after the resolver | an expression is visited once and after its parts | `Program` |
| Types (`types.rs`, `substitution.rs`, `unifier.rs`) | substitution, constraints, variable counter | apply, unify, duplicate, remove fixed types | checker, interpreter | solved, most general, acyclic, no constraint lost; a call returns | `Types`, `Unifier`, `UnifierCalls`, proved |
| Dependency order (`dependency_processor.rs`) | group table, lookup, processed items | merge of circular dependencies, ordering | checker | groups are the strongly connected components, users after what they use | `DependencyProcessor`, proved |
| Function dependencies (`function_dep_processor.rs`) | items, dependencies | collection | dependency order | an untyped function is inferred before its callers; a lambda with its host | `FunctionDepProcessor`, proved |
| Checker driver (`typechecker.rs`) | errors, stages, groups, type information | stages with early returns, the loop over the groups | everything in the checker | lookups succeed, Ok only if all was checked | `Typechecker`, proved |
| Inference (`type_store*.rs`, `expression_checker.rs`, `common.rs`, `undefined_var_checker.rs`) | type of each function, expression and pattern | initial types, pairwise unification while walking, saving | instances, types | principal types, independent of the order; no assertion fails | `TypeStore`, `ExpressionChecker`, `Inference` |
| Instances (`instance_resolver.rs`, `instance_resolution_cache.rs`) | instances per class, cache | search, conflicts, dependencies, derivation loop | inference, interpreter | what the interpreter looks up was resolved; no two instances for a type; the loop ends | `InstanceResolver`, `DerivedInstances`, in part proved |
| Interpreter (`siko_interpreter`) | environments, values with types | evaluation, partial calls, call unifiers, class dispatch | checker's results | accepted programs run without a failed assertion | `Interpreter`, with the class `Show` only |
| Standard library externs (`data_*.rs`, `std_*.rs`) | maps and lists in values | one Rust call each | interpreter | - | no |
| Driver (`siko_compiler`) | the program between the stages | lexing, parsing, resolving, checking, running, each ending the next ones by an error | all of the above | every text is read or rejected; what a stage hands on the next one can take | `Compiler`, for one file |
| Errors, locations, utilities, visualizer | files, ids | messages, counters, drawings | - | - | no |

There are no threads, messages or persistence, so none of the models have
crashes, lost messages or interleavings of processes. The behaviours that tests
hardly reach are listed in `PROJECT.json` under `hazards`, each at its line.

## Modules

| Module | Stands for | EXTENDS |
|---|---|---|
| `Reachability` | paths and strongly connected components, as least closed sets | |
| `DependencyOrder` | what `process_items` promises (abstract) | `Reachability` |
| `DependencyProcessor` | `dependency_processor.rs`, one action per step of its loops and of the recursive search | `Reachability`; refines `DependencyOrder` |
| `FunctionDepProcessor` | `function_dep_processor.rs`, as functions of a program | |
| `Typechecker` | `Typechecker::check`; takes the order from `DependencyOrder` | `FunctionDepProcessor` |
| `Types`, `Unifier` | `siko_ir` types, substitutions, `Unifier::unify` | |
| `UnifierCalls` | one unifier used for several calls, one step per recursive call of `unify` | `Unifier` |
| `Program` | resolved programs and the order of `walker.rs` | `Types` |
| `InstanceResolver` | `has_instance`, `check_instance`, the cache | `Unifier` |
| `DerivedInstances` | the instances of a program: declared, checked for conflicts, derived, checked for dependencies | `InstanceResolver` |
| `TypeStore` | type information and how it is initialised | `Program`, `InstanceResolver` |
| `ExpressionChecker` | one visit of `ExpressionChecker` | `TypeStore` |
| `Interpreter` | evaluation, with the types it computes and asserts | `Program`, `Unifier` |
| `Typing` | reference: the ground types of a program by rules, no unification and no order | `Program` |
| `Inference` | the machine: register, initialise, check, save, run | the four above |
| `Imports` | items, exports, imports, hiding, lookups by name | |
| `Lexer` | `lexer.rs`: an action for each kind of token, comment and step of the layout pass | |
| `Parser` | `parser.rs`, `expr.rs`, `util.rs`, as a function from tokens to trees | `Lexer` |
| `Grammar` | reference: how a tree is written, with as few parentheses as possible | `Parser` |
| `LambdaHelper` | `lambda_helper.rs`: captures of the lambdas around a use of a name | |
| `ExprProcessor` | `expr_processor.rs`, `environment.rs`, as functions of the resolver's state | `Program`, `LambdaHelper` |
| `Scoping` | reference: what a name belongs to, and when a node stands for it | `ExprProcessor` |
| `Compiler` | `compiler.rs` on one file: text, tokens, trees, program, types, result | `Grammar`, `Scoping`, `Inference` |
| `MC*` | instances for TLC | |
| `*_proofs` | theorems | |

The pieces fit together as the crates do. `DependencyProcessor` is shown to
implement `DependencyOrder`; `Typechecker` uses only `DependencyOrder`. In
`Typechecker` the content of a function body is a free choice (a stage that can
report an error may); in `Inference` it is the content that is modelled, and the
groups are given with the program. `DerivedInstances` ends where functions are
checked; `Inference` starts from the instances it would leave (`InstanceMap`).
`Imports` stands alone: the models after it work on resolved names. `Compiler`
composes the front end with `Inference`: the program that the resolver makes of a text is
the one that is checked and run, and the names the file imports are given.

### From code to model

* `DependencyProcessor`. `table`, `pending`, `visited`, `unprocessed`, `processed`
  and `ordered` are the variables of `process_items`. The recursive
  `depends_on` has an explicit stack; a frame is the set of calls it still has to
  make. A BTree iterator yields the least element, so the model is deterministic
  as the code is. The code's `panic!("Cyclic dep groups")` is a state in which
  nothing is enabled.
* `Typechecker`. `stage` is the place in `check`; `Gate` is the early return. A
  function is a record of kind, whether it has a signature and a body, the
  functions it calls, and the host of a lambda. `WellFormed` states what the
  resolver builds: a lambda is used by the function it is written in, or by a
  lambda that is.
* `Types`, `Unifier`. A type is a record of kind, id, class constraints and
  arguments; a substitution is a function from variable indices. Types come in layers by
  their depth (`Layer`). What the code computes by recursion on a type is a recursive
  function on a layer that has the types at hand (`LayerOf`), not a RECURSIVE operator, so that
  it can be proved about. `unify` is split
  into an operator for each kind of pair; the `assert_eq!` of the constraints
  is the result `"panic"`. Its calls for the items of a type are a stack of pairs, `pending`:
  `UnifyNext` is one call up to the calls it makes, and `Unify` is the whole of them, which
  the modules for inference, instances and evaluation use.
* `UnifierCalls`. `UnifyPair` starts a call of `unify` with the unifier that the calls before
  left, and `UnifyItem` is one recursive call. `LeavesAssumption` says what the
  code's `type_var_generator` gives: an index belongs to one variable or fixed type
  argument with one set of constraints. Ground types are what the properties
  replace variables by, and are not in the code.
* `TypeStore`, `ExpressionChecker`, `Inference`. `store` collects what
  `process_dep_group` changes: function information, node information, errors,
  the variable counter, the cache, and whether an assertion failed. One step of
  `Inference` is one visit of a walk (`tasks` is what remains of the walk), and
  a visit is the list of its unifications in their order. Where the code clones a
  type before it unifies, the model has `Read(type)`; where it reads again, it has
  `TypeOf(node)`. That distinction is what most of the findings are about.
  A node is visited as often as the code's walk comes to it.
* `InstanceResolver`, `DerivedInstances`. A search is a value that goes through
  `check_instance` as the resolver's fields and the argument `unifiers` do. Its `pending`
  has the calls that each call at hand still has to make: `CheckNext` is one call up to
  those it makes, and `CheckInstance` the whole of them, which inference uses.
  `stage` is the place in `check`. A round of the loop for one derived class of one type is
  `StartItems`, then `StartClaim` and `CheckPending` for the class of each item, then
  `ApplyUnifier` for each unifier these gave, then `EndItems`.
  The instances of a class are a function from keys, pairs of numbers whose order is the order
  in which the code pushes them: `<<0, i>>` for user-defined ones, `<<id, nr>>` for a
  derived one. The code has a sequence per base type, and `HasInstance` selects it.
  `pass` counts the passes of the loop and is not in the code. The assumptions on declarations say
  what the resolver hands on: a data type is for distinct variables
  (`DeclarationsAssumption`), an index comes from the `type_var_generator` and is one variable
  (`LeavesAssumption`), and each instance has variables of its own (`HeadsAssumption`).
  `Depth` bounds how deep the declared types are; it is any number in the proofs.
* `Imports`. `stage` is the place in `Resolver::resolve`, and `Gate` its early return.
  One step handles the exports of one module, or one import. The maps from names
  to lists of items are sets of items; an import's number (`by`) keeps apart what the
  code has twice in a list, since `check_ambiguity` counts it twice. `hides`
  has the hide patterns of the module at hand and `matched` those of them that have their
  flag set; an implicit import is added once per implicit module, and an import without an
  alternative name has `None`. Names are strings, paths are sequences of one or two of them. Left out: modules of the same
  name, and what a message says besides its kind and name.
* `Lexer`. A text is a sequence of characters and whole words, with widths, since
  the layout pass compares columns. One round of the loop of `Lexer::process` is a
  step; `comment` is the stack of calls of `process_block_comment`, and `blocks`
  the stack of calls of `process_block` and `process_item`. `result` is
  `TokenIterator::result`. Lines, and what an error says, are left out.
* `Parser`. A tree is `[op, name, subs]`; what a parsing function returns is
  a record of the trees, the next position, and whether it failed or panicked.
  `Parse` goes from the name of a symbol to its operator, so that lists and
  sequences of symbols can be written once. `KindAt` has no check for the end where
  the code has none (`peek().expect`, `current_kind`), and a panic is a result.
* `LambdaHelper`, `ExprProcessor`. An environment is a scope in a stack, the innermost
  last; its level is its place. A helper has the captures of one lambda. Every function
  of `expr_processor.rs` goes from the resolver's state to the next one, and `id`
  is the node it returned. Errors are a set of kinds.
* `Compiler`. `stage` is how far `Compiler::compile` is. A file is resolved and
  checked if it is one module of functions in forms that `Program` has
  (`Followed`); any other is followed up to its trees. Type checking and
  running are the actions of `Inference`.
* `Interpreter`. Evaluation is a recursive operator that returns a status: `ok`,
  or the assertion that failed (`mismatch` for the call unifier, `open` for
  a type that is not concrete, `unresolved` for a lookup in the cache, `value`
  for a value of an unexpected shape). Values are kept as far as types and
  pattern matching tell them apart.

## Runs

| Run | Instance | Shows |
|---|---|---|
| `dependency_order` | graphs of up to 4 items with up to 2 dependencies per item | type, groups sound and complete, no cyclic groups, users after what they use, each item once; it terminates, and implements `DependencyOrder` with its liveness |
| `typecheck_order` | all well-formed programs of 3 functions, any outcome of any stage | lookups succeed, callees are ready, lambdas with their hosts, Ok means checked |
| `unifier` | up to 3 calls: all pairs of types of depth two in 4 variables of 3 kinds of constraints, one fixed argument, one plain type, then 2 of 7 further pairs | acyclic, solves, most general, constraints kept |
| `inference` | 5760 programs | see below |
| `derived_instances` | about 5100 declarations: two data types with one parameter and up to two items, what they derive, user-defined instances; some with two parameters | see below |
| `imports` | 16,583 programs of four modules | see below |
| `front_end` | 5388 texts | see below |
| `stale_result`, `stale_fields`, `lost_constraint`, `partial_call`, `scope_leak` | one program each | a counterexample each, see Findings |

Graphs with 4 items have two disjoint cycles, a cycle behind a cycle, and a cycle
through a vertex of another one; the search can take wrong turns with 3 already.
Three functions make a typed host, a lambda and a callee. Two later calls of a
unifier let a cycle or a stale binding go through two earlier ones. `Solves`,
`MostGeneral` and `ConstraintsKept` speak of unifiers without pending pairs, `Acyclic` of all.
The proofs cover every size for these three runs.

`inference` enumerates the body of one function `f` (with or without a
signature; with one argument) and of `main`: every kind of expression and pattern
once with all simple operands, then nested one level under a `do` binding,
recursive calls in branches, bind groups of or-patterns, guards, typed
patterns, partial and excess arguments, and lambdas that capture the argument of `f`.
Four of its five records are built, matched, read and updated; `val` is a field of two of
them and `num` of two, and they are read and updated where their record is
known from a value and where it is known from a signature. The constructors of a
variant and of a record with a type parameter are also used as functions, with all
arguments, some or none. Its six invariants are:

* `TypeOK`: the shape of the state, and every expression has a saved type at the end;
* `ConstraintsAgree`: a variable has the same constraints in all types at all times,
  which `unify` asserts (`unifier.rs:38`);
* `CheckerPanicsKnown`: the checker fails an assertion of its own exactly for a program
  with an update of fields that several records have, see below;
* `ConstructorsTyped`: a constructor is a function of the declared type, with one
  exception for records, see below;
* `PrincipalTypes`: the ground types of an accepted function are exactly those of
  `Typing`, and a rejected program has a function without a type (or only a type
  that is left open). Both are compared on a set of ground types that has every
  base type, an option, a record, lists, tuples, functions and a fixed type argument;
* `RunsCleanly`: an accepted program runs without a failed assertion.

`MaxCallDepth` cuts recursion of the evaluated programs; a run that reaches it
ends as `deep`. The bound of 4 lets a recursive function be called by itself.

The program set leaves out the shapes of the findings, since the invariants fail on
them: a call of the function itself as an operand of another call, two fields
that share a type parameter given different types, `show` of a composite value
that contains a variable, and a callable with a part of its arguments passed to
another function. It leaves out the constructor of `Box` as a function, on which
`PrincipalTypes` and `RunsCleanly` fail for the reason given next. It also leaves out a
record update whose receiver's type is still a variable (the code reports a type
mismatch where an annotation would help) and typed patterns with type variables. A
record is imported once: the resolver lists a field, and its values in an update,
once per import.

The run makes two more faults of the code plain, which its invariants state as they are:

* An update of fields that several records have ends the compiler. The resolver makes one
  expression of each value and lists it for every record that has the fields
  (`expr_processor.rs:1092`), `walk_expr` walks each list (`walker.rs:80`), and
  `initialize_expr` asserts that an expression has no type yet (`type_store.rs:102`). With
  `data Note = { num :: Int, text :: String }` and `data Mark a = { val :: Int, num :: [a] }`,
  `n { num = 1 }` panics and `n { text = "s" }` does not. That the record's type is known makes
  no difference.
* The constructor of a record, used as a function, forgets a type parameter that is itself the
  type of a field. A field's type is unified with the argument, which binds the parameter,
  but neither the other fields nor the record's type follow (`typechecker.rs:404`); for
  a variant they do. `Box` of `data Box a = { val :: a, tag :: Int }` gets the type
  `b -> Int -> Box a`, so `f x = Box "s" 1` followed by `inc (f 1).val` is accepted and fails
  the interpreter's assertion on the call. With `num :: [a]` the parameter is kept.

`derived_instances` compares the search with `Valid`: what the declarations mean,
as the greatest set of claims "this ground type has an instance of this class"
that supports itself. Its properties are:

* `OneInstance`: once a program is accepted, no ground type fits two instances;
* `RejectedForReason`: an error has a cause that can be told from the declarations;
* `DerivedExact`: a ground type is found to have an instance iff it has one by `Valid`;
* `CacheSound`: what was resolved on the way, before all constraints were known,
  still holds at the end;
* `TwoPasses`: the loop never starts a third pass, so it ends. This is a safety
  property in place of `<>`: the type variables a pass uses up make the
  states of an endless loop infinitely many.

The "only if" of `DerivedExact`, and `CacheSound`, are under `NoConstraintLost`,
which says that a type parameter inside the type of an item is an item of its own
as well, that user-defined instances are for all arguments, and that they constrain
these to their own class only. Without it they are violated, with the cause of the
finding `lost_constraint`: `data Wrap a = { x :: Option a } deriving (Show)` derives
Show for Wrap a whatever a is. Of about 1950 accepted declarations
1400 meet the condition. An item is a base type, the parameter, or either type applied
to the parameter or to a base type: so a type can
refer to itself, to the other, and the other back, and the constraint found for one
is what makes the other fail in the second pass. Ground types up to one application
are closed under the items, so `Valid` is exact for them.

Two things the runs made plain and that are not findings, since nothing in the
repository says otherwise. An instance for all types (`instance Show a`) is never
found for any type, for instances are looked up by base type. And an instance's
dependencies are unified with, not matched: `Ord (T a)` is accepted with
`PartialOrd (T Int)`, or without a constraint on a where PartialOrd of T has one.

`imports` has a library with a type, a record, a class and a function, a second
module with some of the same names, one that is imported implicitly, and a main
module with every pair of 30 imports (and triples that start with a `hiding`) under
six export lists. Lists name types, groups, single variants, classes, class
members, and things that are not there; a field is not a name that a list can have. Its properties are:

* `VisibleExact`: a path stands for what the export and import lists mean, which is
  stated entry by entry without patterns, `matched` flags or an order;
* `VariantsAgree`: variants are selected as items and, by different code, as members of
  their type; both come to the same;
* `ReportsExact`: a program is rejected iff it has a conflict of its own or names
  something that is not there, in a list or as a name to hide;
* `LookupsSound`: a type, value or class that a lookup returns is the only one
  of its kind under that path.

Two imports meet in every way that matters: the same module twice (plain, listed, with
another name, hidden), two modules with the same names, two modules in one namespace.
A third is there for a `hiding` that counts for several imports. What an import
means does not depend on further ones except by hiding and ambiguity, and
those are counted up to "more than two".

The run also shows some behaviour that a reader may not expect and that nothing in
the repository contradicts. The fields of a record are listed together or not at all:
`match_member` has a case for one of them, which no text leads to. `import M hiding (x)` brings nothing by itself, takes the
place of the implicit import, and is reported as unused unless another import of M
brings x; what it hides is hidden from all imports of M. Importing a module twice
makes its names ambiguous.

`front_end` takes texts through the whole compiler. Most are written from
syntax trees, in five styles that differ in where lines end and blocks begin:

* `FormTrees`: every form of expression in every place of another one, where
  precedence, grouping and what ends an argument are decided;
* `PatternTrees`, `ItemTrees`: pairs of patterns, in cases and as arguments of functions;
  all items of a module with nine types, lists of exports, implicit imports;
* `BlockTrees`: blocks in blocks two levels deep, in all styles;
* `ScopeTrees`: the names x and y bound three times around a use of both, by lambdas,
  blocks and cases, and every form that has scopes or errors of its own around that.

Others follow no rules, and begin with something other than a word so that the properties
can tell: `Comments` (all sequences of up to six signs, or four pairs), `Mixed` (a
block followed by up to three words and parentheses on the line or in one of
two columns), `Odd` (strings, numbers, operators, almost empty files), `Cut` (a
module cut anywhere, or with one piece missing or another in its place).
Its properties are:

* `TokensKept`: the layout pass hands out each token once, in order, and only adds ends;
* `LayoutExact`: ends are where columns and parentheses put them, said of the
  finished sequence without counters: every token is in the innermost block it may stand
  in, and no block ends before it has to;
* `CommentsSkipped`: a comment takes the text up to its own end;
* `RoundTrip`: the trees read from a text, written down by `Grammar`, are its tokens;
  every text that was written is read; and modules have their implicit imports. As the
  trees are the texts' own up to the numbering of temporary names, this says that
  parser and grammar agree on precedence and grouping in both directions;
* `NamesAgree`: in a program without errors every name stands for its innermost binder,
  through the captures of all lambdas between, and an unknown name is reported iff
  there is one;
* `PanicsKnown`: the front end panics for five kinds of texts only, and always for the
  last two, see below.

Two levels of forms are enough for precedence, since a rule concerns a form and its
part; three binders for captures, since a lambda in a lambda in a lambda captures what was
captured already from one whose arguments may or may not hide it. Three pieces
end an item, a block and the block around it.

What the run makes plain and nothing in the repository contradicts: the five panics are
a file without tokens (`add_end` has no location), a file that ends with the word
`module`, a field of a record pattern without a pattern (`unimplemented!()`),
alternatives with a guard (`unreachable!()`), as in `Some x | x if c`, and a record made
with the name of a function (`unreachable!()`, `expr_processor.rs:192`): a qualified name before
a brace is read as a record's name, whatever it is, as in `Std.inc { num = 1 }`. The fields of
a record that is not found are not resolved, so what is wrong within them goes unseen. A minus
before anything but a literal becomes a call of the operator for subtraction with one argument. A
comment right behind an operator is read as part of it. A closing parenthesis in
the column of its block leaves an empty item. A token of a module's header in
the column of the module's name begins another item. `1 . 2` is a
number. An item that is imported twice is ambiguous even though it is one item, also
where a record is made.

`CHECK_DEADLOCK FALSE` is set for `unifier` only, where calls simply end. Elsewhere
an explicit `Terminated` step marks the ends, so TLC's deadlock check is another
check on panics.

Fairness: `WF_vars(Step)` in `DependencyProcessor`. It is a single sequential
call that is not suspended, so a step that can be taken is taken; there is no choice between steps that strong fairness would settle.
`Typechecker`, `Inference`, `DerivedInstances`, `Imports`, `Compiler` and `UnifierCalls` state no liveness and no fairness.

Each property has a mutant: a changed definition that a plausible bug would give
(defined beside the original, marked `Mutant`) under which the property is
violated in the same run.

## Proofs

The theorems on orders and on the checker hold for every finite set of items or functions
(`UniverseAssumption`, and the assumptions of `FunctionDepProcessor` on its constants);
what the others are about is said with each.

* `DependencyProcessor_proofs` starts with what its order rests on: reachability is
  transitive, and `Connected` is an equivalence. Its theorems are type correctness, `GroupsSound`, `GroupsComplete`,
  `NoCyclicGroups`, `DependenciesFirst`, `EachItemOnce`, and the refinement
  `Safety => Order!Safety`. The inductive invariant has four parts. For the search:
  the items visited are closed under dependencies but for the calls on the
  stack, and none of them uses the searched item. When the stack empties,
  what was visited is a closed set without it, so the dependency is not circular.
  For the merges: items of one group are connected, and a dependency
  whose pair is done is in the user's group if it is connected with it. With no
  pair left, a path between two connected items runs inside one group, which
  gives completeness. For the order: processed items are those of groups that
  are not unprocessed. That some group is ready is by a minimal
  element: of all items in unprocessed groups, take one from which the fewest
  items can be reached (the sets reached are finite, so the strict subset
  order on them is well-founded); a dependency it misses would reach fewer.
* `Typechecker_proofs`: `TypeCorrect`, `LookupsSucceed`, `CalleesAreReady`,
  `LambdasWithHosts`, `OkIsSound`. The invariant adds to the properties where the
  information comes from: what the gates rule out (`ProgramInv`), that the
  dependencies are those of the program and groups are closed
  (`GroupInv`), and how far the loop is (`LoopInv`). That a lambda is connected
  with its host is a lemma on well-formed programs: the host reaches the
  lambda through the calls, and the lambda depends on its host because `Collect`
  adds it.

* `Lexer_proofs`: `TokensAlwaysKept`, for every set of texts. The invariant `LexInv`
  adds to `TokensKept` that tokens are no ends, that `next` is a position of a
  token or the one after the last, and that a block is open only when something has
  been handed out, so that there is a token an end can belong to. Scanning steps only
  append tokens while nothing is handed out; each action of the layout pass
  appends the next token, or ends.
* `LambdaHelper_proofs`: of any stack of lambdas with growing levels. The lambdas
  that capture a name are the innermost ones (`CapturingInnermost`). A use of a
  name leaves earlier captures where they are (`CapturesGrow`), so an index that
  was given out keeps its meaning. And the capture a lambda adds
  is what its host refers to, up to the one the name is bound in
  (`CapturesLinked`): following captures from a use leads to the binder.

* `Lexer_proofs` also has `CommentsAlwaysSkipped`. `CommentsSkipped` compares the scanner,
  which remembers one character per open comment, with a function that says for each
  position and sign where a comment ends (`CommentEnds`). The invariant `CommentInv`
  says that the end of each open comment is found from the end of the one in it, and that of
  the innermost one from the last character read; so whatever the scanner does next,
  the outermost one's end stays where it was. That the recursive function exists
  is an induction on the pieces left.
* The layout pass, in `Lexer_proofs` too: `LayoutAlwaysExact` (`LayoutExact`), for every set of texts.
  `LayoutExact` speaks of the finished result: of counts of opening words, and of the
  tokens of a block before a position. The layout pass keeps one column, one flag and
  one counter for each open block. The inductive invariant `LaidInv` says what they are:
  block number k is the one that the last word at depth k - 1 opened, its column is that of
  the token after that word, its counter is the number of parentheses open in its last
  item, unless the next token begins an item (then it is 0), and every entry handed out
  so far fits. One more entry changes the counts of its own block only (`OneMore`,
  `Ended`), so the blocks around it stay as they are (`BlockStays`). That columns are
  numbers is an induction on the characters of a token (`ColumnsFound`). TLC checked
  `LaidInv` before it was proved, on nine tenths of the states of the front_end run (all but
  those of the longest texts).
* `Imports_proofs`, for any sequence of modules (`ProgramsAssumption`: they have the
  shape of the syntax trees and different names, and there is at least one): `TypeCorrect`,
  `VariantsTogether` and `LookupsHaveOneMeaning`. `process_exports` and `process_imports`
  select variants as items by `check_item` and as members by `check_member`. The
  invariant (`Tables`) says of each table that it agrees with the one it was
  filled from: declared items and members have the same variants, a list selects the
  same variants from both if they agreed before (`SelectedVariants`), and the hides look
  at the name only. `Pending` says that later tables are empty, so that what was
  imported cannot refer to exports that are still to change. For lookups the tables have
  to be finite (`Finite`): what `check_ambiguity` counts is then at most one entry, or
  a type and a variant of the same name, of which a lookup takes one.
* What imports mean, in `Imports_proofs` too: `ImportsMeanLists` (`VisibleExact`) and `RejectedIffReason`
  (`ReportsExact`). Both properties speak of the finished tables. The
  inductive invariant `Exact` says what they have while the loops run: the declared items
  are those of the modules, the exported ones those of the modules before the one at hand,
  the imported ones those of the imports done so far (`ImportedExact`), the
  flags set are those of the first pattern of each name that some import done so far uses
  (`MatchedExact`), and the errors are the reasons found so far (`ReportedExact`). None of the
  five is inductive alone: what an import brings depends on the exports and on the
  hides, and what is reported on the flags.

* `Unifier_proofs`: what `Types` and `Unifier` are built on. A type is a leaf or made of types of a lower
  layer, which gives induction on types. A recursive function on types exists
  because its calls are for types of a lower layer. For `Apply` that is not enough, since it
  goes on with what a variable is bound to: it exists for a substitution
  that is `Resolvable`, which means that some numbering of the variables
  decreases from each one to those in its type. The rest are the laws the unifier
  needs: the leaves of an applied type, that a
  substitution that respects the bindings of another (`Respects`) gives the same before and after
  that one is applied, and that an insertion of a type without bound variables and without
  the variable itself leaves the substitution resolvable. Then the steps of `unify`: what each of
  them changes, that finitely many leave nothing pending, and what `Unify` comes to for two types
  from a new unifier: it succeeds if some replacement of variables makes them equal
  (`UnifySucceeds`), and what it returns makes them equal (`UnifyMerges`).
* `UnifierCalls_proofs`, for types of any depth, any number of calls, any ground types
  and instances that meet the two assumptions: `AcyclicAlways`, `SolvesAlways`, `MostGeneralAlways`,
  `ConstraintsKeptAlways`. They follow from the inductive invariant `Good`, which is proved in
  `GoodAlways` and says of a unifier in the middle of a call:
  * `Sound`: its substitution is resolvable. Acyclicity as `Acyclic` states it, by paths, is hard to
    carry through an insertion; the decreasing numbering is not.
  * `Coherent`, `AboutKnown`: an index is one variable with its constraints among all types that
    were unified or bound, the counter is ahead of them all, and bindings, pending pairs and recorded
    constraints are about them. So a variable made for two others is new, and the
    `assert_eq!` of constraints cannot fail.
  * `Progress`: what respects the bindings and makes the pending pairs equal makes the pairs of all
    calls equal. With nothing pending the substitution itself does, which is `Solves`.
  * `General`: each ground solution of the calls can be extended to the variables that the unifier made,
    so that it respects bindings, pending pairs and recorded constraints; if there is
    one, the unifier did not fail. With nothing pending this is `MostGeneral`.
  * `Keeps`: what a variable is bound to has its constraints, or they are
    recorded. Along a chain of bindings they reach the end, which is `ConstraintsKept`.

  A step is one of five outcomes (`Outcome`): nothing changes, a variable is bound, two are
  merged, the items are left to do, or it fails for one of the reasons in `Clash`, none of which any
  replacement of variables can remedy. Each part of the invariant is shown for each outcome.
  TLC checked the parts that it can evaluate before they were proved (`Progress` speaks of
  all substitutions), on all 27,497 states with two calls and on four
  fifths of those with three.
* That `unify` returns is in `UnifierCalls_proofs` as well. `UnifyReturns` says that from every state with
  pending pairs finitely many steps of `GoOn` leave none. It is an induction on the number of
  variables that are not bound yet, and for as long as none is bound, on the type at the left of the
  pair at hand: a merge makes one variable and binds two. `UnifyAgain` and
  `UnifyOnce` carry the results over to the operator `Unify`, of a unifier in any state between two calls
  and of a new one: what it returns has nothing pending, can be applied, makes the two
  types equal if it did not fail, and fails only if no ground types solve it. They
  are what the modules rely on that call `Unify` as a whole.
* `DerivedInstances_proofs`, for any declarations, classes and ground types that meet the
  assumptions: `ShapesKept` (`TypeOK`), `OneInstanceAlways` and `TwoPassesAlways`. The inductive
  invariant `IInv` has five parts:
  * `Control`: which variables are in use at which stage, and that errors end in a rejection;
  * `Shaped`: user-defined instances are as declared, and a derived one is its type applied to
    distinct variables;
  * `Tidied`: among the types at hand (instances, claims, calls, unifiers) an index is one
    variable with its constraints, and the counter is ahead of them, so a variable that is made
    to add a constraint is new;
  * `Passes`: of each variable among the items that lacks the class, the claim is still ahead or
    at hand, or a unifier that replaces it is, or it is no argument of the instance any more
    (`Settled`). In the second pass all are settled from the start, so no unifier changes an
    instance and there is no third;
  * `Checked`: after `check_conflicts`, no ground type reads two of the instances as they were
    declared.

  `OneInstance` joins the last with `Shaped`. Two instances that a common ground type fits
  are made equal by one replacement of variables, since they share none; then `Unify` succeeds on
  them and `check_conflicts` reports it. The constraints that are found afterwards put
  variables in the place of variables, one for one, and the ground types an instance stands for remain
  the same (`SameReadings`).

Inductions over numbers are done with sets of numbers (a non-empty one has a least
member), so recursive functions can be proved about. What is only model-checked:

* `Terminates` and the fairness part of `ImplementsOrder`: liveness is outside
  the prover's reach (that `unify` returns is a statement about a function's values instead);
* `RejectedForReason`, `DerivedExact` and `CacheSound` of `DerivedInstances`. They compare
  the search with `Valid`, a greatest set found by an iteration over all ground types, and need
  what a whole search returns, not only what each of its steps keeps;
* the invariants of `Inference` and `Compiler`. Their modules walk programs, parse and evaluate
  with RECURSIVE operators (`Walk`, `Parse`, `ProcessExpr`, `Eval`), which take the SMT backend
  away from every module that reaches them; these hold no theorems.

## Findings

All five are violations of assertions in the code by programs the checker accepts.

* `stale_result`: `process_function` clones the result type before it walks
  the body (`typechecker.rs:603`). With
  `f x = if True then "s" else do { inc (f x); "s" }` the call binds the result to
  Int meanwhile, the body's String is matched with the old variable, and
  `f : a -> Int` is accepted.
* `stale_fields`: the fields' types of a record are cloned once
  (`expression_checker.rs:256`), so `Twin { left: 1, right: "s" }` is accepted
  where both fields have the same type parameter.
* `lost_constraint`: `check_instance` takes from the unifier of `has_instance` only
  the constraints on composite types (`instance_resolver.rs:275`); a variable that
  was merged with a constrained one of the instance keeps no trace of it.
  `f x = show [x]` gets no constraint on `x`.
* `partial_call`: a callable that waits for arguments keeps the type of the whole
  function (`interpreter.rs:114`), so a lambda with a captured argument does not
  fit the parameter it is passed for.
* `scope_leak`: a block ends the scope of its names in the interpreter
  (`interpreter.rs:565`) but not in the resolver (`expr_processor.rs:722`). In
  `do { do { x <- 1; x }; x }` the last `x` is resolved, type checked, and not found when
  it is evaluated (`environment.rs:42`).

## Not modelled

* Externs, locations, messages, the visualizer, options: one call each on data that
  nothing above depends on, or output.
* Several files, and modules of the same name: `Imports` takes modules as given.
* Signatures of types, class and instance declarations between their trees and what
  `DerivedInstances`, `InstanceResolver` and `Program` start from (`resolver.rs`,
  `type_processor.rs`, `type_arg_resolver.rs`): the models after it are given the result.
* Floats and typed patterns after the parser; of the interpreter, the class dispatch
  of classes other than Show.

## Plan

Done: dependency order, function dependencies, checker driver, unifier,
derived instances, inference with evaluation, imports and exports, lexer with
layout, parser, names of expressions with captures, the compiler on one file.
Next, in this order:

1. `TypeProcessor`: signatures with their type arguments and constraints, and the checks
   on classes and instances. Properties: each type argument stands for one variable
   with all its constraints, whatever the order; an instance has exactly the members
   of its class.
2. `Imports` put in front of `ExprProcessor`: the names of a file would then be the ones
   that its imports bring, and programs could have several modules.
3. For the instances, `CacheSound` and then `DerivedExact`: that what a search accepts by its
   steps is a set of claims that supports itself, once no pass changes an instance any more. `Valid`
   would be stated as the union of all such sets. After that the closure of an instance's
   dependencies, stated as a least set.
