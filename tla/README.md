# A verification development for rust-stainless

rust-stainless turns a Rust crate into a program of the Stainless verifier. A
rustc driver compiles the crate as far as its type tables, an extractor walks
over its items and builds a Stainless AST, and a backend serializes the AST and
sends it to a Stainless process. `cargo stainless` wraps all of it for a cargo
package. This directory holds TLA+ models of these parts, the TLC runs that
check them on small instances, and TLAPS proofs for instances of every size.

Paths below are relative to `src/`; line numbers are in `PROJECT.json` under
`map`.

## Inventory

| Part | State | Operations | What makes it hard |
|---|---|---|---|
| Identifier mapping (`stainless_extraction/src/lib.rs`, `utils.rs`) | two counters, `did_to_stid`, `hid_to_stid` | `fresh_id`, `register_def`, `register_hir`, `get_or_register_def` | one number space over three kinds of owners; names converted on the way; registration is asserted to be once only |
| Crate extraction (`krate.rs`, `bindings.rs`, `lib.rs`) | items discovered, spec functions by function, sorts, function references, functions, the `DefContext` of the current body | visit of items, loops over ADTs, functions and external stubs, extraction of each, of spec functions and bindings | traversal order decides who registers first; hash-map orders; recursion over types; assertions that only some crates fail |
| Types and generics (`ty.rs`) | `TyExtractionCtxt` | `extract_ty`, `extract_generics` | parameters in hash-map order, `Fn*` bounds |
| Expressions (`expr.rs`, `literal.rs`) | none of its own | one function per expression kind | trees are rebuilt in another language: order of evaluation, widths, statements and what follows them, matches that are taken for ifs; errors are reported and extraction goes on |
| Flags (`flags.rs`) | flags by parameter name | `extract_flags`, `report_unused_flags` | flags left over; names that occur twice |
| Standard items (`std_items.rs`) | tables DefId/item | `collect`, lookups | the first definition of a name wins, whatever its path |
| Spec functions (`spec.rs`, `libstainless_macros/`) | none | macros that generate functions, parser of their names | generator and parser live in different crates and agree on names only; one macro sees what the last one left |
| AST and serialization (`stainless_data/`) | output buffer | one `serialize` per tree | length and marker encodings, agreement with a reader in Scala |
| Backend (`stainless_backend/`) | child process, pipes, temporary file | `create`, `query`, `query_for_program` | lines and responses matched by position only; the process may die or print other text |
| Frontend driver (`stainless_frontend/`) | extracted symbols, compiler result | `run`, `after_analysis`, export or verify, exit status | an error anywhere must become a failing status and never a verified program |
| cargo-stainless (`stainless_frontend/src/bin/cargo-stainless.rs`) | `target/debug`, `target/debug__tmp` | move aside, plan, move back, run the driver | failure and death between the two renames, other instances, the user's builds |

The parts call each other downwards: cargo-stainless starts the driver, the
driver runs rustc with extraction as a callback and hands the symbols to the
backend, which serializes and asks Stainless. Within extraction everything is
one thread over one state, the `Extraction` box, that is moved into a
`BodyExtractor` and back. Concurrency is at the edges: the Stainless process and
the instances of cargo-stainless.

What makes each part correct: the mapping never gives two owners one
identifier; extraction ends, needs no definition before it exists, emits every
definition that is called and attaches each contract to its function; generics
list each type parameter and pass on as many types; the wire format delivers the
tree that was sent; an extracted body means what the written one does, and a
contract and a flag get where they are written; the backend pairs answers with
queries and deletes its files; the driver verifies no program with errors;
cargo-stainless puts the build back.

`PROJECT.json` lists, under `hazards`, each place where this code is hard to
test and the properties that guard it, or why none does.

## Modules

### SymbolTable, SymbolMapping: identifiers

`SymbolTable` is what the rest of the extractor relies on: owners are registered
one at a time, each with a value no owner had before, never to change.
`SymbolMapping` is the code: a global counter (`global_id_counter`), a counter
per name, the two maps, and `fresh_vars`, the identifiers issued to made-up
variables, which the code hands out and does not keep. `RegisterDef`,
`RegisterHir`, `FreshVar` are the three callers of `fresh_id`, each including the
counters it advances. `StName` is the conversion of names made of digits, whose
result, not its argument, keys the per-name counter. The assertions that an
owner is new are guards here; what happens when they fail is in `Extraction`.
Symbol paths, which no decision depends on, are left out.

`UniqueGlobalIds` and `UniqueNamedIds` say that neither of the two ways to tell
identifiers apart confuses owners; `ImplementsByGlobalId` and `ImplementsByName`
say it as refinements of `SymbolTable`.

### Extraction: a crate

The crate is a constant record: what rustc guarantees about it is `WellFormed`
(definitions are of one kind, so that a field or a type parameter is no ADT and a
variant is one only as the struct it belongs to; the bindings of one body are those of
no other, and a parameter that is a pattern and no name is none of them),
and expressions and types are reduced to the sequence of what their traversal
meets (calls, ADTs built or matched, ADTs mentioned, variables, rejected trees).
Traversal is a worklist `todo` whose head one action executes, putting what the
function would call next before the rest. It is the extractor's call stack,
flattened: `sort` on it marks an `extract_adt` that has not returned, and
`emit`, `stub` an `extract_local_fn` or `extract_extern_fn`.

| Code | Model |
|---|---|
| `ItemVisitor::visit_item` | `VisitAdt`, `VisitFn`, `VisitedFns`, `VisitOther`; an impl block hands out its functions in any order |
| `process_crate`, the three loops | `StartAdt`/`AdtsDone`, `StartFunction`/`FunctionsDone`, `StartStub`/`StubsDone` |
| `extract_adt_id`, `extract_adt` | `MentionType`, `ExtractAdt`, `Constructor`, `Field`, `SortBuilt`, `AddAdt` |
| `extract_generics` | `GenericsOps`, `TypeParameter` |
| `extract_local_fn` | `FunctionOps`, `EnterBody`, `Parameter`, `ReturnVar`, `AddFunction("emit")` |
| `extract_spec_fn` | `ExtractSpec`, `SharedContext` |
| `extract_extern_fn` | `StubOps`, `StubInput`, `AddFunction("stub")` |
| `populate_def_context`, `extract_binding` | `BindingOps`, `KnownBinding`, `NewBinding` |
| `extract_fn_ref`, `fetch_var`, `unsupported_*` | `Call`/`FnRef`, `VarRef`, `Unsupported` |
| every `assert!`, `unexpected`, `unreachable!` on the way | `Failure`, `Panic`; `panicked` says which |

`function_refs`, `functions`, `adts`, `dcx` are the code's; `fd` is the function
under construction, with the variables its body and contract use and the bindings
that stand for them there. A spec function found for a function that does not exist
is dropped, as in the code.
`Supported` describes the crates the extractor was written for: types mention
what was declared before them, values of external ADTs do not occur in bodies, a
spec function has the parameters and the generics parent of its function,
parameters are plain bindings.

### Generics: type parameters

`Extraction` covers what generics do to the identifier mapping, `Generics` the
tables they make. For one definition at a time: `ReadBound` is the loop over
predicates (`tparam_to_fun_params`, `tparam_to_fun_return`), `MakeParameter` and
`ReplaceParameter` fill `index_to_tparam`, `ListParameters` takes its values in
any order, `UseTypes` is `extract_arg_types` for calls and the ADT case of
`extract_ty` for types, `EnterSpec` the table of a spec function. A type is a
name and the set of indices it mentions; what becomes of a mention, or fails, is
in `Replace`, `OverAny` and `Type`. `extract_generics` is never called for a
closure on behalf of a crate's items, so that case is left out. `Supported` says
which definitions it was written for, in terms of the program: lifetimes are
reported and skipped, so a function that has spec functions has none, since
`extract_spec_fn` asserts that there are as many entries as parameters.

### StdItems, Contracts, Bodies, BodyMeaning: what a definition says

`Extraction` reduces a body to what its traversal meets. These modules keep the trees
and leave the traversal out. `TypedTrees` has the nodes: trees of rustc's and of
Stainless are records of the same five fields.

`StdItems` collects the items of `std` and `stainless` that extraction treats in a
way of its own: language items first, then the first definition of a crate whose
last path segment is the name sought.

`Bodies` is `expr.rs` on trees: `ExtractExpr` takes a tree of rustc's (HAIR) to a
Stainless tree and to what was reported, with one operator per `extract_*`
function: unary, binary and logical operators with the widening of shift
operands, tuples, fields, calls and the set operations, panics, ADT literals
(whose fields are sorted), patterns, matches, `looks_like_if`, blocks and lets.

`BodyMeaning` says what a tree means, in Rust or in Stainless, with one `Eval` for
both: the calls made, in order, and the value, or that it panics. Functions are
opaque and arithmetic is uninterpreted, but an operator's operands have widths.
Sets, whose functions are stubs in `libstainless`, are interpreted.

`Contracts` is the way of an annotated item to its definition. Items and their
attributes are known by position; each attribute is a macro still to be run, inert
(left for the extractor to read) or gone. `Expand` runs one macro on the first item that
has any left: `ExpandSpec` (`extract_specs_and_expand`), which takes the other bare
specifications of the item with it and generates a function for each, or `RewriteFlag`.
`Compile` is rustc, which rejects two things of a name. `FileSpec` is `visit_item` for one
generated function, in any order within an impl block, and parses its name. `Extract` is
`extract_local_fn` or `extract_adt` for one item, with flags and warnings, its contract
and its body. Names are sequences of the parts between underscores, since generator and
parser agree on nothing else. What bodies and conditions are extracted to is a
parameter, `ExtractBody`: trees are put together here and not looked into.

`ContractMeaning` puts the three together, with the results of `ExtractExpr` of `Bodies` as
`ExtractBody`. It says in terms of `BodyMeaning` what a definition and its contract must
still mean (`MeaningKept`, `ResultKept`, `GuardsKept`), of which types
operands are (`OperandsMatch`) and where extraction panics (`PanicsExplained`).
`ContractAssembled` of `Contracts` is about which conditions a definition has and where;
`MeaningKept` about what they mean once extracted.

### AstSchema, TreeChannel, Serialization: the wire format

`AstSchema` lists what each of the 207 classes writes: its marker and its fields
in order. `TreeChannel` is the promise: the nodes sent arrive unchanged, in order,
once. `Serialization` is the code and implements it: `todo` is the stack of the
recursive `serialize` calls, each step writes one header (`WriteClass`,
`WritePrimitive`, ...), and the tree is made up on the way. `wire` holds the bytes.
A program (`Symbols`) is first written to a buffer, `inner`. The two hash maps of
`Symbols` are sequences with any contents, so their order is any order.

The reader is in Stainless, outside the repository. It is modelled as the mirror
image: a recursive descent, `expected`, that knows the declared type of the next
value and otherwise only bytes. While one end is in the buffer of a program, what
comes after the program is kept apart, in `inner.after` and in `after`, and `left`
is what the reader has left of the buffer. `sent` and `got` are not state of the
code; they record nodes for `TreeChannel`.

### BuildPlan: cargo-stainless and the target directory

Directories have contents, renames the preconditions of rename(2), and each step
of `fetch_build_plan` is a system call between which other instances, the user's
`cargo build` and a signal may act. `users`, chosen at the start, are the
instances that will run: one or more. `Clear` ignores failure, as the code does,
and may stop half way.

### Backend: a session with Stainless

`Prepare`, `Send`, `ReadResponse` are `query_for_program` and `query`: a file, a
line with its path, one value read. `Return` includes the deletion of the file
by the destructor. Stainless is external and modelled from how it is used: it
takes lines in order, needs the file before it can answer with a report, may
print text that is no JSON and may die. Though the driver sends one query, a
`Backend` accepts any number, and the session has three.

### Driver: one run of cargo stainless

`Driver` is `rustc_to_stainless` and the last lines of `cargo-stainless`, composed
with the actions of `Backend` for a session of one query. `Compile` is rustc up to
the callback, `Extract` and `AbortIfErrors` the callback, `OutputProgram`,
`Create`, `Query`, `Drop` and `Report` what follows. The three ways to fail are
kept apart: a result, a `FatalError` that unwinds to `catch_fatal_errors` (status
1), a panic (status 101). `Kill` is a signal at any time.

## Runs

| Run | Instance | What it asks |
|---|---|---|
| `mapping` | 3 definitions, 2 bindings, names `0`, `_0`, `ret`, 6 registrations | uniqueness of identifiers, both refinements |
| `extraction` | all mentions among two ADTs and an external one, in field types of two variants and a struct; two recursive functions, methods, full contracts, external calls; all orders of items and impl functions; rejected crates | termination, no re-entry, complete sorts, closed calls, complete contracts, scoping and parameters by position, use of the mapping, no panic when supported |
| `mentioned`, `nested` | a few crates each | disagreements, see below |
| `generics` | 12 definitions: parameters of a function, an impl block, an ADT, with and without `Fn*` bounds, lifetimes, spec functions | listed parameters, closed contracts, complete type arguments, no panic when supported |
| `functions` | 12,780 programs: one function of a few thousand bodies, or one or two items under up to three attributes | contracts and flags in their place, bodies that keep their meaning, operands of one type, panics explained |
| `guard` | the bodies of `functions` that match on a Boolean | a disagreement, see below |
| `wire` | a tree of every enum and class, programs, long sequences | each node is read as sent, in step, to the end |
| `buildplan` | 2 instances, user builds, kills | mutual exclusion, nothing lost, dependencies in place, progress |
| `protected` | 1 instance, no kill | a disagreement, see below |
| `driver` | both modes, 2 texts that are no response, kills | errors stop the program, success is earned, nothing left behind |
| `backend` | 3 queries, 2 texts that are no response | pairing of answers, lifetime of files, progress |

The bounds. In `mapping`, two owners clash or not, and names clash before
conversion, after it, or across kinds of owners: every pair occurs among the five
owners and the made-up variables, and a sixth registration only repeats one. In
`extraction`, a mention is of the ADT itself, of the other or of an external one,
and longer cycles go through the same two cases (known or unknown identifier) of
`MentionType`; each function has at most three spec functions and the impl block
four functions, so that orders matter. `MaxCounter` is 100 there, never reached;
the guard is the overflow of `i32`. In `generics`, each definition has at most
three parameters: a gap before and between listed ones, and two orders, occur.

In `functions`, bodies are made of calls of two Boolean functions, a Boolean
variable and `panic!`, which make every difference in order or in choice visible:
all operators on all integer types, `if` in its forms, matches on a Boolean,
patterns with subpatterns in either order or skipped, constructions, blocks of up
to three statements, and one of these inside the other. They run in 24
environments, with every result of the two functions and every value of the
variable. Attributes are all lists of two, and of three with a specification
last, of three kinds of specifications, bare or qualified, and of six flags. Two
items have names that a spec function or the parser of names might confuse. A
longer body or list repeats the same cases: extraction is compositional but for
blocks, where what follows a statement matters, and for names, where the index
does.

In `wire`, `Fuel` = 2 means that the root and its fields take every class and the
fields of these one filler per sort: agreement is a matter of one class at a
time. `Lengths` and `RootLengths` are around 0, 1 and the switch at 255, the
primitive values at the ends of each encoding and at the powers of two, and the
primitives inside a program have one value, since its buffer is sent whole.
`MaxWire` = 6 bytes let the writer run ahead of the reader, which only the order
of steps depends on. In `buildplan`, two instances are enough for exclusion, since
the state a third sees is the two directories. In `backend`, one response left
over shifts every later one, so three queries show a shift.

Deadlock is not checked: each of these systems ends.

Fairness. Extraction is one thread that runs until it is over: weak fairness of `Next`.
`serialize` is a function that runs to its end, and so does a reader that blocks only on
input: weak fairness of `Write` and of `Read`. The driver's thread runs, and rustc and
extraction end: weak fairness of `DriverStep`, none of `Kill`. An instance of
cargo-stainless that runs is scheduled, and cargo and rustc end: weak fairness of its
steps, none for starting, killing or building. The client of the backend runs; Stainless,
while alive, goes on with its work, since verification conditions have a timeout (30
seconds by default); it need not print noise or die. `Contracts` has no fairness and no
liveness property: its steps are bounded by the program.

Each property of a passing run has a mutant of the code in the module, marked as
such, which the run must reject.

## What the runs found

* `mentioned`: the assertion of `register_def` fails for a type that mentions an
  ADT declared later in the crate (the mention extracts the later ADT and drops
  the sort; the loop over ADTs then registers it again), and at the second
  construction, match or selection of an ADT of another crate, although
  `extract_adt` is documented for local and external ADTs alike.
* `nested`: spec functions of an associated function without `self` are nested in
  it, and then their generics have no parent while those of the function have the
  impl block.
* `guard`: `match b { true if g() => f(), _ => h() }` becomes an `if` on `b`; the guard
  is never read, though `looks_like_if` is documented to return `None` for what is no
  `if`.
* `protected`: if `cargo build --build-plan` fails, the process exits before it
  moves the target directory back.

More facts follow from the code and contradict no text of the repository, so that
no run is a violation of one:

* The type parameters of a definition are listed in the order of a hash map
  (`ListParameters`), while uses pass types by position: with two parameters the
  two may be exchanged.
* A function that hands on its own `Fn` parameter passes a type argument the callee
  has no parameter for: type arguments are dropped if they are closures, parameters
  whatever is passed (`expr.rs:368`).
* `LocalClassConstructor` and `MutableMapUpdate`, both expressions, have the marker
  235 (`generated.rs:3376`). The extractor builds neither yet; `wire` leaves the
  first out.
* A character above U+FFFF is cut to 16 bits, as the FIXME above the cast says
  (`serializable.rs:31`); `wire` stays below. A negative literal is zero-extended from
  its raw bits (`literal.rs:56`).
* The `unreachable!()` of `extract_if` is reached by a match on a Boolean whose last
  arm is no block, as in rustc's lowering of `else if`, and the fallback for unary minus
  by a float (`PanicsExplained`).
* The fields of a struct literal are sorted, so calls in them are made in another
  order (`MeaningKept` excepts them, `ResultKept` says what is left).
* `#[post]` on a function without parameters, or with a comma after the last one,
  does not parse. Specifications by a qualified path are expanded later than the
  others, which may reverse their order (`KeepsOrder`).
* The flag of a field goes to the first field of that name, silently, when a later
  variant has one too (`FlagsAccounted` compares names).
* `run` drops the inner result of `run_compiler`: if rustc's own analysis fails,
  `cargo stainless` exits with status 0 (`SuccessMeansDone` excepts that case).
* The example to extract is found by a substring of an argument of the build plan
  (`cargo-stainless.rs:96`), and a second instance may move `target/debug` aside while
  the first extracts with it: `DependenciesInPlace` is about an instance alone.

## Proofs

Each proof module extends the component's and proves its theorems for every value
of the constants. All follow one argument: an inductive invariant that implies the
property, and one step per action. The modules about a crate build on each other:
`ExtractionProofs` holds what is proved of the mapping, of types, of scopes and of
completeness, and `SupportedProofs` extends it.

| Module | Theorems | Invariant |
|---|---|---|
| `ExtractionProofs` | `MappingCorrect`, `MappingImplementsByGlobalId`, `MappingImplementsByName` | counters bound what was issued |
| `ExtractionProofs` | `ExtractionTypeOK`, `ExtractionUsesMapping`, `ExtractedIdsUnique` | `ExtractionInv` |
| `ExtractionProofs` | `TypesNotReentered`, `ContractsInScope` | `TypesInv`; `ScopeInv`, `SignatureInv` |
| `ExtractionProofs` | `AdtsComplete`, `ProgramClosed` | `CompleteInv` |
| `ExtractionProofs` | `ContractsComplete` | `AttachInv` |
| `SupportedProofs` | `SupportedExtracted` | `SupportedInv` |
| `GenericsProofs` | `SupportedGenericsExtracted`, `ParametersListedOnce`, `TypesAreClosed`, `ArgumentsPassedOn` | `GenericsInv` |
| `ContractsProofs` | `FlagsKept`, `ContractsReachTheirFunctions` | `MarkInv`, `SpecsInv` |
| `SerializationProofs` | `EndsInStep`, `WireFaithful` | `WireInv` |
| `BuildPlanProofs` | `WindowExclusive`, `DependenciesFound`, `BuildSurvives`, `BuildPutBack` | `PlanInv` |
| `BackendProofs` | `SessionAnswersMatch`, `SessionFilePresent`, `SessionFilesDeleted` | `SessionInv` |
| `DriverProofs` | `RunNothingAfterErrors`, `RunSuccessMeansDone`, `RunCleanEnd` | `RunInv` |

Why each invariant is what it is:

* Mapping. Uniqueness is not inductive: every identifier issued has a `globalId`
  below the counter and an `id` below the counter of its name, so that a fresh one
  differs from all. The refinements follow from the same invariant.
* `ExtractionInv`. What a step reads from the head of the stack has the right type
  only because of what lies below it, so the invariant adds `StackOK`: the operations
  of functions appear on the stack only while a function is under construction, it is
  added last, its spec functions are of the types filed, the result variable is made
  before a postcondition needs it, and inputs of a stub are within its signature.
* `TypesInv` adds `Entered`: an ADT whose extraction has not returned is registered.
  A mention of a registered ADT extracts nothing, so none is entered twice.
* `ScopeInv` is about the order of what is pending (`Ordered`: bindings before
  parameters before variables), about whose body it is (`OwnBody`), the one result
  variable (`OneResult`), and where the variables of the context come from
  (`BindingsOwned`, `ContextInScope`): each name stands for the binding registered for
  it, or for the parameter in its position of the function specified, or its result.
* `SignatureInv` adds that those positions mean the patterns of the source: until a
  function is added, the parameters it still lacks are next to each other on the stack,
  in order (`ParamsInOrder`), in a context where each name stands for itself
  (`OwnContext`), and those it has are the variables of their patterns (`Named`).
* `CompleteInv` follows each definition through the phases: an item is still to be
  visited, waiting in a list, pending on the stack or in the program (`ItemsKept`,
  `SortsKept`, `FunctionsListed`, `FunctionsKept`), and a function referred to is
  known under the identifier its callers use (`FunctionsKnown`). When nothing is
  waiting or pending the program is complete; that it has nothing else follows from
  the uniqueness of identifiers.
* `AttachInv` does the same for each spec function of a function of the crate: it is
  still to be visited and not filed, or filed once (`Filed`; that it is visited once
  needs `ItemsApart`); while its function is under construction it is once on the stack
  or once in its place, never both (`Attaching`); and with the function added it is in
  its place (`Attached`). Both are claimed only while no error was reported, since of
  several measures all but the first are dropped.
* `SupportedInv` adds to `AttachInv` what each assertion of the extractor needs on a crate
  of the supported shape, so that a panic can only be the counter's overflow. `AdtsOK` is
  for `add_adt`, `extract_adt` and the lookups of constructors: while ADTs are extracted,
  those mentioned have an identifier or are external, and the one gone into has none and
  mentions only such (`TypesBackward`). This holds because items and ADTs are taken in the
  order of the source, and their lists have what an ADT mentions before it
  (`ItemsBackward`, `AdtsBackward`), each once and without an identifier (`AdtsNew`).
  `FunctionsOnce` is for `add_function`: a function is found once, and is waiting, under
  construction or added, never two of them. `ContractsOK` is for `extract_binding`,
  `fetch_var` and `extract_spec_fn`: of a body that was not begun no binding has an
  identifier (`BindingsNew`), a variable that is used is in the context or is pending
  before its use (`VariablesBound`), spec functions come once and after the body of their
  function (`SpecsApart`), and when they come all its parameters are there
  (`ParametersAhead`). The last counts: the parameters pending are next to each other on
  the stack, and are those the function still lacks.
* `GenericsInv` follows the table of `extract_generics` through its phases: which
  predicates and parameters have been looked at (`PredicatesInv`, `UnmadeInv`), that
  what is kept of a predicate is what it said until its parameter is replaced
  (`BoundInv`), and that the table has exactly the parameters looked at, but for
  lifetimes and those still to be replaced (`TableInv`). When it is used (`UsingInv`)
  its keys are the type parameters of the definition or the parameters of a spec
  function, and that its entries are over listed parameters (`OverInv`) survives the
  exchange of one for the other. That a supported definition panics nowhere is part of
  the induction: a panic is of the step before it. `ArgumentsPassedOn` counts: the
  arguments passed on are those of `PassedOn`, each once and in order, which is an
  induction over how many there are.
* `MarkInv` is about attributes: only a flag becomes inert, a specification is a macro or
  gone (`MarksKept`), and after compilation no macro is left (`PhasesKept`). So the flags
  an item has when it is extracted are those written at it, and what is left is a fact
  about `SlotFlags`: a flag goes to the first field or variable of its name.
* `SpecsInv` follows each specification: it is a macro still to run, a generated function
  still to visit, or filed with a function (`NoneLost`), and not twice the last
  (`NoneTwice`). A function is filed with the one it was written at (`FiledRight`),
  because the name generated for it parses back to its kind and to the parts of that
  function's name (`NameParsed`), and no two methods share one (`OwnerFound`). Order is
  that of the attributes only where one expansion took them all (`OneExpansion`) and the
  item is a plain function (`InOrderFiled`), which is why `ContractAssembled` asks for no
  order elsewhere. Added definitions have their contract (`DefsAssembled`). All of it is
  claimed while no error was reported: after one a specification may be dropped. That a
  list of filed functions is a listing of the conditions, each once, is an argument about
  cardinalities.
* `WireInv`. Of `InStep` alone no step says anything, since it is about an empty wire.
  The invariant is about any: what is on the wire is a `Path`, a sequence of nodes of
  which each follows from the kind of value that is expected next (`Opens`), from the
  stack of the reader to that of the writer, with the bytes that are left after each
  node. The writer adds a link at one end (`PathExtended`), the reader takes one from the
  other (`PathRead`): of the nodes a kind allows, the bytes fit one only, and it is
  decoded to the value that was written. While the buffer of a program is filled
  there are two paths (`InBuffer`): the wire leads to the program, and the buffer from
  its contents to what the writer has left; when the buffer is written the two are
  joined by its header. With nothing on the wire a path has no links, which is
  `InStep`; and a link more or less at the two ends is a step of `TreeChannel`. Lemmas
  show for every value of a type that decoding its bytes gives it back, two's complement
  included (`Signed4`, `SignedBytesRead`, `PrimitiveRead`), and both forms of a length
  (`LengthComes`).
* `PlanInv`. What is aside is always a build (`AsideIsBuild`), debris in `target/debug`
  occurs only while something is aside (`DebrisGuarded`), an instance in the window
  holds what it moved (`Holds`). This excludes a second one, since its rename would need
  the other directory to be absent. `OnlyUsers` and `AloneInPlace` carry the case of one
  instance.
* `SessionInv`: of each query exactly one thing is on its way, the request, the work or
  the response (`OneOut`), behind noise only; and each file is that of a query in
  progress (`FileOfQuery`). From this `AnswersInOrder` is inductive.
* `RunInv` ties the phase of the driver to the session (`Phased`, `SessionHeld`,
  `FileHeld`) and the exit status to what was done (`Concluded`).

The assumptions, which TLC evaluates on the instances of the runs:

* `MappingAssumption`, `BuildPlanAssumption`, `BackendAssumption`: constants of the right
  kind. `ExtractionAssumption`, `GenericsAssumption`: crates and generics are what rustc
  accepts, such as parameters that are distinct and types that mention those in scope.
  `ContractsAssumption`: programs are what rustc accepts, no two methods of one name, and
  there are as many numerals as an item has attributes. `StdItemsAssumption` belongs to a
  module without theorems.
* `SchemaAssumption`: the fields of a class are declared as something both ends know,
  and of the classes a field can hold no two have one marker. The first holds for all
  207 classes, the second but for the marker 235 named above.
* `ValuesAssumption`: primitives are values of their Rust types, with three limits.
  Characters are within 16 bits, which the code cuts them to. Strings and lengths are at
  most 2^31 - 1 long: `write_length` asserts it, and the casts of other lengths do not.
  Big integers have at most three bytes, a limit of the model: TLC's integers have 32
  bits.

Only model-checked:

* the liveness properties (`Termination`, `AllRead`, `WindowLeft`, `QueriesReturn`,
  `ChildEnds`, `Ends`), which need fairness;
* the properties of `ContractMeaning` (`MeaningKept`, `ResultKept`,
  `OperandsMatch`, `PanicsExplained`): `Bodies` and `BodyMeaning` are recursive over
  trees, and the prover has neither a backend for `RECURSIVE` operators nor an induction
  over trees.

Induction is not out of reach where it is over numbers: `SetInduction` of
`GenericsProofs` takes the set of counterexamples and its least element, which needs
no operator as a parameter.

## Not modelled

Method calls that extraction replaces (`clone`, `into`, big integer literals) and the
values of literals; the trees of types, reduced to what they mention; the hygiene of
the names of macros; associated functions without `self` in `Contracts`, which fail in
`nested`. The choice of the invocation in a build plan. Errors reported for types and
flags are not represented in `Extraction`: like `Unsupported` they set `errors` and
change nothing else. Of the AST, the arena, conversions and comparisons, and sets, which
no class has. Pretty printing, logging, arguments and the test harness only format,
configure or run the rest.

## Plan

1. The composition of `Extraction` with `Contracts`: one traversal over trees, for which
   the abstraction of bodies to what they mention would be a theorem.
2. `cargo-stainless`: the choice of the invocation among several.
