# A verification project for rego-cpp

TLA+ models of rego-cpp's own logic: how a Rego body is ordered, how a bundle is
represented, checked, stored and executed, what the built-in functions compute, and
how a program drives all of it through the API. Every definition is translated from the
C++ source; `PROJECT.json` maps each one to the lines it stands for. Everything below
was checked with TLC and, where it says "proved", with TLAPS.

## The system

A policy goes through four stages. `file_to_rego.cc`/`parse.cc` read modules,
`rego_to_bundle.cc` (with `dependency_graph.cc` and `opblock.cc`) compiles modules,
data and query into a *bundle*: plans and functions made of blocks of statements over
numbered locals. `bundle.cc`, `bundle_json.cc` and `bundle_binary.cc` build, verify,
save and load bundles. `virtual_machine.cc` runs a bundle against an input, calling the
functions of `builtins/`. `interpreter.cc` is the C++ API that owns all of it,
`rego_c.cc` the C API on top.

| Component (source) | State it keeps | Operations | Called by / calls | What makes it correct |
|---|---|---|---|---|
| Virtual machine (`virtual_machine.cc`) | one frame `m_frame` for all functions, errors, result set, call stack, with and break counters, block depth, statement count, function cache | `run_query`, `run_entrypoint`, `run_block`, `run_stmt` (34 statement types), `run_call`, `run_with`, `run_scan`, `dot`, `merge_objects`, `write_and_swap` | called by the interpreter; calls the built-ins | counters follow the C++ stack on every exit; a call changes nothing of its caller; caching is invisible; With leaves no trace; limits bound every run; errors are not lost |
| Bundle verifier (`bundle.cc`) | none | `BundleDef::verify`, `from_node`, `node_to_function` | called by the virtual machine when it is bound to a bundle | what it accepts is in range for the machine |
| Dependency graph (`dependency_graph.cc`) | literals, their names, the queue of unresolved unifications, subgraphs | constructor phases, `sort` | called by pass `unify` of the compiler | literals come after what they use, none is lost or run twice, the result means what the unifications mean |
| Compiler (`rego_to_bundle.cc`, `opblock.cc`, `internal.cc`, `resolver.cc`) | per-pass tables | 12 rewriting passes | called by `query_node`, `build` | unique locals, reset before use, one function per rule, entrypoints |
| Interpreter (`interpreter.cc`) | modules, data, input, query, entrypoints, built-ins, limits | `add_*`, `set_*`, `query*`, `build`, `save_bundle`, `load_bundle` | owns compiler, machine, built-ins | a failed call leaves no trace; a directory is one bundle or none |
| Built-in registry (`builtins.cc`) | loaded built-ins, list, lookup mode, strictness, per-query caches | `at`, `call`, `clear`, `register_builtin`, `whitelist`, `blacklist`, `allow_all` | used by compiler and machine | a forbidden built-in never runs, per-query values are stable in a query |
| C API (`rego_c.cc`) | handles, the input stack of `regoInput`, the two forms of a `regoBundle` | `rego*` functions | wraps the interpreter | stack discipline of input building; the two forms of a bundle agree |
| Bundle formats (`bundle_json.cc`, `bundle_binary.cc`) | reader position | save and load | used by interpreter and C API | what is saved is what is loaded, or the load fails |
| Built-ins (`builtins/*.cc`, `bigint.cc`, `resolver.cc`) | none (time and uuid keep a per-query cache) | 190 pure functions | called by the machine | each computes what it is named for, found under its name, at the boundaries too |
| Parser (`parse.cc`, `file_to_rego.cc`), output (`json.cc`, `yaml.cc`, `output.cc`, `encoding.cc`) | none | conversion | | round trips |

### Behaviours that are hard

No part of it starts a thread. What is hard is the *sequencing*: nine return codes unwinding
through five mutually recursive functions, counters that must be undone on every way
out, one frame shared by all functions, nodes shared by reference between locals, the
function cache and the result set and mutated in place, limits that strike in the middle
of any statement, and a compiler whose output discipline the machine silently relies on.
Around the machine it is state that outlives a query: what a registry has loaded, the
list it was loaded under, the query kept in the interpreter, and two caches kept per
thread, not per query. A bundle passes through four forms whose tables are written by
hand in seven functions, and through files that several processes may be writing.
`PROJECT.json` "hazards" lists them one by one with the property that would catch each.

### What makes each component correct

- *Virtual machine.* Every counter (`m_block_depth`, `m_with_count`, `m_break_count`,
  the call stack) describes the C++ stack after every exit, by whatever code; `input`
  and `data` are restored when a With ends; a call does not disturb its caller, although
  they share a frame; a cached result is what a new evaluation would give and is never
  changed; the outcome of a run is the one a plain evaluation of the bundle gives; limits
  are never exceeded and, once the statement limit has struck, nothing but unwinding
  happens; an Error or Timeout always leaves an entry in `m_errors`; every run ends.
- *Dependency graph.* A literal is emitted after the producers of all it reads; when
  literals are left out they are on a cycle or behind one; every unification is either
  turned into assignments and tests or reported; the emitted literals have the solutions
  of the body; a name of an enclosing body is never assigned; a name has one producer.
- *Bundle forms and verifier.* Lowering, saving and loading keep the program; what the
  verifier accepts never makes the machine index out of range, and a bundle that was
  accepted once is not refused after a save and a load.
- *Bundle store.* A binary load gives a whole saved bundle or nothing; a directory used
  by one process at a time never mixes two bundles; a query is answered by the bundle its
  handle shows.
- *Compiler.* A compiled policy, run by the machine, ends as the policy means: bodies, else
  branches and defaults are tried in their order, what a With replaces is replaced wherever
  it is called from, documents are put together from the rules below them, and no two
  functions share a local.
- *Interpreter and built-in registry.* A registry never holds what a former list decided;
  per-query values of a built-in are the same within a query and are not carried to the next.
- *C API.* `regoInput` calls keep the stack well formed or fail.
- *Built-ins.* Decimal texts are the integers; texts, sets, arrays and objects come out
  whole; a text matches a glob whichever wildcard is tried first; graph walks are
  closures; a patch is its operations in order, all or nothing; declared types are those
  of the results; where a string came from makes no difference.

## Modules

| Module | Models | Kind |
|---|---|---|
| `RegoVM` | `VirtualMachine` of `virtual_machine.cc` | state machine |
| `RegoVMTrace` | `RegoVM` with a history of the state at each push, and the properties that need it | history variable |
| `RegoEval` | what a bundle means: a recursive evaluator without limits, caching, sharing or a common frame; also `merge_objects` | reference definition |
| `MCRegoVM` | five families of bundles, and the comparison with the reference | instances |
| `Statements` | statements and operands of a compiled bundle (`rego.hh`) | operators |
| `ExprLowering` | `expr_to_opblock` of `rego_to_bundle.cc`, `opblock.cc`, the block builders of `internal.cc` | operators |
| `RuleLowering` | `lift_functions`, `with_rules`, `add_plans`, `index_strings_locals` of `rego_to_bundle.cc` | operators |
| `RuleMeaning` | what a policy means, literal by literal and rule by rule | reference definition |
| `MCCompiled` | six families of policies, compiled and run by `RegoVM`; the layout of a given bundle (`LayoutOf`), as fixed points | instances |
| `RegoVMLayout` | how the compiler lays out the containers a bundle builds and numbers its locals: what the proofs about sharing and about calls need of a bundle | predicates on bundles |
| `RegoVMProofs`, `RegoVMSharing` | theorems about `RegoVM` and `RegoVMTrace` | proofs |
| `DependencyGraph` | `UnifyDependencyGraph` of `dependency_graph.cc` | state machine |
| `UnifyMeaning` | the solutions of a body, and those of the literals emitted for it | reference definition |
| `MCDependencyGraph` | bodies, written in Rego in the comments | instances |
| `DependencyGraphProofs` | theorems about `DependencyGraph` | proofs |
| `QuerySession` | the calls a program makes on its interpreters, `BuiltInsDef` of `builtins.cc`, `time.now_ns`, and a query as far as it concerns them | state machine |
| `MCQuerySession` | names, query texts and lists | instances |
| `QuerySessionProofs` | theorems about `QuerySession` | proofs |
| `BundleIR` | statements in the tree and in compiled form, `from_node`, `verify`, and what the machine reads of each statement | operators |
| `BundleBinary`, `BundleJson` | the writer and the reader of each format | operators |
| `BundleForms` | a bundle lowered, saved, loaded and bound, in any order | state machine |
| `MCBundleForms` | sample programs with every statement type | instances |
| `BundleProofs` | theorems about `BundleForms` | proofs |
| `BundleStore` | processes with bundle handles on one disk: `regoBuild`, `regoBundle*`, `save_bundle`, `load_bundle`, step by file operation, with failures and crashes | state machine |
| `BundlePromise` | what a binary file promises its readers | abstract specification |
| `MCBundleStore`, `BundleStoreProofs` | instances; theorems about `BundleStore` and its refinement of `BundlePromise` | instances, proofs |
| `BigInt`, `BigIntDivision` | `bigint.cc`, digit by digit | operators |
| `BigIntProofs` | theorem about `BigInt` | proofs |
| `Values` | the values the built-ins share: kinds, `to_key` (`encoding.cc`), `unwrap_*` and strings (`internal.cc`), arithmetic, comparison and lookup (`resolver.cc`) | operators |
| `CoreBuiltIns`, `TextBuiltIns` | `builtins/core.cc`, `numbers.cc`, `bits.cc`: numbers, aggregates, comparison, types, walk, sets; strings, `sprintf`, `format_int` | operators |
| `PatternBuiltIns` | `glob.cc`, `semver.cc`, `units.cc` | operators |
| `CollectionBuiltIns` | `array.cc`, `objects.cc`, `graph.cc`, filter and remove of `json.cc` | operators |
| `BuiltInLookup`, `BuiltIns` | the search of a name through the prefix trees; a call with its checks of arity and types, strictness | operators |
| `BuiltInMeaning` | what each function promises | reference definitions, properties |
| `MCBuiltIns` | pools of small arguments for each function; one call is one step | instances |
| `JsonPatch`, `MCJsonPatch` | `json.patch` operation by operation, and its meaning | state machine, instances |
| `InputBuilder` | `regoInput*` and `regoSetInput` | state machine |
| `MCInputBuilder` | what a list of calls says, read without a stack | reference definition |
| `InputBuilderProofs` | theorem about `InputBuilder` | proofs |

### RegoVM and the code

The C++ code is five mutually recursive functions. Their stack is the variable `stack`,
a sequence of activations, the last one running:

| `kind` of activation | C++ function | fields |
|---|---|---|
| `plan` | the loop of `run_entrypoint` / `run_query` over a plan's blocks | blocks, position |
| `block` | `run_block` | block, statement |
| `nest` | the loop of `run_stmt` over the blocks of a Block statement | blocks, position |
| `call` | `run_call` on a function of the bundle | function, blocks, position, target |
| `bind` | the loop of `run_call` that copies arguments to parameters | arguments, position |
| `not`, `with`, `scan`, `dynamic` | `run_stmt` on Not, `run_with`, `run_scan`, the CallDynamic statement | what each keeps in C++ locals |

`code` is the `Code` the activation that has just ended returned to the one below
("None" while there is nothing to look at). The members are variables of their own:
`frame` (`m_frame`, one for all functions), `heap` (the nodes locals point to, see below), `cache` (`m_function_cache`), `callStack`, `withCount`,
`breakCount` (a `size_t`, so it wraps at `SizeMax`), `blockDepth`, `stmtCount`,
`errors`, `results`, and `status` (running, done, threw an exception, crashed, malformed).

A node is a record of its value, of the node it is nested in at the outermost (`root`) and of the
`steps` down from there. Two locals, or a local and the cache, may hold one node. `dot`,
`run_scan` and the rest of a CallDynamic hand out the node that is nested in another
(`WriteItem`, `ScannedNodes`), not a copy of it, so that ArrayAppend, SetAdd and ObjectInsert, which
change a node in place, change what surrounds it and what is nested in it as well: `Fill`
puts the new value at its place in every node around it, and takes what it replaces out of
the tree. Keys of an object and members of a set have steps of their own (`Fixed`), since filling
one makes a tree that is no value (a set with a member twice, a key that is not found
under its own text). There, and where something is appended to what is no array or added to what
is no set, the code goes on with a malformed tree and the model stops (`FillMalformed`,
`status = "malformed"`): a bound of the model, reached only by the pairs of data
statements that no compiler lays out so. A node that a built-in returns is taken to be a new one (external).

One action is one C++ step between two points where another part of the machine can be
entered: a statement, an entry into a block or function, an exit with a given code. The
actions keep the order of the code: the limit is tested before the statement runs, the
depth is tested before the block is counted, the cache is consulted before the recursion
check, the arguments are copied before the call depth is tested, `cache` is filled after
the result is known.

What is abstracted: a value is a tagged tuple; the order in which a set or an object is
scanned is left open; the text of numbers and of messages is left out (`errors` holds
what kind of error it was); a built-in is a constant function of the bundle, an `Err`
value standing for one that fails.
Conversions that decide control (`to_key`, `merge_objects`) are parameters the
proofs assume nothing about; TLC runs them with `MCKeyText` and `MergeObjects`.

### The compiler and the code

`ExprLowering` and `RuleLowering` are the passes of `rego_to_bundle.cc` that make statements:
they take a policy whose names are resolved and whose bodies are ordered (what
`DependencyGraph` is about) and give a bundle that `RegoVM` runs.

| Operator | Code |
|---|---|
| `Term`, `Ref`, `Call`, `Container`, `Comprehension` | `term_to_opblock` and the functions it calls |
| `LookupRef`, `Prefix`, `DocumentStmt`, `BaseBlock`, `DynamicBlock` | `lookup_ref`, `add_prefix`, `document_stmt`, `base_block`, `rule_dynamic_block` |
| `Literals`, `Every`, `Not`, `ScanOf`, `QueryBlock` | the rules of `expr_to_opblock` for each kind of literal; `AtInner` is `get_inner` |
| `Expand`, `WithCalls` | `expand_withseq`, `process_withcalls` |
| `BodyBlock`, `Lowered`, `FunctionOf` | `lift_functions` |
| `ValueBlock`, `SetBlock`, `ObjectBlock`, `NestedBlock`, `Function` | `body_block`, `bodyset_block`, `bodyobjstatic_block`, `bodyobjdynamic_block` and `bodysetdynamic_block`, `add_plans` |
| `InfoOf`, `Inherit`, `Resolve`, `Clones` | `WithInfo::update`, the rules of `with_rules` |
| `PlanOf`, `Linked` | `add_plans`, `index_strings_locals` |

The passes rewrite one tree in place; here each is a function from the tree before to the
tree after, with the names a pass makes up (`fresh`) named after the place in the source they
are made for. Abstracted or left out: the order of functions (the code's map), the result
object of a query module, templates, prints, and everything that ends in an error message.

`RuleMeaning` says what the policy means without statements: a body has a sequence of
solutions, a rule is evaluated anew wherever it is mentioned, a With is a list of what is
replaced below it. `CompiledMeans` compares that with what the machine ends with, so it is
about the compiler and the machine together.

The policies of `MCCompiled` stay within what the code and `RuleMeaning` agree on, which
excludes what the sections below say the code does differently, and: recursive rules
(the compiler does not refuse them, the machine does); `input` without an input as the
argument of a built-in; array comprehensions over objects (open order); bodies in a chain
that give different values; base documents below the package of a partial rule;
a With on an ancestor of a rule that is called; one local as the value of two Withs.

### DependencyGraph and the code

The constructor and `sort` work in phases, and `phase` says in which: the declarations of
the scope ("locals"), the literals of the body and the captures of outer variables
("nodes"), the unifications taken from the queue round by round ("resolve"), the captures
once more ("captures"), then the subgraphs ("graphs") and the order of each one ("sort"),
up to "done", "error" or "threw".
`add_exprs` and its helpers recurse over two terms; `work` is that recursion, a stack
of `add_*` calls still to be made, and one action is one such call. A round that
resolves nothing ends with an error, as in the code. A term carries the sets its
traversals collect (`unify`: what `get_unifyvars` returns, `locals`: what `add_locals`
inserts) instead of the tree they are collected from.

Abstracted or left out: the order in which captures are added and in which the two names
of a scan are emitted, and the ties of `std::sort` between subgraphs, are open; the
filler `true` literal and the clones of With modifiers are left out; the keys of an
object are in map order; `NodeDef::at` throws on a missing child, as its callers assume
(external); nested graphs are their names (`enclosing`) and `merge_locals` is not
modelled.

### QuerySession and the code

The state is what the interpreters of one thread keep from call to call:

| Variable | C++ |
|---|---|
| `mode`, `list`, `loaded`, `strict` | `m_lookup_behavior`, `m_list`, `m_builtins`, `m_strict_errors` of each interpreter's `BuiltInsDef` |
| `query` | `Interpreter::m_query` |
| `memo` | `cached` of `time.cc`, a `thread_local` that all interpreters share; 0 is `nullptr` |
| `clock` | the last reading of the system clock; two readings differ |
| `stack` | the calls of `query_node`, `query_bundle` or `build` that have not returned, the innermost first |
| `reply`, `crashed` | what the last call returned; whether a null pointer was dereferenced |

`loaded` holds, for each name, "none" (not in the map) or the kind of what the map holds:
a null pointer, a built-in of the library, the placeholder for a forbidden one, or a
built-in the program registered. Every lookup goes through `at`, which stores what it
found; `Load` is that store and is part of each action that asks, so a query changes the
registry even when it fails.

A call of the program (`Relist`, `RegisterBuiltIn`, `IsBuiltIn`, `SetQuery`,
`QueryText`, ...) is one action. A query is several: it starts (`QueryNode`, `QueryText`,
`Build`, `QueryBundle`), is compiled (`Compile`, which asks about each built-in the text
calls, or `CompileThrows`, `CompileCrashes`), its plan starts (`RunPlan`), each call it
makes is an action, and it ends (`Finish`, or an exception of a call). The one thing that
can come between the steps of a query is the program itself: a built-in it registered
("custom") is its own code and may call other interpreters before it returns, so tasks
nest.

Abstracted: a text is the list of names it calls; a plan may stop after any of them; what
else it computes is `RegoVM`'s business, and only whether the answer is a result,
undefined, an error or an exception is kept. The compiler's questions are one step,
because nothing comes between them; when a name makes it throw, any subset of the others
has been loaded. Left out: modules, data, input and entrypoints; a call back into the
interpreter that is running (the registry would be changed under a call that holds a
reference into it); `uuid.rfc4122`, whose `thread_local` cache (`uuid.cc:393`) is kept
and cleared like that of `time.now_ns`; an old interpreter being destroyed.

Two things the model shows that no run below is about. `FreshQuery` says
`goal = "query"`: the query of a *bundle* on an interpreter that has not loaded
`time.now_ns` yet does see the time an earlier query of the thread kept, since
`BuiltInsDef::clear` passes over the built-ins that are loaded and the value is not kept in
any of them. `SameWithinQuery` leaves out a query that starts another one from a
registered built-in: the inner query clears the value, and the outer one sees two times.
Also, `whitelist`, `blacklist` and `allow_all` drop the built-ins the program registered.

### The forms of a bundle and the code

A bundle is a *tree* (what the compiler makes), *JSON*, a *compiled* form (`BundleDef`,
what the machine runs) or a *binary* image. The fields of a statement are named in the
tree, are keys in JSON, sit in the slots `target`, `op0`, `op1` and `ext` of the compiled
form, and have a position in the image. Which is which is written by hand, per statement
type, in `node_to_statement`, in `verify_stmt`, in `write_statement` and `read_statement`
of the binary format, in the writer and the reader of the JSON format, and in `run_stmt`.
`BundleIR`, `BundleBinary` and `BundleJson` hold one table for each, read off that function
and no other, so that two that disagree are two tables that disagree. `BundleForms` then
moves a bundle through the forms:

| Action | Code |
|---|---|
| `Lower` | `BundleDef::from_node` |
| `SaveJson`, `LoadJson` | `Interpreter::save_bundle`, `load_bundle` with the passes of `bundle_json.cc` |
| `SaveBinary`, `LoadBinary` | `BundleDef::save`, `load` |
| `Bind` | `VirtualMachine::bundle`, which calls `verify` |

Abstracted: names and strings are their positions in their tables; nested blocks are
places in a pool; what a byte or a signed byte can count is `ByteMax` and
`SByteMax` (255 and 127 in the code).

The reader of the binary format throws where the writer does not: above `MaxElements` (2^20)
statements in a block, blocks, plans, functions or strings, and where more than `MaxDepth` (256)
blocks are nested (`WithinLimits`); and above `MaxStringBytes` (2^24), `MaxBundleSize` (2^28) or
`MaxDepth` levels of data, or for a string that is not UTF-8 (`PayloadWithin`). The former are read off the
program; the latter are about bytes the bundles here do not have, so `SaveBinary` chooses what an
image comes to from `Payloads`. An image that is read as it was written and that `Admitted` does not let
through is "refused"; one that is read differently is "garbled". A bundle with different names that is within the counts and
the first limits `Fits`, and of those `ProgramKept` says that they are never garbled, and refused for their payload only.

Left out: source positions, the text layout, the rewriting of static strings, the base
documents (`data` passes through unchanged), the declarations of built-ins and their
own counts, which are bytes, and the file table (its size is part of the payload).

### BundleStore and the code

A process of the C API holds one `regoBundle` with its two forms, `node` (the tree) and
`bundle` (the compiled form, made when it is first needed by `node_to_bundle`). Processes
share one directory (`dir`: data.json and plan.json) and one binary file (`file`, in
`Pieces[v]` writes). Each file operation is an action: `SaveDir`, `RemoveOne`..., `Rewrite`,
`WriteData`, `WritePlan`; `LoadDir`, `ReadData`, `ReadPlan`; `SaveBinary`, `Open`, `Write`;
`LoadBinary`, `Read`. Each may fail where the code has a path for it (`RemoveFails`, the
second disjunct of `WriteFile`, `SaveBinaryFails`, a missing file), and a process that is in
the middle of a call may die (`Crash`). The checksum of an image is modelled by what it
is for: it fails exactly when the pieces are not those of one image.

`BundlePromise` is the abstract specification: bundles are offered, a load answers with one
of them or drops what was held. `BundleStore` implements it with `offered <- begun`
(the bundles somebody began to save) and `loaded <- got`.

### The built-ins and the code

A value is a record by kind; a text is a sequence of character codes; an integer is its
decimal digits with a sign (`BigInt`), as in the code; a float is a number of quarters, since
the arguments are ones a double holds exactly. A string has two texts, the one it stands
for and the one its node holds (`raw`), because `Resolver::scalar` leaves quotes in the
latter. Values are ordered and compared by their text (`Key`, `to_key`), as the code does.
Each function is an operator with the name of the C++ function, next to its declaration
(`...Decl`); `BuiltInLookup` is the search of a name through the trees of prefixes,
`CallBuiltIn` the checks before and after (`Deprecated` holds the names `is_deprecated` refuses;
the library defines none of them). One step of `BuiltIns` is one call.

`JsonPatch` is a state machine because a patch is a sequence with effects: operations are
read from the list (`ReadOp`, where tests are run on the spot), the document is cloned, the
operations are applied to the clone one by one (`ApplyOp`), and the first failure ends the
call.

Machine words have `WordBits` bits (64 in the code). Abstracted or left out: UTF-8 (a
character is one code), the message of an error (its code is kept), doubles other than
quarters, the flags of `sprintf` verbs (a number is printed by `snprintf`, which is external:
`IntegerText` and `DoubleText` are what it prints without flags, and %O as it stands, which is no
conversion of C), random numbers, the calendar functions
of `time`, `uuid`, json schemas and `render_template` (placeholders in the code).

### InputBuilder and the code

One behaviour is one `regoInput` from `regoNewInput` to `regoFreeInput`: `InputScalar`
(the five calls that push a scalar), `InputObjectItem`, `InputObject`, `InputArray`, `InputSet`
and `SetInput` (`regoSetInput`), each with its failures in the order the code tests them.
`calls` is a history of the calls, `given` how many there were at the last successful
`SetInput`. The property knows no stack: each call says how many parts it is made of, so the list alone
says how many whole parts there are after each call (`Heights`), and which call ends which of
them (`EndOf`).

## Runs

Passing runs (distinct states as TLC reports them):

| Run | States | Instance | Shows |
|---|---|---|---|
| `vm_core` | 343,083 | a plan of two statements that use a rule `F` (which may call `G`, itself, a built-in), in Not, Block, Scan and With, over two data documents and two inputs; every pair of 30 data statements after each of four constructors; and compiled policies: eight subjects under four to eight Withs each, 26 kinds of literals and terms, partial rules, documents over three bases, an object rule beside the document of its own path, chains of bodies and else branches; no limit strikes | the safety properties of the machine, that caching, sharing (of nested nodes too) and the one frame are invisible, that the data and the input a query is given are never written, and that compiled policies mean what the policies mean |
| `vm_limits` | 15,385 | calls, blocks and negations nested up to, at and over the limits; a scan that appends to its own source; bundles the verifier accepts and the compiler does not write (Break, functions without blocks, raw operands, dynamic calls); StmtLimit 14, call depth 3, block depth 4 | limits are respected, nothing runs after the statement limit, every run ends |
| `dg_core` | 78,644 | every sequence of up to 3 different nodes out of 10, of up to 2 inside a body whose outer body binds `x`, of up to 2 out of 22 with references, comprehensions, objects, sets and a function argument, and of up to 3 that scan an array | order, completeness, meaning, captures, termination |
| `session` | 966,239 | two interpreters (symmetric), four calls of the program, two nested tasks, one list, a registered built-in, texts that read the time before and after a call, name a refused or an unknown built-in or do not parse | the registry follows the list, one time per query, no time from before the query |
| `forms` | 32,236 | one bundle per statement type and choice of operand kinds, over a short and a long string table, in a small and a large frame, argument lists up to one over `ByteMax` = 3, repeated names, and a program at and one above each limit of the reader (`MaxDepth` = 3, `MaxElements` = 6), each with a payload at all limits and one above each (`MaxStringBytes` = `MaxBundleSize` = 2); every chain of lowering, saving, loading and binding | the program survives, the reader refuses only what is above its limits, what is accepted is in range and stays accepted |
| `store` | 189,346 | two processes, three bundles of one, two and two pieces, five calls, failures and crashes at every file operation | the promise of the binary file, no mixed directories, queries answered by the handle's own bundle |
| `builtins` | 60,765 | 90 functions on small pools: texts over {a, b} up to length 3, integers of up to three digits and words of 8 bits, sets and lists over {1, 2, 9}, all graphs of three vertices, glob patterns of two tokens, versions, amounts | every function is what it promises |
| `patch` | 102,186 | five documents, all pairs of 60 operations, chosen triples, malformed operations and pointers | a patch is its operations in order, all or nothing |
| `input` | 780,118 | two scalars, counts of 2, seven calls | the stack is what the calls say |

Runs in which TLC finds what a comment, document or test says not to be so:

| Run | Property | What the code does |
|---|---|---|
| `session_lookup` | `IsBuiltInAnswers` | with a list in force, asking about a name the library does not know dereferences a null pointer: a query under a whitelist that does not name its rules crashes |
| `session_query` | `InvalidQueryFails` | a query that does not parse is answered with the results of the query before it |
| `remainder` | `RemainderIsExact` | the remainder of 30 and 3 is 1 (or an assertion fails): a zero remainder is not dropped before the next digit is appended |

### Other statements the code contradicts

These properties are stated in the modules, with the comment or document they come from,
and are false. Checking one takes the configuration named, with the property in the place
of its properties and the constants given changed.

| Property | Module, configuration | What the code does |
|---|---|---|
| `BreakAssertHolds` | `MCRegoVM`, `vm_limits.cfg`: `Bundles <- LoadedBundles`, `StmtLimit = 100`, `MaxBlockDepth = 8`, `TraceSpec` | `run_block` takes one break level and returns `Break` whether or not a level is left, so Break with index k leaves every block around it and `assert(m_break_count > 0)` (virtual_machine.cc:162) fails; bundle.cc:95 says "op0.index = blocks to break out of". `tests/opa/bundles` holds such plans |
| `CallKeepsCallerLocals` | `MCRegoVM`, `vm_core.cfg`: `Bundles <- OpaBundles` | a bundle written by `opa build` numbers the locals of every function from 2, and a callee overwrites those of its caller (virtual_machine.cc:670); CHANGELOG:365 says such bundles can be loaded and executed |
| `NotPropagatesErrors` | `MCRegoVM`, `vm_core.cfg`: `Bundles <- CoreBundles` | a negation whose body calls a function that fails succeeds, since `run_call` makes Error Undefined (virtual_machine.cc:748); the comment at 900 says "Propagate genuine errors" |
| `CompiledMeans` | `MCCompiled`, `vm_core.cfg`: `Bundles <- OddBundles` | a rule whose calls all are under a With of their own is not cloned for a With around it, since `contains_callstmt` (rego_to_bundle.cc:5115) does not look for `WithCallStmt`: `x := n with data.p.q as 5`, where `n := via with input as "c"` and `via := q`, gives 4, against the comment at 3094 ("we need to ensure the call inherits the withseq at the call site"). A document made for each item of a scan keeps what the item before put in, since `document_stmt` never resets its locals (internal.cc:1312) |
| `AssignedBeforeUse` | `MCDependencyGraph`, `dg_core.cfg`: `Terms <- FlawTerms`, `Bodies <- LateBodies` | a body with no unification or scan left is not sorted (dependency_graph.cc:1373): `x == 1; x = 1` tests `x` before it is assigned; CHANGELOG:569 lists that as fixed |
| `SolutionsPreserved` | the same, `Bodies <- LongBodies` | `[x] = [1, 2]` binds `x` to 1: the error of different sizes is stored in `m_error`, which nothing reads (dependency_graph.cc:533) |
| `NoneDropped` | the same, `Bodies <- SwapBodies` | `[x, y] = [y, 1]` fails `assert(!fail)` (dependency_graph.cc:556), or drops a unification in a release build |
| `QueryRunsItsPlan` | `MCBundleForms`, `forms.cfg`: `ByteMax = 255`, `SByteMax = 127` | an entry point listed twice shifts the number of every plan after it (bundle.cc:916): the query runs another plan |
| `VerdictIsOne` | the same | the string index of MakeNumberRef is compared with the number of locals in a lowered bundle and with that of strings in a loaded one (bundle.cc:33), against the comment at 84 |
| `SaveBinaryOkStores` | `MCBundleStore`, `store.cfg`: `MaxOps = 3` | `regoBundleSaveBinary` returns `REGO_OK` when the file could not be opened or written (bundle.cc:987), rego_c.h:465 says "if successful" |
| `PatchIsConsecutive` | `MCJsonPatch`, `patch.cfg` | tests are run on the document as it was given, before any other operation (json.cc:1678), the declaration says "consecutively" (json.cc:1764) |
| `ValidMeansOneValue` | `MCInputBuilder`, `input.cfg` | `regoInputValidate` accepts several values, or a lone object item |
| `SemverIsAnOrder` | `MCBuiltIns`, `builtins.cfg` | `semver.compare("2.1.0", "1.2.0")` and its converse are both -1; "1.2.10" is below "1.2.9" |

Smaller differences, met while modelling, that a property leaves out by a named operator or
the model simply follows:

- `max`, `min`, `sort` and comparisons of anything but two numbers order by text:
  `max([9, 10])` is 9 (core.cc:53). A prerelease in `semver.compare` of a version without a
  dash is its whole text.
- Declared types that results do not have (`WronglyDeclared`): `concat`, `strings.reverse`,
  `strings.any_prefix_match` and `any_suffix_match`, `sort` of a set; `count` does not declare
  objects; `sprintf` throws on %b. `ResultsAsDeclared` leaves them out.
- A string the machine computed keeps quotes in its node: `sprintf`, `json.filter` and
  `json.remove` (`ReadsNodeText`) read them.
- `glob.match`: what follows an escaped character is ignored, so `glob.quote_meta("*a")` does
  not match `*a`. `replace` with an empty text does not return. `format_int` in base 2 prints
  two bits, in bases 8 and 16 a negative number as an unsigned word.
- `object.get` past the end of an array and `array.slice` with a start that is no number
  throw; `object.union` is shallow; `json.remove` drops scalars a path would go through;
  `rand.intn` of 0 and shifts by 64 or more are undefined.
- `json.patch`: a move or copy to the same path does nothing even when there is nothing; one to
  the root does not replace the document; an index such as "01" may be accepted
  (`Differs` of `MCJsonPatch`).
- An object item inside a set or another item becomes an Error node and the call still
  answers `REGO_OK`; `regoInputObject` does not drop repeated keys.
- `regoBundleLoad` and `regoBundleLoadBinary` return a handle on failure (rego_c.h:429, 439 say
  NULL); a failed `regoBundleSave` has already removed the directory.
- A dynamic call reaches the branch of `run_call` marked unreachable
  (virtual_machine.cc:650; `vm_limits` takes it), and the literals of `some x in y; y = [x]`,
  which wait for one another, are left out of the sorted body without an error
  (dependency_graph.cc:1229; `NoneSkipped` is all that holds of them).
- Compiler: `bodyobjstatic_block` (rego_to_bundle.cc:5777) tests a node pointer where it means
  an empty block, so a static-key object rule with several chained bodies is refused ("Invalid
  rule body"). In `rule_ident_to_body` (rego_to_bundle.cc:4130) `path` never shrinks, and it
  walks the results of the rules instead of those of the base document. Under `every ... with f
  as g` with functions only, the block of the scan is spliced instead of the scan
  (rego_to_bundle.cc:3738). `WithInfo::update` appends the new Withs to themselves (5018); of
  two Withs with one local only one argument is passed (5085); a recursive function under a
  With is cloned without end. A call that a With replaces by a value checks its arguments when
  it is direct, and not in a clone.
- References: `data` alone leaves the base documents out; `data.p[x]`, with `x` a child
  document or a key of the base document, is undefined when only rules make `data.p`; `with
  data.q as` does not reach calls of rules below `data.q`; `x := input` succeeds when there is
  no input; bodies in a chain never conflict.
- `Output` (output.cc:16) takes every node but an ErrorSeq for results, and a query whose
  machine threw ends as a plain Error node (interpreter.cc:430).

*Why the bounds are enough.* The machine's control depends on which activation is on top
of which and on the code that arrives, not on the length of a plan: two statements, two
functions and one level of nesting of each kind bring every pair (activation, code) about,
and a rule used twice is what caching needs. What the compiler does with a literal depends on
its kind, on the last statement before it and on what its reference finds, and what
`with_rules` does on whether a call is replaced, passes on or neither, directly or through
one function: the families have each of these at least once, under each kind of With. Limits are reached with calls of depth 3 and
blocks of depth 4 from each of the four callers of `run_block`. In a body, three
literals are enough for a chain, a fork, a join and a cycle of producers, and for a
unification that waits two rounds. In `session` two interpreters are what one cache for
all of them needs; four calls are a list, a query that loads, a list that changes what was
loaded and a query that would see the difference, and three calls suffice for an older
time to be kept and met; a third nested task would find the same two interpreters busy.
In `forms` statements do not interact, so one of each type with all its fields different
shows any two fields exchanged; `ByteMax` = 3 lets counts reach it and pass it. In `store`
an overwrite needs a writer, a writer that overtakes it and a reader: five calls of two
processes have them in every order, and images of one and two pieces are the shorter over
the longer and the mixed one. Built-ins are mostly loops over their arguments: their
errors are at the ends, which texts of length 0 to 3, sets of up to three members and
numbers with and without a carry, a borrow and a zero in the middle reach. A patch of two
operations has every pair of effects, and a third is read after a failure. Seven calls
build an array or a set inside an object, and fail in it.

*Fairness.* The program has one thread and every step is a step of it, so weak fairness
of `Next` says no more than that the program keeps running. It is used for `Terminates`
only (`vm_limits`, `dg_core`). Where a run stops, it is at `status # "running"` (or a
final `phase`), where the model has an explicit stuttering step, so deadlock is checked.
In `forms` and `store` the program may stop (a garbled image; all calls made), so it is not.

## What is proved

For every set of bundles, inputs, limits, and for every set of bodies:
- `RegoVMProofs`: the type invariant and `CountersMatchStack`. The
  inductive invariant is the conjunction of *bundle is one of Bundles*, `MemoryOK` (frame,
  heap and cache hold existing nodes of the right sort), `ControlOK` (counters, code and
  status have their ranges), `StackOK` (each activation points into the bundle) and
  `CountersMatchStack` itself. `StackOK` is what makes it inductive: the statement of the
  top activation is known to be one the verifier accepted, so its operands, its blocks
  and its locals are in range.
- `RegoVMProofs` also: `LimitsRespected` and `FrozenAtLimit`, from the same invariant with
  `DepthOK`, `CallsOK` and `BindFresh` added (the depth the limits bound is the number of
  activations of a kind), and `Stopping` for the second.
  Also `ErrorsRecorded`, for bundles in which every function has a block
  (`FunctionsHaveBlocks`), a hypothesis about the bundle alone. A
  loaded bundle need not satisfy it (`vm_limits` has some that do not); `rego_to_bundle` sees
  to it: the block of a function ends in its return.
  The invariants: `LaidOut` and `StackLaidOut` (the hypothesis, seen from the
  statement on top of the stack) and `Told` (an Error or Timeout on its way up has an error
  recorded, `CachedTold` says so of what the cache keeps).
- `RegoVMSharing`: `CachedResultsFrozen`, the property for which the machine has no mechanism at
  all: nodes are shared by reference, nodes nested in them are handed out as they are, containers are filled in place, one frame serves all
  functions, and what keeps a cached result from being changed is how `rego_to_bundle` lays out
  a bundle. `RegoVMLayout` says how, as a predicate `BuildsApart(bundle, lay)` on the bundle
  and a layout, which says before every statement which containers are under construction, and of every
  block and function which locals it may hand on. A container is filled between the statement that
  makes it and the first that hands it on, what runs meanwhile hands it on neither, and a function resets its
  result first. Besides (`DocumentsApart`), only a With gives the input and data locals a value, and a
  local that is filled receives no node that existed before but from another such local, as the result of an
  object rule with documents below it is handed on; above all it never receives what `dot` or a scan found.
  The theorem is for every bundle that has a layout; `LayoutOf` of `MCCompiled` computes one, and
  `LaidOutAsAssumed` has TLC evaluate `BuildsApart` and `CallsApart` (below) on it for the plans laid out by hand and the compiled
  policies of `vm_core`, with two exceptions. The data family puts every data statement after every constructor, laid out or
  not. And some eighteen policies (`Resumes`), with nested documents or rules of more than one key, take a container up again from
  the one they have just put it into, by a Dot, and go on filling it: that is sharing they mean, which the layout has no
  words for. They are outside these theorems; `vm_core` checks the same properties on them.
  A bundle without a layout can break the property: `AliasBundles` of `MCRegoVM` appends to
  an array that `dot` found in a cached result and in the data, and with `Bundles <- AliasBundles` in `vm_core.cfg`
  TLC refutes `CachedResultsFrozen`, `DocumentsKept` and `DocumentsRestored`. `rego_to_bundle` makes no such bundle, and
  `verify` accepts it.
  The invariant is `SharingInv`: while the statement limit is not reached, `Opened` (the layout, seen
  from the stack: nothing on top of an activation hands on what it has under construction,
  `StackOpen`; no function with a cached result is evaluated again outside of a With) and `Guarded`
  (a container under construction is held by one local, and by no other local, no cache entry and no
  saved document). `Guarded` alone is not inductive, since a call at any depth may return into
  the function that is building. A guarded
  container is also nested in no other node (`Whole`), so that filling it changes its own node only: the nodes nested in it keep their
  values, whoever got them by `dot`. At the statement limit `FrozenAtLimit` takes over.
  Also `DocumentsKept` and `DocumentsRestored`, for the same bundles: the nodes of input and data are held by the input and
  data locals or, while a With replaces them, saved with the first With of each (`Withs`, `Restorable`: what is saved is, level by
  level, what each open With found), so `Guarded` keeps them from being filled (`DataInv`), however a body
  ends. The next query of the interpreter reads those same nodes.
  Also `CallKeepsCallerLocals`. `run_call` saves and restores nothing: it writes the
  arguments and whatever the callee computes into the one `m_frame`, and that the caller finds its
  locals again is due to `index_strings_locals` alone. What it does is `CallsApart(bundle, lay)`, again a predicate on the
  bundle and a layout, which here says which blocks are the text of the plan and of each
  function (nested blocks included) and which functions each can reach: a function mentions no
  local of the plan, nor of another function that reaches it, input and data apart, and an
  object that is handed on stays with the function. `opa build` numbers otherwise, and the table above shows what
  happens then. The invariant is `CallsInv`: `SharingInv`; `Chained`, which says that each activation runs text of the
  innermost function called below it, and that each call is of a function that all
  functions below it reach, and of none of them; and `Sparing`: for *every* call on the stack, the
  locals of all text below it hold the node and the value they held when it was pushed. The
  last has to be said of every height, because a return at depth three writes a local of the function at
  depth two. That a node held by such a local is not filled in place meanwhile is where the theorem needs
  `Guarded`: a container that is being filled is held by one local, one of the function that
  fills it. The text of a caller is a fixed point (`Reach`); that a layout's text holds all of it
  (`ReachIn`) is an induction on the rounds, which `SetInduction` reduces to the least element
  of a set of naturals (`WFMin` of the library, stated of a set and not of an operator).
- `DependencyGraphProofs`: type correctness, `OrderedBeforeUse` and `NoneSkipped`; and, for
  bodies that name nothing twice (`NamesApart`), `BoundOnce` and `CaptureNeverAssigned`. The
  hypothesis is needed: `x := 1; x := 2` gives `x` its value twice, and the compiler lets it through
  with no more than a line in the debug log ("Multiple assignment to local"). `BodiesApart` of
  `MCDependencyGraph` has TLC evaluate it on every body of the instance. The invariant of the
  names is `NamesInv`: each literal still to be emitted is `Fine`. No name is produced twice
  in it, but by two patterns of one array or object that both test their variable (`OnceIn`,
  `MarksTested`); the names made while splitting are below the counter (`FreshBelow`), and what
  is captured is not assigned (`NoneTaken`). That of the subgraphs is `GraphInv` (closed, and each
  producer of a name reached through the names it shares with the others). Its lemma
  `BackNeighbour` is why that suffices although `find_graphs` remembers only the last producer
  of a name: two producers of a name test one variable, so whoever has a neighbour in a
  closed set is in the set. For the first two,
  the building half is `TInv` (type, literals untouched while the graph is built, every edge
  placed and produced), the sorting half `SortInv`: `NotBegun`, `BoundTraced`,
  `FrontierReady`, `NoneForgotten` and `OrderedBeforeUse` itself. `BoundTraced` says
  that a bound name was bound by an emitted literal, `FrontierReady` that whatever is in the
  queue can be emitted, `NoneForgotten` that what is ready is in the queue or emitted.

- `QuerySessionProofs`: type correctness, `RegistryFollowsList`, `SameWithinQuery` and
  `FreshQuery`, for any number of interpreters, names, texts, lists and nested tasks. The
  inductive invariant adds `StackInv`: an interpreter has one task (`OnePerInterp`), all but
  the innermost have started another (`OthersNested`), and each task is `Fine`: it has seen
  nothing or exactly the value kept now; from compilation on, what a query calls is loaded,
  so that clearing reaches it; and while it runs, the value kept is not older than it is.
  The last is what an interpreter that has `time.now_ns` forbidden or replaced does not
  have, which is why it is conditional on what `loaded` holds.
- `BundleProofs`, for every program `wf_bundle` allows, every chain of forms and every bound of the
  image: `AcceptedIsInRange`, `ProgramKept`, `OperandsUnpack`, `NamesFindTheirPlan` and
  `NeverRefusedLater`. The verifier looks at an operand by its kind, while `run_stmt` takes the
  two sides of a merge and the two locals of a scan as numbers whatever their kind. The
  first invariant (`IInv`) is that no form gives these slots a kind the verifier would not look at: the
  lowering makes them an Index, the binary reader a Local. The rest of the first theorem goes by statement
  type, from what `verify_stmt` demands of the slots to what `run_stmt` reads of them.
  For the others the tables of the code are compared with one table of what each slot of each statement type
  holds: `Encoding` and `RowsAgree` (writer and reader of the binary file list the same slots in the same order),
  `LoweringSound` and `LoweringFields` (`node_to_statement` fills a slot from a field of the right
  sort, and looks at nothing else), `KeysAgree` (both JSON passes name the members alike, one for
  each field). From these, `ReadBack` (a statement comes back from its image with the same meaning)
  and `JsonStatement`, and the invariant `LifeInv`: a tree, or what its JSON gives back, has the
  fields of the tree at the beginning (`SameTree`), a compiled form, or what its image gives back, is
  `CompiledOf` the first lowering, only what does not fit is garbled, and only what has a payload above the limits is refused: `LimitsAlike` and
  `ImageAdmitted` say that the limits are met by an image exactly when they are by the bundle it was written from. `OneIndex` is why different names matter:
  the lowering numbers a name by the size of its map, the reader by position, and both are the
  place of the name only when no name comes twice. `NeverRefusedLater` needs that of the
  functions (a call is checked against the parameters of the one its index finds) and adds
  `AcceptInv`: what was accepted and not refused would be accepted now, in the form it
  has or would be read as.
- `BundleStoreProofs`, for any number of processes, bundles and pieces: type correctness,
  `FormsAgree` (the tree and the compiled form of a handle are of one bundle),
  `AnswersComeFromHandle`, `DirectoryNeverMixes`, `SaveDirOkStores`, and the refinement `KeepsPromise`. The invariant
  of the binary file is that every piece is a piece of a bundle somebody began to save; with
  the checksum a reader's pieces are then one image of such a bundle. That of the directory
  (`DirInv`) says, while uses do not overlap, which files a saver has already removed or
  written, so that a reader who finds both finds those of one save.
- `InputBuilderProofs`: `BuiltAsRead`, for every number of calls and every scalar and count. The documents
  nest without a bound and have no type, so the invariant (`BuildInv`) says nothing of them but where
  they stand: the calls are calls, `Done` is the only place where the list can fail
  first, and `BuiltAsRead` itself. A step appends a call; that this changes nothing of what the calls before say
  is an induction over the list (`PrefixNodes`), with `SetInduction` as in `ReachIn`, and `BuildsPart` says which
  parts the new call takes: all that a builder leaves on its stack below the new value are the
  parts ended before, none lost and none twice.
- `BigIntProofs`: `BigIntExact`. On the decimal texts of any two integers, of any length, `+`, `-` and
  `*` give the text of the exact result, and `<`, `>` and `==` the order of the integers. One
  lemma carries it (`Columns`): whatever each place adds up to, if each passes on the tenth of its
  total, rounded down, and keeps the last digit, the digits kept and what is passed on at the end denote together what
  the totals do. Sums, differences (a borrow passes on -1) and products by a digit are three
  instances of it, read from the left as a text is, so no power of ten is needed. Those come in with the rows of a
  product: a row is shifted, and that the sums of rows never grow past the next row, so that the result has no 0 in
  front, is because the last i digits of a number are below the i-th power (`LastDigits`). A
  difference has no borrow left at the end because it would be negative (`NegativeStays`). One text for one
  integer: of two texts without zeros in front, the shorter or the smaller in the order of texts is the smaller
  number (`LessThanIs`). The functions are recursive, over the places of a number or the tenths of one;
  that they exist and have their values is proved with `SetInduction` (`Recursion`, `DigitsOfIs`).
  Division is not in it: its loop has no bound but the digit it finds, and its remainder may keep a zero in
  front (`remainder`).

`TypeOK` of `BundleStore`, of `QuerySession` and of `DependencyGraph`, `FormsAgree` and `CountersMatchStack` on
the bundles of `vm_limits` are proved and therefore not repeated by the runs.

Assumptions: `NamesAssumption` (the library defines `time.now_ns`; rules are not named
like built-ins), `TextsAssumption`, `BoundsAssumption`, `BundlesVerified` (bundles are as
`BundleDef::verify` requires, which is when the machine is bound to one), `LimitsAssumption`
(the limits are naturals), `TermsWellFormed`, `BodiesWellFormed` (the shape of the
compiler's trees), `FreshIsNew` (a name made by `fresh` is not one of the program),
`ProgramsWellFormed` (a program is a tree as `wf_bundle` describes it), `ByteAssumption` (a signed byte holds
less than an unsigned one), `StoreAssumption`
(bundles are numbered, each has at least one piece), `CountsAssumption` (a count is a natural:
it is a `regoSize`, which has no sign).

Only model-checked: `AgreesWithReference`, `CompiledMeans` and
`SolutionsPreserved`, which compare with recursive definitions, and all of the built-ins and the patches (`NumbersAgree` too, though the addition, subtraction, multiplication
and comparison it rests on are proved), whose definitions and meanings are `RECURSIVE` operators, with which the prover
loses arithmetic (an induction like that of `ReachIn` needs a recursive function); and
`Terminates`, since liveness under fairness is out of the proof system's reach.

## Not modelled, and the plan

What would come next, in this order:

1. The passes before `unify`: how modules and data become one document, and the lowering
   of heads and `some`; recursion and its detection.
2. The rest of the interpreter: modules, data and input as state, with the failures of
   `add_*` and `set_*`, and the documents of a query as a function of the accepted ones.
3. `uuid`, the calendar functions of `time`, the ranges of `net`, json schemas once they are
   more than placeholders.

Left out for good: the grammar and tokenizer (`parse.cc`, `file_to_rego.cc`: generated
from patterns of the rewriting library), cryptographic and network built-ins
(external libraries), printing and encodings where no other component depends on them,
the accessors of the C API for outputs and nodes (they read and change nothing), tools,
wrappers and examples.
