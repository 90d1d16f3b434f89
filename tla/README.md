# Verification of the Tempo compiler and virtual machine

Tempo compiles a small functional language for audio into a stack machine's
instructions.  This directory holds TLA+ models of the compiler from its parser to
its code generator, of the virtual machine, of the text formats that its stages
are tested with and of the support classes everything else is
built on, the TLC configurations that check them, and TLAPS proofs.  Paths are
relative to the repository; C++ lives in `lib/`.

- [The system](#the-system)
- [Plan](#plan)
- [Modules and code](#modules-and-code)
- [Runs](#runs)
- [Fairness](#fairness)
- [Proofs](#proofs)
- [Where code and comments disagree](#where-code-and-comments-disagree)
- [What is not modelled](#what-is-not-modelled)

## The system

A source file goes through these stages:

    text --Syntax--> ast::Module --buildCFG--> cfg::Package --gcCFG--> cfg::Package
         --codegen--> vm::Package --eval--> samples

No program in the repository joins them yet; the tests run each alone, but for
`test/compiler/build-cfg`, which builds and collects.  The stages
call one another only through the values they hand on.  Two classes are shared by
all: `Arena`, which everything but the machine's stacks is allocated in, and
`Symbol`, the table of interned names.

| component | state it keeps | operations | what makes it correct |
|---|---|---|---|
| VM stacks (`runtime/VMState.hpp`) | a scalar stack of tagged slots; a vector stack; its top | `get push pop alloc dealloc reference dereference` | each vector is released once, in LIFO order; no reference outlives its vector; nothing but the top vector is written |
| Evaluation loop (`runtime/VMEval.cpp`) | nested activations of `eval`, each with an instruction pointer, `popCount` and `resultOffset`; the package's code, which it rewrites | the opcodes, `lookup`, the entry point | it computes what the opcode comments promise; evaluating a package again gives the same |
| Code generation (`compiler/Codegen.cpp`) | code so far, virtual stack size, parameters not read yet | a visitor for each kind of graph value; the package loop | stack offsets lead to the right parameters; a result pops its function's parameters; compiled code computes what its graph denotes |
| Building graphs (`compiler/BuildCFG.cpp`) | the package being filled, with entries for functions half built; the C++ call stack | expression visitors, scope and global name resolution | the package is complete; graphs denote their source; building ends |
| Types (`compiler/Type.cpp`) | none but two singletons | versions, subtyping, intersection | used by the above |
| Mangled names (`compiler/TypedSymbol.cpp`) | none | `<<` of typed symbols | different functions have different names |
| Intrinsics (`compiler/Intrinsics.cpp`) | none | the package a build starts from | every pair of operand types has its operation |
| Function GC (`compiler/GC-CFG.cpp`) | the marks, the visitor's recursion, the sweep's iterator | mark, sweep | exactly what the root reaches is kept; recursion in the program does not become recursion without end in the visitor |
| Symbols (`support/Symbol.cpp`) | table, names, mutex | `get`, conversion to a string, `<<` | equal symbols are equal strings, from any thread |
| Arena (`support/Arena.*`) | pages, capacity and offset in the newest one | `allocN`, `pushPage` | blocks are apart, aligned and inside their page |
| Combinators (`support/ParseUtil.hpp`, `StringifyUtil.hpp`) | a cursor; the objects being read; a list of errors | `match`, `>>`, `?:`, `optional`, `repeat`, `require`, `emit`, `receive`, `collect` and what is made of them; the printer's `begin`, `end`, `atom` | backtracking leaves nothing behind; errors name their line |
| Source syntax (`compiler/Syntax.cpp`) | none of its own | a grammar rule for each construct | a source is read as the module it was written for |
| Text formats (`compiler/Serialize*.cpp`, `runtime/Serialize*.cpp`) | none of their own | a printer and a parser for types, data, instructions, graphs and trees | printing and reading are inverse; a text says nothing its value does not |

What is hard in it:

- **Long sequences of legal operations.** References, vectors and the pops that
  `RET` adds for later instructions interact over a whole program.  One program
  says little; the models run all programs of a bounded size.
- **Self-modifying code.** `PUSH_SYM` is overwritten by the `PUSH` it resolves to.
- **Recursion over cyclic data.** Functions refer to themselves and to each other;
  `buildCFG` puts an unfinished entry into the package, and both it and the
  collector rely on such early marks to end at all.
- **Order.** `codegen` and the sweep iterate over hash tables: any order.
- **Threads.** `Symbol` is the only place where the code meets another thread.
- **Backtracking with side effects.** Parsers hand values to callbacks as they go; a
  parser that is rejected afterwards cannot take them back.
- **Boundaries.** A page filled to its last byte, the last symbol id, the number of
  slots of a vector.
- **Failure.** Assertions are compiled in (the Makefile defines no `NDEBUG`): one
  that fails ends the process, and so do exceptions nobody catches.  The models
  have an outcome for each.

`PROJECT.json` lists each such place with its line and the properties that watch it.

## Plan

In order of importance:

1. *(done)* The virtual machine: `VMState`, `VMEval`, the abstract `StackMachine` it
   implements, `VMRun` for whole packages; its type invariant, its discipline of
   references and the refinement proved.
2. *(done)* `Codegen`, with the mangled names of `SerializeType`, and `CompileAndRun`,
   which composes it with `VMRun`.
3. *(done)* `GCCFG`, with its invariants proved.
4. *(done)* `SymbolTable`, shown to implement `Interning`, and `Arena`, with their
   invariants proved.
5. *(done)* `Types`, `Reification` and `BuildCFG`; completeness of packages proved.
6. *(done)* `BuildAndCollect`, which composes `BuildCFG` with `GCCFG`.
7. *(done)* `ReifyAndCollect`, what `BuildAndCollect` is made of without its recursive
   operators, and with it: references always resolved, evaluations always agree, what makes the builder and the collector end, evaluations of packages as
   programs of `VMEval`, and `Codegen` as a machine of the visitor's steps, of which it is proved
   that compiled code computes its graph.
8. *(done)* `ParseUtil` and `StringifyUtil`, every grammar and printer that is made of them,
   and `Texts`, which reads, prints, reads back and compares.

Left, for who takes it further:

9. *The whole pipeline*, source to result in one module.  Its parts are joined at
   values that are checked on either side (trees in `texts` and `build`,
   graphs in `build` and `compiled`); as no nested call of declared functions can be built (see
   `operand_call`), one run of it would show little that these do not.
10. *Types against a reference.* Subtyping over all types of bounded depth, and the
   intersection as a greatest lower bound; the comments of `Type.hpp` beside it.
11. *More proofs.* That mangled names differ and that what graphs look up was requested, the
    hypotheses of `AlwaysFunctionsFound` and of `ReferencesAlwaysResolved`: facts about single
    types and graphs, for provers that can use an induction theorem.  And that `VMEval` runs
    compiled code as `Codegen`'s own account of it says (see `CodegenProofs`), from which
    `ReturnsDenotation` would follow for packages that keep the calling contract.

## Modules and code

`PROJECT.json` maps each definition to its lines.  Names are those of the source
wherever TLA+ allows.  A definition `X_what` just before `X` is a faulty form of it,
which the run named with it in `PROJECT.json` must reject.

The modules on their levels, each using those below it:

    Texts                     CompileAndRun                 BuildAndCollect
    Syntax  SerializeCFG ...  VMRun         Codegen         BuildCFG   ReifyAndCollect
    SerializeAST  ReadType    VMEval        SerializeType   Reification   GCCFG
    ParseUtil  StringifyUtil  VMState       Instruction  Data  Types
    SymbolTable over Interning, Arena: on their own

`VMStateProofs`, `VMEvalProofs`, `VMRunProofs`, `CodegenProofs`, `ReifyAndCollectProofs`,
`GCCFGProofs`, `SymbolTableProofs` and `ArenaProofs` hold the theorems.  None of the modules they
are about reaches a recursive operator.

**`Data`, `Instruction`.** The 4-byte values, with addition and multiplication as a
constant operator (`VMOps.hpp` treats every sample alike); the instruction set; one
activation of `eval`.  The twelve arithmetic opcodes are one opcode for each flavour,
with the operation beside it.

**`VMState`.** A VM is a record of the scalar stack, the vector stack and its top.
One sample stands for the sixteen of a 64-byte slot.  `PopN` is the closed form of the
loop of `pop(uint32_t)`; that it agrees with the loop, assertions included, is a lemma
(`PoppedSinglyIsPopN` in `VMStateProofs`).  Dead vector slots keep their contents, as in the array.

**`VMEval`.** One action for each opcode, over `vm`, `frames` and `status`.  A step
executes *any* instruction of a constant set whose operands are there and have the types
that its opcode works on (`OperandsFit`), so that a behaviour is an arbitrary program.  `COPY` works
on any slot.  A copy of a *strong* reference gives its vector a second owner, anywhere on the
stack; the code generator emits none (parameters that are vectors are read by `REF_VEC`), but
nothing stops a package from it.  `Spec` executes it like any other; `OwningSpec` is `Spec`
without such copies, and what is claimed of ownership is claimed of `OwningSpec`.  Failed assertions and overruns
are values of `status`.  The quirks of the code are kept: vector operations pop and
allocate before they dereference their old operands and push their result twice;
`DROP_V` compares indices of different stacks.

**`StackMachine`.** What the opcode comments promise: one stack of values, in which
a vector is its samples.  `ImplementsStackMachine` is the refinement, under
`values`, which reads each reference's samples off the vector stack
(`Machine == INSTANCE StackMachine WITH ...` in `VMEval`).  Both it and the run that checks it
leave out vector arithmetic, `DROP_V` and copies of strong references.

**`VMRun`.** `VMEval` with instruction pointers over one package: `lookup`, the
fixup of `PUSH_SYM`, the entry point, which reads the result back through the
parameter's reference, and repeated evaluation of the package it has rewritten.
The symbol of a `PUSH_SYM` is a field of its own.

**`Codegen`.** The loop over a package takes its functions in any order.  The visitor's C++
recursion is a stack of visits, each a graph value and the number of its operands emitted so
far: a step begins the visit of an operand (`EmitOperand`) or ends one, and then is the rest of
`acceptFPValue`, `acceptFunctionRef` and so on, with its `emit`, its bookkeeping in `context` and
the return to the visit below.  The end of a root's visit is that of its function, with the
assertion of the package loop.  A failed assertion sets `aborted`, and nothing follows; so does
`isVector()` of the null type that an operation on a number and a function has
(`Codegen.cpp:85`, `Type.cpp:164-174`).  The
module declares no recursive operator: types of values and names of symbols are constant
operators, `TypeIn` and `NameOf`, for which the configurations take `typeInFunction` and
`MangledName`.

Its properties need an account of what code does: `Executed` runs the code of one function on a
stack of *graph values*, opcode by opcode as `Instruction.hpp` documents them: `PUSH` pushes a
constant's node, an addition makes the node of a sum out of the two on top.  Code is right if it
rebuilds the graph it was made from.  The caller's part in it is how many slots of
its own the function has to pop (`Additional`); a `CALL` is one step that leaves the calling
node.

**`CompileAndRun`.** `Codegen`, then `VMRun` on what it produced; or a package written by
hand, with the parameter the entry point reads its result back through; or `Codegen`
alone, for packages of graphs without a main.  A main takes a vector and returns a scalar, which
the test entry point would not read back, or a vector; so the comparison with the graph's
denotation is made where main returns.

**`Reification`, `BuildCFG`, `Types`.** Building a function for a key does something
that depends on the source alone: it requests functions in a certain order, may
fail after some of them, and otherwise yields a root.  `Reification` is the state
machine over such bodies, with the C++ recursion as a stack of frames: cache hits,
half-built entries, throws, assertions, the end of the process's stack.
`BuildCFG` computes the bodies from syntax trees, visitor by visitor.
The split keeps `Reification` free of recursive operators, so it can be proved about.

**`ReifyAndCollect`, `BuildAndCollect`.** `test/compiler/build-cfg/main.cpp`: the package that
`buildCFG` returns is handed to `gcCFG`, an instance of `GCCFG` over the package's keys.
What running a graph looks up, and what the marking visitor comes to in it, are constant
operators of `ReifyAndCollect`; `BuildAndCollect` and `BuildCFG` define them for real graphs
(`VisitedIn`, `LookedUpIn`), by recursion.

**`GCCFG`.** A graph is the sequence of its function references; the marking
visitor's recursion is a stack of visits; the sweep takes the records in any order.
The root is a variable that no step changes.

**`SymbolTable`.** Threads interleave at the mutex and at each access to the table
and the names it guards.  A `push_back` may move the array: it is under way while its thread is at
`storing`, and a read then is undefined.  There are two kinds of reads: `operator<<`, of any id,
which checks that the id has a name, and the conversion to `std::string`, which does not and is
made of symbols that `get` has returned.

**`Interning`.** What the callers rely on: one table, which each call reads and writes in a
single step between its beginning and its return; a new string gets any id not in use.
`ImplementsInterning` is the refinement.  It counts a string as met (`knownIds`) once it is
among the names, and gives a call its answer (`answers`) when `Store`, `Hit` or `Read` is over,
so that the table which is ahead of the names is nowhere to be seen.

**`Arena`.** `allocN<T>(count)` is a request of so many bytes at an alignment.

**`ParseUtil`.** A parser is a record, one kind for each combinator, so that a grammar
reads like the C++ it stands for; `Parse` runs it.  A text is a sequence of tokens, runs of
characters that no parser tells apart.  The state has the offset, the object being read
(`node`), the values emitted to its receiver (`out`) and the errors; a rejected parser's
state keeps the last three, as the C++ callbacks have run, and `Retry` resets the
offset alone.  `lineNos` is `lineNo()` as it is written.  `NumberText` prints six
significant digits, as streams do.

**`StringifyUtil`**: where `Stringifier` puts brackets and separators.

**`ReadType` and `SerializeType`, `SerializeData`, `SerializeInstruction`,
`SerializeCFG`, `SerializeAST`, `Syntax`**: a parser and a printer for each format,
rule by rule under the source's names, with the equality the tests compare by.  Printers that
iterate over hash tables give a set of texts.

**`Texts`.** `test/runners/SerializationTest.hpp`, one action for each of its steps: read the
input, print it, read that back, compare.

## Runs

| run | what it asks | bounds, and why they are enough |
|---|---|---|
| `vm_disciplined` | without vector arithmetic, `DROP_V` and copies of strong references: one strong reference for each vector slot, weak references above strong ones, `dealloc` never fails, and the loop implements `StackMachine`.  The doubled push of vector operations (`VMEval.cpp:203`) is therefore not run here | 5 scalar slots, 6 vector slots, vectors of 2 slots, 3 activations: three vectors with copies and references between them, calls in calls, and every way to overrun or underflow.  Two values with arithmetic modulo 2 tell sum, product and operands apart |
| `vm_full` | for every program, copies of strong references and doubled references included: the bound of the vector stack, only the top vector written, and no step but the copy of a strong reference takes vectors out of their layout (`OnlyCopiesUnstack`) | the same with 4 scalar slots and all opcodes |
| `compiled` | of the compiler: a function's mangled name leads to code that computes its graph, for any caller; results pop exactly the unread parameters and what the caller passes on; `stackSize` is what the code so far leaves above the parameters; the repository's examples compile to what their tests expect.  Of compiled packages: they fail no assertion but `dereference`'s, in an operation on a vector, otherwise return, and (keeping the calling contract) leave what their graph denotes.  Of packages written by hand: the repository's eight examples give what their tests expect; evaluating any package again gives the same | all well-typed graphs of three levels over the parameter lists of up to two, and three with an operation on a number and a function: an operand beside, above and below another; none, one or two slots to pop for a caller; the examples in pairs, in both orders; two functions of one name over eight parameter types, from `Any` to vectors of functions, and a name that ends like a mangled one.  Three functions, calls two deep, up to two parameters; operands 2 to 6, with arithmetic modulo 37, which tells their sums and products apart.  Mains that return their vector, compute with it, or hand it to a function that does.  Mains of three instructions beside each of three functions, among them one that recurs until the activations run out; two evaluations, of which the second runs code all of whose reached symbols are fixed up |
| `build` | packages complete; before and after the collection references resolved and the source denoted; first-order building ends; what is built is collected | three declarations in every combination of 13 mains and 19 and 24 bodies for two functions: self and mutual recursion, shadowing, values, lambdas, undeclared names, wrong arities; for the result type `F32`, four bodies of the second function.  Stack for 8 nested builds, where first-order sources of three declarations need fewer.  The intrinsics are `Products`, the four multiplications: the sources name no other, and the sweep takes what is there in any order |
| `gc` | exactly what is needed is kept, never erased on the way, recursion bounded, marking ends | all packages of up to three functions with up to two references each, undefined ones included, and every root: all graphs on three nodes of degree two |
| `symbols` | ids identify strings, names stay and can be read, calls look as if each took effect at one moment (`Interning`), the mutex is released | two threads, four strings, three ids, so that the assertion on the last id is reached |
| `arena` | blocks apart, in their page and aligned | five allocations of 0 to 16 bytes, alignments 1 to 8, pages of 8 bytes |
| `texts` | what is read, printed and read again is the same value and compares equal; an accepted text is one of those its value is printed as; a source is read as the module it was written for | types of three levels; data of up to three numbers; programs of up to three lines out of eleven, labels at the end and beside each other among them; packages of up to two graphs of two levels; trees of three levels whose names may be keywords; sources of one and two declarations, and with operators whose names the grammar refuses.  Of some of each, the texts with any one token left out, doubled or set apart |
| `codegen_aborts` | *violated:* the compiler's own assertion on parameters holds | the well-typed graphs of `compiled` |
| `reads_param` | *violated:* callees pop all their operands (`Instruction.hpp:70`) | one function that reads its parameter below its root |
| `operand_call` | *violated:* visitors return a correct type (`BuildCFG.cpp:219`) | one source, `(* (g 1) x)` |
| `error_lines` | *violated:* an error names the line of the cursor (`ParseUtil.hpp:101`) | one text of three lines, the first without its operand |

Bounds in guards: `StackSize`, `VectorSlots`, `MaxFrames` (the C++ stack's activations
of `eval`), `MaxEvaluations`, `MaxDepth` (nested builds), `MaxBlocks`, `MaxId` (it is
`UINT32_MAX`), and `Fuel`, up to which denotations follow recursive calls.
Exceeding the first three and `MaxDepth` is an outcome of the model, not a cut.
`codegen_aborts`, `arena`, `texts` and `error_lines` switch off the deadlock check:
compiling, allocating and reading stop.

What the invariants of `texts` leave out is named and is itself checked: `FunctionLost`,
`LabelLost` and `DigitsLost` are exactly when the value read back differs (`ReadsBack` is an
equivalence there), `ComparesFill` when an equal value may compare unequal.
`SeveralTexts` are different texts of one value.  Only `KeywordApplied`, below, is
left out altogether.

## Fairness

`RunSpec`, `CompileAndRunSpec`, `GCSpec`, `BuildSpec` and `BuildAndCollectSpec` have weak
fairness of their whole step: each is a loop or a recursion of one thread that
nothing blocks.  `SymbolSpec` has weak fairness of each thread's steps inside a
call.  A thread need not begin a call, and `std::mutex` does not say who gets it
next, so all that is claimed is that whoever holds it lets go (`Unlocks`).
`Spec` of `VMEval` and `ArenaSpec` have none: programs may do anything; nor has
`CompileSpec`, whose progress is part of `CompileAndRunSpec`, nor `TextSpec`, about which
nothing but invariants is claimed.

## Proofs

All are for every value of the constants, under the assumptions named in the modules, which
TLC evaluates for the constants of the runs.  They are few: arithmetic closed over the values
(`ArithAssumption`); at least one slot for each vector, and room for the entry point's
parameter; instructions in the set that `Instruction` defines; packages whose code is such
instructions, and whose `PUSH_SYM` carry a symbol (`VMRun!PackagesAssumption`); finitely many
keys; functions that request, or fail in, finitely many things; a free mutex that is no thread.
Some are about more than types.  `Codegen!GraphsAssumption` is that graphs are well-formed (below).  `BodiesAssumption` and `IntrinsicsAssumption`, in
`ReifyAndCollect`, say that what a graph looks up was requested while it was built, and that the
visitor comes to it.  The code of the visitors answers for that, graph by graph: TLC evaluates
it for the graphs of every source of `build`, and the theorem takes it from there.

- **`VMStateProofs`** has the lemmas about single operations: where the vector stack
  ends (`TopAt`) after a push, a pop, an allocation; that vectors of any number
  of samples fit their slots (`FrameFitsAlways`); and that `PopN` is its loop.  The last is about
  a recursive function over 0 .. n, and goes by its least index at which the
  loop is not what `PopN` says, instead of by an induction theorem.
- **`VMEvalProofs`.** Types first (`TypeCorrect`).  For every program: going down the strong
  references, each one's vector is the one above's or ends where that begins, and a step that
  copies no strong reference keeps this (`StackedUnlessCopied`), so that it holds always in
  programs without such copies (`AlwaysStacked`).  `PUSH; FILL; COPY 2` shows why the exception
  is needed: it leaves strong references to vectors 0, 1, 0.  The bound on the vector
  stack has no exception (`AlwaysBounded`): a copy adds a scalar slot and no vector.
  Without vector arithmetic, `DROP_V` and copies of strong references
  (`DisciplinedInstructions` and `OwningSpec`, the hypotheses of these theorems; the code breaks
  the claims otherwise, see below) the invariant is `Owned`: vectors of strong references
  lie end to end, and weak references are anchored below.  `OneStrongRef` alone is
  not inductive: that `dealloc` finds the vector it expects at the top needs them
  end to end.  Each opcode is reduced to a pop followed by at most one push or
  allocation, and a write to the top vector.
  For the refinement: with `Owned`, a reference below the popped ones keeps its
  samples, so that popping, pushing and allocating commute with `values`; each
  step of the loop is one of `StackMachine`.
- **`VMRunProofs`.** That two evaluations of a package agree (`AlwaysAgree`) relates two runs, of
  which the second executes code the first has rewritten.  The code stays the loaded
  one but for `PUSH_SYM`, each of which is as it was or the `PUSH` that `lookup` would resolve
  it to (`OnlySymbolsRewritten`).  Over such code a step is a function of the
  machine, its frames and its status: `NextConfig`, which does not mention the
  rewriting.  So every evaluation is a prefix of one sequence of configurations, which does not
  leave its end once there, and two that have returned have returned the same.
  Again the least index at which two prefixes differ stands in for induction.

  What `VMEvalProofs` shows of any program then holds of any evaluation: an instruction that is
  looked up is one of the package's or the `PUSH` it has become, so each step is one of `VMEval`
  (`EvaluationExecutes`), and the entry point starts from a machine that satisfies the invariants.
  In every evaluation of any package vectors stay within the bound (`EvaluationsBounded`) and only
  the top one is written (`EvaluationsWriteTop`).  As long as no strong reference is copied,
  `[][~CopiesStrongRef]_runVars`, vectors lie end to end (`EvaluationsStacked`); and a package that is
  loaded without vector arithmetic and `DROP_V` stays without them, so ownership is kept and
  `dealloc`'s assertion never fails (`EvaluationsDisciplined`).
- **`CodegenProofs`.** For all packages of well-formed graphs, in whatever order their functions are
  compiled, and for any number of slots a caller has them pop: names lead to code that rebuilds the
  graph (`AlwaysFunctionsFound`), its value takes the place of the unread parameters and
  of the slots to pop (`AlwaysPopsUnreadParams`), and `stackSize` is right at every step
  (`AlwaysStackSizeCounts`).  None is inductive: while a function is compiled its code ends
  in the middle of an expression.  The invariant (`AlwaysCompileInv`) says what holds there.  The
  visits lead from the root to the visited value (`VisitsInv`); the code so far, run for any
  caller, leaves the caller's slots and the parameters untouched, and on them the operands that
  each visit has emitted, one visit's above the other's (`StackInv`); each parameter has been read
  once or still counts as unused (`BodyInv`).  So a value's operands lie on top when its own
  instruction comes, which leaves the value in their place.  At the root, reads and unused
  parameters add up to the arity: hence what `popCount` must be.
  What is finished stays where it was laid, as code is only appended and a symbol is only
  overwritten by a function of the same name (`FinishedInv`).

  `Executed` is a recursive function on the positions in the code.  That it continues by one
  instruction when the code does (`ExecuteNext`) takes the least length at which runs would differ.

  There are two hypotheses.  Graphs are well-formed (`GraphsAssumption`): they are closed under
  operands, read parameters that there are, and pass as many as the called type takes.  TLC
  evaluates it for every graph of the runs.  Operations without a type are well-formed: the compiler
  stops there, as at an assertion.  And mangled names are apart (`NamesApart`), which is a fact
  about types as texts; TLC has evaluated it for the packages of `compiled`, and there checks
  `FunctionsFound` itself, without it.  A package whose compilation aborts satisfies the
  theorems up to then: `codegen_aborts` shows that there are such packages.
- **`GCCFGProofs`.** The tri-colour argument: every reference of a marked function
  is marked or still ahead in the visit of that function, which is on the stack.  Once the
  stack is empty the marks are closed; the sweep keeps them.  That the marks are a
  subset of what is needed gives the other half.  Each visit on the stack belongs to a
  different marked function, which bounds the recursion.
- **`SymbolTableProofs`.** Table and names are each other's inverse, except that the
  thread at `storing` has put its string into the table alone; only the
  holder of the mutex is past `locking`.  With that invariant each step of a thread is a step
  of `Interning` or changes nothing it can see (`CallsAreAtomic`): calls are linearizable.
- **`ArenaProofs`.** Blocks are apart because each new one begins at the offset or on a new
  page, and `NewestBelow`: the blocks of the newest page end before the offset.  With
  it and the page's size the invariant is inductive, for every page size, request and
  bound.
- **`ReifyAndCollectProofs`.** A declared function in the package is finished or a frame
  builds it, and what a frame has gone past are requests that are in the package.
  The package only grows, so what a function requested is still there when
  it is finished; with no frame left all are.  `PackageComplete` alone says nothing before
  the end.  What is finished is never touched again (`BuiltOnce`).  What is in the
  package lies in every set that has the root and is closed under requests, and in
  the end is such a set: it has what is wanted and nothing else (`BuiltAsWanted`).  No two frames
  build the same function, so that a process with stack for as many builds as there are functions
  to request never overflows it (`RecursionNests`, of which `FirstOrderEnds` is the instance
  that counts them for first-order sources).
  The collector starts
  from a package that satisfies its own assumptions: the theorems of `GCCFGProofs`, in an
  instance over the package's keys, say that what the root needs survives, and so every reference
  of what survives (`ReferencesAlwaysResolved`).

**What there is of termination.**  `StepsAreNumbered` (the collector) and `BuildsEnd` (the
builder) show each step to enter a later phase or to lower a pair of natural numbers: the
functions neither marked nor built yet, then the references that the calls on the stack have
left.  The numbers are cardinalities of sets, which need no recursion to define.  So no behaviour
has infinitely many steps; that one stops only at its end needs fairness, and is `Terminates`
and `BuiltAndCollected`, which TLC checks.

Only model-checked:

- Liveness: `EventuallyReturns`, `BuiltAndCollected`, `Terminates`, `Unlocks`.  The prover has
  neither fairness nor ENABLED.  `EventuallyReturns` has no measure as above: a package may recur
  until its activations run out.
- What recursive operators over graphs, expressions, types and grammars compute:
  that mangled names are apart (in `FunctionsFound`), `ReturnsDenotation`, `CompiledNeverFaults`,
  `DenotesSource`, `FirstOrderEnds`, and all of `Texts`.  The prover loses its SMT backend in a module with such an operator, and none of its
  backends can instantiate an induction theorem.
- `CompilesAsExpected` and `AsExpected`: about the repository's examples, one by one.

Proved alone, without a run of their own: `AlwaysReadsName`, which follows from the invariant
`NamesKept`, and `TableAlwaysMatches`, on which `ImplementsInterning` rests, both of which are checked;
`AlwaysStacked` and `EvaluationsStacked`, which follow from `OnlyCopiesUnstack`;
`EvaluationsDisciplined`, whose invariants `vm_disciplined` checks; `AlwaysCompileInv`, `OnlySymbolsRewritten`, `BuiltOnce`, `BuiltAsWanted` and the two
measures.  TLC has confirmed the last six on the constants of `compiled`, `build` and `gc`.

## Where code and comments disagree

Each shown by a run of its own, and quoted under `findings` in `PROJECT.json`:

- A graph that reads a parameter twice below its root fails `Codegen.cpp:189`.
- `COPY` and `REF_VEC` do not consume a parameter, yet `popCount` takes a parameter
  that was read as gone: functions that read a parameter below their root
  leave it on the stack, against `Instruction.hpp:70`.
- Operands are requested as `AnyType`, so a declared function called as an operand
  fails `BuildCFG.cpp:222`, and an intrinsic is not found.  So no call in a package that is
  returned has a function reference among its operands.
- `State::lineNo` counts the line ends after the cursor, not before it, and may read
  past the text (`ParseUtil.hpp:101-107`).

Met on the way, and kept as they are in the models:

- `VMState.hpp:32`: "exactly one strong reference"; vector operations push their
  result's twice (`VMEval.cpp:202-203`, `226-227`, `250-251`), which leaves two slots
  where the opcode's comment has one.
- `VMState.hpp:33`: no weak references below strong ones; `DROP_V` may drop a
  vector and push a weak reference to it (`VMEval.cpp:89`, `102`), and drops
  nothing when the two indices it compares are equal.
- `VMState.hpp:25`: references can be dereferenced; only the topmost vector's can
  (line 197).  So no compiled operation on main's vector can be evaluated: `VS(param 0, 4)` compiles
  to `PUSH`, `REF_VEC 2`, `RET`, `ADD_VS 0`, `EXIT`, whose result lies above the parameter that
  `REF_VEC` left in place when its samples are asked for.
- `VMState.hpp:32-33`: neither is true after a `COPY` of a strong reference, which
  `VMEval.cpp:64-66` does without a check.
- A leaf in a function without parameters is emitted after `RET` as a `PUSH`, which
  pops nothing of what its caller's `CALL` asked for (`Codegen.cpp:147`).
- `Type.hpp:60-61`: `AnyType` is a subtype of nothing; `Type.cpp:133-135` makes it one of
  everything.

- `ParseUtil.hpp:17-20`: a parser "fails and returns nothing".  It has emitted all the same: each
  alternative of an expression begins by trying the ones before it, and
  `(let x (f (operators x (+ y) z)))` is read with parameters of `f` that nobody wrote.
  This takes an expression that applies the name `let`, `operators` or a backslash
  (`KeywordApplied`).
- `SerializationTest.hpp:8`: values are read back as equal ones.  A function without
  parameters, or whose value is an identifier, is printed as a text that is read as the
  application of a backslash (`test/compiler/serialize-ast/examples/fn-decl` is one, and
  is read so the first time too, so that the test passes).  Labels behind the last
  instruction and digits beyond the sixth are lost.
- `Instruction::operator==` compares the operand of `FILL`, which nothing sets
  (`Instruction.hpp:103`); `FunctionRef::operator==` does not compare types
  (`CFG.cpp:82-87`).
- `Syntax.cpp:20`: an operator may contain letters, digits, `;` and `=`.  `a +b` is not read;
  of several declarations the first takes the rest for operators.
- `push_sym` without its operand is reported twice, the second time as a `push`
  (`SerializeInstruction.cpp:54-62`: `require` rejects, and the next alternative is tried).

The hypotheses `KeepsContract` of `ReturnsDenotation`, and `DisciplinedInstructions` and
`OwningSpec` of the machine's theorems, leave out just these.  `AllFirstOrder`, in `build`, leaves
out the application of an application, which requests ever larger types: without it
building may end with the process's stack.

## What is not modelled

- **Hashing, visitor dispatch, indirect values.** No state; equality of types is equality of
  records here.  Nothing makes an `IndirectValue`.
- **Time.** Nested parentheses in a source are read again by each alternative, four times
  for each level; the models have no clock, and the inputs nest two deep.
- **Dangling callbacks.** `inject` and the instruction parser capture references to
  parameters of calls that have returned (`ParseUtil.hpp:328`,
  `SerializeInstruction.cpp:46`).  The models take the one outcome the tests can pass with.
- **What no parser reads**: data and operands that are not `f32`, for which the
  instruction printer throws; `StringifyType`, `receiveFlags` and the logging of parsers.
- **Names under construction.** `identifierString` interns what it read; `SymbolTable` has the
  interning, and `ParseUtil` has names as they are.
- **vDSP kernels, floating point.** One sample stands for all, with any arithmetic.
- **The clauses of test files; `vendor/`.** `@given:` and `@expect:` are not read; the examples
  of the evaluation and code generation tests are inputs of `compiled`.  Nothing in `lib/` uses
  the vendored headers.
