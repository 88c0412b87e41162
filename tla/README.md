# A TLA+ model of HolyD

HolyD is a small HolyC-flavoured language in C: a lexer and parser, a name
resolver, a type checker, a bytecode compiler with its VM, four other ways to
run or emit a program (a tree walker, C, assembly, a PE executable), and a set
of natives through which scripts open windows, draw, read input and use UDP.
The modules in this directory model the parts of it whose state outlives one
function call and whose mistakes a test would hardly reach. They are checked by
TLC on small instances, and the results that matter most are proved with TLAPS
for every value of the constants.

Source paths below are relative to the repository's root.

## Inventory

| Component | State it keeps | Operations | Hard part | What makes it correct |
|---|---|---|---|---|
| Lexer (`src/lexer`) | cursor | next token | none over time | - |
| Parser, AST (`src/parser`, `src/ast`) | token lookahead, tree | recursive descent | desugaring `arr[i] += v` shares a node between two parents | later passes agree on a shared node |
| Resolver (`src/resolve.c`) | symbols, functions, bindings and their hash index, labels, gotos | five walks over the tree | a name is used before, inside or without its declaration; jumps into `foreach` | each scope's names have slots of their own in range; index = scan; every accepted jump lands where it may |
| Type checker (`src/typecheck.c`) | types per symbol and node | inference in one walk, which refuses nothing | a symbol's type during the walk and after it; the C backend takes it as a promise | what the backend calls stable has the type foretold |
| Bytecode compiler (`src/compiler.c`, first half) | chunks, loop scopes, label patches, temporary names | lowering of each node | jumps recorded now and patched later | each jump reaches its own loop or label |
| VM variables and calls (`src/compiler.c`, second half; `src/eval.c` environments) | global frame, one frame and one Environment per activation | load, define, store, call, return | a slot counts only once execution has bound it; until then the name means something else | it implements scoping by execution order |
| VM operand stack | 256 values | push, pop | a call's result is pushed unchecked | never beyond its limit |
| Runtime (`src/runtime.c`) | none | operators, casts | tags in and out, 64-bit edges | same answers in every backend |
| Window natives (`src/ffi.c`) | `windows[]` with its surfaces, `window_count`, `last_event` | create, destroy, poll, draw, sleep, prompt | state of the system read late | agrees with the host |
| Win32 host (`src/ffi_win32.c`) | its `windows[]` and DIBs, the event ring | open, close, `wnd_proc`, pump, push, pop | messages arrive inside any native that pumps; the ring overflows | bounded FIFO; no surface dangles |
| TOS host (`src/ffi_tos.c`) | slot table | the same over another system's calls | the system is not in this repository | - |
| C backend (`src/emit_c.c`) | call-site numbers, continue labels, the representation of each variable | two walks that count and emit; the analysis of native slots | walks that must agree; what the C compiler is free to do; a value in a slot that cannot hold it | does what the VM does |
| Assembly backend (`src/emit_asm.c`) | scratch slots in use, break and continue labels, the frame | two walks that count and emit | a scratch slot or an argument outside of the frame; a destination that is still needed | does what the VM does |
| PE backend (`src/emit_pe.c`) | file layout | write | none over time | - |
| Tree walker (`src/eval.c`) | Environment chain | recursive evaluation | - | - |
| Command line (`src/main.c`) | temporary files | run, emit, test | none over time | - |

How they interact: `main.c` runs the passes in order over one tree. The
resolver's tables are read by every backend. The VM calls natives
synchronously; a native that pumps lets the system call `wnd_proc`, which
changes the host's tables and pushes onto the ring; `WinPollEvent` pops the
ring and rebinds the script's surface. There are no threads: all interleaving
is between the script's calls and the system's messages, inside the pumps.

The hazards this gives rise to are listed at their lines in `PROJECT.json`,
with the properties that cover each or the reason none does yet.

## Modules

| Module | Role |
|---|---|
| `NameScope` | Abstract: what a program is promised about its names. A scope is a partial map; a declaration takes effect when it runs. |
| `SlotFrames` | The VM's variables: frames of slots with active bytes, the fallback chain, the Environment chain, calls and returns. |
| `MCSlotFrames` | The program TLC runs it on. |
| `SlotFramesProofs` | The proofs about `SlotFrames`, the refinement of `NameScope` included. |
| `EventQueue` | Abstract: a bounded first-in first-out queue that drops its oldest entry. |
| `EventRing` | `push_event` and `pop_event` over the array, head and count. |
| `MCEventRing`, `EventRingProofs` | Its instance and its proofs. |
| `Windows` | Both window tables, the DIBs, the queue (as `EventQueue`), the pump. |
| `MCWindows`, `WindowsProofs` | Its instance and its proofs. |
| `SlotTables` | What the VM's frames need of the resolver's tables; assumed by `SlotFrames`, established by `Resolver`. |
| `Resolver` | The passes of `HDResolveProgram` and the tables they fill. |
| `MCResolver`, `ResolverProofs` | Its programs, and its proofs: about names and slots, and from those about bindings, fallbacks and refusals. |
| `Bodies` | Statement lists, the language `Structured` explains and `Lowering` compiles. |
| `Nesting` | Where an item of a list stands in the tree that it was: what `Lowering` may assume of a program. |
| `Structured` | Abstract: what a statement list means; `Bytecode` and `Emitted` both implement it. |
| `Lowering` | The compiler: chunks, loop scopes, label patches, temporary names, the entry call. |
| `Bytecode` | The VM on the chunks `Lowering` made: jumps, operand stack, `foreach` temporaries. |
| `LoweringProofs`, `BytecodeProofs` | The proofs about both: one lemma per item compiled, then programs and the machine. |
| `MCBytecode` | Their programs. |
| `Trees` | Statements as trees, as the parser leaves them, and the list (`Bodies`) that each tree is. |
| `Target` | The instructions, labels and locations that both native backends emit. |
| `AsmFrame` | Pure: where the assembly prologue puts the parts of a frame. |
| `AsmEmit` | The assembly backend: scratch slots counted and handed out, control flow, the entry call. |
| `CEmit` | The C backend: call-site arrays counted and used, control flow, the entry call. |
| `Emitted` | What the emitted code does, one instruction a step. |
| `MCEmitted`, `EmittedProofs` | Its programs, and the proofs about the frame and both emitters. |
| `Values` | The runtime's values by their tags, its operators and conversions, and expressions. |
| `TypeCheck` | The types of symbols and expressions. |
| `BoxedProgram` | Abstract: what a program's variables hold when every value keeps its tag. |
| `Natives` | The analysis of native slots, and both backends' variables: declarations, loads, stores, frames. |
| `MCNatives`, `NativesProofs` | Its programs and its proofs. |

### SlotFrames and the code

`globalFrame` is `vm.global_frame`; `globals` is the Environment
`HDRunProgram` creates; `frames` is the C stack of `call_function` activations,
each with its `HDFrame` and its child Environment. Every variable opcode is an
action (`Load`, `Define`, `Store`, and `LoadTemp`, `DefineTemp`, `StoreTemp`
for the names the `foreach` lowering invents), a call and a return are actions,
and `Fault` stands for every other way an instruction ends the run. `Operand`,
`Fallback` and `HasSymbol` are what `emit_variable` and `fallback_slot` decided
when they compiled the name. `seen` is the value the last load pushed. The
program is not fixed: any instruction of the current chunk may come next, so
what holds, holds for every control flow the compiler can produce. The operand
stack is abstracted: an instruction that pops gets any value.

A frame's slots start as `Junk` because `malloc` and the C stack do not clear
them; only the active bytes are cleared. Two properties turn on that.

### Windows and the code

`host` is `windows[]` of `ffi_win32.c` with its DIB, `table` is `windows[]` of
`ffi.c` with its surface, `native` says which native the script is inside of. A
native that pumps is a Begin action (what it does before the pump), any number
of `InputMessage` and `SizeMessage` steps (`wnd_proc`), and an End action (what
it does with the result). A DIB is the address of its pixels, and an address
that was freed may be handed out again. `gen`, `refs` and `missed` are history
variables that tell two windows with one handle apart; no guard but the bound
on creations reads them. Window sizes, titles, the status strip and the
contents of input events are left out. A native that is refused (bad arguments,
a full table, a failing system call) changes nothing and is left out as a
stutter.

### Resolver and the code

A scope's body is the list of its nodes in the order `visit_children` reaches
them. A `foreach` or a loop opens a body that an `end` closes, so that the walks
over statement structure need no tree; a node reached twice (the desugaring of
`arr[i] += v`) appears twice. `walk` is the pass, `scope` the resolver's
`function_index`, `pos` the node the pass is at, and `EndWalk` goes on to what
`HDResolveProgram` calls next. One node (parameter, symbol) is one step, and
each pass has its action: `AddParameter`, `CollectExplicit`,
`CollectImplicit`, `LinkFallback` (which appends to the list it goes through),
`ResolveNode`, `CollectLabel`, `BindGoto`, `CheckLoop`. An error ends the walk,
as `had_error` makes every later visit return at once. `SlotTables.FrameFits` is
stated once for both sides: what this module's `TablesFitFrames` says of the
tables is what `SlotFrames` assumes of its constants. Running out of memory, the
hash index over the bindings and the printed tables are left out.

### Lowering, Bytecode and the code

A body lists its statements and operators in the order the compiler reaches
them, and one item is one step of `Compile`. What a recursive compile function
keeps in local variables between two items of its construct (`else_jump`,
`loop_start`, `exit_jump`, the names of the temporaries) is an entry of
`nested`; `loops`, `labels` and `pending` are the compiler's own lists; a patch
changes the instructions already in `code`. `if` stands for the conditional
statement and the ternary, `loop` for `while` and `for`. `Accepted` is what the
resolver lets through (`RefusesExactly` of `Resolver`). `FinishChunk` is the end
of a chunk in `HDCompileProgram`: the entry call, the implicit `return 0`, and
the pending gotos. Of what the resolver accepts the compiler refuses an
expression that the bytecode has no instruction for, a member of an object or a
cast to a string (`unsupported`; `LowerUnsupported` with `compile_error`), and
`AcceptedCompiles` says that it refuses nothing else. The operators that
`compile_node` refuses (`compiler.c:534`, `586`) are not among those the parser
makes. A call of the entry point with arguments is one of it for `chunk_calls`,
which compares names, and is refused at run time.

When all chunks are finished, one activation of one of them runs: a call of
another function takes its operands and leaves any value, because every
activation of `run_chunk` has its own stack and instruction pointer. Which value
an operand or operator computes is left to chance and so is whether it fails;
the arithmetic a `foreach` counts with is exact. `Call` at a full stack writes
past the array, as `call_function` does not ask; the status is then "undefined"
and nothing is promised.

`item` and `after`, two fields of an instruction the VM never reads, say which
item it was compiled from and whether that item's effect is already had; they
define the refinement of `Structured` (`AbsAt`, `AbsVals`, `AbsTurn`). A body's
meaning is one step per item there, without addresses, patches or temporaries.

The second variable of a two-name `foreach`, a copy of the hidden index, is left
out.

### AsmEmit, CEmit, Emitted and the code

A tree is a list of nodes, parts before what they are parts of; a node is a kind
and its parts in the order they are executed. `Items` lists a tree as `Bodies`
and `Structured` want it, so that both kinds of backend, the VM's and the native
ones, are held against one meaning. What the code computes by recursion over the
tree (`scratch_for`, `Counted`, `calls_name`, the emitted code itself) is a
function over nodes, each given what is known of its parts (`Parts`). What a
recursive emitter is told on the way down is its argument there: `ExprCode` and
`StmtCode` say for every node what is emitted for it in every context.

`emit_expr` and `emit_stmt` of `AsmEmit` are the functions of that name for one
node: each is told where the value goes (`dest`) and the first scratch slot that
is free (`next`). `scratch_for` and `max_args` are the walk ahead of them, which says how
much the frame must hold. `emit_expression` and `emit_statement` of `CEmit` take
the number of the next call site instead, and `Counted` is the walk ahead that
declares an array for each. C's own expressions are unfolded into the steps that
C promises; where it promises none, which operand of a call comes first, `Order`
says what the compiler at hand does.

Unlike in `Lowering`, which models the compiler one item at a time because
patches to earlier instructions are what could go wrong there, here the emitters
are operators and `Init` applies them: they write forwards only, and what could
go wrong is in the relation of two walks. `Emitted` runs the result.
`mem` is a partial function: reading a slot that nothing wrote violates `TypeOK`.
`live`, a field of an instruction that no step reads, lists where the values are
that are computed and not yet used; it defines the refinement of `Structured`, so
that a scratch slot written over while in use breaks it.

`AsmFrame` keeps the numbers (bytes, alignment); the registers of arguments, the
constants and the names of symbols are left out, as is everything about classes.

The three walks that look for a call of the entry point differ (`chunk_calls`,
`calls_name`, `stmt_calls`). A tree therefore tells a call of it (`main`), with
arguments or without, from its name read as a variable's (`mention`): a bare name
is a call only where it is a whole statement.

### Values, TypeCheck, Natives and the code

A value is its tag, the tags of its elements, and the statement that made it; a
conversion that keeps nothing of a value (the `.i64` of a string, which is 0)
gives `Lost`. So a value that reaches the wrong half of a box shows up, and no
arithmetic is needed. An expression is a list of its nodes, operands before
their operators, so that what is computed bottom up (its types, what is stable,
its value, the code's value) is a function over nodes: `infer_expr`,
`expression_representation_is_stable`, `Eval`, `Emitted`, each defined by what it
does at one node (`infer_node`, `stable_node`, `EvalNode`, `emit_node`), given
what is known of the operands. `infer_expr` and `check_stmt` are the type checker's;
`types` keeps the symbols' types before each statement and after the last one,
because the checker types a read by what it has seen so far and the backend asks
for the types at the end. `analyze_native_slots` and
`expression_representation_is_stable` are the C backend's, `unsafe` its
`unsafe_symbols`. For the assembly backend every symbol is boxed, and the same
actions are its loads and stores.

A symbol's first type is `seed_symbol_types`', which looks at two things that
`add_symbol` keeps apart: the flags, OR-ed over all of a name's declarations, say
in which member of the declaration the type is found, and the declaration is the
first one's node. A `foreach`'s value and a variable have their types in the same
place of the node, so that either flag finds the first declaration's type; for a
name that is one loop's index and another's value that is the type of the value
variable's place, whichever of the two the name stands in. Where a loop has its
index's type, a variable has its initialiser (`IsMisread`), which is then read as
the syntax of a type. What comes of it depends on the kind of expression
(`Followed`): the numbers of the kinds of nodes and of types overlap, so that a
name, a string, a float or an operator is taken for a type that has another, whose
address is a place in the source, and the compiler crashes; a number is taken for
a named type, which is compared with the known names, at an address that is the
number, only if its length is that of one of them: it may give the error type or
crash; every other kind is no type at all, and gives the error type; and a
variable without an initialiser is untyped. `Seed` is this step, and `crashed` its
end, which `types_misread` reports: in the repository, `I64 i = j; foreach (i, v;
arr) {}` ends with a segmentation fault in every mode.

The passes are steps: `Seed` gives the first types, `HDTypeCheckProgram` checks a
statement at a time, `StartEmitting` marks the values of `foreach` loops unsafe,
`analyze_native_slots` one more symbol, and `Run` follows when there is no other.
The code goes through the symbols in the order of the table, again and again; here the next is any
that is unsafe by what is known, so that what holds does not rest on the order.

A program is a top level and one function. Each of its statements may stand in a
conditional and all of them in a loop, so an action may execute any statement of
the running scope; what holds, holds whatever the control flow. `bound` are the
companion bits, `Leads` the chain own slot, global, Environment that `emit_load`
and `emit_store_open` spell out.

The analysis does not look at everything: the program must keep five agreements
(`AllAgree`) for generated code of the C backend to do what the VM does, and
nothing in the code refuses one that does not. They are predicates on the analysis'
result and no assumption: the runs and the theorems are about all programs,
`Covered` says of a state that the backend is the assembly backend, the program is
not yet run, or all five are kept, and a property names what it needs of them.
`TypeOK` needs none, `StableIsTyped` the last two (`MeaningsAgree`), and
`CoveredLosesNothing` and `ImplementsBoxed` all. Each is needed: without any one of
them TLC finds a difference.

| Agreement | Without it |
|---|---|
| `DeclarationsAgree`: every declaration of a native variable gives it a stable value | `int x = 1; int x = "a";`: only the first declaration is looked at. This one contradicts the code's own comment and is a finding (`natives_redeclared`). |
| `ArgumentsAgree`: a typed parameter gets an argument of its type | `F(int p)` called with a string. The comment calls parameters typed boundaries. |
| `IndexesAgree`: no `foreach` index is an `F64` | The counter, an int, comes out as a float. |
| `FallbacksAgree`: a local and the global that it means until it is declared have one representation | `int g = 1;` and a function that assigns `1.5` to `g` before its own `F64 g`: the global's slot cannot hold it. |
| `ConstantsAgree`: no `F64` variable has a runtime constant's name | Read before it is declared, the constant, an int, comes out as a float. |

## Runs

| Run | Shows |
|---|---|
| `frames_vm` | `TypeOK`, `ActiveIsInitialised`, `ParamsActive`, `EnvIsScoped`, `StoreKeepsChain` and the refinement `ImplementsNameScope`. |
| `events` | `TypeOK`, the refinement `ImplementsEventQueue`, and `OldestLeaves` under fairness. |
| `windows` | `TypeOK`, `TablesAgree`, `CountIsTable`, `SurfaceFollowsResize`: the two tables agree, the counter is right, and what the script draws on follows what the host shows. The queue is `EventQueue`'s own operators, which `events` shows the ring to implement. |
| `stale_handle` | Violation: a handle kept after `WinDestroy` finds the next window that is given its slot, although the comment at `src/ffi.c:221` calls that a lookup miss. |
| `frame_surface` | Violation: a resize dispatched inside `Sleep` frees the pixels that the script's table still names until the event is polled. |
| `resolver` | `TypeOK`, `TablesFitFrames`, `ParametersHaveSlots`, `BindingsFollowScope`, `FallbacksLeadOut` and `RefusesExactly`: what the passes compute node by node is what the program's text says, whatever the order it says it in. |
| `bytecode` | `TypeOK`, `JumpsLand`, `AcceptedCompiles`, `TempsDistinct`, `StatementsLeaveNothing`, `OperandsAreThere`, `CountersBound`, `EntryRuns`, and the refinement `ImplementsStructured`: the compiled chunk does what the statement list means. |
| `emitted` | `TypeOK`, `FrameHolds`, `TempsDeclared`, `EntryAgrees`, `SlotKeptUntilBound`, and the refinement `ImplementsStructured`, of both native backends: what they emit does what the statement list means, in a frame and in call-site arrays that hold it. |
| `call_order` | Violation: `f() - g()` is one C call with both as arguments; with a compiler that evaluates the right one first (gcc on x86-64 does, at -O0 and -O2) `g` is called before `f`, where the comment at `src/emit_c.c:1818` calls the order unobservable. |
| `natives` | `TypeOK`, of every program: what is kept in long longs and doubles is of their kinds. `StableIsTyped`, of those whose meanings agree: what the analysis foretells. `CoveredLosesNothing` and the refinement `ImplementsBoxed`, of the covered programs: no value is lost, and each step does what it would do with every value boxed. |
| `natives_redeclared` | Violation of `NothingLost` by a program that keeps the other four agreements: a second declaration is not looked at, where the comment at `src/emit_c.c:1015` promises every value which can enter a slot and `docs/roadmap.md:394` any declaration or write. |
| `types_misread` | Violation of `NonRejecting` (`docs/roadmap.md:388`): a variable that a loop later has as its index makes the type checker read the variable's initialiser as a type, and crash. |

**Bounds.** `frames_vm`: three names that between them are a shadowed global, a
runtime constant that the top level assigns over and a function declares, and a
plain local; two functions, one with an unnamed and a repeated parameter; two
values, so that two bindings of a name can be told apart; two activations,
enough for recursion and for a call of one function from the other. Scoping
looks at the current activation and the globals only, so a third activation
adds none that matter. `events`: a capacity of three and three kinds of event
cover empty, partly filled, full and overflowing at every head position.
`windows`: two handles, three creations (a handle is used again), a queue of
two (an event is dropped while a resize waits) and one address more than
windows (a freed one is used again or not); addresses are symmetric.
`resolver`: every program of three families. Two names in up to two statements
at the top level and up to two in a function with none, one or three parameters
(an unnamed and a repeated one) give every way a name can be declared before,
after or not at all in either scope. Up to six loops, ends, labels, gotos and
breaks give every nesting of two loops around a label and a goto; two functions
that use the same names show that neither's tables or labels reach the other.
`bytecode`: operators nested two deep, every construct around every pair of
leaves (a statement, `break`, `continue`, the label, the goto), every construct
around such a construct and a leaf, each before and after another leaf. A jump
is patched by its own construct, the innermost loop or the label, so that two
constructs around it and a neighbour on either side give every way to confuse
two of these. An expression that the bytecode lacks stands in each kind of place,
and the entry point is called with and without arguments. Values are 0, 1 and 2 (an array of up to two elements) and the
stack holds three operands, one less than the widest expression needs. Each
program runs to its end or for ever; no bound cuts a loop short.

**Fairness.** Only `events` assumes any: weak fairness of `pop_event`, because
a script's event loop polls again and again (`samples/gui.hd`; a script
that stops polling has stopped reading its events). Nothing is assumed of the
system: it may push for ever, or never.

**Deadlock** is checked except in `frames_vm` and the runs of `MCBytecode`,
`MCEmitted` and `MCNatives`, which end when the program does, and in `resolver`,
which ends with the last pass.

Each property has a mutant, defined just before the operator it changes and
marked as such: the bug the property is there to catch. No specification uses
them.

`emitted`: operators nested two deep, calls and arrays in each other, one call
with more arguments than registers, every construct around every pair of leaves
(as in `bytecode`) and around such a construct and a leaf. What a backend keeps
while it emits a construct is its own and its parent's, so that nesting two deep
gives every way to confuse them. The entry point is called, called with arguments
and mentioned, as a statement and inside of one. `HD_VALUE_SIZE` is the real 56.
`natives`: two globals, two locals and a parameter, one local and one global of
the same name; types `int`, `F64` and `auto`, an int, a float and a string; the
programs are nine families, each a question to the analysis: a local given two
values, declared twice, in a chain of two, inside of deeper expressions, over a
global that stands before or after the function, global, in a loop, a parameter,
and a variable or a loop's value that is also a loop's index, in either order and
with every outcome that a misread initialiser has. Of two misread symbols the
outcomes are not told apart; no program of the run has two.
The analysis goes from symbol to symbol, so that a chain of two and a cycle of
two are where its iteration matters.

**Assumed of the environment** in `emitted`: `Order` is "left", which is not what
C promises; `call_order` says what happens otherwise.

## Proofs

`SlotFramesProofs` proves, for any program (any names, functions, parameter
lists, slots, values and recursion depth that satisfy the assumptions in
`SlotFrames`):

* `TypeCorrect`, `SlotsInitialised`, `ParametersActive`, `EnvironmentsScoped`:
  the four invariants of `frames_vm`;
* `StoresKeepChain`: its action property;
* `Refinement`: `Spec => Scope!Spec`.

The invariants are conjuncts of one inductive invariant, `IInv`: the global
frame is well shaped and initialised, the program's Environment holds the
runtime's constants and the top level's temporaries only, and every activation
is a `GoodActivation`, which has a well shaped, initialised frame, bound
parameters and an Environment of its own function's temporaries only. None of
the four is inductive alone: a store may write a slot the chain found, so that
it is initialised rests on which slots are active; and the parameter clause
needs the frame's shape for the slot to exist. The proof has a lemma per action
for the invariant and a lemma per action for the refinement, each over a few
facts about the abstraction function (`Bound`, `AbsScope`, `AbsCalls`): what a
write to one slot does to the abstract scope rests on distinct names having
distinct slots.

The assumptions on the constants are the resolver's half of the bargain
(`SlotAssumption`: a scope's names have distinct slots inside its frame;
`TempAssumption`: no function's chunk uses the top level's temporaries;
`ScopeAssumption`, `ValuesAssumption`). TLC evaluates them on the instance;
`ResolverProofs` proves the first of the tables the resolver fills, and
`BytecodeProofs` the second of the chunks the compiler makes (`TempsDistinct`).

`EventRingProofs` proves, for every capacity and set of events,
`RingTypeCorrect` and `RingIsQueue` (`Spec => Queue!Spec`). The abstraction
reads the ring from its head; the work is arithmetic: no two positions of the
contents share an index, a push at `(head + n) % Cap` is an append, and moving
the head is a tail.

`WindowsProofs` proves, for any number of windows, events, addresses and
creations, all that `windows` checks: `WindowsTypeOK`, `WindowsTablesAgree`,
`WindowsCountIsTable` and `SurfacesFollow`. The first three are inductive but
for the shape of things. `SurfaceFollowsResize` is not: a queue left behind by a window
that was closed could hold events that a new window takes for its own. The
inductive invariant `IInv` adds `Generations` (every event in the queue carries
the generation of a window that was made, no two open windows share one, and
whoever has an event's generation is the window it names) and `Surfaces` (the
last resize waiting for a window says where its DIB is). A new window's
generation is above every one in the queue, so it finds no resize of its own
there; a poll that hands an event to a slot of another generation is what
`missed` notes; a push moves a window's last resize to the one just pushed, and
what it drops is noted too. The assumption is `WindowsAssumption`.

`ResolverProofs` proves, for every program:

* `ResolverTypeCorrect`: ids refer to entries that exist;
* `SlotAssumptionEstablished`: `TablesFitFrames`, the assumption that
  `SlotFramesProofs` starts from;
* `ParametersMapped`: `ParametersHaveSlots`.

The inductive invariant joins two facts. `WellFormed`: one symbol to a name and
owner, one slot to a symbol, no slot of a frame without a symbol. It is what
makes `find_symbol` a function of the name, and it is kept because a new symbol
takes the first slot its frame has not used. `NamesInv`: the table has a name in
a scope exactly when `Held` says so, which follows the pass and how far it has
come: the parameters before `pos`, then with those the declarations before
`pos`, then with those the assignments before `pos` that no global takes, and
nothing of the scopes still to come. The properties are statements about the
passes' end and say nothing of the middle, so that none is inductive by itself.
There is a lemma for what each table operation does (`AddSymbol`, `FlaggedTable`,
`FallbackTable`), one for each action, and `WalkComplete` for what a finished
pass has seen. The assumption is `ProgramsAssumption`: what the parser builds.

The second half of `ResolverProofs` goes on from that invariant. It proves
`LinksLeadOut` (`FallbacksLeadOut`). It adds which symbols are marked as
parameters by now (`FlagsInv`: exactly the names of the scope's parameters, once
that pass is over) and which are linked by now (`LinksInv`: those before `pos`,
and no symbol that the pass itself appended, since those are external and lead
nowhere). And it proves `BindingsScoped` (`BindingsFollowScope`), adding that every binding so far is explained by a node
of some scope (`AllExplained`) and every node the walk has been at has all of its
roles (`AllBound`, with `Seen` for how far the walk has come). That a name means
the same at its first use and at its last is `NamesInv`: the tables hold what the
whole text gives a scope before the first node is resolved, and what resolving
appends is external. The property is about all bindings of a node, so that it
needs `NodesAssumption`: a node that is reached twice is so in one scope, which
is how the parser shares the parts of `arr[i] += v`.

It also proves `RefusalsExact` (`RefusesExactly`). The property speaks of the
program's text, where a loop holds what stands between it and its end; the code
keeps a list of loops and compares nodes. The invariant (`RefusalInv`) says that
the list is the loops that are open at `pos`, each at the place its depth gives
(`Nested`); that there is a label recorded for each label the pass has been at,
with its innermost `foreach`, and no other (`LabelsAreThere`, `LabelsAreKept`,
`LabelsDiffer`); that what the passes over gotos and loops have been at was right;
and that an error was justified. Why the innermost `foreach` decides for all:
`JumpTest`, by `OuterHolds` (of two loops around the label, the outer one holds
whatever the inner one does). `BodiesAssumption` is needed: loops are closed, and a
`foreach`, being a statement, is reached once, so that its node names it.

`LoweringProofs` and `BytecodeProofs` prove, for every program, every chunk of it
and every limit of the operand stack, all the invariants of `bytecode`:

* of the compiler: `JumpsLandAlways`, `AcceptedCompilesAlways`,
  `TempsDistinctAlways`, from `CompilerInvariant`;
* of the machine: `TypeCorrect`, `NothingIsLeft` (`StatementsLeaveNothing`),
  `NothingIsMissing` (`OperandsAreThere`), `CountersAreBound` (`CountersBound`)
  and `EntryIsCalled` (`EntryRuns`), from `MachineInvariant`.

None of these is inductive: that a `break` lands with an empty stack rests on
what the loop's scope recorded when it was compiled, perhaps hundreds of
instructions earlier. The argument is the one by which a bytecode verifier works,
made while the code is still being written:

1. A *state* is what the compiler can know of the machine at a place in the code:
   the height of the stack and the temporaries that are bound. `Flow` says that a
   state is given to every place, such that each instruction finds its operands
   and its temporary there and leads from its own state to that of every place
   execution may go to next.
2. A jump that waits for its address has no next place yet. It is *promised* a
   state (`Promised`) by what remembers it: an open construct (`nested`), a
   loop's `breaks` and `continues`, or a pending goto. Patching it is sound
   because the place has the state promised, and no jump is forgotten: those
   without an address are among those remembered (`Unresolved`, `Remembered`).
   Likewise a loop's start and a label are places whose state is known.
3. Where an item stands in its tree (`Nesting`) fixes that state: the values that
   wait to be used, and the loops around it, whose temporaries are bound. So a
   `break`'s promise at the loop's head and the place at the loop's end agree. A
   goto's two ends agree because `Accepted` lets none enter a `foreach`; its
   pending promise is kept for the label that is still to come.
4. `BodyInv` is the conjunction of these for the body in hand, with the names of
   the temporaries so far (`Named`). There is a lemma per kind of item:
   `SimpleItem`, `TestItem`, `ElseItem` and so on; `FinishItem` shows a finished
   chunk `Complete`, with every jump inside of it.
5. `CompInv` adds the finished chunks, no two of which have a temporary in common,
   and that a top level without a call of the entry point ends with one. It is
   inductive by the lemmas of 4.
6. `RunInv` says that the machine is in the state foreseen for the place it is at
   (`Foreseen`). It is inductive by `Flow`, and each property of the machine is
   one clause of `Flow` read at the current instruction.

What is assumed of the constants: `ProgramsAssumption`, that each body is a tree
written down in order (`WellNested`): constructs close in the order they opened,
an operator has its operands, statements stand where no operand waits, and each
loop has a node of its own. It is how the compile functions call one another
along the parser's tree, and needs nothing of the program's meaning. Loops,
labels and gotos may be anywhere the resolver accepts. TLC evaluates it on all
programs of `MCBytecode`, where `MCNesting` computes the contexts.
`ValuesAssumption`: values are natural numbers (an array is its length, and of
the others only whether they are 0 is looked at).

`EmittedProofs` proves, for every number of variables, scratch slots and
arguments, every size of a value that is a multiple of 8, and every
`HD_MIN_ARGS`:

* `PartsApart`: no two parts of a frame (the destination's address, each
  variable, each bound bit, each scratch slot, each outgoing argument) share a
  byte;
* `PartsInFrame`: all of them are inside of what the prologue subtracts from the
  stack pointer, which stays a multiple of 16.

The assumptions are `SizeAssumption` and `ArgsAssumption`. The other half is that
the counts the frame is made with are large enough. `EmittedProofs` proves that
and its two companions for every tree, however deep, and for both backends and
either order of operands:

* `FrameHoldsAlways` (`FrameHolds`), `TempsDeclaredAlways` (`TempsDeclared`) and
  `EntryAgreesAlways` (`EntryAgrees`).

What is assumed of the constants: `ProgramsAssumption`, that a program is a tree
the parser can build (`TreeOK`), and `BackendsAssumption`. The state never leaves
`Emission`, that the code is what the emitter makes of the program, so that the
three are facts about the emitters. The argument:

1. *Recursion.* Each walk is a function over nodes that satisfies its own
   equation (`SizeIs`, `ScratchIs`, `CountedIs`, `ItemsIs`, `ExprCodeIs` and so
   on): such a function exists (`TreeRecursion`), as a node's parts come before
   it.
2. *Assembly.* `AsmUsing` says of a list of instructions that it uses only its
   destination, the register a short-circuit ends in, the variable's slot and the
   scratch slots from `next` up to what `scratch_for` gives the node, that no call
   in it has more arguments than `max_args` says, and that it is for the node's
   own items. If the parts' code does, so does the node's, by a case for each
   kind (`EmitExpr`, `EmitStmt`); so all code does (`ExprRight`, `StmtRight`), by
   induction over nodes. In each case the slots that the node holds while a part
   is evaluated are those the walk ahead adds for it (`Held`). `AssembledUsing`
   carries this over the resolution of labels, and the layout of the frame
   (`FrameRoom`) does the rest.
3. *C.* `CUsing` says the same of call sites: the elements used are those of the
   arrays that the node's own sites, numbered from `id`, have (`DeclaredFrom`).
   The numbers of the parts follow one another (`SlicesOf`, `SitesOf`), and the
   walk ahead counts what the emitter uses as long as no refused call has calls in
   its arguments (`CountedIsUsed`).
4. *The entry point.* A call of it at the top level's end is told from the body's
   own by the item it is for: a body's code is for the body's items (2 and 3), and
   the ending for the item after them (`StartsAtEnd`). The tree holds such a call
   exactly if there is one among the items (`NodeItems`, `ItemsRight`). The C
   backend's walk finds it unless it is in a conditional expression (`CallsSeen`),
   and the assembly backend's finds no more unless the name is mentioned
   (`MentionsSeen`). Without these exceptions the first sees no call that there is
   not (`CallsAre`) and the second every one that there is (`CallsAreSeen`).

`NativesProofs` proves, for every set of programs, symbols and names:

* `TypeOKHolds`: `Spec => []TypeOK`, of every program.
* `StableIsTypedHolds`: `Spec => []StableIsTyped`, in which `MeaningsAgree` is the
  antecedent: declarations, indexes and arguments may break their agreements.
* `CoveredLosesNothingHolds`: `Spec => []CoveredLosesNothing`.
* `ImplementsBoxedHolds`: `Spec => ImplementsBoxed`, which compares the steps of
  covered programs, and from the same lemmas `CoveredRefinesBoxed`: `Spec =>
  ([]Covered => Boxes!Spec)`.
* `AsmRefinesBoxed`: for the assembly backend the agreements are always kept, so
  that it loses nothing and implements the boxed program in every program.

The condition on a program is in the statement and nowhere assumed: of what the C
backend does with a program that breaks an agreement, only `TypeOK` (and mostly
`StableIsTyped`) is said, and `natives_redeclared` shows one that loses a value.
What is assumed of the constants: `NamesAssumption` (one symbol to a name and
scope), `BackendsAssumption` and `ProgramsAssumption` (expressions are what the
parser builds; a statement reads and binds what its scope has; arguments are
values). TLC evaluates them on every program of `MCNatives`. The argument:

1. *Nodes.* `Right` relates a node's type, its meaning, whether it is stable and
   what the code for it gives: as a box, its meaning; natively, if it is stable,
   its meaning too, or as a double the number that it is as an integer. If each
   symbol read is right (`ReadsRight`) so is every node, operands first
   (`NodesRight`, by `NodeFine`, `TypedNode`, `DirectNode`, `BoxedNode` and
   `ScalarNode`, each a case analysis over the kinds of node). That the emitter's
   test for native code, `direct_scalar_expression`, asks for enough is
   `DirectNode`.
2. *The analysis.* When it is over, `Newly` is empty: the first declaration and
   every assignment of a native symbol are stable. If the agreements say the same
   of what it does not look at, what a statement stores is of the type of the
   slot it is stored in (`DeclareIs`, `AssignIs`, `TurnIs`, `FrameIs`), also when
   that is the slot of the global that a local means (`FallbackIs`). In any case
   it is some value of the slot's kind, if one that is lost (`UnboxFine`,
   `EmittedFine`), and so `TypeOK` needs no agreement.
3. *The invariant.* `NothingLost` is not inductive: that a step loses nothing rests
   on what its reads find. `Inv` says in layers what each promise needs: of every
   program, that each slot that was written holds a value with a tag of its
   representation and that every variable that is bound and in scope was written
   (`ValuesShaped`); where the meanings agree, that what the runtime's Environment
   has under a native symbol's name fits it (`EnvFits`), which is what a stable
   read rests on (`ReadableRight`); where all agree, that nothing has been lost
   (`ValuesKept`). Before the program runs, it says that nothing has (`Unstarted`)
   and that a symbol which nothing binds has no type (`TypesRight`, `SeedKeeps`
   for the first types), without which one that the analysis skips could be
   native. There is one lemma for each action.
4. *The refinement.* Under `Inv` and `AllAgree`, the chain of bits that the code walks (`Leads`)
   and the chain of values in `BoxedProgram` lead to the same place (`SameLeads`),
   an expression's value there is its meaning here (`SameResult`), and each action
   writes what the abstract one does. The passes are stutters.

Only model-checked:

* `OldestLeaves`: liveness.
* `ImplementsStructured` of `bytecode`: where `Structured` continues after an
  item (`From`) is a recursive function of the item, too, and the mapping needs
  the addresses of all items at once.
* `TypeOK`, `ImplementsStructured` and `SlotKeptUntilBound` of `emitted`: that an
  instruction only reads what an earlier one wrote, on every way to it, needs
  what `LoweringProofs` has for `Lowering`, a state for every place in the code,
  and that no two labels are the same.

Liveness and ENABLED are beyond the prover, and so are RECURSIVE operators and
the library's induction theorems, which take an operator as a parameter. Where a
fact needs induction (`NodeInduction`, `Induction`, and that the functions over
nodes exist, `EvalIs` and `TreeRecursion`) it is made from the well-foundedness of the
natural numbers: of the nodes for which it fails there would be a least one.

## Not modelled

The lexer, the parser and the PE writer are data transformations with no
behaviour over time. The tree walker is a recursion over the tree with the
Environment that `SlotFrames` already has. Graphics and the BMP reader are
pixel loops. TOS calls a system that is not in this repository. UDP is plain
I/O. Of the C backend, classes (layouts, constructors, methods) are a second
language inside of it that no other backend has to agree with: left out, with
the types that only they use.

Amounts: `Values` tells tags apart, so that shifts out of range, negative powers,
divisions of the least integer, an integer beyond 2^53 cast through a double and
-0.0 are not told. Each is one test with one input.

Known differences that the properties except by name, each seen in the generated
output: a refused call's arguments are counted and not emitted, so that a later
call site may be given too small an array (`TempsDeclared`, `RefusesCalls`); the
native backends' two ways of misjudging whether the top level calls the entry
point (`EntryAgrees`, `Misjudged`); the four agreements of `Natives` beside the
first (`Covered`). The entry point's are these:

* The comment at `src/emit_asm.c:1316` counts a bare mention of the name as a call
  in statement position, and that at `1492` promises the VM's terms; `calls_name`
  counts the name anywhere (`1331`), so that `if (0) { I64 x = main; }` makes
  assembly leave the entry call out, where the VM and the C backend make it.
* The comment at `src/emit_c.c:2240` says that the C backend's walk mirrors
  `chunk_calls`; `expr_calls` has no case for a conditional expression, so that
  after `I64 x = 1 ? main() : 0;` the emitted C calls the entry point once more.
* All three decide by the text: the comment at `src/compiler.c:979` promises a file
  that calls `main()` itself exactly one call, and `main(); main();` gets two and
  `if (0) main();` none. `EntryRuns` is about files that do not call it.

## Plan

1. *Done:* the modules and proofs above.
2. `BindingIndex`: the hash index over the bindings finds what a scan of them
   finds first (`build_binding_index`, `HDResolutionBinding`), proved for every
   hash function.
3. Classes of the C backend: constructors and field initialisers run in order of
   inheritance, and the storage class of a symbol that has one.
4. *Done:* proofs about the compiler and the machine. Left of them: that the
   element a `foreach` reads is inside of the array (`get` never fails), which
   needs the values on the stack and not only how many there are.
5. `ImplementsStructured` for every program, which needs `From` and the
   contexts of `Nesting` brought together.
6. *Done:* proofs about what the native backends emit, where two walks must agree.
   Left of them: `TypeOK` of `emitted`, by a state for each place in the code, as
   in `LoweringProofs`, for trees whose jumps the resolver accepts.
