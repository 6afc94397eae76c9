# Verification of the OWIZ machine

TLA+ models of [owiz-lang](https://github.com/HardGraphite/owiz-lang), an interpreter written in
C. The modules are translated from the code under `src/src/`; paths below are relative to that
directory. `PROJECT.json` lists the runs, the mutants that show that a property can fail, the
correspondence between definitions and source lines, the findings and the hazards.

## 1 The system

| Part | State | Operations | Interacts with |
|---|---|---|---|
| object memory (`objects/objmem.c`) | new, old and big space; remembered sets; GC roots; weak references; `no_gc_count`, `force_full_gc` | allocate, record old-to-young reference, fast and full collection | everything that allocates; visits roots and fields through callbacks |
| hash map (`utilities/hashmap.c`) | buckets, chains, size | set, get, remove, clear, extend, reserve, shrink | symbol pool, classes, modules, Map and Set objects, code generator |
| symbol pool (`objects/symbolobj.c`) | hash map of all symbols, weakly referenced | find or create | collector (FINI, MOVE visits) |
| parser (`compiler/parser.c`, `ast.c`) | token queue, operator and operand stacks, expression parsers in use, protected nodes | one function per statement and expression form | lexer below, code generator above; leaves by `longjmp` on an error |
| code generator (`compiler/codegen.c`, `compiler.c`) | scopes, assemblers in use, constants and symbols | one function per node, each for evaluating, storing and calling | assembler, symbol pool, module objects |
| assembler (`compiler/assembler.c`) | labels, instructions, addresses | append, place a label, output in two passes | function objects |
| call stack, interpreter (`machine/stack.c`, `machine/invoke.c`) | value stack, frame list, `ip`, current function and module | one step per opcode, call, return, raise | objects, collector (stack is a root; registers are committed before allocating) |
| module manager (`machine/modmgr.c`), module objects | search paths, module cache, `temp_module` | search, load, reload | compiler, `ow_machine_run()`, collector |
| C API (`toplevels/api.c`) | the value stack and the frames of the machine | push, make, read, store, drop, invoke, jump | interpreter; native functions call it back |
| class objects (`objects/classobj.c`) | attribute and method map, methods, statics | load native definition, find, add | hash map, symbol pool, no-GC regions |
| utilities, library modules, command line | – | I/O, text, platform | – |

What is hard: a collection may happen at every allocation and moves objects; correctness of the
fast collection depends on a write barrier and on the order of marking; the full collection moves
objects, and the classes their sizes are read from, over one another; allocation loops rely on
collections making room; the parser and the native functions leave by `longjmp` from any depth and
are used again; jumps are given their widths before all addresses are known; the interpreter keeps
registers and pointers in local variables while it calls what changes them; modules import one
another, and themselves, in the middle of being initialised. There is one thread: the interleavings
are those of program, allocator and collector steps, of nested invocations, and of a client with the
machine it calls and is called by.

Properties that make the parts correct:

* object memory: a reachable object keeps its storage, content and class; flags and remembered
  sets agree with the spaces; collections and allocations end;
* hash map: it is a dictionary whatever rehashing happens;
* symbol pool: equal strings give the same object while it is alive, and dead symbols leave;
* parser: the tree is what the grammar's precedence says, no token is lost, nothing stays borrowed,
  and an error leaves no trace in the next source;
* compiler and interpreter: generated code is stack-balanced on all paths, jumps go to their labels,
  running it gives what evaluating the tree gives, and calls, returns and exceptions restore the
  stack;
* module manager: what can be found is complete and initialised once; failures leave nothing behind;
* C API: a call sees its own arguments and values only, whatever counts and indices a client passes.

## 2 Modules

### ObjMem – the generational collector

Objects are identities with a space (`free`, `new`, `old`, `big`), a class, fields and the flags
MID, MRK and "remembered". All small objects have one size, so capacities count objects.
Addresses do not occur: moving within a space is invisible, promotion changes the space.

| Model | Code |
|---|---|
| `space`, `mid`, `mrk`, `cls` | flags OLD, BIG, MID, MRK and value CLS of `struct ow_object_meta` |
| `rem`, `Remember` | remembered sets of old chunks; `PTR & 0b0100` of large objects |
| `roots`, `Builtin` | GC roots: the call stack (registered last, visited first) and the builtin classes |
| `SetField`, `RecordO2Y` | `ow_object_set_field()`, `ow_object_write_barrier()` |
| `BeginAlloc`, `AllocDone`, `AllocRetry`, `AllocGrow` | the retry loops of `ow_objmem_allocate()` and `ow_objmem_allocate_ex()` |
| `StartGc`, `CallGc` | `ow_objmem_gc()`, from the allocator and from `sys.gc()` |
| `VisitObject` with `Skips`, `MakesMid`, `FieldOp`, `ChildVisits` | `_ow_objmem_visit_object_do_mark()` and the four marking functions; the C recursion is `stack` |
| `ScanRemembered`, `NextPhase` | steps 1.1 to 1.3 of `gc_fast`, step 1 of `gc_full` |
| `FastCopy`, `FullCompact` | the remaining steps of `gc_fast` and `gc_full` |

Marking is one step per visited object because the order of visits decides which objects become
MID. The rest of a collection runs without touching a program variable and is one step.
When a collection would visit a freed object (possible, see the findings) the outcome is undefined
in C; the model stops in `pc = "undefined"`. An identity is reused only when no reference to it is
left, so a dangling reference is never mistaken for a valid one.

### Compaction – gc_full on addresses

Chunks are arrays of cells; a cell remembers whose content it holds. The steps are those of
`gc_full` 3 to 5, object by object: storage is reserved by an iterator sliding over the chunks
(`ReallocOld`, `ReallocYoung`; `fwd`, and `kept` in the order of reservation), class pointers of
marked objects are updated (`UpdateClasses`), objects are moved in ascending order (`MoveOld`,
`MoveYoung`), the chunks are truncated (`Truncate`). `walk` and `at` are the walk under way and the
object it has reached; `stay` are the young survivors that are not promoted. A walk needs the size
of each object and reads it through the class pointer (`ReadsSize`), so it depends on cells being
moved meanwhile. Which objects are alive, and which young ones are MID, is arbitrary, except that
the class of a live object is alive. The big space and the young objects' own storage, which a full
collection copies to a separate chunk, have no cells.

### HashMap and Dictionary

`HashMap` models every function of `hashmap.c` as an operator on a record of buckets and an
action per call; `Dictionary` is what `hashmap.h` promises, partial functions, the last call
with its arguments, and its result. `IsDictionary` is the refinement, with `Contents`, the pairs in
the chains, for the dictionary's content: each call of the hash map is the same call of the
dictionary. A reduction modulo zero (an empty map that was shrunk) kills the process
(`DivideByZero`, `fault`); the call does not return, and the dictionary stutters. The walks over the
buckets, in rehashing and extending, are recursive functions, not `RECURSIVE` operators, so that
they can be reasoned about.

### SymbolPool

The pool of `symbolobj.c` next to a full collection, in the order of `gc_full`: dead symbols are
taken out of the pool one by one, the living ones get new places, the pool and the holders are
updated, then the symbols move. Looking up and allocating with insertion are separate steps, so that
a collection may come between them; `wanted` is the string for which a symbol is being made. `pool`
holds addresses, and `heap` what is at each address.

### Parser, Grammar, ParserSession

`Parser` follows `parser.c` function by function. A parser state is a record of the token queue,
the switches for line ends, the expression parsers (operator and operand stacks) and the tree being
built; an operator maps states to states, and a state with an error is final, which is how the model
writes `longjmp`. `Grammar` writes a tree as doc/grammar.md does, with no parentheses but the needed
ones: the reference that parsing has to invert. `ParserSession` gives one parser any sequence of
tokens up to a length, or a printed tree, again and again.

### Assembler

Instructions and labels are appended in any order; `ow_assembler_output()` is one step per
instruction and pass. Widths of operands are constants, so that the limits of 8 and 16 bits are
within reach of small programs. An opcode is reduced to narrow or wide, which is what the second
pass goes by.

### Bytecode, Codegen, Machine, Programs

`Bytecode` is what compiler and interpreter share: instructions, function objects, the constants'
values, and doc/bytecode.md's stack-change column (`Pops`, `Pushes`) with what follows from it for a
function: `Depths` are the depths of stack at which each instruction can be reached, and code is
`Verified` when there is one for each, nothing is taken that is not there, and it is left by a return
only. `Codegen` maps the parser's tree to function objects: scopes, constants and symbols
(deduplicated as in the assembler), the three actions on a node, both branches and loops, errors.

`Machine` is `invoke_impl()` with the call stack: an action per group of instructions, with the
invocations under way in `acts`, each with its registers, and with what was committed in `regs`. A
native function that calls back is a nested invocation. It knows nothing of the compiler:
`MachineSpec` is the interpreter under any host, which may put any value on the stack, with any code,
and do with stack and modules what it likes while no invocation is under way (`HostInvoke`, `Host`,
`Reboot`). An operand that is no index of a constant, symbol or local is refused as the code refuses
it.

Every allocation may be preceded by a collection, which marks and updates the stack up to the
committed stack pointer only (`ow_callstack_gc_visitor()`). What lies beyond it, in slots that some
invocation uses (`Unprotected`), holds references to objects that may be reclaimed, and that a full
collection moves whether they are reachable from elsewhere or not; small integers, `nil`, `true` and
`false` are out of its reach. `Allocated` gives the stacks that an allocation may leave: any of these
references is `Junk` from then on. The instructions that call `STACK_COMMIT()` first have nothing
beyond `sp`; `LdFlt`, integers that are not small, `LdMod` of a module that is not loaded, and the
exceptions made in `invoke_impl()` itself allocate with what was committed before. Looking at a stale
reference (its class, its fields, its method), by an instruction, by the unwinding of an exception or
by a later collection that finds it committed (`MeetsStale`), is undefined: the story ends with `Lost`
as its outcome (`Stray`), apart from the other undefined behaviour (`Undef`), so that a property can
tell them apart. Passing a stale reference on is not undefined. Slots above every stack pointer, and
references inside containers, are not followed.

`Programs` composes all of it the way `modules/repl.c` does: each source is a printed tree, parsed
by `Parser`, generated by `Codegen`, run by `Machine` in the module of the earlier sources, and
compared with `Eval`, an evaluation of the tree. `Eval` notes in `alloc` whether the source
allocates, or raises an exception; `ResultCorrect` lets such a source, and no other, end by
following a stale reference (`Lost`) or find one in the place of a value (`Agree`), and demands in
all other respects the value that was evaluated. `IsMachine` says that a session is a behaviour of
`MachineSpec`, so that what is proved of the machine holds for sessions. Where the implementation is
known to depart from the documented meaning (section 6), `Eval` says `open` and the properties say
nothing of the session from then on.

### ModuleManager

Loads, runs and initializers with a stack of their own: `ow_module_manager_load()` in the steps
between its allocations (`Lookup`, `MakeModule`, `FillNative`, `CompileOk` and `CompileFails`,
`Store`, `Return`), collections between them, `ow_machine_run()` with the initializer and `main`,
imports from initializers, and failures at every stage. Modules are identities: a collection
reclaims them but does not move them, so that the pointer by which `ow_machine_run()` clears the
initializer after it has run (machine/invoke.c:1226, no root, stale after a full collection) always
designates the module here. `Circular` says that a name imports itself,
directly or through others, as membership in closed sets of names, which avoids recursion. An
embedded, a dynamic, a source and a byte-code module and a name that is not found are the constants
of the instance.

### ApiValues, CApi, ApiFrames

`CApi` has an action per API function on the registers `sp` and `fp`, the frame infos, a jump buffer
per call, and the module's variables. The client is arbitrary: host or native function, it may call
any function with any index or count within the bounds, return with any number of values, or jump. A
native function returns to its caller through the epilogue of `invoke_impl()`. `ApiFrames` is what
`owiz.h` promises, without a shared stack: every call has a callee, arguments and values of its own;
`IsFrames` is the refinement, with the sequences cut out of the stack: `Cur` is the call under way,
between `fp` and `sp` with its arguments below, and `Outer` the calls that wait for it, each between
the frame base its successor has saved and its successor's arguments.

### MC modules and mutants

`MCObjMem`, `MCCompaction`, `MCHashMap`, `MCSymbols`, `MCPrograms`, `MCModules` and `MCCApi` give
constants their values. Operators commented *Mutant* are not used by any specification: each is a
plausible wrong version of the definition behind it, named under "mutants" in `PROJECT.json`.

## 3 Runs

| Run | Shows | Bounds |
|---|---|---|
| `heap` | `TypeOK`, `FlagsConsistent`, `FastMarkComplete`, `LiveKept` | 3 objects, 1 field, 2 slots, 2 objects per chunk, one no-GC level; young, old and large allocations, requested and forced collections |
| `progress` | `FullMarkExact`, `CollectionEnds`, `AllocationReturns` | a class of the program, which is allocated like any object, and two objects, which may be its instances; young, surviving, large and huge allocations; one object in a new chunk, two in an old one and one large one before the threshold, so that promotion fails and full collections are forced; one no-GC level |
| `compaction` | `TypeOK`, `NeverMovesUp`, `ContentsIntact`, `LiveWalksOn`, `NeverAborts`, `ChunksConsistent` | 3 classes, 3 instances of one or two cells, chunks of 4 cells; 5 chunks are never exceeded |
| `hash_map` | `NodesInPlace`, `IsDictionary` | two maps, 3 keys that collide, 2 values, growing from no bucket |
| `symbols` | `SymbolsUnique`, `PoolSound`, `HeldKept` | 4 strings, three in one bucket, one too long for the old space; 4 places |
| `assembler` | `TypeOK`, `CodeFits`, `JumpsLand` | 5 instructions, 2 labels, narrow operands up to 3, wide up to 10 |
| `parser` | `Balanced`, `SourceKept`, `GrammarRespected`, `Reusable` | every sequence of up to 3 of 14 tokens, a lexer error among them, and trees of two levels over all forms; sources follow one another without bound |
| `programs` | `ResultCorrect`, `CodeVerifies`, `StackAsDocumented`, `InvocationRestores`, `CallersKept`, `IsMachine`, `GlobalsKept`, `Terminates` | sessions of 2 sources; 24 stack cells, operands of 4 and 7, small integers up to 30 |
| `modules` | `ModulesWhole`, `InitialisedOnce`, `CacheStable`, `Ends` | 7 names of all kinds, a self-importing module and one that fails at any stage; 4 requests, 7 module objects, 4 nested calls |
| `c_api` | `FramesNested`, `CallerKept`, `IsFrames` | 4 cells, 2 nested native calls, indices from -2 to 2, containers of at most one element, one made at a time, in one of the first two cells; 3 values of a call; buffers saved while the call has at most one value |

The type invariants of `HashMap` and `ModuleManager` are proved (section 5) and have no run.

The bounds are small but let every hazard happen. Two objects and the builtin class make cycles,
old-to-young chains and failed promotions; two sizes make chunks end with unused cells; three keys
outgrow the smallest bucket array. In `progress` the class has instances, young and promoted ones,
that keep it alive or outlive it. Five instructions reach both sides of the narrow limit forwards
and backwards. Three tokens are enough to leave any construct half open, and printed trees reach
what three tokens cannot. Two sources show what one leaves for the next, a failed one included;
integers over 30 cross the border of small ones; sources that hold two or three objects on the stack
while they allocate, and call or import meanwhile, lose them. With four cells every count of the C
API runs into the frame below it, and two nested calls give a jump something to leave; what the
values are does not matter to the frames, so few containers and few buffers are enough. In `c_api`
the view drops the return value, which is written and never read, and the host's jump buffer, which
is never accepted.

Two runs end in a violation; `findings` quotes the lines they contradict:

* `live_young_lost`: an old object A refers to a young B that is also on the
  stack. `gc_fast` marks B from the stack first, so B is not promoted; then it deletes all
  remembered sets. When B is popped, the next `gc_fast` reclaims it although A refers to it.
* `long_jump`: `ow_assembler_output()` widens the opcode of a forward jump that does not fit in 8
  bits, but of a backward jump only the operand, so that a long loop jumps elsewhere.

## 4 Fairness

`ObjMem!FairSpec` adds weak fairness of `Allocator` and of `Collector`; `ModuleManager` has weak
fairness of its own steps and of `Collect`, since an allocation that finds no room collects;
`Programs` has weak fairness of starting, stepping and ending a run. All of them are straight-line C
code and loops of the one thread: once entered they run until they return. The
program that allocates, the host that requests modules and the user who enters sources are not fair.

`AllocationReturns` excepts an allocation that is `Stuck`: the program has asked for a no-GC region,
in which `ow_objmem_gc()` returns at once and only the huge kind goes on without a collection; or a
surviving (SURV) or a large allocation waits for room in a space that live objects fill, where the
code neither raises the threshold nor takes another chunk (objects/objmem.c:1571-1576 and
1612-1617). In every other state the loop must end.

`Ends` and `Terminates` allow an exhausted stack, which the code does not check and the models end
in a state of its own; no source of `Programs` loops for ever.

## 5 Proofs

`ObjMemProofs` proves, for every finite set of objects and every value of the other constants
allowed by `ObjAssumption`, `SizeAssumption` and `KindAssumption`:

* `TypeCorrect`, `FlagsAreConsistent`;
* `FullCollectionIsExact`: `Live \subseteq mrk` and `mrk \subseteq LiveWithClasses` when
  `gc_full` sweeps;
* `FastCollectionIsComplete`: reachable young objects are marked when `gc_fast` sweeps, if the
  remembered sets are complete;
* `LiveObjectsAreKept`: the action property `LiveKept`.

None of the marking properties is inductive. `MarkInv` adds: which variables each phase uses
(`PhaseInv`); that pending visits have the operations the current collection uses (`VisitInv`);
for full collections, that everything marked is reachable, every root is marked or still to be
visited, and every field of a marked object is marked or pending (`FullInv`: the tri-colour
invariant with `stack` as the grey set); and its counterpart for fast collections, restricted to
young objects and with the unscanned remembered objects as a second grey set (`FastInv`). When
stack and `todo` are empty, the marked set is closed under fields and contains the roots, hence
contains the least such set. Reachability is defined as that least closed set, which avoids
recursion.

`AssemblerProofs` proves, for every number of instructions and labels and all widths allowed by
`WidthAssumption`: `TypeCorrect`, `CodeFitsAlways` and `JumpsLandAlways`. The last says where a jump
lands in terms of the addresses of the first pass, the code in terms of the bytes of the second. The
invariant `IInv` says: labels and targets refer to what exists (`LabelsOK`, `TargetsOK`, `PlacedOK`);
until the first pass reaches it, an instruction is as it was appended (`EditOK`); behind the first
pass, consecutive addresses are apart by the size of the instruction, by no more than the widest
size, and a jump has the operand its label's address gives (`Laid`, `Spread`, `MeasureOK`, `Narrow`);
behind the second, code and addresses agree byte for byte (`OutputOK`, `EmitOK`). `Spread` is why the
forward jump's estimate, a count of instructions, is enough.

`CApiProofs` proves, for every stack size, every client and every value of the bounds:

* `CallsStayNested`: frames are nested within the stack and jump buffers describe the calls that
  saved them. `FramesNested` is inductive as it stands: that a jump is accepted only if frame base
  and frame info match needs the relation between buffers and frames, which is a conjunct of it. The
  lemmas `InFrameStep`, `PopToStep` and `UnwindStep` carry the three ways of moving `sp`: within a
  frame, down to its base, and out of it.
* `OuterCallsKept`: the action property that no step changes a cell below the call it belongs to,
  the callee and the arguments of that call excepted.
* `ImplementsFrames`: `Spec => IsFrames`, the refinement. Every step of the client maps to the step
  of the same function on the calls, or to none. The invariant is `FramesNested` with `Callees`: below
  the arguments of a native call there is a function. What a waiting call is depends on its frame
  info, its buffer and the cells below its end only (`FixedParts`, `WaitingStays`); with it, four
  lemmas say what the ways of changing the stack do to all calls at once: `ExchangeTop` (the top of
  the call's own values is exchanged), `EnterIs` (a native function is entered), `CutBack` (the stack
  is cut to a call and values are pushed: returns, jumps, exceptions), and `StoreArgumentIs` (a value
  goes below the frame base). One lemma per function follows (`PushIs`, `MakeIs`, `StoreValueIs`,
  `ReturnIs`, `JumpIs`, ...), and `StepAbstract` joins them. The assumption `MaxElems <= MaxCount`
  relates two bounds of the client: both levels let it ask for the same containers.

`CompactionProofs` proves, for every number and size of objects, every chunk size, every marking and
every choice of the young objects to promote: `CompactionTypes`, `SlidesDown`, `NothingLost`,
`SurvivorsFound`, `AbortUnreachable` and `SoundChunks`. Of `CompactionInv`:

* `Layout`, `Settled`: old objects lie one after the other, each chunk ends with its last object;
* `Walks`, `Storage`, `InOrder`: new storages lie one after the other in the order of the walks, up to
  the iterator, and fill each chunk it has left from the beginning to the recorded end;
* `NeverMovesUp` (a conjunct): new storage does not lie behind the present one, because objects
  reserved for do not overlap and come in the order of their present places;
* `Survivors`, `Contents`, `Moving`: which survivors have storage, and where the content and the class
  of each is, when the walk is at `at`. A move overwrites the storage of objects the walk has passed,
  and storage of dead ones; content ahead of the walk is intact because of the first three.
* `Objects`: a class is allocated before its instances, so it has been moved when their sizes are
  read (`LiveWalksOn`, which is a conjunct too).

`SymbolPoolProofs` proves, for every set of strings, hash function and number of places:
`UniqueSymbols`, `SoundPool` and `KeptSymbols`. `PoolInv` says that each chain has symbols of its
bucket, at most one for a string, and none for the string in `wanted` (`ChainsOK`), and what pool,
holders and `fwd` have in common in each phase of a collection (`Phases`). When references have been
updated and symbols not yet moved, the pool holds addresses at which other symbols still are; `Text`
is what will be there, and `ChainsOK` is stated of it.

`ModuleManagerProofs` proves, for every set of names, of whatever kinds and imports, and every depth:
`ManagerTypes`, `WholeModules`, `StableCache` and `OneInitialisation`. `ManagerInv` adds: the module
being loaded at each stage, with the only reason for which a name in the cache is loaded
(`LoadStages`); an initializer that has run is gone (`DoneNil`); and each call on the stack is the
initializer that imports the module above it (`ImportChain`), which is why an initializer that begins
while it is running is in a circle.

`HashMapProofs` proves, for every set of maps, keys and values, every hash function and every count
asked for: `HashMapTypes`, `InPlace` and `Implements`, the refinement of `Dictionary`. `Sound` says of
a map that each node is in the bucket of its hash, the hash is that of its key, no key has two nodes,
and the size is the number of nodes; `Reads` relates a set of nodes to a function from keys to
values. The loops are taken step by step: what a walk has collected (`WalkIs`, `WalkMeets`), what
rehashing has moved into the new array (`MovesIs`, `MovesPlaced`), what extending has put into the
map (`ExtensionsAre`, `PartlyNext`); each is an invariant of the step, and induction gives the end.

`MachineProofs` proves of `MachineSpec`, for every host, every code, all native functions and imports
and every stack size:

* `InvocationsRestore`: an invocation that ends, by a return, an exception that unwinds any number of
  frames or the failure of a native function, leaves the committed registers and the frames of before
  its call, although `invoke_impl()` works on registers of its own;
* `DepthsAreDocumented`: code that verifies runs at the documented depth at every instruction, after
  calls, failed calls of others, native functions and imports too, and is never run off. With
  `CodeVerifies`, which is model-checked, this says that the stack-change column that the compiler
  was written by is what the interpreter does;
* `CallersAreKept`: no step of such code, and no native function, return or exception, changes a
  cell below the callee of the current frame, except that a collection may leave a stale reference
  there. `LdMod` is excepted: it pushes the initializer where the last commit left the stack, which
  need not be above the values of the running function.

The instruction `StAttrY` takes one value less than documented (section 6), so that code with it
does not count as `Documented`; nothing is assumed of other code than that it is code. `MInv` is the
invariant (`MachineInvariant`): the frames of each invocation are a segment of the frame list,
between its `depth` and that of the next one (`TopOf`), whose first frame alone was entered from C
and remembers the registers of before the call (`Based`); each later frame lies above the arguments
of the one below, to whose instruction it returns at a depth that instruction can be reached with;
and what the invocation is doing fits its last frame and the committed registers (`Waiting`,
`Good`). Unwinding cuts the list at the last frame entered from C (`Raise`), which `Based`
identifies as the first of the current invocation. Every instruction is one of a few kinds of step:
the current invocation and its frames change (`Stays`), an invocation is added (`Nests`), it ends
(`Ends`), or undefined behaviour, a stale reference that is followed included, ends the story
(`Halts`); four lemmas (`StaysKeeps` and so on) show that these keep `MInv`, and one lemma per
instruction that it is such a step. Where control goes next the depth is one of those `Verified`
asks for (`Flow`), so that the recursive function `Depths` is never unfolded.

The lemmas on data stand before the proofs that use them. Induction is over a set of numbers
(`SetInduction` in `HashMapProofs`), and `Iterates` gives a recursive function its steps: its
definition as `CHOOSE` says nothing before such a function is shown to exist.

Only model-checked:

* liveness (`CollectionEnds`, `AllocationReturns`, `Ends`, `Terminates`), which is out of the
  prover's reach;
* `ResultCorrect`, `CodeVerifies`, `GlobalsKept` and `IsMachine`, and everything in `Parser`,
  `Grammar`, `ParserSession` and `Codegen`: a tree is worked on by recursive operators, which the
  prover does not take, and what they compute is a matter of induction over trees.

## 6 Disagreements without a run

What was met while modelling and is not the subject of a run. The models do what the code does.

* Object memory: a class that only old objects refer to is reclaimed by a full collection; an
  allocation that asks for the old space (SURV) collects for ever when its tail chunk is full of
  live objects, and so does a large one that live large objects leave no room for; an allocation in a
  no-GC region retries without collecting (the exceptions of `AllocationReturns`); the moving walks of
  `gc_full` read the sizes of dead objects through class pointers to storage that has been reused.
* Hash map: shrinking an empty map makes the bucket count zero, and the next look-up divides by it.
* Parser: `- - a` is an error although unary operators associate to the right in grammar.md;
  `a = a = a` associates to the left; `a a -` is accepted; `a().b` and a `func` that ends the line
  run into assertions; a lexer error at the first token jumps before the buffer is set.
* Code generator: storage for local variables is never reserved; a function that ends in an `if`
  that returns runs off its code; all constants after a big integer constant run into an assertion.
* Interpreter: `Not` is inverted (doc/bytecode.md:66); `MkMap` takes overlapping pairs; `StAttrY` and
  `StElem` leave the value; `PrepMethY` takes "not found" for success; `LdMod`, `LdFlt`,
  integers that are not small and the exceptions of `invoke_impl()` itself allocate without committing
  the registers, so that what the running function has on the stack may be reclaimed, or moved without
  the stack being told: `(2.5, 3.0)` and `(3.0, 3.0)` may contain a stale reference, although
  doc/bytecode.md:52 says of `LdFlt` that it pushes a value and nothing else (`ResultCorrect` allows
  exactly this); division by zero and overflow of the stack are
  undefined; a call of a function with optional arguments runs into an assertion.
* Modules: an initializer that fails, or is imported in a circle, is run again; only the first of
  the default paths is added.
* C API: `owiz_invoke()` leaves the module on the stack, and a method name that is no symbol;
  `owiz_store_local()` with a negative index writes the argument after the one `owiz.h` names;
  `owiz_read_args(NULL)` gives one argument less; `owiz_longjmp()` fails for the host always, and
  accepts a buffer whose values have been dropped (`ApiFrames` leaves them unspecified); reading an
  exception from a small integer runs into an assertion (`up`).

## 7 Not modelled

`PROJECT.json` gives a reason for each part. In short: the lexer, text, streams and formatting work
on bytes in sequence; classes, globals and the machine's set-up are tables filled once, and no
builtin class has a method or attribute to find; collections, strings and numbers are thin objects
that appear as values of `Machine` and `ApiValues`; platform wrappers have no state, and nothing
starts a thread; the command line and the library modules are user interface, but for the REPL's
session (`Programs`) and `sys.gc()` (`ObjMem!CallGc`). Parts of modelled components that are left
out: teardown of the object memory and of the symbol pool, adding and removing GC roots, the bit sets
of the remembered sets, search paths of modules, instructions that nothing emits, optional and
variadic arguments, and the motion of objects under the C pointers that are no roots: a full
collection moves the function that runs, so that `ip` and `current_func_obj` of `invoke_impl()` go
stale at any call or allocation, and the module that `ow_machine_run()` has in `module`. `Machine` and
`ModuleManager` know functions and modules by what they are; of the collector they have what it does
to the stack and to the cache.

What would come next: the composition of `Machine` with `ObjMem` itself (stale references inside
containers, and which collection takes what), and an abstract interning specification for
`SymbolPool` to implement.
