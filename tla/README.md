# clox in TLA+

Models of the bytecode virtual machine for Lox in `src/ex01/`: its scanner, its
one-pass compiler, the machine that runs the code, captured variables, the garbage
collector with what the rest of the program must do for it, and the hash table. TLC
checks the models on small instances; TLAPS proves, for every size, the safety properties
of the collector, of what the program does for it, of captured variables, of scopes and
of the hash table, that each implements its abstract specification, and that the compiler
recovers from every error.

The program is one thread. What is hard about it is not concurrency but re-entrance:
almost any call may allocate, any allocation may collect, and a collection frees
whatever is not within reach of a root *at that moment*. The test suite runs its
examples in a build that collects at every allocation (`make gc-tests`); the models ask
the same question of every program and of every choice of the moments at which a
collection comes. The other half is agreement between parts that check nothing of one
another: the compiler counts slots, upvalues, constants and jumps, and `run()` believes
every byte. There the question is whether what is compiled, run without any check, does
what the program says.

## The system

| part | code (under `src/ex01/`) | state | operations | correct when |
|---|---|---|---|---|
| garbage collector | `src/memory.c` | `vm.objects` and `Obj.next`, `isMarked`, the gray stack, `bytesAllocated`, `nextGC` | `reallocate()`, `collectGarbage()`, `freeObjects()` | frees exactly the unreachable; keeps its list, marks and byte count consistent; ends |
| constructors, interning | `src/object.c` | `vm.strings` (weak) | `newClosure()`, `newFunction()`, `newNative()`, `newUpvalue()`, `copyString()`, `takeString()` | a new object is safe until its caller has stored it; equal text is one object |
| hash table | `src/table.c` | entries, count, capacity | get, set, delete, find by text, remove white, free | is a finite map; searches end |
| chunks, value arrays | `src/chunk.c`, `src/value.c` | code, lines, constants | append, grow, `addConstant()` | a constant survives the growth of its array |
| compiler | `src/compiler.c` | parser flags, the chain of `Compiler`s with locals and upvalues | one function per construct | functions being compiled are roots; names resolve lexically; jumps and indexes fit |
| scanner | `src/scanner.c` | a cursor in the source | `scanToken()` | longest match, always advances |
| VM | `src/vm.c` | value stack, frames, open upvalues, globals | one case per instruction, `interpret()` | what is used is rooted; a captured variable lives as long as its closures; an error leaves a usable VM |
| REPL, file runner | `src/main.c` | none | `repl()`, `runFile()` | each line starts clean |
| disassembler | `src/debug.c` | none | `disassembleChunk()`, `disassembleInstruction()` | finds where each instruction begins |

Interactions. `interpret()` calls `compile()`, which pulls tokens from the scanner and
appends to chunks, and then `run()`. Both call the constructors, the tables and the
chunks; these call `reallocate()`, which calls back into the collector, which reads the
stack, frames, open upvalues, globals and the chain of compilers through `markRoots()`
and deletes from `vm.strings`. So the shared state is `vm` and `current`, and the
callback is the collection.

The hard behaviours, each at its line, are the `hazards` of `PROJECT.json`, with the
properties that cover them.

## The modules

| module | what it is |
|---|---|
| `ObjectHeap` | the five object types as records, what points to what, reachability as a least closed set |
| `Collection` | abstract specification: a program changes the heap it holds, and everything unreachable disappears in one step |
| `Collector` | `memory.c` in steps; refines `Collection` |
| `CollectorProofs` | theorems about `Collector` |
| `Mutator` | the compiler and the VM between two allocations; refines `Collection` too |
| `MutatorProofs` | theorems about `Mutator` |
| `ObjectHeapProofs` | lemmas about objects and reachability, for both |
| `LeastNumber` | lemmas: induction stated for sets of numbers |
| `Dictionary` | abstract specification: a finite map |
| `Table` | `table.c`; refines `Dictionary` |
| `TableProofs` | theorems about `Table` |
| `Cells` | abstract specification: a captured variable is one cell, in a frame or of its closures |
| `UpvalueList` | the sorted list of open upvalues, as operators |
| `Upvalues` | captures, closing and calls on the value stack; refines `Cells` |
| `UpvaluesProofs` | theorems about `Upvalues` |
| `Lexical` | abstract specification: blocks, functions and what a name denotes |
| `Resolution` | the functions of `compiler.c` on locals and upvalues, as operators |
| `Scopes` | declarations and uses in any order the grammar allows; refines `Lexical` |
| `ScopesProofs` | theorems about `Scopes` |
| `Bytecode` | opcodes, values, how instructions are read |
| `Compiler` | all of `compile()`, over `Resolution` |
| `Grammar` | the reference for what is a legal program |
| `Recovery` | `Compiler` on any text: what errors leave behind |
| `RecoveryProofs` | theorems about `Recovery` |
| `Acceptance` | which texts `Compiler` accepts, by `Grammar` |
| `Machine` | all of `run()`, over `UpvalueList` |
| `Verifier` | the reference for what sound code is |
| `Lox` | the reference for what a program means: direct evaluation of trees |
| `Program` | `interpret()`: `Compiler`, then `Machine` |
| `Lexemes` | the reference for what the tokens of a text are |
| `Scanner` | `scanner.c` |
| `MC...` | definitions that the TLC configurations need |

`Collector` and `Mutator` meet at `Collection`. `Collector` has an arbitrary program and
the real collector; `Mutator` has the real program and an atomic collector. Each shows
that it keeps its side of `Collection`: the collector that it frees only what is out of
reach, the program that it touches only what it holds (`Collection!Mutate`).

Some definitions are preceded by a variant marked *Mutation*, a plausible bug in the
same place. They are not part of the specifications; they serve to confirm that each
property fails when the code is wrong.

### Collector

One action per stretch of `memory.c`: `Reallocate` (counting, threshold, stress build),
`MarkRoots` once for each of the five loops of `markRoots()`, `BlackenObject` per gray
object, `TableRemoveWhite`, `SweepKeep` and `SweepFree` per list element with the
`previous`/`object` cursors and the unlinking, `SweepDone` with the new threshold,
`AllocateObject` and `GrowArray` for what the caller of `reallocate()` does with the
memory, and `FreeVM`, `FreeNext`, `FreeDone`. The phase variable is where the C code is.

The program of this module (`Root`, `Unroot`, `Link`, requests) may root and unroot what
it holds and link objects as their types allow: a function gets constants and a name, a
closure upvalues, an upvalue a value.

Abstractions: an address is the serial number of its allocation, so memory is never
reused and a stale reference stays recognisable; the gray stack is a set; arrays of
pointers are sets; sizes are small numbers, one per object, with `size[None]` for the
arrays of the two tables.

### Mutator

`pc` is the allocation that comes next, `c` the locals of the C functions that wait for
it. Every action runs from one allocation to the next: `AllocateString` pushes the new
string and stops before `tableSet()`, `TableSetString` pops it and returns to whichever
caller asked (`Return`), `NewClosure` is the two allocations of `newClosure()` and what
`interpret()` or `OP_CLOSURE` does with the result, and so on. `Collect` is enabled at
every one of these points.

`NewFunction`, `NameFunction`, `StringConstant`, `WriteConstant`, `EndFunction`,
`EndCompile` are the compiler: `initCompiler()`, `addConstant()`, `endCompiler()`.
`Push` to `RuntimeError` are the instructions. A frame may execute any instruction that
its function's constants, its slots and its upvalues allow, so every program over the
instructions in the constant `Instructions` is covered, and more. Two facts of the
compiler's output are assumed: a captured local is closed and not popped at the end of
its scope (`endScope()`), and operands are temporaries.

Slots above the stack top keep their values, as in C: an upvalue that refers to one
reads what is left there. Numbers, booleans and nil are `None`.

### Table

`FindEntry` is the probe loop of `findEntry()` as the first place where it stops.
Deleting leaves tombstones, `Insert` reuses the first on the way, and `count` counts
them. Growth is in steps, `SetGrows` (up to the ALLOCATE), `BeginRehash`, `Rehash` per
entry, `EndRehash`, `SetGrown`, with `Collect` and the loop of `tableRemoveWhite()`
possible at the ALLOCATE and between calls. `Init` chooses any hash for every key.

### Upvalues

`stack` and `upvalues` are the value stack and the `ObjUpvalue`s, `openUpvalues` the list.
An `OP_CLOSURE` is one action for the closure and one per captured variable, since the
list is searched and changed once for each. `Cells` has no slots, list or closing: a
variable becomes a cell when it is captured first, and its frame and every closure that
captured it read and write the cell. The refinement is what makes the list right: were
it out of order, a variable could be captured twice and become two cells.

### Resolution and Scopes

A compiler is a record of its locals, upvalues and scope depth; the chain of compilers
is a sequence. `Lexical` knows the variables of each function around a place, where each
open block began among them and which are captured, and says of each use which
declaration it denotes. It has no slots, no depths and no upvalues, only the limits on
how many variables a function may have and refer to. `Scopes` calls the operators of
`Resolution`; its refinement mapping reads from slots and upvalue indexes, through as
many functions as there are, which declaration the code would get at (`Denotation`).
`EndFunction` comes where every block of the body has ended, as in `function()`. The
function itself in slot 0 has the name `NoName`, which is no token's.

### Compiler, Recovery, Grammar, Acceptance

`compile()` recurses; `todo` is what the C functions on the call stack have left to do.
An item is a stretch of a C function between two calls that read tokens, so that an
action does what such a stretch does: it looks at `previous` and `current`, writes to
the chunk, reports an error or consumes a token, and replaces its item by the rest of
the function with the calls it makes. `Staying` and `Advancing` are the two forms.
After an error nothing is cut short, as in the code: the functions go on to their ends
and `Recover` at the end of `declaration()` calls `synchronize()`.

The locals, upvalues and scopes are those of `Resolution`. A token is named by its text,
which comes token by token from `Continuations`. Messages and the lines of a chunk are
left out; `parser.hadError` and `panicMode` are there.

`Grammar` defines programs declaratively, by the ways in which a sequence of tokens can
be split, with the rules of scoping; it knows nothing of precedence levels as numbers, of
`canAssign`, or of panic mode. `Acceptance` checks the compiler against it.

`Recovery` is about what an error leaves behind. `CleanStart` reads from `todo` which
blocks and functions its items are still to end (`Depths`), and compares that with the
scope depths of the chain at each declaration.

### Machine, Verifier, Lox, Program

`Machine` has one action per instruction. Values carry their types, so that operands of
a wrong type fail as in the code. Numbers are small integers, and the programs of the
instance divide without remainder; there is no fraction, no minus zero and no NaN. A
string is the sequence of its pieces: concatenation is all that is done to strings, and
interned strings are equal if their texts are. Globals are a function, since `Table`
implements one; the collector does not appear, since `Mutator` shows that it is not
noticed.

`Verifier` goes through code as a bytecode verifier does: where control can come, with
which height of the stack, and whether operands fit. Control never reaches an offset
that is not the beginning of an instruction as `disassembleChunk()` finds them.

`Lox` evaluates syntax trees: variables are cells of a store, closures have
environments; there is no code, no slot and no upvalue. It also writes a tree as text,
with as few parentheses as its own table of operators allows. It takes from `Bytecode`
the forms of values and nothing else: what is true, what is equal and what an operator
gives are its own (`IsTrue`, `AreEqual`, `Operate`), as the language has them and not as
`value.c` and `vm.c` do. `Program` feeds the text of
each tree of the instance to `Compiler`, hands the result to `Machine` if there was no
error, and compares the output with that of `Lox`.

### Scanner

One action per turn of a loop of `scanner.c`: blanks, comments, words, digits, fractions,
strings. `Lexemes` defines blanks and tokens as sets of strings and takes the longest at
each position.

## What TLC checks

| run | instance | properties |
|---|---|---|
| `collector` | 3 allocations, at most 2 references in roots, arrays growing by at most 2 bytes | `TypeOK`, `NoDangling`, `Tricolor`, `ListThreadsHeap`, `MarksCleared`, `Accounting`, `HeapBound`, `NothingLeaks`, refinement of `Collection`, `MemoryReturns` |
| `mutator_session` | 4 addresses, 2 texts, any number of lines | `NoDangling`, `Interned`, `CleanBetweenCalls`, `OnlyDefinitionsDefine`, refinement of `Collection` |
| `mutator_closures` | 9 addresses, one native, one script, functions nested 3 deep, calls 2 deep | `TypeOK`, `NoDangling`, `UpvaluesOnStack` |
| `table` | 4 keys, hashes 0, 3 and 4, capacities 0, 4 and 8 | `TypeOK`, `CountIsExact`, `ProbesEnd`, `KeysAreFound`, refinement of `Dictionary` |
| `upvalues` | 5 slots, 2 frames, 3 closures, 3 upvalues | `TypeOK`, `GoesDown`, `OpenAreListed`, refinement of `Cells` |
| `scopes` | 2 names, functions nested 3 deep, 2 locals and 1 upvalue in each | `TypeOK`, `UpvaluesDenote`, refinement of `Lexical` |
| `recovery` | every text of 13 families, of up to 14 tokens; bytes of 4 values | `CleanStart`, `Accepts`, `Terminates` |
| `programs` | 802 programs, none of which compares nil with nil; bytes of 10 values, 3 frames | `Verified`, `WithinLimits`, `HeightsAgree`, `OutputIsRight` |
| `scanner` | every text of up to 5 of 8 characters, keywords and words like them, pairs of symbols | `TypeOK`, `Tokenizes`, `Terminates` |
| `upvalue_after_error` | 6 addresses, any number of lines | finds `ClosuresOutliveScopes` violated |
| `operands_on_stack` | 4 addresses, one script | finds `OperandsOffStack` violated |
| `nil_equality` | 18 programs that compare nil with nil | finds `OutputIsRight` violated |

Why the bounds are enough.

* Three objects give `sweep()` a head, a middle and a last element, cycles through
  closures and upvalues, and garbage that points to live objects and the reverse; two
  root references let an object be reached twice. The threshold starts at 2, so
  allocations are served both with and without a collection. `bytesAllocated` never gets
  near the width of `size_t`, and is an integer.
* Two texts are what it takes for a lookup to find, to miss, and to find a string that
  nothing else references. Four addresses hold a script, its closure and both
  strings. Since programs that need more addresses stop (as `exit(1)` does),
  deadlock is not checked in `Mutator`.
* A closure that captures from an enclosing closure needs three functions, three
  closures, one upvalue and a name: eight addresses. The ninth is for the native of
  `initVM()`, with the same name.
* The real table starts at 8 entries. The instance starts at 4 with the same growth
  factor and load: full at 3, so that four keys grow it. Hashes 0 and 4 collide in four
  entries and not in eight, and hash 3 wraps around.

* Three upvalues and two frames are enough for captures out of order, of a slot further
  down, from the enclosing closure, and for a return that closes some and not others.
* Functions nested three deep have a variable that goes through the one in between. With
  1 upvalue, one upvalue too many and one local too many are both reached; with 2, which 2
  names cannot exceed, the first would not be. That no two upvalues of a function denote one
  variable, a part of `UpvaluesDenote`, says nothing in this instance: it is
  proved (`UpvaluesDenoteHolds`), and the refinement fails here if a variable that is used
  again is not found among the upvalues, because the limit is then exceeded too early.
* A family of `recovery` is a beginning, which brings the parser to some construct, and
  every way to go on with a few tokens: the legal ones are among them, and all the ways
  to be wrong within a few tokens, an error token, an early end, tokens that begin
  statements. Bytes of four values put the 5th local, the 5th constant and the 4th
  parameter within their reach.
* The programs: all pairs of operators, grouped both ways; every kind of operand in every
  place, with the wrong types; every two of them compared, except nil with nil; every
  statement, in statements, loops and functions; all sequences of three out of six
  statements that share a captured variable; closures through two functions, recursion,
  `FRAMES_MAX` calls; and each limit at its last allowed value and at the next. With 10
  values in a byte a jump reaches 99 bytes, and the limits need programs of a size that
  TLC can take.
* Five characters hold a comment, string or number at either end of the text with
  something before or after it. Keywords are checked in a set of their own.

`ByteCount` is `UINT8_COUNT`, 256 in the code; `ByteCount - 1` is then the limit of 255
for parameters and arguments, and `ByteCount * ByteCount - 1` the `UINT16_MAX` of
jumps. Opcodes are not scaled: what is limited are operands.

Constants that bound what the code does not: `MaxBytes`, `MaxRoots` (`Collector`);
`MaxStack`, `MaxCompilers`, `MaxConstants` (`Mutator`); `MaxCapacity` (`Table`);
`MaxStack` (`Upvalues`); `MaxFunctions`, `MaxDepth` (`Scopes`). `MaxLocals` and
`MaxUpvalues` are `UINT8_COUNT`.
`FramesMax` is `FRAMES_MAX`, `MinCapacity` the 8 of `GROW_CAPACITY`.

Reductions. Addresses, keys and names are interchangeable. `mutator_session`, `table` and
`scopes` use symmetry; the other runs of `Mutator` and `upvalues` take the lowest free
address (`LowestFirst`). `mutator_closures` and `upvalues` identify states that differ in
unused slots of the stack (`InUse`), which nothing reads as long as `UpvaluesOnStack` in the
first, `GoesDown` and `OpenAreListed` in the second, checked in those runs, hold.

Fairness. `Collector` has weak fairness of its steps inside `memory.c`
(`WF_vars(Memory)`), `Recovery` and `Scanner` of their next-state relations. All are the
steps of a C call that has begun, in a program with one thread: nothing else runs until
it returns, and nothing it waits for can fail to come. A Lox program that runs is never
obliged to end. The safety runs of the other modules need none.

The three violations.

* `upvalue_after_error`: `resetStack()` forgets the open upvalues instead of closing
  them. A closure that a global holds across a runtime error in the REPL reads slots
  that later lines fill.
* `operands_on_stack`: the comment of `examples/gc/concat01.lox` describes a
  `concatenate()` that pops before it allocates; the code peeks, and is right to.
* `nil_equality`: `valuesEqual()` answers false for two nils (`value.c:52`), so that
  `print nil == nil;` prints `false`. In the language that the repository's README says is
  implemented, Lox, every value is equal to itself. `Lox` says so too, and the output is
  not the one a program means as soon as it compares nil with nil, whether it is written
  down, the value of a variable without an initializer, or the result of a function.

The programs of `nil_equality` are kept out of `programs` for that reason; it is the only
thing kept out, and the property is the same one. Closures and runtime errors are kept in
separate passing runs because of `upvalue_after_error`.

## What TLAPS proves

`PROJECT.json` lists the theorems. Each holds for every value of the constants that the
assumption of its module allows.

| component | properties proved | refinement proved | for every |
|---|---|---|---|
| `Collector` | `TypeOK`, `NoDangling`, `Tricolor`, `ListThreadsHeap`, `MarksCleared`, `Accounting`, `HeapBound`, `NothingLeaks` | `Collection` | finite set of addresses, object sizes, threshold, with or without stress collection |
| `Mutator` | `TypeOK`, `NoDangling`, `Interned`, `CleanBetweenCalls`; with no hypothesis `OnlyDefinitionsDefine`; under a stronger one `UpvaluesOnStack`, `ClosuresOutliveScopes` | `Collection` | program, set of addresses and texts, depth of stack, frames and compilers, number of constants |
| `Table` | `TypeOK`, `CountIsExact`, `ProbesEnd`, `KeysAreFound` | `Dictionary` | set of keys, hash codes, capacity (`MinCapacity` at least 2) |
| `Upvalues` | `TypeOK`, `GoesDown`, `OpenAreListed` | `Cells` | set of closures and upvalues, depth of stack and frames |
| `Scopes` | `TypeOK`, `UpvaluesDenote` | `Lexical` | set of names, limits of locals and upvalues, nesting of functions and blocks |
| `Recovery` | `TypeOK`, `CleanStart` | | text (`Continuations`), sets of identifiers and literals, size of a byte |

The bounds that are constants of the models (`MaxBytes`, `MaxRoots`, `MaxStack` and so on)
may be any numbers here, so they exclude no finite run. Of these properties only the
`TypeOK` of `Recovery` is not in a run as well: its limits are those that `scopes` and
`programs` check, and for texts with errors the theorem says more than a run would.

In each module one inductive invariant, `IInv`, implies the properties, and its proof has
one step, or one lemma, for each action.

### The collector

The assumptions are `CollectorAssumption` (addresses are positive integers, sizes are
naturals) and, for sums, `AddressesAreFinite`: there is only so much memory. `NoDangling`
alone is not inductive: that `SweepFree` frees nothing in use depends on what marking has
established, and that the sweep ends with a complete list depends on where the cursor is.
So `IInv` says, phase by phase,

* while marking: marked objects are live, non-gray marked objects have marked children,
  the kinds of roots gone over are marked, and the list is in order of age;
* after tracing: marked is exactly live, since a marked set that is closed and holds the
  roots contains the least such set (`ReachableIsLeast`);
* while sweeping: what is older than the cursor is unvisited, what is newer is unmarked
  and live, `previous` is the last survivor, and the list threads both parts;
* outside: no marks, and all references are to allocated memory.

For the refinement, `VisibleHeap` hides the objects that a sweep has yet to free, so the
abstract `Collect` happens when `tableRemoveWhite()` does, and everything else is a step
of the program or a stutter.

A second invariant, `Ledger` (theorem `LedgerHolds`), is inductive given the first, and is
about bytes. `Accounting` speaks of the sum of all sizes, so every action that allocates
or frees needs to know how the sum changes with one size; lemmas derive that from the
definition of the fold (`SumChanges`). A function whose constant array is about to grow must survive the
collection that the growth brings about (`GrowingSurvives`), or the bytes would be
counted for an object that is gone; and `freeObjects()` must have before it all that is
still allocated (`FreeingOK`), which is how the byte count comes to 0.

### The compiler and the VM

`IInv` has what protects each pointer, allocation by allocation (`Control`): the string
that `tableSet()` is to take is on top of the stack, the operands of `concatenate()` are
the two top slots, the function that `newClosure()` is called with is in slot 1 or among
the constants of the running function, the function being compiled is in the chain. The
rest is what the code relies on where it looks at no tag (`PointersOK`), that everything in
use is allocated (`HeapOK`), that open upvalues refer to slots in use (`OpenOK`) and closed
ones to none (`ClosedOK`), what the string table has (`InternedOK`), and that without
functions there are no upvalues (`FunctionsOK`). Slots that are popped must be nobody's
variables (`FreeFrom`); otherwise an upvalue would refer to a slot above the top.

Every action but `Collect` is shown to satisfy `Writes`: it changes only objects it can
reach or has just been given, and stores only such references. That is
`Collection!Mutate`, so the refinement follows, and `WritesKeepHeap` shows once, for all of
them, that such a step keeps `HeapOK`. `Collect` keeps what the invariant speaks of
because all of it is within reach.

`OnlyDefinitionsDefine` needs no invariant: `SetGlobal` inserts before it knows whether the
variable is there, and `SetAndDeleted` shows that the deletion then restores the table as
it was.

The other theorems have a hypothesis, `ErrorsAreHarmless`: the program comes from a file,
or has no functions, or has no runtime errors. It is needed: in a REPL a runtime error makes
`resetStack()` forget open upvalues (the run `upvalue_after_error`), and a closure can then
read a slot above the top, which is no root, so that nothing protects what was there. The
hypothesis excludes this combination and no other. `UpvaluesOnStack` and
`ClosuresOutliveScopes` say that no upvalue is left open, also at the end of a file, and
are proved where no upvalue can be forgotten (`NothingForgotten`: no functions or no
runtime errors). So the second one, which the run finds violated, is violated by nothing
but such an error. A long-lived REPL with closures that runs into an error is thus
covered by no theorem, and by the finding.

### Captured variables

`IInv` adds to the properties that frames lie one above the other (`FramesOK`: a return
closes from the frame's first slot on and so touches no other frame), that the closures
which are referred to exist (`ClosuresExist`), that an upvalue that refers to a slot is
held by a closure (`OpenAreHeld`), and that the closure which `OP_CLOSURE` is filling has
its own slot's upvalue if there is one (`FillingOK`). With them the list is exact
(`ListIsExact`): an upvalue is in it if and only if it refers to a slot, and no two refer
to the same. The loops of `captureUpvalue()` and `closeUpvalues()` stop at a least index,
which exists by `Least`. The refinement maps a slot to the upvalue that refers to it, if
there is one.

### The hash table

`Probe` goes over all indexes and over none twice (`ProbesAll`), for any hash code. `Linked`
is the shape of the array: on the way from the first index of a key to the place where it
is, no entry is empty. It says the same as `KeysAreFound` (`LinkedIsFound`), and unlike it
can be seen to survive when an entry changes that lies on the way to another key. `IInv`
adds that the table is not full when `Insert` comes (`RoomOK`, so that a search still ends
afterwards), and how far the copying has come (`RehashOK`): the new array has exactly the
keys that the loop has been over, with their values, and no tombstones.

### Scopes and upvalue resolution

`TypeOK` is inductive for itself; the limits of the arrays hold after errors too. What the
rest needs holds until the first error, and `IInv` says it of each function of the chain
(`Sound`): its locals lie in the order of their blocks, the function itself below them in
slot 0, and only the last can be in its initializer (`LocalsInOrder`); the functions around
the current one have no variable in its initializer; every upvalue refers to a captured
local or to an upvalue of the function around (`RefersOut`); and no two of a function are
alike (`NoTwoAlike`).

`UpvaluesDenote` follows from one function to the next (`DenotesOneInwards`): if the upvalues
of a function denote different captured variables, so do those of the function in it,
since what `isLocal` upvalues denote is in the function around, and what the others denote
is further out. For the opposite direction, that a variable which is already among the
upvalues is found there and not added again, `AfterDenotes` follows `resolveUpvalue()`
inwards: in each function on its way an upvalue denotes the variable if and only if it is
the one that `addUpvalue()` is about to look for. So `addUpvalue()` exceeds its limit exactly
when the function has more free variables than that (`TooManyFree`).

For the refinement there is a lemma for each action. The end of a block drops the locals
with a greater depth, and these are the variables since the block began, because the
depths are in order (`EndIsEndBlock`). A name resolves to the last local with the name, or
in the innermost function around that has one, and that is the declaration which the
name denotes (`MeaningIs`).

### Recovery from errors

After an error the compiler goes on, with indexes that were not found and variables that
were not declared. That it stays within its arrays, and closes what it has opened, depends
on what is left to do, so `IInv` relates `todo` and `compilers` in every state
(`Running`):

* the scope depths of the chain are those that the items of `todo` will undo
  (`ScopeDepths(compilers) = Depths(todo, Endings)`). Not only `endScope` ends a block:
  each part of `for` (`OfLoops`) will become the end of the block it is in;
* what may be on top of what (`On`): above a `define` and above the parts of `for` there
  are only expressions, so no declaration begins while a variable waits for its
  initializer;
* each compiler is well-formed (`IsCompiler`), its locals lie in the order of their blocks
  with the function itself in slot 0 (`InOrder`), and only while a `define` is in `todo` may
  the last local of the current compiler be uninitialized. `markInitialized()` writes to
  the last local without looking: whenever it is called inside a block there is one other
  than slot 0 (`CanMark`), even if the declaration failed because the array was full;
* the items have operands of the right kind (`ItemOK`): what `patchJump()` and
  `emitLoop()` are given is an offset, what is emitted are bytes.

`TypeOK` alone is not inductive: that `endScope()` finds a depth above 0, and leaves the
slot of the function, is the first of these points.

Each lemma for an action first says of the items it puts in place of its own that they
open nothing (`PlainItems`) or that only the last of them is special (`EndsWith`), and then
follows from one lemma for either form (`PlainStays`, `EndsStays` and those next to them).
The assumption is `CompilerAssumption`: the arrays have `UINT8_COUNT` elements, as in the code,
and no name is a literal. Nothing is assumed of the text, and `Continuations` may be any
operator.

### Only model-checked

* `MemoryReturns` and `Terminates`: liveness under fairness, which these provers do not
  reach.
* `Accepts` and the properties of `Program`: `Grammar`, `Verifier` and `Lox` are recursive
  over the data, and what a recursive operator computes cannot be proved here. What they
  say of the compiler and the machine is checked on programs, not proved of all.
* `Scanner`: that the token taken is the longest is a statement about sets of strings,
  checked on texts.

## What is not modelled

Not modelled: output (`printValue()`, what the disassembler prints, GC logging, messages
and the line numbers that only they use), reading files and lines, `clock()`'s value,
memory exhaustion, floating-point numbers (`strtod()`, rounding, division by zero), and
`tableAddAll()`, which nothing calls. `STACK_MAX` is not in `Machine` because it is not
in the code: `push()` does not compare with it.
