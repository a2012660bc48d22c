# A TLA+ model of the goat compiler and virtual machine

goat is a small Go-like language with goroutines, channels and closures.
`src/src` holds its compiler (one C++ header, on top of an ANTLR parser) and a
multi-threaded stack machine that runs the compiled code.  This directory
specifies that program in TLA+: the modules translate the C++ code, TLC checks
them on small instances, and TLAPS proves the central theorems for every size.

Run `tlc -config X.cfg MCxxx` in this directory for a model (the runs are listed below), `tlapm XxxProofs.tla`
for the proofs.  PROJECT.json lists the runs, the properties each checks, a
plausible bug that makes each property fail, the source lines behind every
definition, and the hazards of the code.

## The system

| Part (source) | State | Operations | Talks to |
|---|---|---|---|
| Blocking queue (`BlockingQueue.hpp`) | deque, capacity, mutex, two condition variables | push, try_push, pop, try_pop | called by chan_send, chan_recv in every thread |
| Heap (`Heap.hpp/.cpp`) | one region, `top`, mutex | allocate (new_block), load, store | every thread allocates, reads and writes |
| Runtime and threads (`Runtime.*`, `Thread.hpp`, `Thread.cpp:15-36`) | thread pool, mutex, condition variable | initialize, run, finalize, Runtime::start | detached `std::thread`s made by new_thread |
| Interpreter loop (`Thread.cpp:38-307`) | instruction stream, call stack, operand stack | one case per opcode | heap, native functions |
| Call stack (`CallStack.hpp`) | raw memory, top, frame pointer | push_frame, pop_frame, load/store_local | interpreter |
| Operand stack (`OperandStack.hpp`) | raw memory, top | push, pop, peek | interpreter, native functions |
| Instruction stream, code (`InstructionStream.hpp`, `Code.hpp`) | function, program counter | next, jump_to | interpreter |
| Native functions (`Native.cpp`) | io mutex | new_thread, new_chan, new_slice, chan_send, chan_recv, prints | runtime, channels, heap |
| Channel manager (`ChannelManager.hpp`) | vector of queues, mutex | new_channel, get | native functions |
| String pool (`StringPool.hpp`) | strings | new_string, get | compiler, sprint |
| Function scanner (`Compiler.hpp:18-69`) | function table and indices | one visit | first pass |
| Variable analysis (`Compiler.hpp:71-236`) | a frame per function: category and slot of each name | visits of declarations and references | code generator |
| Type annotation (`Compiler.hpp:238-711`) | a type per node | visits of expressions | code generator |
| Code generation, resolver (`Compiler.hpp:713-1378`) | code, labels, open gotos | a visit method per construct | function table |
| Entry point (`main.cpp`) | owns the runtime | parse, compile, run | all |

What is hard about it.  Goroutines are platform threads that share the heap,
the channels and every captured variable, and nothing orders them but the
channels.  `notify_one` comes after the unlock; the allocator reads `top`
outside its mutex; threads are detached, and register themselves in the pool
only once they run; an exception in any thread is caught by nobody.  The call
stack is raw memory whose frames are linked by saved pointers, so that a wrong
size would show several calls later; the compiler decides which variables live
in a frame, which on the heap, and how closures reach them.  What makes each
part correct:

* queue: bounded, first in first out, no wake-up lost, nobody asleep beside
  what it waits for;
* heap: every address is the payload of a block, blocks tile the heap, blocks
  are disjoint and inside the region, or "out of memory!" is thrown;
* runtime: the process ends when, and not before, the last thread has ended;
* interpreter: a frame is what the calls in progress say it is, a callee
  leaves its caller's variables and operands alone, every heap access is inside a block;
* compiler: a program ends, and prints, as its source says; the slots, captures and types that one pass finds are those the next relies on;
* console: each goroutine's values come out in its order, a value and its line together.

`PROJECT.json` has the complete list of hazards with their lines.

## The modules

* `Channel` is the abstract bounded FIFO: calls that begin, take effect at once,
  and return; a call that cannot take effect waits, a `try_` call is refused.
  `BlockingQueue` is the C++ code: each critical section is a step, the wait on
  a condition variable, the unlock and the notification after it are steps of
  their own, and `wait` may wake up spuriously.  pc values name the line a
  thread is at: `"push"` is about to test the predicate, `"not_full"` asleep,
  `"pushed"` between unlock and `notify_one`.  The refinement mapping
  forgets the sleeping and the notifying.
* `Allocator` is what a memory manager promises (disjoint blocks inside the heap
  or an exception).  `Heap` is `new_block`: the test of the free space, the computation of
  the address and the locked commit are three steps.  The two unlocked reads of
  `top` are a data race, so the second may return the older value.  The
  constant `Overlapping = FALSE` restricts it to programs that never allocate in
  two threads at once.  Its `BlockSizes` are sizes that do not wrap around.
* `Runtime` is the life of the threads and of the runtime object: `place[t]` is
  where a thread is between `std::thread` and the end of `finalize`, `waiter` is the
  main thread in `Runtime::start`.  The variable `joined` remembers whether every goroutine so far has heard from
  the ones it started before it returned, as the programs in `examples` do through a channel.
* `Console` is what the prints of several goroutines leave on standard output: taking the
  mutex, releasing it, writing the value and ending the line are four steps.
* `Bytecode` says what a program of the virtual machine is, and when its jumps, calls and slots are
  in range.  `Arithmetic` has the operators of the instructions on words of `WordBits` bits: they wrap around, shift counts are
  taken modulo the width, and a division traps by zero and for the least integer by -1.  Doubles hold whole
  numbers only.
* `CallStack` is the frame layout in raw words; `Interpreter` is `Thread::run`
  with everything it calls.  An instruction is one step; send and receive
  are two, as the channel is looked up first and waited in afterwards.
  The actions carry the names of the opcodes; `Undefined`, `Exhausted` and `Failure`
  say when an instruction does not run but kills the process (`Fail`): operand stack over-
  and underflow, out of memory, and the undefined behaviours (an access
  outside of the call stack, a division that traps, an invalid channel).  The size of a block and its end (`EndOfBlock`) are
  computed as `Heap.hpp:27` does, in unsigned numbers that wrap around at 2^64 bytes, here 2^(WordBits - 3) words: what is "too large" may pass the test.
* `OperandPlan` says what a plan for the operand stack is: `program.plan` has for each function how many operands it takes and gives,
  and the height of its part of the stack in front of each instruction that is reached.  `Balanced` says that a program keeps its plan,
  instruction by instruction, `OperandsAsPlanned` that an execution does.  No code has such a plan: the operand stack of
  `OperandStack.hpp` is one for all frames, and that functions keep apart on it rests on the visitors alone.  `Planner` finds the plan of a
  compiled program; nothing rests on how it does, as `BalancedCode` checks the result.
* The compiler is written as operators on syntax trees, one module per pass, each extending the one before.
  `SyntaxTree` has the nodes of the grammar.  `VariableAnalyzer` numbers the functions (`Scan`) and finds the category and
  slot of each name (`Refer`, `DeclareLocal`, `Enclose`, `Slot`), with the faults of the code: a name declared twice
  is in the frame twice, the parameters inside a function type count as parameters.  `TypeAnnotator` gives each
  node its type or stops (`accepted`); it keeps what the code keeps in members, `arg_types` and
  `in_function_type`, in the record of a signature.  `Compiler` is the code generator (`Visit...`).  Jumps are
  relative until `Resolve` gives every one its address; where the C++ code throws or dereferences
  null, it emits `Refuse`, and the program is not accepted.
* `SourceFile` is `Compiler::visitSourceFile`: the passes as the steps of a state machine on one source
  file, with the properties that relate them to each other and to the scopes of the source.
* `Evaluator` says what a sequential program means, from its tree and the rules of Go: cells and scopes, no slots, stacks or
  instructions.  It shares nothing with the compiler but the trees, and is what compiled programs are compared with.
* `Samples` has shorthands for trees and a family of sequential programs.
* `MCBlockingQueue`, `MCHeap`, `MCRuntime`, `MCConsole` instantiate their component; `MCSourceFile` has the source files for
  `SourceFile`, `MCSources` the programs of `Samples` with the outcomes `Evaluator` gives them;
  `MCInterpreter` writes the example programs (`src/examples/*.goat`, with smaller
  constants) and a few more as syntax trees, each with the ways it may end.  All three
  interpreter runs compose `TypeAnnotator`, `Compiler` and `Interpreter`: what runs is compiled code, not hand-written code.
* `BlockingQueueProofs`, `HeapProofs`, `RuntimeProofs`, `InterpreterProofs` and `ConsoleProofs` hold the theorems about their component,
  `OperandProofs` those about the operand stacks of the interpreter, `ArithmeticProofs` those about the operators on words.
  `Recursion` has what these share: induction over the natural numbers, stated for sets, and that functions defined by
  recursion exist.

Definitions called "faulty variant" are the bugs used as mutants: nothing else
refers to them.

## The runs

| Run | Bounds | What it shows |
|---|---|---|
| BlockingQueueCalls | 3 threads, 2 items, capacity 2 | capacity, no lost wake-up, the queue implements `Channel`; neither senders nor receivers sleep beside what they wait for |
| HeapSerial | 2 threads, 13 words | without overlap the heap implements `Allocator` and never passes its end |
| HeapRacing | 3 threads, 7 words | with overlap: headers still tile, addresses are still those of blocks, and `top` passes the end by at most one block per other thread |
| HeapOvercommit | 2 threads, 8 words | a violation: `top` does pass the end |
| RuntimeShutdown | main and 3 goroutines | the runtime outlives every thread as long as goroutines are joined; what holds without joining; that shutdown completes |
| InterpreterGoroutines | main and 2 goroutines, 48 words of heap, 6 operands | six compiled goroutine programs end as written under every interleaving; closures fit where they are called or started |
| InterpreterFunctions | main, 42 words of heap, 40 of call stack | 27 compiled programs of calls, closures, limits and misuse: frames, callers' locals, outcomes |
| InterpreterSources | main, 132 programs, 120 words of heap, 64 of call stack, integers of 16 bits | compiled code prints what `Evaluator` says and stays inside its heap blocks; it has a plan for the operand stack, closures fit where they are called, functions keep the plan and leave no operands |
| SourceFilePasses | 8484 source files | slots are inside frames exactly if names are declared once, captures are cells and follow the scopes, type names tell types apart, result types are the declared ones, no function that returns on all paths runs off its end, and of what the annotator accepts the generator translates all but a list of constructs |
| SourceFileReturn | one source file | a violation: a bare return stops the compiler |
| ConsolePrints | 3 goroutines, 5 values | the values of each come out in its order, every value gets its end of line, everything is printed |
| ConsoleLines | the same | a violation: two values on one line |

Why the bounds are enough to be interesting.  Three threads are two sleepers and
one between unlock and notify, or one sleeper and two that notify; more threads, and other capacities, are covered by the
proofs.  Capacity 2 has a queue
that is empty, partly full and full.  Three allocating threads let two
race past a test while a third commits.  Heap sizes are chosen so that some
sequences of blocks fit exactly and others miss the end by a word or two.  The call stack of 40 words is a handful of frames,
so a recursion meets its end.  In HeapSerial `BlockSizes` contains an empty payload.
The 132 programs of InterpreterSources are all ordered pairs of twelve fragments that work on one variable, so that each of
them runs with what another left in frames, cells and operands.  SourceFilePasses has these, all functions of two
statements with at most one statement in each block and a label before or behind, all triples of declarations (also as a named parameter in
the type of a variable), uses and literals that use, assign or declare one name, literals over pairs of twelve types, and pairs of what the passes treat differently.
The integers have 16 bits instead of 64, as TLC computes with 32; nothing in a program but the literals depends on the width.
Deadlock is not checked in the heap, runtime and interpreter runs: there the process ends (or throws, or
a goat program blocks, which `OutcomeAsWritten` judges).  In the queue runs it is.

`OutcomeAsWritten` compares how a program ended (finished, blocked, or dead with which
exception) and what it printed with what its source says; the racy counter
has two outcomes because its source does.  In the two hand-written sets, what a program does is written
beside it; some are there because they end badly,
and their expected outcome says how: a path without return ends the whole goroutine
(`MissingReturn`), division by zero reaches the processor (`Division`), a recursion that keeps
no operands runs off the call stack untested (`TailCalls`), one that keeps some overflows the
operand stack (`PendingAdditions`), a string literal in a loop exhausts the heap (`Exhausting`), and
`make` without a size underflows the operand stack (`SizelessChannel`).
One ends well and should not: a negative size is a very large unsigned capacity (`EndlessChannel`).  Others do something else than Go says, and each shows a rule that the
programs of InterpreterSources keep to: a variable without initialiser has the value of an earlier call (`Uninitialised`), one
declared twice is overwritten by the next call (`DeclaredTwice`), and so is one of two variables whose function types name a parameter
alike (`ParameterNames`), a literal cannot call itself through its variable
(`CapturesItself`), `defer` does not defer (`Deferred`, `DeferredResults`), a local function with the name of a function or of
`new` is not the one called (`Shadowing`, `NativeName`), a size that wraps around makes a block that is smaller than its header or
has no payload (`NativeName`, `HugeSlice`) or moves `top` back, so that the next block overwrites a variable (`RewoundHeap`), arguments are not counted (`MissingArgument`), an unnamed parameter kills
its goroutine (`UnnamedParameter`), equal strings differ (`EqualStrings`).
`AccessesInsideBlocks`, `CallChain`, `CallsFit` and `OperandsAsPlanned` look at
every state in between.

All 132 programs of InterpreterSources have a plan (`BalancedCode`), and of the goroutine programs all but `UnnamedParameter`, which underflows.
`CallsFit` and `OperandsAsPlanned` say nothing of a program without a plan.  Of the goroutine programs a run checks `CallsFit`,
from which `OperandsAsPlanned` follows by the theorem below.  Neither is checked of the programs of InterpreterFunctions, where
`CapturesItself` calls a closure that is not the one its types promise, and the callee leaves an argument for its caller.

The properties of `SourceFile` have conditions where the code needs them.  A source is `DeclaredOnce` if no function declares a name twice or
after its use, where the parameters named in the type of a variable count as declared, as `VariableAnalyzer` takes them for parameters
of the function around.  Legal Go need not keep to this: blocks may declare a name again, and `var a func(n int) int` and `var b func(n int) int` are
independent.  `SlotsInFrame` says that the frames are right for these sources and wrong for all others; `CapturesAreCells` is said of these only.
`AnnotatedIsGenerated` is an equivalence, too: of the sources the annotator accepts, the generator refuses, by an exception or a crash, exactly those
with a goto to nowhere (`LabelsExist`) or one of these (`Unsupported`): a return without value; a statement `&x`; a name that is a function for the annotator
and has no index, such as `iprint` outside of a call; a name that is a variable for the annotator only; a send or an assignment to a function; and a captured
variable with initialiser, or a captured parameter, of a type the annotator has null for.  A native function that is called is none of them, and
each of them is needed: TLC finds a source that only it explains.  What is behind an operator & is generated by nobody and left out.
`AccessesInsideBlocks` reads blocks from the headers, one behind the other; it is checked of programs without `new_slice`, the only
instruction whose sizes can wrap around.

Fairness.  Each thread is a platform thread, so a step that stays enabled is
eventually taken: weak fairness per thread.  Nothing is assumed of callers (a program may
never send), of condition variables (a spurious wake-up may never come)
and, in `Runtime`, of the goat program (a goroutine may run for ever); the `std::mutex` of
`Console` promises no order, but each goroutine there prints only a few values; the other mutexes
are held only for sections without waiting, which is why they need no fairness of their own.

## What the models show about the code

* Allocation races.  `Heap::new_block` tests `enough_space` and computes the address before it
  locks.  HeapOvercommit has the counterexample: two goroutines pass
  the test for the last block, both commit, `top` is past `size` and "out of memory!"
  is never thrown.  The same race can return one block to two threads
  (HeapRacing, `ReadAddress` then two commits), so only the weaker `AddressesAreBlocks` holds there.
* Detached threads.  A goroutine is unknown to `Runtime::start` until it runs
  `initialize`.  If main ends first, the runtime is destroyed under it.
  `RuntimeOutlivesPool` is what holds; `RuntimeOutlivesThreads` needs goroutines that are joined.
* Sizes.  `top + block_size` is an unsigned sum.  `new(-4)` and `new(-11)` pass the test of the free space as soon as `top` is large enough, and
  move `top` back over blocks in use, `new(-1)` gets a block smaller than its header, and 2^61 elements one without payload (`NativeName`, `HugeSlice`,
  `RewoundHeap`).  The memory is used again as it is: nothing clears a payload.
* Parameter names.  The variable analysis visits the type of a variable, and takes the named parameters of a function type there for
  parameters of the function around it (`Compiler.hpp:216`): they count as arguments and shift the slots of the locals (`ParameterNames`).
* A parameter of slice or pointer type that a literal captures crashes the compiler: the type in `visitParameterDecl` is null (`Compiler.hpp:1117`).
* The notifications after the unlock lose nothing: `NoLostWakeup` is proved.
* Mixed lines.  `std::lock_guard{io_mutex};` is a temporary, gone before the print.  ConsoleLines has two goroutines whose values share a line;
  ConsolePrints shows what is left of the guarantee.
* Signatures.  `arg_types` is one member for all signatures, cleared at the start of each: the type the annotator gives
  to `appN` of lambda.goat is not the declared one.  Programs run nevertheless, as nothing compares arguments, and
  results survive (`ResultsAsDeclared`).
* `return` without expression is in the grammar, and a null pointer in the compiler (SourceFileReturn).
* The programs of `MCInterpreter` listed above are accepted by every pass and misbehave.
* `examples/short-circuit.goat:3` declares a variable without a type, which the grammar requires; the model
  has the program with the type.

## What is proved

TLAPS checks these for all values of the constants, from the `ASSUME`s of the modules: a finite set of threads for the queue,
whose counting needs it; natural sizes; a positive header; words of at least two bits, in the interpreter of more than three, as a word has eight bytes, in which the sizes of the memories, the lengths of
the functions and the operands of the instructions fit; goroutines that print texts of their own, so that
the output tells who wrote what.  `OvercommitTheorem` adds that there are finitely many threads and sizes of blocks, and at least one.

* Queue: `TypeCorrect`; `CapacityTheorem` and `WakeupTheorem` from the inductive
  invariant `WakeupInv`, type and capacity and `NoLostWakeup` together.  A wake-up can only be
  lost if more items than threads in charge of them remain while someone
  sleeps; each kind of step changes the counts by one, which the lemmas `MoveCounts` and
  `WakeCounts` state once.  Capacity is part of the invariant because a push
  that overfilled the queue would break the count of free slots.
  `Refinement`: every step is a step of `Channel` or a stutter.
* Heap: `Tile` and `Addresses`, under races.  `HeadersTile` is inductive by itself as header and top change
  together; addresses need `AddressInv`: a value of `top` that some thread has read stays the
  boundary of a block.  `Overcommit` and `Refinement` assume `~ Overlapping`;
  `SerialInv` says at most one thread is inside `new_block`, that its test is
  still true and its address is still `top` plus the header, and that headers and
  objects correspond.
  `OvercommitTheorem` is `OvercommitBounded`, under races: `OvercommitInv` counts the threads the test has let through (`LetThrough`).
  Whenever there is one, one of them was let through with `top` low enough that its block and a largest block for each of the others
  fit below the bound; a commit removes one thread from the set and adds one block to `top`.
* Runtime: `OutlivesPool` from `WaiterInv` (the waiter has returned only past an empty pool
  and no holder); `OutlivesThreads` from `JoinInv`: while `joined`, a goroutine
  that has not registered yet has a parent still in `Thread::run`, and that parent is in the pool.

* Interpreter: `FramesTileTheorem`, `CallChainTheorem` and `CallersKeepLocalsTheorem`, for all programs, numbers of threads and sizes of the stacks, from
  `CallStackAssumption` (the call stack holds at least one frame of main), `ProgramsAssumption` (programs are `WellFormed`, the compiler's
  jumps and calls are in range) and the assumption on `WordBits`.  The inductive invariant `IInv` is `Shapes` (memory of the call stack and
  stream keep their form, a thread that waits is not at its end) and `FramesTile`: there is a set of frame addresses, from 0 to
  the frame pointer, where each frame ends exactly where the next begins, points back to it, and returns behind a call of its function.
  `FramesTile` is `CallChain` without
  the recursion that reads the frames back, so that a push adds one element to the set and a return removes
  one; `FramesInChain` shows by induction that reading back finds no other frames.  A write goes to a slot below `varc`, hence between frame pointer and top, hence not into a link: this is
  where `SlotsFit(program)` is needed, which `SlotsInFrame` checks of the compiler and which fails for variables declared twice.
  That callers keep their locals follows, for a return because the caller's frame ends where the callee's began.

* Types of the interpreter: `TypeOKTheorem` is `TypeOK` for programs with `SlotsFit(program)`.  `TypeInv` adds to `IInv` that the program's
  numbers fit words, and the types (`Typed`).  That `top` stays inside the heap although it may move back, and that the address of a new block is a
  word, follows from the test of the free space and from the header having been written (`BlockInHeap`): a block whose header is outside of the
  heap kills the process.  The index of a channel is a word because it is stored as one, whatever it is.  That no operand stack exceeds its limit rests on the test before every push, and, for a thread that waits for an
  item, on nobody else touching its operands (`WaitsTyped`).  `IInv` is needed because `ret` reads function and program counter
  back from raw memory: without the tiling they could be any words.  There is a lemma for each action.
* Operand stacks: `OperandsAsPlannedTheorem` and `LeavesNothingTheorem`, for every program that keeps a plan (`BalancedCode`), as long as the closures it calls
  fit where they are called (`CallsFit`).  The inductive invariant `OperandsInv` gives each frame a base, the operands below its own: that of the oldest
  frame is 0, and for every other frame `Kept` says that base and results together are the base of the caller and the height the caller goes on with.  So a call
  adds one base to those there are, a return is what the plan promised, and no other instruction changes any.  A thread inside
  `chan_recv` has taken the channel and not yet given the item: it owes one (`Owed`).  `CallersKept` shows that the bases are those that
  `CallersOperands` reads back from raw memory, by strong induction along the frames.  That no instruction underflows is part of the invariant.
  `CallsFit` cannot follow from the code alone: which function a closure in the heap has is a matter of what every other thread wrote there.
  `UniformOperandsTheorem` needs no such condition where any function of the program would fit wherever a closure is called (`AnyClosureFits`): in
  programs without such calls, or, like the two counters of `MCInterpreter`, with goroutines that take no arguments.
* Arithmetic: `BinaryWord` and `UnaryWord`, for every width: an instruction that does not trap takes words to words.  `SignedWord` says that wrapping
  around changes a number by a multiple of 2^width and leaves words alone; `QuotientTruncates` says that quotient and remainder are those of C++ (the dividend is their
  combination, the remainder has its sign and is smaller than the divisor).
  `WordsAreBits` says which bits and, or, xor, not and the two shifts compute, and `BitsTellWordsApart` that the bits determine a word, so that the
  definitions of `Arithmetic`, which add and divide, can be trusted for those of C++ at 64 bits although TLC runs them at 16.
* Console: `PrintedInOrderTheorem` and `LinesMixBoundedTheorem`, from `ConsoleInv`: what a goroutine has written and what it still has to
  write are together what it prints, and the values without an end of line are those of goroutines between the two writes.
* Recursion: the provers have no rule of induction that takes a predicate, so `Induction` and `StrongInduction` are stated for a set of numbers
  and follow from the library's fact that < is well-founded; `RecursiveFunction` shows that an equation f = body[f] in which body looks at smaller
  arguments only has a solution, which is what a proof about a recursive function starts from (`TwoTo`, `OfBits`, `Among`, `Frames`, `CallersOperands`).

Only model-checked: the liveness properties (`ReceiverNotStranded`, `SenderNotStranded`,
`ShutdownCompletes`, `Completes`, `EverythingIsPrinted`), which need fairness; `AccessesInsideBlocks` and `OutcomeAsWritten`
of `Interpreter` and `BalancedCode` and `CallsFit` of `OperandPlan`, which do not hold for every program but for those the compiler makes of certain sources; the
passes of the compiler and `SourceFile`, whose visitors are recursive operators.

## What is not modelled, and why

* ANTLR.  The repository contains the headers of the ANTLR runtime (`src/antlr4-runtime-copy`, some 14600 of the
  17500 lines of code), and generates lexer, parser and base visitor from the grammar.  They are third-party code without
  logic of this program, which is why the map covers a small share of all lines; of the compiler and the virtual
  machine themselves, some 2900 lines, it covers all but what is listed here.
* Reading the file and printing the tree: pure I/O.
* `fdiv` and fractions, not-a-number, and the bit patterns of doubles; `nop`, `bload`, `bstore`, `i2f`, `f2i`, which no visit method emits.
* Casts, composite literals, field accesses and struct types (parsed only, no visit method); types as
  arguments, for which no code is emitted: `make(chan int, 1)` is `make(1)` in the trees.
* The literals behind an operator `&`, which emits nothing.
* Two functions with one name, and labels declared twice: not legal, and not noticed.
* `BitSet`: a member nothing uses.  Counts past 2^16 in `Function` (captures, arguments, variables).
* Weak memory: a word of the heap is read and written atomically.  In `Interpreter`, `allocate` is one step;
  `Heap` has the race.  Channels are there the atomic ones `BlockingQueue` is proved to implement.
* The garbage collector in `src/src/unimplemented` is text that is not compiled.
* The order in which two captured variables are passed through an intermediate function is
  that of an `unordered_map`; `VariableAnalyzer` takes the order of the captures.  Creation and use of a closure agree on it either way.

## Plan

1. Done: queue, heap, runtime, console, call stack, interpreter, all passes of the compiler with their comparison with the meaning of the
   source; proofs of queue, heap, runtime, and of the frames of the interpreter.
2. Done: `CallChain`, `TypeOK` and `OvercommitBounded`, `Console` and the operators on words; a height of the operand stack for every
   instruction, checked of compiled code, and the theorem that every thread keeps to it.
3. Left: a typing of the heap, from which `CallsFit` and `AccessesInsideBlocks` would follow; a channel-level abstract machine in which sends and receives are single steps, implemented by `Interpreter`; goroutines
   in `Evaluator`, so that concurrent programs, too, are compared with a meaning that was not written by hand.
