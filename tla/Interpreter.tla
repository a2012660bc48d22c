---------------------------- MODULE Interpreter ----------------------------
(***************************************************************************)
(* The virtual machine: Thread::run (Thread.cpp) with the operand stack    *)
(* (OperandStack.hpp), the call stack (CallStack.tla), the instruction     *)
(* stream (InstructionStream.hpp) and the native functions (Native.cpp).   *)
(* Every goroutine is a thread with stacks of its own; the heap, the       *)
(* channels and the output are shared, and nothing orders the accesses of  *)
(* two threads but the channels.  One instruction is one step, except that *)
(* a thread that sends or receives first reads which channel it is about   *)
(* and then waits inside the channel.                                      *)
(*                                                                         *)
(* Not repeated here: how a channel blocks and wakes threads (it is a      *)
(* Channel, see BlockingQueue.tla), how threads register and the process   *)
(* ends (Runtime.tla), and allocations that race (Heap.tla; here allocate  *)
(* is one step).  Sizes and addresses are in words, arithmetic is that of  *)
(* Arithmetic.tla.  nop, bload and bstore, which the compiler never emits, *)
(* are left out.                                                           *)
(***************************************************************************)
EXTENDS Arithmetic, Bytecode, CallStack, FiniteSets

CONSTANTS
  Threads,          \* platform threads; no program starts more goroutines
  Main,             \* the one that runs main
  Programs,         \* compiled programs, see below
  HeapSize,         \* configuration.heap_size
  CallStackSize,    \* configuration.call_stack_size
  OperandStackSize  \* configuration.operand_stack_size

(***************************************************************************)
(* A program is one of Bytecode.tla, with natives, the names of the native *)
(* functions, and outcomes, the ways its author may see it end, [how,      *)
(* output].  The interpreter tests neither where the jumps and calls of a  *)
(* program go, nor that the first frame fits: the compiler and             *)
(* default_configuration see to these assumptions.  A word holds every     *)
(* operand of an instruction and every address, in the code or in memory.  *)
(***************************************************************************)
FitsWords(p) ==
  /\ Len(p.functions) - 1 \in Word
  /\ \A i \in DOMAIN p.functions :
       LET code == p.functions[i].code
       IN  /\ Len(code) \in Word
           /\ \A j \in DOMAIN code : code[j].index \in Word

ASSUME MainAssumption == Main \in Threads
ASSUME ProgramsAssumption == \A p \in Programs : WellFormed(p) /\ FitsWords(p)
ASSUME CallStackAssumption == CallStackSize \in Nat /\ CallStackSize >= FrameDataSize
ASSUME BytesAssumption == WordBits > 3
ASSUME SizesAssumption ==
  /\ HeapSize \in Nat /\ HeapSize \in Word
  /\ CallStackSize \in Word
  /\ OperandStackSize \in Nat

VARIABLES
  program,    \* the program the process was started with
  status,     \* status[t]: see Statuses
  stream,     \* stream[t]: InstructionStream, [function, program_counter]
  call_stack, \* call_stack[t]: CallStack
  operands,   \* operands[t]: OperandStack, top last
  waiting,    \* waiting[t]: the channel, and the item, t is sending or receiving
  heap,       \* the words of Heap::this_half, all of them readable and writable
  top,        \* Heap::top
  channels,   \* ChannelManager::channels; index i is channels[i + 1]
  output,     \* what was printed
  fault       \* why the process died, or "none"

local == <<status, stream, call_stack, operands, waiting>>
memory == <<heap, top>>
vars == <<program, local, memory, channels, output, fault>>

(* "absent": not started; "running"; "sending", "receiving": inside the     *)
(* channel; "ended": Thread::run returned.                                  *)
Statuses == {"absent", "running", "sending", "receiving", "ended"}

(* The exceptions, which nothing catches, and undefined behaviour.          *)
Faults == {"operand stack underflow!", "operand stack overflow!",
           "out of memory!", "undefined"}

NoWait == [channel |-> 0, item |-> 0]

-----------------------------------------------------------------------------
(* The instruction t is at.  next() moves past it before it is executed and *)
(* returns nullptr at the end of the code.                                  *)
Functions == Indices(program)
Function(index) == program.functions[index + 1]
Code(t) == Function(stream[t].function).code
AtEnd(t) == stream[t].program_counter >= Len(Code(t))
Current(t) == Code(t)[stream[t].program_counter + 1]
Index(t) == Current(t).index

(* The opcode, or the native function that invoke_native calls.             *)
OperationOf(p, instruction) ==
  IF instruction.opcode = "invoke_native"
  THEN p.natives[instruction.index + 1] ELSE instruction.opcode

Operation(t) == OperationOf(program, Current(t))

NextInstruction(t) ==
  stream' = [stream EXCEPT ![t].program_counter = @ + 1]

JumpTo(t, function, program_counter) ==
  stream' = [stream EXCEPT
    ![t] = [function |-> function, program_counter |-> program_counter]]

-----------------------------------------------------------------------------
(* The operand stack: the i-th value from the top, and pop n then push ws.  *)
Depth(t) == Len(operands[t])
Operand(t, i) == operands[t][Depth(t) - i + 1]
Rest(t, n) == SubSeq(operands[t], 1, Depth(t) - n)
PopPush(t, n, words) == operands' = [operands EXCEPT ![t] = Rest(t, n) \o words]

-----------------------------------------------------------------------------
(* The heap: load and store test nothing, allocate tests the free space.    *)
HeaderWords == 3
Mapped(a) == a \in DOMAIN heap

(* Sizes are counted in bytes, eight to a word, and kept in 64 bits: counted*)
(* in words, they wrap around here.  This is the end of a block of the given*)
(* payload: block_size and top + block_size may both wrap, so that a block  *)
(* of -4 words ends before it starts, and one of 2^61 has no payload.       *)
SizeLimit == TwoTo[WordBits - 3]
EndOfBlock(words) == (top + HeaderWords + words) % SizeLimit

(* Faulty variant: the header of the block is not counted.                  *)
FitsPayload(words) == (top + words) % SizeLimit <= HeapSize

Fits(words) == EndOfBlock(words) <= HeapSize
NewAddress == top + HeaderWords
Advance(words) == top' = EndOfBlock(words)

(* The heap after allocate: only the header is written.  type_index is      *)
(* represented by the words that an element of the type takes.              *)
WithHeader(element_words, count) ==
  [heap EXCEPT ![top] = 0, ![top + 1] = element_words, ![top + 2] = count]

(* A closure is the index of its function, then the captured addresses.     *)
ClosureIndex(a) == heap[a]
HoldsClosure(a) == Mapped(a) /\ ClosureIndex(a) \in Functions
ClosureWords(a) ==
  IF HoldsClosure(a) THEN a .. (a + Function(ClosureIndex(a)).capc) ELSE {a}

(* Faulty variant: the first captured address is taken from the header.     *)
CapturesFromHeader(a) == [i \in 1 .. Function(ClosureIndex(a)).capc |-> heap[a + i - 1]]

(* The captured addresses, which become the first locals of a new frame.    *)
Captures(a) == [i \in 1 .. Function(ClosureIndex(a)).capc |-> heap[a + i]]

-----------------------------------------------------------------------------
(* What an instruction takes from the operand stack and gives back to it.   *)
Arguments(t) ==
  IF Depth(t) > 0 /\ HoldsClosure(Operand(t, 1))
  THEN Function(ClosureIndex(Operand(t, 1))).argc ELSE 0

Taken(operation) ==
  CASE operation \in {"load", "push", "goto", "invoke_static", "ret", "new"} -> 0
    [] operation \in Binary \cup {"swap", "wstore", "chan_send"} -> 2
    [] OTHER -> 1

Given(operation) ==
  CASE operation \in {"dup", "swap"} -> 2
    [] operation \in Binary \cup Unary
                       \cup {"load", "push", "wload", "new", "new_chan", "new_slice"} -> 1
    [] OTHER -> 0

Pops(t) == Taken(Operation(t)) + IF Operation(t) = "new_thread" THEN Arguments(t) ELSE 0
Pushes(t) == Given(Operation(t))

(* The words of the heap an instruction reads or writes.                    *)
Accesses(t) ==
  CASE Operation(t) = "wload" -> {Operand(t, 1) + Index(t)}
    [] Operation(t) = "wstore" -> {Operand(t, 2) + Index(t)}
    [] Operation(t) = "chan_send" -> {Operand(t, 2)}
    [] Operation(t) \in {"chan_recv", "sprint"} -> {Operand(t, 1)}
    [] Operation(t) \in {"invoke_dynamic", "new_thread"} -> ClosureWords(Operand(t, 1))
    [] OTHER -> {}

(* Where C++ promises nothing: nothing in the code prevents these.          *)
FrameFits(cs, captures) == InBounds(cs, cs.top + FrameDataSize + captures - 1)
IsChannel(a) == Unsigned(heap[a]) < Len(channels)

(* Allocations: the payload, and the words written without a further test.  *)
Allocates(t) == Operation(t) \in {"new", "new_chan", "new_slice"}
BlockWords(t) ==
  CASE Operation(t) = "new" -> Index(t)
    [] Operation(t) = "new_chan" -> 1
    [] Operation(t) = "new_slice" -> Operand(t, 1)
Written(t) == top .. (IF Operation(t) = "new_chan" THEN NewAddress ELSE NewAddress - 1)

Undefined(t) ==
  \/ ~ \A a \in Accesses(t) : Mapped(a)
  \/ Operation(t) \in {"load", "store"} /\ ~ InBounds(call_stack[t], LocalAddress(call_stack[t], Index(t)))
  \/ Operation(t) = "invoke_static" /\ ~ FrameFits(call_stack[t], 0)
  \/ Operation(t) \in {"invoke_dynamic", "new_thread"} /\ ~ HoldsClosure(Operand(t, 1))
  \/ Operation(t) = "invoke_dynamic" /\ ~ FrameFits(call_stack[t], Len(Captures(Operand(t, 1))))
  \/ Operation(t) = "new_thread"
       /\ ~ FrameFits(NewCallStack(CallStackSize), Len(Captures(Operand(t, 1))))
  \/ Operation(t) = "chan_send" /\ ~ IsChannel(Operand(t, 2))
  \/ Operation(t) = "chan_recv" /\ ~ IsChannel(Operand(t, 1))
  \/ Operation(t) \in Binary /\ Traps(Operation(t), Operand(t, 2), Operand(t, 1))
  \/ Allocates(t) /\ Fits(BlockWords(t)) /\ ~ \A a \in Written(t) : Mapped(a)

Exhausted(t) == Allocates(t) /\ ~ Fits(BlockWords(t))

(* How the instruction t is at fails: pops come before accesses and pushes. *)
Failure(t) ==
  IF Depth(t) < Pops(t) THEN "operand stack underflow!"
  ELSE IF Undefined(t) THEN "undefined"
  ELSE IF Exhausted(t) THEN "out of memory!"
  ELSE IF Depth(t) - Pops(t) + Pushes(t) > OperandStackSize THEN "operand stack overflow!"
  ELSE "none"

Ready(t) == fault = "none" /\ status[t] = "running"

Executes(t, operations) ==
  /\ Ready(t)
  /\ ~ AtEnd(t)
  /\ Operation(t) \in operations
  /\ Failure(t) = "none"

-----------------------------------------------------------------------------
(* Instructions that stay within the two stacks of t.                       *)

Load(t) ==
  /\ Executes(t, {"load"})
  /\ PopPush(t, 0, <<LoadLocal(call_stack[t], Index(t))>>)
  /\ NextInstruction(t)
  /\ UNCHANGED <<program, status, call_stack, waiting, memory, channels, output, fault>>

Store(t) ==
  /\ Executes(t, {"store"})
  /\ call_stack' = [call_stack EXCEPT ![t] = StoreLocal(@, Index(t), Operand(t, 1))]
  /\ PopPush(t, 1, <<>>)
  /\ NextInstruction(t)
  /\ UNCHANGED <<program, status, waiting, memory, channels, output, fault>>

Shuffle(t) ==
  /\ \/ Executes(t, {"push"}) /\ PopPush(t, 0, <<Index(t)>>)
     \/ Executes(t, {"pop"}) /\ PopPush(t, 1, <<>>)
     \/ Executes(t, {"dup"}) /\ PopPush(t, 0, <<Operand(t, 1)>>)
     \/ Executes(t, {"swap"}) /\ PopPush(t, 2, <<Operand(t, 1), Operand(t, 2)>>)
  /\ NextInstruction(t)
  /\ UNCHANGED <<program, status, call_stack, waiting, memory, channels, output, fault>>

Calculate(t) ==
  /\ \/ /\ Executes(t, Binary)
        /\ PopPush(t, 2, <<BinaryResult(Operation(t), Operand(t, 2), Operand(t, 1))>>)
     \/ /\ Executes(t, Unary)
        /\ PopPush(t, 1, <<UnaryResult(Operation(t), Operand(t, 1))>>)
  /\ NextInstruction(t)
  /\ UNCHANGED <<program, status, call_stack, waiting, memory, channels, output, fault>>

Branch(t) ==
  /\ \/ Executes(t, {"goto"}) /\ PopPush(t, 0, <<>>) /\ JumpTo(t, stream[t].function, Index(t))
     \/ /\ Executes(t, {"if_t"})
        /\ PopPush(t, 1, <<>>)
        /\ IF Operand(t, 1) # 0 THEN JumpTo(t, stream[t].function, Index(t)) ELSE NextInstruction(t)
     \/ /\ Executes(t, {"if_f"})
        /\ PopPush(t, 1, <<>>)
        /\ IF Operand(t, 1) = 0 THEN JumpTo(t, stream[t].function, Index(t)) ELSE NextInstruction(t)
  /\ UNCHANGED <<program, status, call_stack, waiting, memory, channels, output, fault>>

-----------------------------------------------------------------------------
(* Instructions that use the heap.                                          *)

WLoad(t) ==
  /\ Executes(t, {"wload"})
  /\ PopPush(t, 1, <<heap[Operand(t, 1) + Index(t)]>>)
  /\ NextInstruction(t)
  /\ UNCHANGED <<program, status, call_stack, waiting, memory, channels, output, fault>>

WStore(t) ==
  /\ Executes(t, {"wstore"})
  /\ heap' = [heap EXCEPT ![Operand(t, 2) + Index(t)] = Operand(t, 1)]
  /\ PopPush(t, 2, <<>>)
  /\ NextInstruction(t)
  /\ UNCHANGED <<program, status, call_stack, waiting, top, channels, output, fault>>

(* The payload keeps what the memory held before.                           *)
New(t) ==
  /\ Executes(t, {"new"})
  /\ heap' = WithHeader(Index(t), 1)
  /\ Advance(Index(t))
  /\ PopPush(t, 0, <<NewAddress>>)
  /\ NextInstruction(t)
  /\ UNCHANGED <<program, status, call_stack, waiting, channels, output, fault>>

-----------------------------------------------------------------------------
(* Calls.                                                                   *)

(* INVOKE_FUNCTION; the arguments stay on the operand stack.                *)
Called(t, index) ==
  PushFrame(call_stack[t], index, Function(index).varc, stream[t].program_counter + 1)

InvokeStatic(t) ==
  /\ Executes(t, {"invoke_static"})
  /\ call_stack' = [call_stack EXCEPT ![t] = Called(t, Index(t))]
  /\ JumpTo(t, Index(t), 0)
  /\ UNCHANGED <<program, status, operands, waiting, memory, channels, output, fault>>

InvokeDynamic(t) ==
  /\ Executes(t, {"invoke_dynamic"})
  /\ call_stack' = [call_stack EXCEPT
       ![t] = StoreLocals(Called(t, ClosureIndex(Operand(t, 1))), Captures(Operand(t, 1)))]
  /\ JumpTo(t, ClosureIndex(Operand(t, 1)), 0)
  /\ PopPush(t, 1, <<>>)
  /\ UNCHANGED <<program, status, waiting, memory, channels, output, fault>>

(* The frame is popped; the thread ends if it was the last one.             *)
Ret(t) ==
  LET cs == call_stack[t]
      caller == PopFrame(cs)
  IN  /\ Executes(t, {"ret"})
      /\ call_stack' = [call_stack EXCEPT ![t] = caller]
      /\ IF Empty(caller)
         THEN status' = [status EXCEPT ![t] = "ended"] /\ NextInstruction(t)
         ELSE /\ JumpTo(t, FunctionIndex(caller, caller.frame_pointer),
                            SavedProgramCounter(cs, cs.frame_pointer))
              /\ UNCHANGED status
      /\ UNCHANGED <<program, operands, waiting, memory, channels, output, fault>>

(* next() returned nullptr: run returns, however many frames there are.     *)
FallOff(t) ==
  /\ Ready(t)
  /\ AtEnd(t)
  /\ status' = [status EXCEPT ![t] = "ended"]
  /\ UNCHANGED <<program, stream, call_stack, operands, waiting, memory, channels, output, fault>>

-----------------------------------------------------------------------------
(* Native functions.                                                        *)

Absent == {c \in Threads : status[c] = "absent"}

(* A thread like c, running the closure at a on the given arguments.        *)
Starts(t, c, a, arguments) ==
  /\ status' = [status EXCEPT ![c] = "running"]
  /\ stream' = [stream EXCEPT ![t].program_counter = @ + 1,
                              ![c] = [function |-> ClosureIndex(a), program_counter |-> 0]]
  /\ call_stack' = [call_stack EXCEPT ![c] =
       StoreLocals(PushFrame(NewCallStack(CallStackSize), ClosureIndex(a),
                             Function(ClosureIndex(a)).varc, 0),
                   Captures(a))]
  /\ operands' = [operands EXCEPT ![t] = Rest(t, 1 + Len(arguments)), ![c] = arguments]

(* Faulty variant: the arguments are pushed in the order they were popped.  *)
NewThreadReversed(t) ==
  /\ Executes(t, {"new_thread"})
  /\ Absent # {}
  /\ Starts(t, CHOOSE c \in Absent : TRUE, Operand(t, 1),
            [i \in 1 .. Arguments(t) |-> Operand(t, 1 + i)])
  /\ UNCHANGED <<program, waiting, memory, channels, output, fault>>

(* new_thread: the closure and the arguments are popped, and the arguments  *)
(* pushed in the same order on the operand stack of a new thread.           *)
NewThread(t) ==
  /\ Executes(t, {"new_thread"})
  /\ Absent # {}
  /\ Starts(t, CHOOSE c \in Absent : TRUE, Operand(t, 1),
            [i \in 1 .. Arguments(t) |-> Operand(t, 2 + Arguments(t) - i)])
  /\ UNCHANGED <<program, waiting, memory, channels, output, fault>>

(* new_chan: the object holds the index of the new channel.  The capacity   *)
(* is unsigned: a negative one is one that no buffer ever reaches.          *)
NewChan(t) ==
  /\ Executes(t, {"new_chan"})
  /\ channels' = Append(channels, [capacity |-> Unsigned(Operand(t, 1)), buffer |-> <<>>])
  /\ heap' = [WithHeader(1, 1) EXCEPT ![NewAddress] = Signed(Len(channels))]
  /\ Advance(1)
  /\ PopPush(t, 1, <<NewAddress>>)
  /\ NextInstruction(t)
  /\ UNCHANGED <<program, status, call_stack, waiting, output, fault>>

(* new_slice: the length is an operand, the count of elements of one word.  *)
NewSlice(t) ==
  /\ Executes(t, {"new_slice"})
  /\ heap' = WithHeader(1, Operand(t, 1))
  /\ Advance(Operand(t, 1))
  /\ PopPush(t, 1, <<NewAddress>>)
  /\ NextInstruction(t)
  /\ UNCHANGED <<program, status, call_stack, waiting, channels, output, fault>>

(* chan_send and chan_recv, up to the call of push or pop.                  *)
Enter(t, place, channel, item) ==
  /\ status' = [status EXCEPT ![t] = place]
  /\ waiting' = [waiting EXCEPT ![t] = [channel |-> channel, item |-> item]]
  /\ PopPush(t, Pops(t), <<>>)
  /\ NextInstruction(t)
  /\ UNCHANGED <<program, call_stack, memory, channels, output, fault>>

ChanSend(t) ==
  /\ Executes(t, {"chan_send"})
  /\ Enter(t, "sending", Unsigned(heap[Operand(t, 2)]), Operand(t, 1))

ChanRecv(t) ==
  /\ Executes(t, {"chan_recv"})
  /\ Enter(t, "receiving", Unsigned(heap[Operand(t, 1)]), 0)

(* The call of push or pop takes effect, as the Send and Receive of Channel.*)
Channel(t) == channels[waiting[t].channel + 1]
SetBuffer(t, buffer) ==
  channels' = [channels EXCEPT ![waiting[t].channel + 1].buffer = buffer]
HasRoom(t) == Len(Channel(t).buffer) < Channel(t).capacity
HasItem(t) == Channel(t).buffer # <<>>

Leave(t) ==
  /\ status' = [status EXCEPT ![t] = "running"]
  /\ waiting' = [waiting EXCEPT ![t] = NoWait]
  /\ UNCHANGED <<program, stream, call_stack, memory, output, fault>>

(* Faulty variant: a push into a full channel does not block.               *)
SendToFull(t) ==
  /\ fault = "none" /\ status[t] = "sending"
  /\ SetBuffer(t, Append(Channel(t).buffer, waiting[t].item))
  /\ Leave(t)
  /\ UNCHANGED operands

(* Faulty variant: the sender does not notice that its item was taken in.   *)
SendStays(t) ==
  /\ fault = "none" /\ status[t] = "sending"
  /\ HasRoom(t)
  /\ SetBuffer(t, Append(Channel(t).buffer, waiting[t].item))
  /\ UNCHANGED <<program, local, memory, output, fault>>

Send(t) ==
  /\ fault = "none" /\ status[t] = "sending"
  /\ HasRoom(t)
  /\ SetBuffer(t, Append(Channel(t).buffer, waiting[t].item))
  /\ Leave(t)
  /\ UNCHANGED operands

Receive(t) ==
  /\ fault = "none" /\ status[t] = "receiving"
  /\ HasItem(t)
  /\ SetBuffer(t, Tail(Channel(t).buffer))
  /\ PopPush(t, 0, <<Head(Channel(t).buffer)>>)
  /\ Leave(t)

(* iprint and fprint print the number, sprint the string whose index is in  *)
(* the heap.                                                                *)
PrintValue(t) ==
  /\ \/ Executes(t, {"iprint", "fprint"}) /\ output' = Append(output, Operand(t, 1))
     \/ Executes(t, {"sprint"}) /\ output' = Append(output, heap[Operand(t, 1)])
  /\ PopPush(t, 1, <<>>)
  /\ NextInstruction(t)
  /\ UNCHANGED <<program, status, call_stack, waiting, memory, channels, fault>>

(* Nothing catches the exception: the process dies, with all its threads.   *)
Fail(t) ==
  /\ Ready(t)
  /\ ~ AtEnd(t)
  /\ Failure(t) # "none"
  /\ fault' = Failure(t)
  /\ UNCHANGED <<program, local, memory, channels, output>>

-----------------------------------------------------------------------------
(* Runtime::start runs main, on the main thread, with empty stacks.         *)
Init ==
  /\ program \in Programs
  /\ status = [t \in Threads |-> IF t = Main THEN "running" ELSE "absent"]
  /\ stream = [t \in Threads |->
       [function |-> IF t = Main THEN program.main ELSE 0, program_counter |-> 0]]
  /\ call_stack = [t \in Threads |->
       IF t = Main
       THEN PushFrame(NewCallStack(CallStackSize), program.main, Function(program.main).varc, 0)
       ELSE NewCallStack(CallStackSize)]
  /\ operands = [t \in Threads |-> <<>>]
  /\ waiting = [t \in Threads |-> NoWait]
  /\ heap = [a \in 0 .. (HeapSize - 1) |-> 0]
  /\ top = 0
  /\ channels = <<>>
  /\ output = <<>>
  /\ fault = "none"

Step(t) ==
  \/ Load(t) \/ Store(t) \/ Shuffle(t) \/ Calculate(t) \/ Branch(t)
  \/ WLoad(t) \/ WStore(t) \/ New(t)
  \/ InvokeStatic(t) \/ InvokeDynamic(t) \/ Ret(t) \/ FallOff(t)
  \/ NewThread(t) \/ NewChan(t) \/ NewSlice(t)
  \/ ChanSend(t) \/ ChanRecv(t) \/ Send(t) \/ Receive(t)
  \/ PrintValue(t) \/ Fail(t)

Next == \E t \in Threads : Step(t)

Spec == Init /\ [][Next]_vars

(* Every goroutine has a platform thread, and the system schedules it.      *)
FairSpec == Spec /\ \A t \in Threads : WF_vars(Step(t))

-----------------------------------------------------------------------------
(* The variables keep their types.  In particular no number leaves the      *)
(* range of a word, no operand stack and no channel holds more than it may, *)
(* and a thread inside a channel is inside one that exists, with room for   *)
(* what it receives.                                                        *)
Memory(size) == [0 .. (size - 1) -> Word]

TypeOK ==
  /\ status \in [Threads -> Statuses]
  /\ stream \in [Threads -> [function : Functions, program_counter : Nat]]
  /\ call_stack \in [Threads -> [memory : Memory(CallStackSize), top : Nat, frame_pointer : Nat]]
  /\ operands \in [Threads -> Seq(Word)]
  /\ \A t \in Threads : Depth(t) <= OperandStackSize
  /\ waiting \in [Threads -> [channel : Nat, item : Word]]
  /\ heap \in Memory(HeapSize)
  /\ top \in 0 .. HeapSize
  /\ channels \in Seq([capacity : UnsignedWord, buffer : Seq(Word)])
  /\ \A i \in DOMAIN channels : Len(channels[i].buffer) <= channels[i].capacity
  /\ \A t \in Threads :
       /\ status[t] \in {"sending", "receiving"} => waiting[t].channel + 1 \in DOMAIN channels
       /\ status[t] = "receiving" => Depth(t) < OperandStackSize
  /\ output \in Seq(Word)
  /\ fault \in Faults \cup {"none"}

(* The frames of a thread, read back from raw memory, are the calls it is   *)
(* in the middle of: they tile the used part of the call stack, the newest  *)
(* is of the function being executed, and every frame but the first returns *)
(* to just behind an instruction of its caller that calls this function.    *)
(* This is so if every local a function names is in its frame; the compiler *)
(* sees to that unless a name is declared twice (see SourceFile.tla).       *)
Follows(cs, frame) ==
  LET caller == FunctionIndex(cs, SavedFramePointer(cs, frame))
      pc == SavedProgramCounter(cs, frame)
  IN  /\ frame = SavedFramePointer(cs, frame) + FrameDataSize + Function(caller).varc
      /\ pc \in 1 .. Len(Function(caller).code)
      /\ LET call == Function(caller).code[pc]
         IN  \/ call.opcode = "invoke_dynamic"
             \/ call.opcode = "invoke_static" /\ call.index = FunctionIndex(cs, frame)

CallChain ==
  SlotsFit(program) => \A t \in Threads : status[t] \notin {"absent", "ended"} =>
    LET cs == call_stack[t]
    IN  /\ stream[t].function = FunctionIndex(cs, cs.frame_pointer)
        /\ cs.top = cs.frame_pointer + FrameDataSize + Function(stream[t].function).varc
        /\ \A frame \in Frames(cs) \ {0} : Follows(cs, frame)

(* A step of a function writes in its own frame, or in the frame of the     *)
(* function it calls: its callers find their locals as they left them.      *)
CallersKeepLocals ==
  [][SlotsFit(program) => \A t \in Threads : \A a \in DOMAIN call_stack[t].memory :
       call_stack'[t].memory[a] # call_stack[t].memory[a] =>
         a \in call_stack'[t].frame_pointer .. (call_stack'[t].top - 1)]_vars

(* No instruction reads or writes a word of the heap outside of the blocks  *)
(* that were allocated, or in the header of one: neither a captured         *)
(* variable, nor a closure, a channel or an item in flight is ever a stale  *)
(* or a made-up address.  This is said of programs without new_slice: only  *)
(* its sizes can wrap, and then a block may start inside another one.       *)
Payload ==
  LET words(a) == heap[a + 1] * heap[a + 2]
      from[a \in Nat] ==
        IF a >= top THEN {}
        ELSE ((a + HeaderWords) .. (a + HeaderWords + words(a) - 1))
               \cup from[a + HeaderWords + words(a)]
  IN  from[0]

AccessesInsideBlocks ==
  \A t \in Threads :
    (Ready(t) /\ ~ AtEnd(t) /\ Failure(t) # "operand stack underflow!") => Accesses(t) \subseteq Payload

(* How the process ends, if it has ended.                                   *)
Stuck(t) ==
  \/ status[t] = "sending" /\ ~ HasRoom(t)
  \/ status[t] = "receiving" /\ ~ HasItem(t)

How ==
  CASE fault # "none" -> fault
    [] fault = "none" /\ \A t \in Threads : status[t] \in {"absent", "ended"} -> "finished"
    [] fault = "none" /\ (\E t \in Threads : status[t] \in {"sending", "receiving"})
         /\ (\A t \in Threads : status[t] \in {"absent", "ended"} \/ Stuck(t)) -> "blocked"
    [] OTHER -> "running"

Outcome == [how |-> How, output |-> output]

(* A program ends in a way its source allows, and prints what its source    *)
(* says it prints, whatever the interleaving of its goroutines.             *)
OutcomeAsWritten == How # "running" => Outcome \in program.outcomes

(* Every statement takes what its expressions left on the operand stack:    *)
(* when the main function returns, nothing is on it.                        *)
LeavesNothing == status[Main] = "ended" => operands[Main] = <<>>

(* Every program runs to such an end: no goroutine is left waiting beside   *)
(* an item or a free slot, and no loop runs on.                             *)
Completes == <>(Outcome \in program.outcomes)
=============================================================================
