------------------------------ MODULE Machine ------------------------------
(***************************************************************************)
(* run(): the instruction loop.  A value on the stack is as in Bytecode;   *)
(* a closure is a number.  The collector (module Mutator) is left out, and *)
(* so is the width of numbers: the programs here need small integers only. *)
(***************************************************************************)
EXTENDS UpvalueList, Bytecode, FiniteSetsExt, SequencesExt

CONSTANTS
  FramesMax,   \* FRAMES_MAX
  Time         \* what the native clock() returns

ASSUME MachineAssumption == FramesMax \in Nat \ {0} /\ Time \in Int

VARIABLES
  stack,         \* vm.stack up to vm.stackTop
  frames,        \* vm.frames
  closures,      \* the closures made so far
  location,      \* upvalue -> ObjUpvalue.location: a slot, or 0 for the address of closed
  closed,        \* upvalue -> ObjUpvalue.closed
  openUpvalues,  \* the list vm.openUpvalues
  globals,       \* vm.globals
  output,        \* what has been printed
  result         \* "none" until run() returns

machineVars == <<stack, frames, closures, location, closed, openUpvalues, globals, output, result>>

heap == <<closures, location, closed, openUpvalues>>

Frame == frames[Len(frames)]

Code == closures[Frame.closure].function.code

Captured == closures[Frame.closure].upvalues

OperandByte == Byte(Code, Frame.ip + 1)

Constant == closures[Frame.closure].function.constants[OperandByte + 1]

Peek(distance) == stack[Len(stack) - distance]

Popped(n) == SubSeq(stack, 1, Len(stack) - n)

At(op) == result = "none" /\ frames # <<>> /\ Byte(Code, Frame.ip) = op

To(ip) == [frames EXCEPT ![Len(frames)].ip = ip]

\* runtimeError() and resetStack()
RuntimeError ==
  /\ stack' = <<>> /\ frames' = <<>> /\ openUpvalues' = <<>>
  /\ result' = "runtime error"
  /\ UNCHANGED <<closures, location, closed, globals, output>>

\* An instruction of so many bytes that changes only the stack.
Stacks(size, after) ==
  /\ stack' = after
  /\ frames' = To(Frame.ip + size)
  /\ UNCHANGED <<heap, globals, output, result>>

----------------------------------------------------------------------------
PushLiteral(op, value) == At(op) /\ Stacks(1, Append(stack, value))

LoadConstant == At(Op.CONSTANT) /\ Stacks(2, Append(stack, Constant))

Discard == At(Op.POP) /\ Stacks(1, Popped(1))

GetLocal == At(Op.GET_LOCAL) /\ Stacks(2, Append(stack, stack[Frame.slots + OperandByte]))

SetLocal == At(Op.SET_LOCAL) /\ Stacks(2, [stack EXCEPT ![Frame.slots + OperandByte] = Peek(0)])

GetGlobal ==
  /\ At(Op.GET_GLOBAL)
  /\ IF Constant.val \in DOMAIN globals
     THEN Stacks(2, Append(stack, globals[Constant.val]))
     ELSE RuntimeError

DefineGlobal ==
  /\ At(Op.DEFINE_GLOBAL)
  /\ globals' = (Constant.val :> Peek(0)) @@ globals
  /\ stack' = Popped(1)
  /\ frames' = To(Frame.ip + 2)
  /\ UNCHANGED <<heap, output, result>>

SetGlobal ==
  /\ At(Op.SET_GLOBAL)
  /\ IF Constant.val \in DOMAIN globals
     THEN /\ globals' = [globals EXCEPT ![Constant.val] = Peek(0)]
          /\ frames' = To(Frame.ip + 2)
          /\ UNCHANGED <<stack, heap, output, result>>
     ELSE RuntimeError

GetUpvalue ==
  /\ At(Op.GET_UPVALUE)
  /\ LET u == Captured[OperandByte + 1]
     IN  Stacks(2, Append(stack, IF location[u] = 0 THEN closed[u] ELSE stack[location[u]]))

SetUpvalue ==
  /\ At(Op.SET_UPVALUE)
  /\ LET u == Captured[OperandByte + 1]
     IN  IF location[u] = 0
         THEN closed' = [closed EXCEPT ![u] = Peek(0)] /\ UNCHANGED stack
         ELSE stack' = [stack EXCEPT ![location[u]] = Peek(0)] /\ UNCHANGED closed
  /\ frames' = To(Frame.ip + 2)
  /\ UNCHANGED <<closures, location, openUpvalues, globals, output, result>>

Equal == At(Op.EQUAL) /\ Stacks(1, Append(Popped(2), Bool(ValuesEqual(Peek(1), Peek(0)))))

\* BINARY_OP
Arithmetic(op, value) ==
  /\ At(op)
  /\ IF Peek(0).type = "number" /\ Peek(1).type = "number"
     THEN Stacks(1, Append(Popped(2), value))
     ELSE RuntimeError

Add ==
  /\ At(Op.ADD)
  /\ IF Peek(0).type = Peek(1).type /\ Peek(0).type \in {"number", "string"}
     THEN Stacks(1, Append(Popped(2),
            IF Peek(0).type = "number" THEN Number(Peek(1).val + Peek(0).val)
            ELSE String(Peek(1).val \o Peek(0).val)))
     ELSE RuntimeError

Not == At(Op.NOT) /\ Stacks(1, Append(Popped(1), Bool(IsFalsey(Peek(0)))))

Negate ==
  /\ At(Op.NEGATE)
  /\ IF Peek(0).type = "number" THEN Stacks(1, Append(Popped(1), Number(- Peek(0).val))) ELSE RuntimeError

\* A closure is printed by the name of its function.
Printed(value) ==
  IF value.type = "closure" THEN [value EXCEPT !.val = closures[value.val].function.name] ELSE value

OpPrint ==
  /\ At(Op.PRINT)
  /\ output' = Append(output, Printed(Peek(0)))
  /\ stack' = Popped(1)
  /\ frames' = To(Frame.ip + 1)
  /\ UNCHANGED <<heap, globals, result>>

Jump == At(Op.JUMP) /\ Stacks(3 + Short(Code, Frame.ip + 1), stack)

JumpIfFalse ==
  At(Op.JUMP_IF_FALSE) /\ Stacks(IF IsFalsey(Peek(0)) THEN 3 + Short(Code, Frame.ip + 1) ELSE 3, stack)

LoopBack == At(Op.LOOP) /\ Stacks(3 - Short(Code, Frame.ip + 1), stack)

----------------------------------------------------------------------------
NewFrame(closure, slots) == [closure |-> closure, ip |-> 0, slots |-> slots]

\* OP_CALL.  The caller goes on behind the instruction.
CallClosure(argCount) ==
  LET callee == Peek(argCount).val
  IN  IF argCount # closures[callee].function.arity \/ Len(frames) = FramesMax
      THEN RuntimeError
      ELSE /\ frames' = Append(To(Frame.ip + 2), NewFrame(callee, Len(stack) - argCount))
           /\ UNCHANGED <<stack, heap, globals, output, result>>

Call ==
  /\ At(Op.CALL)
  /\ LET argCount == OperandByte
     IN  CASE Peek(argCount).type = "closure" -> CallClosure(argCount)
           [] Peek(argCount).type = "native"  -> Stacks(2, Append(Popped(argCount + 1), Number(Time)))
           [] OTHER                           -> RuntimeError

\* The loop of OP_CLOSURE: operands are pairs of isLocal and index, counted from 1.  The
\* variables of the record are those that captureUpvalue() changes.
MakeUpvalues(function) ==
  LET state == [location |-> location, closed |-> closed, open |-> openUpvalues, upvalues |-> <<>>]
      \* captureUpvalue()
      capture(s, slot) ==
        IF IsShared(s.open, s.location, slot)
        THEN [s EXCEPT !.upvalues = Append(@, Shared(s.open, s.location, slot))]
        ELSE LET u == Len(s.location) + 1
             IN  [location |-> Append(s.location, slot),
                  closed   |-> Append(s.closed, Nil),
                  open     |-> Inserted(s.open, s.location, slot, u),
                  upvalues |-> Append(s.upvalues, u)]
      filled[i \in 0..function.upvalueCount] ==
        IF i = 0 THEN state
        ELSE LET isLocal == Byte(Code, Frame.ip + 2 * i)
                 index   == Byte(Code, Frame.ip + 2 * i + 1)
             IN  IF isLocal = 1 THEN capture(filled[i - 1], Frame.slots + index)
                 ELSE [filled[i - 1] EXCEPT !.upvalues = Append(@, Captured[index + 1])]
  IN  filled[function.upvalueCount]

MakeClosure ==
  /\ At(Op.CLOSURE)
  /\ LET function == Constant.val
         made     == MakeUpvalues(function)
     IN  /\ closures' = Append(closures, [function |-> function, upvalues |-> made.upvalues])
         /\ location' = made.location
         /\ closed' = made.closed
         /\ openUpvalues' = made.open
         /\ stack' = Append(stack, Closure(Len(closures) + 1))
         /\ frames' = To(Frame.ip + 2 + 2 * function.upvalueCount)
         /\ UNCHANGED <<globals, output, result>>

CloseUpvalues(last) ==
  LET closing == Closing(openUpvalues, location, last)
  IN  /\ closed' = [u \in DOMAIN closed |-> IF u \in closing THEN stack[location[u]] ELSE closed[u]]
      /\ location' = [u \in DOMAIN location |-> IF u \in closing THEN 0 ELSE location[u]]
      /\ openUpvalues' = Remaining(openUpvalues, location, last)

CloseUpvalue ==
  /\ At(Op.CLOSE_UPVALUE)
  /\ CloseUpvalues(Len(stack))
  /\ stack' = Popped(1)
  /\ frames' = To(Frame.ip + 1)
  /\ UNCHANGED <<closures, globals, output, result>>

\* Mutation: the stack is cut above the callee's slot.
ReturnAboveCallee ==
  /\ At(Op.RETURN)
  /\ CloseUpvalues(Frame.slots)
  /\ frames' = SubSeq(frames, 1, Len(frames) - 1)
  /\ IF Len(frames) = 1
     THEN stack' = Popped(2) /\ result' = "ok"
     ELSE stack' = Append(SubSeq(stack, 1, Frame.slots), Peek(0)) /\ UNCHANGED result
  /\ UNCHANGED <<closures, globals, output>>

OpReturn ==
  /\ At(Op.RETURN)
  /\ CloseUpvalues(Frame.slots)
  /\ frames' = SubSeq(frames, 1, Len(frames) - 1)
  /\ IF Len(frames) = 1
     THEN stack' = Popped(2) /\ result' = "ok"
     ELSE stack' = Append(SubSeq(stack, 1, Frame.slots - 1), Peek(0)) /\ UNCHANGED result
  /\ UNCHANGED <<closures, globals, output>>

MachineInit ==
  /\ stack = <<>> /\ frames = <<>> /\ closures = <<>>
  /\ location = <<>> /\ closed = <<>> /\ openUpvalues = <<>>
  /\ globals = (<<"clock">> :> Native)
  /\ output = <<>> /\ result = "none"

\* interpret(), once the function is compiled
Start(function) ==
  /\ closures' = << [function |-> function, upvalues |-> <<>>] >>
  /\ stack' = <<Closure(1)>>
  /\ frames' = <<NewFrame(1, 1)>>
  /\ UNCHANGED <<location, closed, openUpvalues, globals, output, result>>

MachineNext ==
  \/ PushLiteral(Op.NIL, Nil) \/ PushLiteral(Op.TRUE, Bool(TRUE)) \/ PushLiteral(Op.FALSE, Bool(FALSE))
  \/ LoadConstant \/ Discard
  \/ GetLocal \/ SetLocal \/ GetGlobal \/ DefineGlobal \/ SetGlobal \/ GetUpvalue \/ SetUpvalue
  \/ Equal \/ Add \/ Not \/ Negate
  \/ Arithmetic(Op.GREATER, Bool(Peek(1).val > Peek(0).val))
  \/ Arithmetic(Op.LESS, Bool(Peek(1).val < Peek(0).val))
  \/ Arithmetic(Op.SUBTRACT, Number(Peek(1).val - Peek(0).val))
  \/ Arithmetic(Op.MULTIPLY, Number(Peek(1).val * Peek(0).val))
  \/ Arithmetic(Op.DIVIDE, Number(Peek(1).val \div Peek(0).val))
  \/ OpPrint \/ Jump \/ JumpIfFalse \/ LoopBack
  \/ Call \/ MakeClosure \/ CloseUpvalue \/ OpReturn
============================================================================
