----------------------------- MODULE Bytecode -----------------------------
(***************************************************************************)
(* Instructions and values, as the compiler writes them and the VM and the *)
(* disassembler read them.  Code is a sequence of bytes; offsets into it   *)
(* count from 0.  A byte has ByteCount values, 256 in the code; opcodes    *)
(* are numbered as in chunk.h, whatever ByteCount is.                      *)
(***************************************************************************)
EXTENDS Integers, Sequences, FiniteSets

CONSTANT ByteCount   \* UINT8_COUNT

ASSUME ByteAssumption == ByteCount \in Nat /\ ByteCount >= 2

ShortMax == ByteCount * ByteCount - 1   \* UINT16_MAX

Op ==
  [CONSTANT |-> 0, NIL |-> 1, TRUE |-> 2, FALSE |-> 3, POP |-> 4, GET_LOCAL |-> 5,
   SET_LOCAL |-> 6, GET_GLOBAL |-> 7, DEFINE_GLOBAL |-> 8, SET_GLOBAL |-> 9,
   GET_UPVALUE |-> 10, SET_UPVALUE |-> 11, EQUAL |-> 12, GREATER |-> 13, LESS |-> 14,
   ADD |-> 15, SUBTRACT |-> 16, MULTIPLY |-> 17, DIVIDE |-> 18, NOT |-> 19,
   NEGATE |-> 20, PRINT |-> 21, JUMP |-> 22, JUMP_IF_FALSE |-> 23, LOOP |-> 24,
   CALL |-> 25, CLOSURE |-> 26, CLOSE_UPVALUE |-> 27, RETURN |-> 28]

\* What a byte of code may be.
ByteValue == 0..(ByteCount - 1) \cup {Op[name] : name \in DOMAIN Op}

----------------------------------------------------------------------------
(***************************************************************************)
(* Values.  Numbers are integers; a string is the sequence of its pieces.  *)
(***************************************************************************)
Nil        == [type |-> "nil", val |-> 0]
Bool(b)    == [type |-> "bool", val |-> b]
Number(n)  == [type |-> "number", val |-> n]
String(s)  == [type |-> "string", val |-> s]
Closure(c) == [type |-> "closure", val |-> c]
Native     == [type |-> "native", val |-> "clock"]

\* An ObjFunction among the constants of the function around it.
Function(f) == [type |-> "function", val |-> f]

IsFalsey(v) == v.type = "nil" \/ (v.type = "bool" /\ ~ v.val)

\* valuesEqual(): nil is equal to nothing, not even to itself.  In Lox it is (AreEqual in
\* module Lox).
ValuesEqual(a, b) == a.type = b.type /\ a.type # "nil" /\ a.val = b.val

----------------------------------------------------------------------------
Byte(code, offset) == code[offset + 1]

\* READ_SHORT()
Short(code, offset) == Byte(code, offset) * ByteCount + Byte(code, offset + 1)

WithConstant == {Op.CONSTANT, Op.DEFINE_GLOBAL, Op.GET_GLOBAL, Op.SET_GLOBAL, Op.CLOSURE}
WithByte     == {Op.GET_LOCAL, Op.SET_LOCAL, Op.GET_UPVALUE, Op.SET_UPVALUE, Op.CALL}
Jumps        == {Op.JUMP, Op.JUMP_IF_FALSE, Op.LOOP}

\* Mutation: OP_CLOSURE is taken for an instruction of two bytes.
NextInstructionFlat(f, offset) ==
  LET op == Byte(f.code, offset)
  IN  CASE op \in WithConstant \cup WithByte -> offset + 2
        [] op \in Jumps -> offset + 3
        [] OTHER        -> offset + 1

\* What disassembleInstruction() returns: the offset of the instruction after the
\* one at offset.  OP_CLOSURE is followed by two bytes per upvalue.
NextInstruction(f, offset) ==
  LET op == Byte(f.code, offset)
  IN  CASE op = Op.CLOSURE   -> offset + 2 + 2 * f.constants[Byte(f.code, offset + 1) + 1].val.upvalueCount
        [] op \in WithConstant \cup WithByte /\ op # Op.CLOSURE -> offset + 2
        [] op \in Jumps      -> offset + 3
        [] OTHER             -> offset + 1

\* Where disassembleChunk() finds instructions.
Instructions(f) ==
  LET from[offset \in 0..Len(f.code)] ==
        IF offset = Len(f.code) THEN {}
        ELSE {offset} \cup from[NextInstruction(f, offset)]
  IN  from[0]
============================================================================
