------------------------------ MODULE Verifier ------------------------------
(***************************************************************************)
(* What code must be like for run(), which checks none of it.  Heights are *)
(* counted from the slot of the callee, which is the first.                *)
(***************************************************************************)
EXTENDS Bytecode

LOCAL Pushing == {Op.CONSTANT, Op.NIL, Op.TRUE, Op.FALSE, Op.GET_LOCAL, Op.GET_GLOBAL, Op.GET_UPVALUE, Op.CLOSURE}
LOCAL Popping == {Op.POP, Op.DEFINE_GLOBAL, Op.PRINT, Op.CLOSE_UPVALUE, Op.RETURN}
LOCAL Joining == {Op.EQUAL, Op.GREATER, Op.LESS, Op.ADD, Op.SUBTRACT, Op.MULTIPLY, Op.DIVIDE}

\* How many values an instruction needs, and how many there are after it.
Needs(f, offset) ==
  LET op == Byte(f.code, offset)
  IN  CASE op \in Pushing \cup {Op.JUMP, Op.LOOP} -> 0
        [] op \in Joining                         -> 2
        [] op = Op.CALL                           -> Byte(f.code, offset + 1) + 1
        [] OTHER                                  -> 1

After(f, offset, height) ==
  LET op == Byte(f.code, offset)
  IN  CASE op \in Pushing            -> height + 1
        [] op \in Popping \cup Joining -> height - 1
        [] op = Op.CALL              -> height - Byte(f.code, offset + 1)
        [] OTHER                     -> height

Successors(f, offset) ==
  LET op   == Byte(f.code, offset)
      next == NextInstruction(f, offset)
  IN  CASE op = Op.RETURN        -> {}
        [] op = Op.JUMP          -> {next + Short(f.code, offset + 1)}
        [] op = Op.JUMP_IF_FALSE -> {next, next + Short(f.code, offset + 1)}
        [] op = Op.LOOP          -> {next - Short(f.code, offset + 1)}
        [] OTHER                 -> {next}

LOCAL Flowing(f, places) ==
  UNION {LET offset == place[1]
         IN  IF offset \notin Instructions(f) \/ place[2] > Len(f.code) + f.arity + 1 THEN {}
             ELSE {<<next, After(f, offset, place[2])>> : next \in Successors(f, offset)}
         : place \in places}

\* The offsets that control can come to, with the heights of the stack there.
Flow(f) ==
  LET RECURSIVE from(_, _)
      from(new, all) ==
        IF new = {} THEN all
        ELSE LET next == Flowing(f, new) IN from(next \ all, all \cup next)
      start == {<<0, f.arity + 1>>}
  IN  from(start, start)

\* The operands of the instruction refer to what there is, at a height of the stack.
OperandsFit(f, offset, height) ==
  LET op          == Byte(f.code, offset)
      operand     == Byte(f.code, offset + 1)
      constant    == f.constants[operand + 1]
      isLocal(i)  == Byte(f.code, offset + 2 * i) = 1
      index(i)    == Byte(f.code, offset + 2 * i + 1)
  IN  CASE op \in {Op.GET_LOCAL, Op.SET_LOCAL}     -> operand \in 1..(height - Needs(f, offset) - 1)
        [] op \in {Op.GET_UPVALUE, Op.SET_UPVALUE} -> operand < f.upvalueCount
        [] op = Op.CONSTANT -> operand < Len(f.constants) /\ constant.type \in {"number", "string"}
        [] op \in {Op.GET_GLOBAL, Op.SET_GLOBAL, Op.DEFINE_GLOBAL} ->
             operand < Len(f.constants) /\ constant.type = "string"
        [] op = Op.CLOSURE ->
             /\ operand < Len(f.constants) /\ constant.type = "function"
             /\ \A i \in 1..constant.val.upvalueCount :
                  IF isLocal(i) THEN index(i) \in 1..height ELSE index(i) < f.upvalueCount
        [] OTHER -> TRUE

\* Control stays on instructions, and wherever it comes to it finds one height, the
\* values that the instruction takes, and operands that fit.
IsSound(f, flow) ==
  /\ \A place \in flow :
       /\ place[1] \in Instructions(f)
       /\ place[2] > Needs(f, place[1])
       /\ OperandsFit(f, place[1], place[2])
  /\ \A p, q \in flow : p[1] = q[1] => p = q
============================================================================
