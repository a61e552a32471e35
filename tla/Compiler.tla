------------------------------ MODULE Compiler ------------------------------
(***************************************************************************)
(* compile(): one pass over the tokens that parses, resolves names and     *)
(* writes code.  todo is what the C functions on the call stack have still *)
(* to do, the innermost first; one action takes one item of it.  Errors    *)
(* are reported and compiling goes on, in panic mode up to the next        *)
(* statement.  A token is named by its text.                               *)
(***************************************************************************)
EXTENDS Resolution, Bytecode

CONSTANTS
  Name,              \* the identifiers
  Literal,           \* number and string tokens, and their values
  Continuations(_)   \* the tokens that may come after those that were scanned

ASSUME CompilerAssumption ==
  /\ MaxLocals = ByteCount /\ MaxUpvalues = ByteCount
  /\ Name \cap DOMAIN Literal = {}

VARIABLES
  scanned,     \* the tokens so far, up to the end of the source
  previous,    \* parser.previous
  current,     \* parser.current
  hadError,    \* parser.hadError
  panicMode,   \* parser.panicMode
  todo,        \* the items that are left
  compilers,   \* the chain of compilers, the current one last
  script       \* what compile() leaves: the function, or none so far

parserVars == <<scanned, previous, current, hadError, panicMode, todo, compilers, script>>

None == [code |-> <<>>]

Error == "error"   \* TOKEN_ERROR
End   == "EOF"     \* after which there are only more of it

Is(token, type) == IF type = "identifier" THEN token \in Name ELSE token = type

(***************************************************************************)
(* The rules of precedence                                                 *)
(***************************************************************************)
PREC == [NONE |-> 0, ASSIGNMENT |-> 1, OR |-> 2, AND |-> 3, EQUALITY |-> 4, COMPARISON |-> 5,
         TERM |-> 6, FACTOR |-> 7, UNARY |-> 8, CALL |-> 9]

Precedence(token) ==
  CASE token = "or"                      -> PREC.OR
    [] token = "and"                     -> PREC.AND
    [] token \in {"==", "!="}            -> PREC.EQUALITY
    [] token \in {"<", "<=", ">", ">="}  -> PREC.COMPARISON
    [] token \in {"+", "-"}              -> PREC.TERM
    [] token \in {"*", "/"}              -> PREC.FACTOR
    [] token = "("                       -> PREC.CALL
    [] OTHER                             -> PREC.NONE

UnaryCode(token) == IF token = "-" THEN <<Op.NEGATE>> ELSE <<Op.NOT>>

LiteralCode(token) ==
  CASE token = "nil" -> <<Op.NIL>> [] token = "true" -> <<Op.TRUE>> [] token = "false" -> <<Op.FALSE>>

BinaryCode(token) ==
  CASE token = "==" -> <<Op.EQUAL>>     [] token = "!=" -> <<Op.EQUAL, Op.NOT>>
    [] token = "<"  -> <<Op.LESS>>      [] token = ">=" -> <<Op.LESS, Op.NOT>>
    [] token = ">"  -> <<Op.GREATER>>   [] token = "<=" -> <<Op.GREATER, Op.NOT>>
    [] token = "+"  -> <<Op.ADD>>       [] token = "-"  -> <<Op.SUBTRACT>>
    [] token = "*"  -> <<Op.MULTIPLY>>  [] token = "/"  -> <<Op.DIVIDE>>

(***************************************************************************)
(* Writing to the chunk of a compiler                                      *)
(***************************************************************************)
NewFunction(name) ==
  [locals |-> NewCompiler.locals, upvalues |-> NewCompiler.upvalues, scopeDepth |-> NewCompiler.scopeDepth,
   code |-> <<>>, constants |-> <<>>, arity |-> 0, name |-> name]

\* What is left of a compiler when its function is complete.
Finished(compiler) ==
  [code |-> compiler.code \o <<Op.NIL, Op.RETURN>>, constants |-> compiler.constants,
   arity |-> compiler.arity, upvalueCount |-> Len(compiler.upvalues), name |-> compiler.name]

Emit(compiler, bytes) == [compiler EXCEPT !.code = @ \o bytes]

MakeConstant(compiler, value) ==
  LET constant == Len(compiler.constants)
      fits     == constant <= ByteCount - 1
  IN  [compiler |-> [compiler EXCEPT !.constants = Append(@, value)],
       index    |-> IF fits THEN constant ELSE 0,
       error    |-> ~ fits]

\* The operand of a jump is not known yet.
EmitJump(compiler, op) == Emit(compiler, <<op, ByteCount - 1, ByteCount - 1>>)

Operand(compiler) == Len(compiler.code) - 2

HighByte(n) == (n \div ByteCount) % ByteCount

LowByte(n) == n % ByteCount

\* Mutation: the longest jump is an error.
PatchJumpTight(compiler, offset) ==
  LET jump == Len(compiler.code) - offset - 2
  IN  [compiler |-> [compiler EXCEPT !.code[offset + 1] = HighByte(jump), !.code[offset + 2] = LowByte(jump)],
       error    |-> jump >= ShortMax]

PatchJump(compiler, offset) ==
  LET jump == Len(compiler.code) - offset - 2
  IN  [compiler |-> [compiler EXCEPT !.code[offset + 1] = HighByte(jump), !.code[offset + 2] = LowByte(jump)],
       error    |-> jump > ShortMax]

EmitLoop(compiler, loopStart) ==
  LET offset == Len(compiler.code) + 1 - loopStart + 2
  IN  [compiler |-> Emit(compiler, <<Op.LOOP, HighByte(offset), LowByte(offset)>>),
       error    |-> offset > ShortMax]

----------------------------------------------------------------------------
(***************************************************************************)
(* Steps                                                                   *)
(***************************************************************************)
Current == compilers[Len(compilers)]

With(compiler) == [compilers EXCEPT ![Len(compilers)] = compiler]

Doing(name) == todo # <<>> /\ Head(todo)[1] = name

Argument(n) == Head(todo)[n + 1]

Scan == <<"scan">>

\* errorAt() reports nothing in panic mode; hadError is set by then.
Report(error) ==
  /\ hadError' = (hadError \/ error)
  /\ panicMode' = (panicMode \/ error)

\* The item is done, with what it has written, and others come in its place, ...
Staying(chain, error, items) ==
  /\ compilers' = chain
  /\ Report(error)
  /\ todo' = items \o Tail(todo)
  /\ UNCHANGED <<scanned, previous, current, script>>

\* ... after the current token is consumed.
Advancing(chain, error, items) ==
  /\ compilers' = chain
  /\ Report(error)
  /\ previous' = current
  /\ todo' = <<Scan>> \o items \o Tail(todo)
  /\ UNCHANGED <<scanned, current, script>>

\* The loop of advance()
ScanToken ==
  /\ Doing("scan")
  /\ \E token \in IF current = End THEN {End} ELSE Continuations(scanned) :
       /\ current' = token
       /\ scanned' = IF token = End THEN scanned ELSE Append(scanned, token)
       /\ Report(token = Error)
       /\ todo' = IF token = Error THEN todo ELSE Tail(todo)
  /\ UNCHANGED <<previous, compilers, script>>

Consume ==
  /\ Doing("consume")
  /\ IF Is(current, Argument(1))
     THEN Advancing(compilers, FALSE, <<>>)
     ELSE Staying(compilers, TRUE, <<>>)

EmitBytes == Doing("emit") /\ Staying(With(Emit(Current, Argument(1))), FALSE, <<>>)

Patch ==
  /\ Doing("patch")
  /\ LET patched == PatchJump(Current, Argument(1))
     IN  Staying(With(patched.compiler), patched.error, <<>>)

Loop ==
  /\ Doing("loop")
  /\ LET looped == EmitLoop(Current, Argument(1))
     IN  Staying(With(looped.compiler), looped.error, <<>>)

(***************************************************************************)
(* Expressions                                                             *)
(***************************************************************************)
Expression == <<"precedence", PREC.ASSIGNMENT>>

Grouping == <<Expression, <<"consume", ")">> >>

\* parsePrecedence() as far as its first advance()
ParsePrecedence ==
  /\ Doing("precedence")
  /\ Advancing(compilers, FALSE, << <<"prefix", Argument(1)>> >>)

EmitConstant(value, items) ==
  LET made == MakeConstant(Current, value)
  IN  Staying(With(Emit(made.compiler, <<Op.CONSTANT, made.index>>)), made.error, items)

\* What namedVariable() finds: the instructions to read and to write the variable,
\* their operand, and the chain of compilers with what it has changed.
NamedVariable(name) ==
  LET local    == ResolveLocal(Current, name)
      resolved == ResolveUpvalue(compilers, name)
      global   == MakeConstant(Current, String(<<name>>))
  IN  IF local # NotFound
      THEN [chain |-> compilers, get |-> Op.GET_LOCAL, set |-> Op.SET_LOCAL, arg |-> local,
            error |-> InOwnInitializer(Current, name)]
      ELSE IF resolved.index # NotFound
      THEN [chain |-> resolved.chain, get |-> Op.GET_UPVALUE, set |-> Op.SET_UPVALUE,
            arg |-> resolved.index, error |-> resolved.error]
      ELSE [chain |-> With(global.compiler), get |-> Op.GET_GLOBAL, set |-> Op.SET_GLOBAL,
            arg |-> global.index, error |-> global.error]

\* Mutation: canAssign does not depend on the precedence.
CanAssignAlways(precedence) == TRUE

CanAssign(precedence) == precedence <= PREC.ASSIGNMENT

Prefix ==
  /\ Doing("prefix")
  /\ LET precedence == Argument(1)
         rest == << <<"infix", precedence>> >>
     IN  CASE previous = "(" ->
                Staying(compilers, FALSE, Grouping \o rest)
           [] previous \in {"-", "!"} ->
                Staying(compilers, FALSE, << <<"precedence", PREC.UNARY>>, <<"emit", UnaryCode(previous)>> >> \o rest)
           [] previous \in {"nil", "true", "false"} ->
                Staying(With(Emit(Current, LiteralCode(previous))), FALSE, rest)
           [] previous \in DOMAIN Literal ->
                EmitConstant(Literal[previous], rest)
           [] previous \in Name ->
                LET variable == NamedVariable(previous)
                IN  IF CanAssign(precedence) /\ current = "="
                    THEN Advancing(variable.chain, variable.error,
                           <<Expression, <<"emit", <<variable.set, variable.arg>> >> >> \o rest)
                    ELSE Staying(variable.chain, variable.error,
                           << <<"emit", <<variable.get, variable.arg>> >> >> \o rest)
           [] OTHER -> Staying(compilers, TRUE, <<>>)

\* The loop of parsePrecedence()
Infix ==
  /\ Doing("infix")
  /\ IF Argument(1) <= Precedence(current)
     THEN Advancing(compilers, FALSE, << <<"infixRule">>, Head(todo)>>)
     ELSE Staying(compilers, FALSE, <<>>)

\* Mutation: the right operand may be of the same level.
RightAssociative(token) == Precedence(token)

\* How tightly the right operand of a binary operator must bind: they group to the left.
OperandPrecedence(token) == Precedence(token) + 1

AndRule ==
  LET jumped == EmitJump(Current, Op.JUMP_IF_FALSE)
  IN  Staying(With(Emit(jumped, <<Op.POP>>)), FALSE,
        << <<"precedence", PREC.AND>>, <<"patch", Operand(jumped)>> >>)

OrRule ==
  LET elseJump == EmitJump(Current, Op.JUMP_IF_FALSE)
      endJump  == EmitJump(elseJump, Op.JUMP)
      patched  == PatchJump(endJump, Operand(elseJump))
  IN  Staying(With(Emit(patched.compiler, <<Op.POP>>)), patched.error,
        << <<"precedence", PREC.OR>>, <<"patch", Operand(endJump)>> >>)

InfixRule ==
  /\ Doing("infixRule")
  /\ CASE previous = "("   -> Staying(compilers, FALSE, << <<"arguments">> >>)
       [] previous = "and" -> AndRule
       [] previous = "or"  -> OrRule
       [] OTHER            -> Staying(compilers, FALSE,
                                << <<"precedence", OperandPrecedence(previous)>>, <<"emit", BinaryCode(previous)>> >>)

\* argumentList()
Arguments ==
  /\ Doing("arguments")
  /\ IF current = ")"
     THEN Staying(compilers, FALSE, << <<"consume", ")">>, <<"emit", <<Op.CALL, 0>> >> >>)
     ELSE Staying(compilers, FALSE, <<Expression, <<"argument", 0>> >>)

NextArgument ==
  /\ Doing("argument")
  /\ LET full     == Argument(1) = ByteCount - 1
         argCount == IF full THEN Argument(1) ELSE Argument(1) + 1
     IN  IF current = ","
         THEN Advancing(compilers, full, <<Expression, <<"argument", argCount>> >>)
         ELSE Staying(compilers, full, << <<"consume", ")">>, <<"emit", <<Op.CALL, argCount>> >> >>)

----------------------------------------------------------------------------
(***************************************************************************)
(* Declarations and functions                                              *)
(***************************************************************************)
\* parseVariable(), after consume(): even if that has failed, there is a previous token.
ParsedVariable ==
  LET declared == DeclareVariable(Current, previous)
  IN  IF Current.scopeDepth > 0
      THEN [compiler |-> declared.compiler, index |-> 0, error |-> declared.error]
      ELSE MakeConstant(Current, String(<<previous>>))

DefineVariable(compiler, global) ==
  IF compiler.scopeDepth > 0 THEN MarkInitialized(compiler)
  ELSE Emit(compiler, <<Op.DEFINE_GLOBAL, global>>)

Declaration ==
  /\ Doing("declaration")
  /\ CASE current = "fun" ->
            Advancing(compilers, FALSE, << <<"consume", "identifier">>, <<"fun">>, <<"recover">> >>)
       [] current = "var" ->
            Advancing(compilers, FALSE, << <<"consume", "identifier">>, <<"var">>, <<"recover">> >>)
       [] OTHER ->
            Staying(compilers, FALSE, << <<"statement">>, <<"recover">> >>)

VarDeclaration ==
  /\ Doing("var")
  /\ LET variable == ParsedVariable
         rest == << <<"consume", ";">>, <<"define", variable.index>> >>
     IN  IF current = "="
         THEN Advancing(With(variable.compiler), variable.error, <<Expression>> \o rest)
         ELSE Staying(With(Emit(variable.compiler, <<Op.NIL>>)), variable.error, rest)

\* Mutation: nothing is defined in panic mode.
DefineUnlessPanic ==
  /\ Doing("define")
  /\ Staying(IF panicMode THEN compilers ELSE With(DefineVariable(Current, Argument(1))), FALSE, <<>>)

Define == Doing("define") /\ Staying(With(DefineVariable(Current, Argument(1))), FALSE, <<>>)

\* funDeclaration() and the beginning of function()
FunDeclaration ==
  /\ Doing("fun")
  /\ LET variable == ParsedVariable
     IN  Staying(Append(With(MarkInitialized(variable.compiler)), BeginScope(NewFunction(previous))), variable.error,
           << <<"consume", "(">>, <<"parameters">>, <<"consume", ")">>, <<"consume", "{">>, <<"block">>,
              <<"endFunction", variable.index>> >>)

Parameters ==
  /\ Doing("parameters")
  /\ Staying(compilers, FALSE, IF current = ")" THEN <<>> ELSE << <<"parameter">> >>)

Parameter ==
  /\ Doing("parameter")
  /\ Staying(With([Current EXCEPT !.arity = @ + 1]), Current.arity + 1 > ByteCount - 1,
       << <<"consume", "identifier">>, <<"parameterName">> >>)

ParameterName ==
  /\ Doing("parameterName")
  /\ LET variable == ParsedVariable
         defined  == With(DefineVariable(variable.compiler, variable.index))
     IN  IF current = ","
         THEN Advancing(defined, variable.error, << <<"parameter">> >>)
         ELSE Staying(defined, variable.error, <<>>)

\* Two bytes for each upvalue
ClosureOperands(upvalues) ==
  [i \in 1..(2 * Len(upvalues)) |->
     LET upvalue == upvalues[(i + 1) \div 2]
     IN  IF i % 2 = 0 THEN upvalue.index ELSE IF upvalue.isLocal THEN 1 ELSE 0]

\* The end of function(), and of funDeclaration()
EndFunction ==
  /\ Doing("endFunction")
  /\ LET outer    == compilers[Len(compilers) - 1]
         function == Finished(Current)
         made     == MakeConstant(outer, Function(function))
         closure  == Emit(made.compiler, <<Op.CLOSURE, made.index>> \o ClosureOperands(Current.upvalues))
     IN  Staying(Append(SubSeq(compilers, 1, Len(compilers) - 2), DefineVariable(closure, Argument(1))),
           made.error, <<>>)

----------------------------------------------------------------------------
(***************************************************************************)
(* Statements                                                              *)
(***************************************************************************)
ExpressionStatement == <<Expression, <<"consume", ";">>, <<"emit", <<Op.POP>> >> >>

PrintStatement == <<Expression, <<"consume", ";">>, <<"emit", <<Op.PRINT>> >> >>

Condition == << <<"consume", "(">>, Expression, <<"consume", ")">> >>

Statement ==
  /\ Doing("statement")
  /\ CASE current = "print" ->
            Advancing(compilers, FALSE, PrintStatement)
       [] current = "for" ->
            Advancing(With(BeginScope(Current)), FALSE,
              << <<"consume", "(">>, <<"forInitializer">>, <<"forCondition">> >>)
       [] current = "if" ->
            Advancing(compilers, FALSE, Append(Condition, <<"then">>))
       [] current = "return" ->
            Advancing(compilers, FALSE, << <<"return">> >>)
       [] current = "while" ->
            Advancing(compilers, FALSE, Append(Condition, <<"whileBody", Len(Current.code)>>))
       [] current = "{" ->
            Advancing(With(BeginScope(Current)), FALSE, << <<"block">>, <<"endScope">> >>)
       [] OTHER ->
            Staying(compilers, FALSE, ExpressionStatement)

Block ==
  /\ Doing("block")
  /\ Staying(compilers, FALSE,
       IF current \in {"}", End} THEN << <<"consume", "}">> >> ELSE << <<"declaration">>, <<"block">> >>)

LeaveScope ==
  /\ Doing("endScope")
  /\ LET exits == ScopeExits(Current)
         code  == [i \in DOMAIN exits |-> IF exits[i] THEN Op.CLOSE_UPVALUE ELSE Op.POP]
     IN  Staying(With(Emit(EndScope(Current), code)), FALSE, <<>>)

Then ==
  /\ Doing("then")
  /\ LET thenJump == EmitJump(Current, Op.JUMP_IF_FALSE)
     IN  Staying(With(Emit(thenJump, <<Op.POP>>)), FALSE, << <<"statement">>, <<"else", Operand(thenJump)>> >>)

Else ==
  /\ Doing("else")
  /\ LET elseJump == EmitJump(Current, Op.JUMP)
         patched  == PatchJump(elseJump, Argument(1))
         chain    == With(Emit(patched.compiler, <<Op.POP>>))
         rest     == << <<"patch", Operand(elseJump)>> >>
     IN  IF current = "else"
         THEN Advancing(chain, patched.error, << <<"statement">> >> \o rest)
         ELSE Staying(chain, patched.error, rest)

WhileBody ==
  /\ Doing("whileBody")
  /\ LET exitJump == EmitJump(Current, Op.JUMP_IF_FALSE)
     IN  Staying(With(Emit(exitJump, <<Op.POP>>)), FALSE,
           << <<"statement">>, <<"loop", Argument(1)>>, <<"patch", Operand(exitJump)>>, <<"emit", <<Op.POP>> >> >>)

ForInitializer ==
  /\ Doing("forInitializer")
  /\ CASE current = ";"   -> Advancing(compilers, FALSE, <<>>)
       [] current = "var" -> Advancing(compilers, FALSE, << <<"consume", "identifier">>, <<"var">> >>)
       [] OTHER           -> Staying(compilers, FALSE, ExpressionStatement)

ForCondition ==
  /\ Doing("forCondition")
  /\ LET loopStart == Len(Current.code)
     IN  IF current = ";"
         THEN Advancing(compilers, FALSE, << <<"forIncrement", loopStart, <<>> >> >>)
         ELSE Staying(compilers, FALSE, <<Expression, <<"consume", ";">>, <<"forExit", loopStart>> >>)

ForExit ==
  /\ Doing("forExit")
  /\ LET exitJump == EmitJump(Current, Op.JUMP_IF_FALSE)
         atExit   == << <<"patch", Operand(exitJump)>>, <<"emit", <<Op.POP>> >> >>
     IN  Staying(With(Emit(exitJump, <<Op.POP>>)), FALSE, << <<"forIncrement", Argument(1), atExit>> >>)

\* The third argument is what is done behind the loop: nothing if it has no condition.
ForIncrement ==
  /\ Doing("forIncrement")
  /\ LET loopStart      == Argument(1)
         atExit         == Append(Argument(2), <<"endScope">>)
         bodyJump       == EmitJump(Current, Op.JUMP)
         incrementStart == Len(bodyJump.code)
     IN  IF current = ")"
         THEN Advancing(compilers, FALSE, << <<"statement">>, <<"loop", loopStart>> >> \o atExit)
         ELSE Staying(With(bodyJump), FALSE,
                << Expression, <<"emit", <<Op.POP>> >>, <<"consume", ")">>,
                   <<"loop", loopStart>>, <<"patch", Operand(bodyJump)>>,
                   <<"statement">>, <<"loop", incrementStart>> >> \o atExit)

Return ==
  /\ Doing("return")
  /\ LET topLevel == Len(compilers) = 1
     IN  IF current = ";"
         THEN Advancing(With(Emit(Current, <<Op.NIL, Op.RETURN>>)), topLevel, <<>>)
         ELSE Staying(compilers, topLevel, <<Expression, <<"consume", ";">>, <<"emit", <<Op.RETURN>> >> >>)

----------------------------------------------------------------------------
(***************************************************************************)
(* Recovery, and the whole                                                 *)
(***************************************************************************)
\* The end of declaration(), and the first line of synchronize()
Recover ==
  /\ Doing("recover")
  /\ panicMode' = FALSE
  /\ todo' = (IF panicMode THEN << <<"synchronize">> >> ELSE <<>>) \o Tail(todo)
  /\ UNCHANGED <<scanned, previous, current, hadError, compilers, script>>

BeginsStatement == {"class", "fun", "var", "for", "if", "while", "print", "return"}

\* Mutation: synchronize() does not call advance().
SynchronizeStanding ==
  /\ Doing("synchronize")
  /\ IF current = End \/ previous = ";" \/ current \in BeginsStatement
     THEN Staying(compilers, FALSE, <<>>)
     ELSE Staying(compilers, FALSE, << <<"synchronize">> >>)

Synchronize ==
  /\ Doing("synchronize")
  /\ IF current = End \/ previous = ";" \/ current \in BeginsStatement
     THEN Staying(compilers, FALSE, <<>>)
     ELSE Advancing(compilers, FALSE, << <<"synchronize">> >>)

\* The loop of compile()
Program ==
  /\ Doing("program")
  /\ IF current = End
     THEN Advancing(compilers, FALSE, << <<"endCompiler">> >>)
     ELSE Staying(compilers, FALSE, << <<"declaration">>, <<"program">> >>)

EndCompiler ==
  /\ Doing("endCompiler")
  /\ script' = Finished(Current)
  /\ compilers' = <<>>
  /\ todo' = <<>>
  /\ UNCHANGED <<scanned, previous, current, hadError, panicMode>>

CompilerInit ==
  /\ scanned = <<>>
  /\ previous = NoName /\ current = NoName
  /\ hadError = FALSE /\ panicMode = FALSE
  /\ todo = <<Scan, <<"program">> >>
  /\ compilers = <<NewFunction("script")>>
  /\ script = None

CompilerNext ==
  \/ ScanToken \/ Consume \/ EmitBytes \/ Patch \/ Loop
  \/ ParsePrecedence \/ Prefix \/ Infix \/ InfixRule \/ Arguments \/ NextArgument
  \/ Declaration \/ VarDeclaration \/ Define
  \/ FunDeclaration \/ Parameters \/ Parameter \/ ParameterName \/ EndFunction
  \/ Statement \/ Block \/ LeaveScope \/ Then \/ Else \/ WhileBody
  \/ ForInitializer \/ ForCondition \/ ForExit \/ ForIncrement \/ Return
  \/ Recover \/ Synchronize \/ Program \/ EndCompiler
============================================================================
