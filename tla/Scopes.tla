------------------------------- MODULE Scopes -------------------------------
(***************************************************************************)
(* What the compiler makes of blocks, declarations, functions and names.   *)
(* A program is any sequence of these that the parser lets through.  With  *)
(* the first error the program is rejected; what the compiler does with    *)
(* the rest of it is in module Compiler.                                   *)
(***************************************************************************)
EXTENDS Resolution, FiniteSets

CONSTANTS
  Name,          \* the identifiers of a program
  MaxFunctions,  \* bound on the nesting of functions
  MaxDepth       \* bound on the nesting of blocks in a function

ASSUME ScopesAssumption ==
  NoName \notin Name /\ MaxFunctions \in Nat \ {0} /\ MaxDepth \in Nat \ {0}

VARIABLES
  compilers,   \* the chain of compilers, the current one last
  emitted,     \* the code that the last construct emits, operands included
  hadError     \* parser.hadError

vars == <<compilers, emitted, hadError>>

Current == compilers[Len(compilers)]

\* The scope that a function starts with is not left by endScope().
OutermostScope == IF Len(compilers) = 1 THEN 0 ELSE 1

InInitializer == Current.locals[Len(Current.locals)].depth = Uninitialized

SetCurrent(compiler) == [compilers EXCEPT ![Len(compilers)] = compiler]

\* beginScope(), of a block or a for statement
Begin ==
  /\ ~ InInitializer
  /\ Current.scopeDepth < MaxDepth
  /\ compilers' = SetCurrent(BeginScope(Current))
  /\ emitted' = <<"begin">>
  /\ UNCHANGED hadError

\* endScope()
End ==
  /\ ~ InInitializer
  /\ Current.scopeDepth > OutermostScope
  /\ compilers' = SetCurrent(EndScope(Current))
  /\ emitted' = <<"end", ScopeExits(Current)>>
  /\ UNCHANGED hadError

\* varDeclaration() up to the initializer, and a parameter of function().
Declare(name) ==
  LET declared == DeclareVariable(Current, name)
  IN  /\ ~ InInitializer
      /\ Current.scopeDepth > 0
      /\ compilers' = SetCurrent(declared.compiler)
      /\ emitted' = <<"declare">>
      /\ hadError' = declared.error

\* defineVariable() of a local variable
Define ==
  /\ InInitializer
  /\ compilers' = SetCurrent(MarkInitialized(Current))
  /\ emitted' = <<"define">>
  /\ UNCHANGED hadError

\* funDeclaration() and function() up to the parameters
BeginFunction(name) ==
  LET declared == DeclareVariable(Current, name)
  IN  /\ ~ InInitializer
      /\ Len(compilers) < MaxFunctions
      /\ compilers' =
           Append(SetCurrent(MarkInitialized(declared.compiler)), BeginScope(NewCompiler))
      /\ emitted' = <<"function">>
      /\ hadError' = declared.error

\* The end of function(), where every block of its body has ended: the operands of
\* OP_CLOSURE are the upvalues.
EndFunction ==
  /\ ~ InInitializer
  /\ Len(compilers) > 1
  /\ Current.scopeDepth = OutermostScope
  /\ compilers' = SubSeq(compilers, 1, Len(compilers) - 1)
  /\ emitted' = <<"OP_CLOSURE", Current.upvalues>>
  /\ UNCHANGED hadError

\* namedVariable()
NamedVariable(name) ==
  LET local    == ResolveLocal(Current, name)
      resolved == ResolveUpvalue(compilers, name)
  IN  IF local # NotFound
      THEN /\ emitted' = <<"OP_GET_LOCAL", local>>
           /\ hadError' = InOwnInitializer(Current, name)
           /\ UNCHANGED compilers
      ELSE IF resolved.index # NotFound
      THEN /\ emitted' = <<"OP_GET_UPVALUE", resolved.index>>
           /\ hadError' = resolved.error
           /\ compilers' = resolved.chain
      ELSE /\ emitted' = <<"OP_GET_GLOBAL", name>>
           /\ UNCHANGED <<compilers, hadError>>

Init ==
  /\ compilers = <<NewCompiler>>
  /\ emitted = <<>>
  /\ hadError = FALSE

Next ==
  /\ ~ hadError
  /\ \/ Begin \/ End \/ Define \/ EndFunction
     \/ \E name \in Name : Declare(name) \/ BeginFunction(name) \/ NamedVariable(name)

Spec == Init /\ [][Next]_vars

----------------------------------------------------------------------------
Local == [name : Name \cup {NoName}, depth : -1..MaxDepth, isCaptured : BOOLEAN]

\* An upvalue refers to a local of the function around, or to an upvalue of it.
Upvalue == [index : 0..(MaxLocals - 1), isLocal : {TRUE}]
             \cup [index : 0..(MaxUpvalues - 1), isLocal : {FALSE}]

\* The arrays of a compiler hold what is in them, and operands fit their byte.
TypeOK ==
  /\ compilers \in Seq([locals : Seq(Local), upvalues : Seq(Upvalue), scopeDepth : 0..MaxDepth])
  /\ Len(compilers) \in 1..MaxFunctions
  /\ \A k \in DOMAIN compilers : /\ Len(compilers[k].locals) \in 1..MaxLocals
                                 /\ Len(compilers[k].upvalues) \in 0..MaxUpvalues
  /\ hadError \in BOOLEAN

\* The variables that the upvalues of each function of a chain denote, followed from
\* one function to the next outer one: an index must be the one of a local or of an
\* upvalue that is there.
Denotation(chain) ==
  LET of[k \in 0..Len(chain)] ==
        IF k = 0 THEN <<>>
        ELSE [i \in DOMAIN chain[k].upvalues |->
                LET upvalue == chain[k].upvalues[i]
                IN  IF upvalue.isLocal THEN <<k - 1, upvalue.index>>
                    ELSE of[k - 1][upvalue.index + 1]]
  IN  of

Denoted == Denotation(compilers)

\* While a function is compiled, the variables of the functions around it can be
\* captured: they have their values, the function's own name included, when the
\* closure is made.  No two upvalues of a function denote one variable, every one
\* denotes a variable that is still there, and the variable is marked, so that the
\* end of its scope closes it.
UpvaluesDenote ==
  ~ hadError =>
    /\ \A k \in 1..(Len(compilers) - 1) : \A i \in DOMAIN compilers[k].locals :
         compilers[k].locals[i].depth # Uninitialized
    /\ \A k \in DOMAIN compilers : \A i \in DOMAIN compilers[k].upvalues :
         LET v == Denoted[k][i]
         IN  /\ \A j \in DOMAIN compilers[k].upvalues : Denoted[k][j] = v => i = j
             /\ v[2] + 1 \in DOMAIN compilers[v[1]].locals
             /\ compilers[v[1]].locals[v[2] + 1].isCaptured

\* How many locals are from outside the block at depth d.
Outside(compiler, d) ==
  Highest({n \in 0..Len(compiler.locals) : n > 0 => compiler.locals[n].depth \in 0..(d - 1)})

VariablesOf(compiler) == [i \in DOMAIN compiler.locals |-> compiler.locals[i].name]

BlocksOf(compiler) == [d \in 1..(compiler.scopeDepth + 1) |-> Outside(compiler, d - 1)]

IsReady(compiler) == \A i \in DOMAIN compiler.locals : compiler.locals[i].depth # Uninitialized

CapturedOf(compiler) ==
  {i \in 0..(Len(compiler.locals) - 1) : compiler.locals[i + 1].isCaptured}

FreeOf(chain, k) == {Denotation(chain)[k][i] : i \in DOMAIN chain[k].upvalues}

FunctionOf(chain, k) ==
  [variables |-> VariablesOf(chain[k]),
   blocks    |-> BlocksOf(chain[k]),
   ready     |-> IsReady(chain[k]),
   captured  |-> CapturedOf(chain[k]),
   free      |-> FreeOf(chain, k)]

Functions ==
  IF hadError THEN <<>> ELSE [k \in DOMAIN compilers |-> FunctionOf(compilers, k)]

\* What the code means that is emitted for the last function of a chain.  The operands
\* of OP_CLOSURE are for the function that is the current one again.
MeantBy(code, chain) ==
  LET n       == Len(chain)
      denoted == Denotation(chain)
  IN  CASE code[1] = "begin" -> <<"block">>
        [] code[1] = "end" -> <<"leave", code[2]>>
        [] code[1] = "OP_CLOSURE" ->
             <<"closure", Len(code[2]),
               {IF code[2][i].isLocal THEN <<n, code[2][i].index>>
                ELSE denoted[n][code[2][i].index + 1] : i \in DOMAIN code[2]}>>
        [] code[1] = "OP_GET_LOCAL" -> <<"variable", <<n, code[2]>>>>
        [] code[1] = "OP_GET_UPVALUE" -> <<"variable", denoted[n][code[2] + 1]>>
        [] code[1] = "OP_GET_GLOBAL" -> <<"global", code[2]>>
        [] OTHER -> code

Said == IF hadError \/ emitted = <<>> THEN <<>> ELSE MeantBy(emitted, compilers)

Abstract ==
  INSTANCE Lexical WITH
    MaxVariables <- MaxLocals,
    MaxFree      <- MaxUpvalues,
    functions    <- Functions,
    said         <- Said,
    rejected     <- hadError

\* The slots and upvalues that the compiler assigns are the variables of lexical
\* scoping, the end of a scope closes the captured ones and pops the others, and
\* the programs with errors are those that break a rule of scoping or a limit.
Implements == Abstract!Spec
============================================================================
