---------------------------- MODULE Resolution ----------------------------
(***************************************************************************)
(* How compiler.c finds what a name means.  A Compiler is a record of its  *)
(* locals, in the order of their slots, its upvalues and its scope depth;  *)
(* the chain of compilers is a sequence, the outermost function first.     *)
(* Slots and upvalues are numbered from 0, as in the code.                 *)
(***************************************************************************)
EXTENDS Integers, Sequences

CONSTANTS
  MaxLocals,     \* UINT8_COUNT, the length of Compiler.locals
  MaxUpvalues    \* UINT8_COUNT, the length of Compiler.upvalues

ASSUME ResolutionAssumption == MaxLocals \in Nat \ {0} /\ MaxUpvalues \in Nat \ {0}

NotFound == -1

\* The depth of a local variable whose initializer is being compiled.
Uninitialized == -1

NewLocal(name) == [name |-> name, depth |-> Uninitialized, isCaptured |-> FALSE]

\* No token has this text.
NoName == ""

\* initCompiler(): slot 0 is the function itself, which no token can name.
NewCompiler ==
  [locals     |-> <<[name |-> NoName, depth |-> 0, isCaptured |-> FALSE]>>,
   upvalues   |-> <<>>,
   scopeDepth |-> 0]

Highest(S) == CHOOSE n \in S : \A m \in S : m <= n

Named(compiler, name) ==
  {i \in 0..(Len(compiler.locals) - 1) : compiler.locals[i + 1].name = name}

\* Mutation: the locals are searched from the first one on.
ResolveLocalOutermost(compiler, name) ==
  IF Named(compiler, name) = {} THEN NotFound
  ELSE CHOOSE i \in Named(compiler, name) : \A j \in Named(compiler, name) : i <= j

ResolveLocal(compiler, name) ==
  IF Named(compiler, name) = {} THEN NotFound ELSE Highest(Named(compiler, name))

\* The error of resolveLocal()
InOwnInitializer(compiler, name) ==
  LET i == ResolveLocal(compiler, name)
  IN  i # NotFound /\ compiler.locals[i + 1].depth = Uninitialized

\* Mutation: the limit is compared one upvalue too late.
AddUpvalueTooLate(compiler, upvalue) ==
  LET same == {i \in DOMAIN compiler.upvalues : compiler.upvalues[i] = upvalue}
  IN  IF same # {}
      THEN [compiler |-> compiler, index |-> (CHOOSE i \in same : TRUE) - 1, error |-> FALSE]
      ELSE IF Len(compiler.upvalues) > MaxUpvalues
      THEN [compiler |-> compiler, index |-> 0, error |-> TRUE]
      ELSE [compiler |-> [compiler EXCEPT !.upvalues = Append(@, upvalue)],
            index    |-> Len(compiler.upvalues),
            error    |-> FALSE]

AddUpvalue(compiler, upvalue) ==
  LET same == {i \in DOMAIN compiler.upvalues : compiler.upvalues[i] = upvalue}
  IN  IF same # {}
      THEN [compiler |-> compiler, index |-> (CHOOSE i \in same : TRUE) - 1, error |-> FALSE]
      ELSE IF Len(compiler.upvalues) = MaxUpvalues
      THEN [compiler |-> compiler, index |-> 0, error |-> TRUE]
      ELSE [compiler |-> [compiler EXCEPT !.upvalues = Append(@, upvalue)],
            index    |-> Len(compiler.upvalues),
            error    |-> FALSE]

Capture(compiler, i) == [compiler EXCEPT !.locals[i + 1].isCaptured = TRUE]

\* Mutation: isCaptured is not set.
ResolveUpvalueUnmarked(chain, name) ==
  LET n     == Len(chain)
      homes == {k \in 1..(n - 1) : ResolveLocal(chain[k], name) # NotFound}
      home  == Highest(homes)
      at[j \in home..n] ==
        IF j = home
        THEN [compiler |-> chain[j], index |-> ResolveLocal(chain[j], name), error |-> InOwnInitializer(chain[j], name)]
        ELSE AddUpvalue(chain[j], [index |-> at[j - 1].index, isLocal |-> j = home + 1])
  IN  IF homes = {}
      THEN [chain |-> chain, index |-> NotFound, error |-> FALSE]
      ELSE [chain |-> [j \in DOMAIN chain |-> IF j < home THEN chain[j] ELSE at[j].compiler],
            index |-> at[n].index,
            error |-> \E j \in home..n : at[j].error]

\* What resolveUpvalue() does in each function from the one with the variable inwards:
\* that one marks it as captured, and every other one gets an upvalue, which refers to
\* the local or to the upvalue of the function around.
Passing(chain, name, home) ==
  LET local == ResolveLocal(chain[home], name)
      at[j \in home..Len(chain)] ==
        IF j = home
        THEN [compiler |-> Capture(chain[j], local),
              index    |-> local,
              error    |-> InOwnInitializer(chain[j], name)]
        ELSE AddUpvalue(chain[j], [index |-> at[j - 1].index, isLocal |-> j = home + 1])
  IN  at

\* resolveUpvalue() for the last of the chain: the variable is in the innermost function
\* around it that has a local of this name.
ResolveUpvalue(chain, name) ==
  LET n     == Len(chain)
      homes == {k \in 1..(n - 1) : ResolveLocal(chain[k], name) # NotFound}
      home  == Highest(homes)
      at    == Passing(chain, name, home)
  IN  IF homes = {}
      THEN [chain |-> chain, index |-> NotFound, error |-> FALSE]
      ELSE [chain |-> [j \in DOMAIN chain |-> IF j < home THEN chain[j] ELSE at[j].compiler],
            index |-> at[n].index,
            error |-> \E j \in home..n : at[j].error]

AddLocal(compiler, name) ==
  IF Len(compiler.locals) = MaxLocals
  THEN [compiler |-> compiler, error |-> TRUE]
  ELSE [compiler |-> [compiler EXCEPT !.locals = Append(@, NewLocal(name))], error |-> FALSE]

\* The loop of declareVariable() goes down to the first local of an outer scope.
InThisScope(compiler, i) ==
  \A j \in i..Len(compiler.locals) :
    compiler.locals[j].depth = Uninitialized \/ compiler.locals[j].depth >= compiler.scopeDepth

\* declareVariable().  Global variables are not declared.
DeclareVariable(compiler, name) ==
  IF compiler.scopeDepth = 0
  THEN [compiler |-> compiler, error |-> FALSE]
  ELSE LET added == AddLocal(compiler, name)
           again == \E i \in DOMAIN compiler.locals :
                      compiler.locals[i].name = name /\ InThisScope(compiler, i)
       IN  [added EXCEPT !.error = @ \/ again]

MarkInitialized(compiler) ==
  IF compiler.scopeDepth = 0 THEN compiler
  ELSE [compiler EXCEPT !.locals[Len(compiler.locals)].depth = compiler.scopeDepth]

BeginScope(compiler) == [compiler EXCEPT !.scopeDepth = @ + 1]

\* How many locals endScope() leaves.
Kept(compiler) ==
  LET outer == compiler.scopeDepth - 1
  IN  Highest({n \in 0..Len(compiler.locals) : n > 0 => compiler.locals[n].depth <= outer})

EndScope(compiler) ==
  [compiler EXCEPT !.scopeDepth = @ - 1, !.locals = SubSeq(@, 1, Kept(compiler))]

\* For which of the others, the last one first, endScope() emits OP_CLOSE_UPVALUE and
\* not OP_POP.
ScopeExits(compiler) ==
  LET n == Len(compiler.locals)
  IN  [i \in 1..(n - Kept(compiler)) |-> compiler.locals[n + 1 - i].isCaptured]
============================================================================
