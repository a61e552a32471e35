------------------------------ MODULE Recovery ------------------------------
(***************************************************************************)
(* The compiler on any text: what an error leaves of its state, and that   *)
(* it comes to an end.                                                     *)
(***************************************************************************)
EXTENDS Compiler

Spec == CompilerInit /\ [][CompilerNext]_parserVars /\ WF_parserVars(CompilerNext)

\* Whatever went wrong before, arrays and operands have their bounds: a program with
\* errors is compiled to its end.
TypeOK ==
  /\ hadError \in BOOLEAN /\ panicMode \in BOOLEAN /\ (panicMode => hadError)
  /\ todo # <<>> => compilers # <<>>
  /\ \A k \in DOMAIN compilers :
       LET compiler == compilers[k]
       IN  /\ Len(compiler.locals) \in 1..MaxLocals
           /\ Len(compiler.upvalues) \in 0..MaxUpvalues
           /\ \A i \in DOMAIN compiler.locals : compiler.locals[i].depth \in -1..compiler.scopeDepth
           /\ compiler.scopeDepth = 0 => k = 1 /\ Len(compiler.locals) = 1
           /\ compiler.code \in Seq(ByteValue)

\* How deep the functions of the chain are in blocks, if each item with one of these
\* names is the end of a block that has begun, and "endFunction" is the end of a function.
Depths(items, endings) ==
  LET of[n \in 0..Len(items)] ==
        IF n = 0 THEN <<0>>
        ELSE LET name  == items[Len(items) + 1 - n][1]
                 outer == of[n - 1]
             IN  CASE name = "endFunction" -> Append(outer, 1)
                   [] name \in endings     -> [outer EXCEPT ![Len(outer)] = @ + 1]
                   [] OTHER                -> outer
  IN  of[Len(items)]

\* A declaration begins without what an error in the one before may have left: no
\* variable is half declared, and each block and function around it is still open.
CleanStart ==
  Doing("declaration") =>
    /\ \A k \in DOMAIN compilers : \A i \in DOMAIN compilers[k].locals :
         compilers[k].locals[i].depth # Uninitialized
    /\ [k \in DOMAIN compilers |-> compilers[k].scopeDepth] = Depths(todo, {"endScope"})

\* compile() returns, whatever the source: every loop of the parser comes to the end
\* of the tokens.
Terminates == <>(todo = <<>>)
============================================================================
