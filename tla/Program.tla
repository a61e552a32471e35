------------------------------ MODULE Program ------------------------------
(***************************************************************************)
(* interpret(): a program is compiled, and its code is run.                *)
(***************************************************************************)
EXTENDS Compiler, Machine

CONSTANT Programs   \* the programs, as trees, and whether they are within the limits of the code

VARIABLE heights    \* the heights of the stack in each function, worked out before it runs

vars == <<parserVars, machineVars, heights>>

Verification == INSTANCE Verifier
Language == INSTANCE Grammar WITH Value <- DOMAIN Literal
Semantics ==
  INSTANCE Lox WITH Denotation <- Literal, Operators <- Language!Operators, MaxCalls <- FramesMax

\* The program that was scanned
Source == CHOOSE program \in Programs : Semantics!ProgramText(program.tree) = scanned

RECURSIVE FunctionsOf(_)
FunctionsOf(function) ==
  {function} \cup
  UNION {FunctionsOf(function.constants[i].val) :
           i \in {j \in DOMAIN function.constants : function.constants[j].type = "function"}}

Compiled == todo = <<>> /\ closures = <<>> /\ result = "none"

Interpret ==
  /\ Compiled
  /\ IF hadError
     THEN /\ result' = "compile error"
          /\ UNCHANGED <<stack, frames, closures, location, closed, openUpvalues, globals, output, heights>>
     ELSE /\ Start(script)
          /\ heights' = [function \in FunctionsOf(script) |-> Verification!Flow(function)]
  /\ UNCHANGED parserVars

Init == CompilerInit /\ MachineInit /\ heights = <<>>

Next ==
  \/ CompilerNext /\ UNCHANGED <<machineVars, heights>>
  \/ Interpret
  \/ MachineNext /\ UNCHANGED <<parserVars, heights>>

Spec == Init /\ [][Next]_vars

----------------------------------------------------------------------------
\* run() checks none of its operands, jumps and pops.  What the compiler accepts is
\* sound: jumps land on instructions, and at each there is one height of the stack,
\* whichever way control came; with enough values for it; slots, upvalues and
\* constants are there and of the right kind.
Verified ==
  Compiled /\ ~ hadError =>
    \A function \in FunctionsOf(script) : Verification!IsSound(function, Verification!Flow(function))

\* A program that breaks no rule of the language is accepted unless it exceeds a
\* limit of the code: the bytes of operands, the two bytes of a jump.
WithinLimits == Compiled => hadError = ~ Source.fits

HeightOf(k) == (IF k = Len(frames) THEN Len(stack) + 1 ELSE frames[k + 1].slots + 1) - frames[k].slots

\* Nothing checks the stack when it runs.  In every frame it is as high as it was
\* worked out to be from the code alone, calls neither lose nor leave values, and
\* the program leaves none at its end.
HeightsAgree ==
  /\ \A k \in DOMAIN frames :
       <<frames[k].ip, HeightOf(k)>> \in heights[closures[frames[k].closure].function]
  /\ Len(frames) <= FramesMax
  /\ result # "none" => stack = <<>> /\ frames = <<>>

\* The program prints what it means in Lox, and fails when that says so.
OutputIsRight ==
  result \in {"ok", "runtime error"} => <<output, result>> = Semantics!Meaning(Source.tree)
============================================================================
