------------------------------ MODULE Lexical ------------------------------
(***************************************************************************)
(* Lexical scoping: a name means the innermost declaration around it.      *)
(* A variable is the pair of the function that declares it and its place   *)
(* among the variables that the function has at the time.                  *)
(***************************************************************************)
EXTENDS Integers, Sequences, FiniteSets

CONSTANTS
  Name,           \* the identifiers of a program
  NoName,         \* none of them
  MaxVariables,   \* how many variables a function may have, itself included
  MaxFree         \* how many variables of the functions around it one may use

VARIABLES
  functions,   \* the functions around the place in the source, the outermost first
  said,        \* what the last construct of the program means
  rejected     \* the program has an error

vars == <<functions, said, rejected>>

\* A function has its variables in the order of their declarations, the first of them the
\* function itself, which has no name here.  For each block around the place it says how
\* many variables there were when the block began.
NewFunction(blocks) ==
  [variables |-> <<NoName>>, blocks |-> blocks, ready |-> TRUE, captured |-> {}, free |-> {}]

Variables(k) == functions[k].variables

\* The declarations of a name around the place, as variables.  The later ones in a
\* function are in inner blocks.
Declarations(name) ==
  UNION {{<<k, p - 1>> : p \in {q \in DOMAIN Variables(k) : Variables(k)[q] = name}} :
           k \in DOMAIN functions}

Meaning(name) ==
  CHOOSE d \in Declarations(name) :
    \A e \in Declarations(name) : d[1] > e[1] \/ (d[1] = e[1] /\ d[2] >= e[2])

Current == Len(functions)

Blocks == functions[Current].blocks

Reject == functions' = <<>> /\ said' = <<>> /\ rejected' = TRUE

\* The newest variable of a function that is not ready is the one being initialized.
Use(name) ==
  LET v     == Meaning(name)
      owner == functions[v[1]]
      free(k) == IF k > v[1] THEN functions[k].free \cup {v} ELSE functions[k].free
  IN  IF Declarations(name) = {}
      THEN said' = <<"global", name>> /\ UNCHANGED <<functions, rejected>>
      ELSE IF \/ ~ owner.ready /\ v[2] = Len(Variables(v[1])) - 1
              \/ \E k \in DOMAIN functions : Cardinality(free(k)) > MaxFree
      THEN Reject
      ELSE /\ functions' = [k \in DOMAIN functions |->
                [functions[k] EXCEPT
                   !.free     = free(k),
                   !.captured = IF k = v[1] /\ k # Current THEN @ \cup {v[2]} ELSE @]]
           /\ said' = <<"variable", v>>
           /\ UNCHANGED rejected

CannotDeclare(name) ==
  \/ \E i \in (Blocks[Len(Blocks)] + 1)..Len(Variables(Current)) : Variables(Current)[i] = name
  \/ Len(Variables(Current)) = MaxVariables

With(name, ready) ==
  [functions EXCEPT ![Current].variables = Append(@, name), ![Current].ready = ready]

\* A variable may not be read in its own initializer; a function may refer to itself.
Declare(name) ==
  IF CannotDeclare(name) THEN Reject
  ELSE functions' = With(name, FALSE) /\ said' = <<"declare">> /\ UNCHANGED rejected

Define ==
  /\ ~ functions[Current].ready
  /\ functions' = [functions EXCEPT ![Current].ready = TRUE]
  /\ said' = <<"define">>
  /\ UNCHANGED rejected

BeginFunction(name) ==
  \/ /\ Len(Blocks) = 1
     /\ functions' = Append(functions, NewFunction(<<0, 1>>))
     /\ said' = <<"function">>
     /\ UNCHANGED rejected
  \/ /\ Len(Blocks) > 1
     /\ IF CannotDeclare(name) THEN Reject
        ELSE /\ functions' = Append(With(name, TRUE), NewFunction(<<0, 1>>))
             /\ said' = <<"function">>
             /\ UNCHANGED rejected

\* The closure of a function has the variables that it uses and does not declare.
EndFunction ==
  /\ Current > 1
  /\ functions' = SubSeq(functions, 1, Current - 1)
  /\ said' = <<"closure", Cardinality(functions[Current].free), functions[Current].free>>
  /\ UNCHANGED rejected

BeginBlock ==
  /\ functions' = [functions EXCEPT ![Current].blocks = Append(@, Len(Variables(Current)))]
  /\ said' = <<"block">>
  /\ UNCHANGED rejected

\* The variables of the block go, and those that a closure has captured live on.
EndBlock ==
  LET n == Len(Variables(Current))
      m == Blocks[Len(Blocks)]
  IN  /\ functions' = [functions EXCEPT ![Current].variables = SubSeq(@, 1, m),
                                        ![Current].blocks    = SubSeq(@, 1, Len(@) - 1),
                                        ![Current].captured  = {p \in @ : p < m}]
      /\ said' = <<"leave", [i \in 1..(n - m) |-> n - i \in functions[Current].captured]>>
      /\ UNCHANGED rejected

Init ==
  /\ functions = <<NewFunction(<<0>>)>>
  /\ said = <<>>
  /\ rejected = FALSE

Next ==
  /\ ~ rejected
  /\ \/ \E name \in Name : Use(name) \/ Declare(name) \/ BeginFunction(name)
     \/ Define \/ EndFunction \/ BeginBlock \/ EndBlock

Spec == Init /\ [][Next]_vars
============================================================================
