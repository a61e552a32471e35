------------------------------ MODULE Grammar ------------------------------
(***************************************************************************)
(* The language that the compiler accepts, without reference to how it     *)
(* parses: which sequences of tokens are expressions, statements and       *)
(* declarations, and which declarations the rules of scoping allow.        *)
(***************************************************************************)
EXTENDS Integers, Sequences, FiniteSets

CONSTANTS
  Name,      \* identifiers
  Value,     \* literals
  MaxLocals  \* how many local variables a function may have, itself included

LOCAL Upto(s, i) == SubSeq(s, 1, i)
LOCAL From(s, i) == SubSeq(s, i, Len(s))
LOCAL Between(s, i, j) == SubSeq(s, i + 1, j - 1)
LOCAL Last(s) == s[Len(s)]

\* From the loosest to the tightest.  All group to the left.
Operators ==
  << {"or"}, {"and"}, {"==", "!="}, {"<", "<=", ">", ">="}, {"+", "-"}, {"*", "/"} >>

RECURSIVE IsCall(_), AreArguments(_), IsUnary(_), IsBinary(_, _), IsExpression(_)

IsPrimary(s) ==
  \/ Len(s) = 1 /\ s[1] \in Name \cup Value \cup {"nil", "true", "false"}
  \/ Len(s) > 2 /\ s[1] = "(" /\ Last(s) = ")" /\ IsExpression(Between(s, 1, Len(s)))

AreArguments(s) ==
  \/ IsExpression(s)
  \/ \E i \in DOMAIN s : s[i] = "," /\ IsExpression(Upto(s, i - 1)) /\ AreArguments(From(s, i + 1))

IsCall(s) ==
  \/ IsPrimary(s)
  \/ /\ Len(s) > 2 /\ Last(s) = ")"
     /\ \E i \in 2..(Len(s) - 1) :
          /\ s[i] = "(" /\ IsCall(Upto(s, i - 1))
          /\ i + 1 = Len(s) \/ AreArguments(Between(s, i, Len(s)))

IsUnary(s) == IsCall(s) \/ (s # <<>> /\ s[1] \in {"-", "!"} /\ IsUnary(Tail(s)))

IsBinary(s, level) ==
  IF level > Len(Operators) THEN IsUnary(s)
  ELSE \/ IsBinary(s, level + 1)
       \/ \E i \in DOMAIN s :
            s[i] \in Operators[level] /\ IsBinary(Upto(s, i - 1), level) /\ IsBinary(From(s, i + 1), level + 1)

IsExpression(s) ==
  \/ IsBinary(s, 1)
  \/ Len(s) > 2 /\ s[1] \in Name /\ s[2] = "=" /\ IsExpression(From(s, 3))

----------------------------------------------------------------------------
(***************************************************************************)
(* A place in a program: whether it is in a function, whether variables    *)
(* declared here are global, the names declared in this scope, and how     *)
(* many local variables the function has.                                  *)
(***************************************************************************)
Outermost == [inFunction |-> FALSE, global |-> TRUE, names |-> {}, count |-> 1]

Inside(place) == [place EXCEPT !.global = FALSE, !.names = {}]

InFunction(parameters) ==
  [inFunction |-> TRUE, global |-> FALSE, names |-> parameters, count |-> 1 + Cardinality(parameters)]

MayDeclare(name, place) ==
  place.global \/ (name \notin place.names /\ place.count < MaxLocals)

After(declaration, place) ==
  IF declaration[1] \in {"var", "fun"} /\ ~ place.global
  THEN [place EXCEPT !.names = @ \cup {declaration[2]}, !.count = @ + 1]
  ELSE place

RECURSIVE IsStatement(_, _), AreDeclarations(_, _)

\* A local variable may not be used in its own initializer.
IsVar(s, place) ==
  /\ Len(s) > 2 /\ s[1] = "var" /\ s[2] \in Name /\ Last(s) = ";" /\ MayDeclare(s[2], place)
  /\ \/ Len(s) = 3
     \/ LET initializer == Between(s, 3, Len(s))
        IN  /\ s[3] = "=" /\ IsExpression(initializer)
            /\ place.global \/ \A i \in DOMAIN initializer : initializer[i] # s[2]

AreParameters(s) ==
  \/ s = <<>>
  \/ /\ Len(s) % 2 = 1
     /\ \A i \in DOMAIN s : IF i % 2 = 1 THEN s[i] \in Name ELSE s[i] = ","
     /\ \A i, j \in DOMAIN s : s[i] = s[j] /\ s[i] # "," => i = j

IsFun(s, place) ==
  /\ Len(s) > 5 /\ s[1] = "fun" /\ s[2] \in Name /\ s[3] = "(" /\ Last(s) = "}" /\ MayDeclare(s[2], place)
  /\ \E i \in 4..(Len(s) - 2) :
       LET parameters == Between(s, 3, i)
           body       == InFunction({parameters[j] : j \in DOMAIN parameters} \ {","})
       IN  /\ s[i] = ")" /\ s[i + 1] = "{"
           /\ AreParameters(parameters) /\ body.count <= MaxLocals
           /\ AreDeclarations(Between(s, i + 1, Len(s)), body)

IsDeclaration(s, place) == IsVar(s, place) \/ IsFun(s, place) \/ IsStatement(s, place)

AreDeclarations(s, place) ==
  \/ s = <<>>
  \/ \E i \in DOMAIN s :
       IsDeclaration(Upto(s, i), place) /\ AreDeclarations(From(s, i + 1), After(Upto(s, i), place))

IsExpressionStatement(s) == s # <<>> /\ Last(s) = ";" /\ IsExpression(Upto(s, Len(s) - 1))

IsFor(s, place) ==
  /\ Len(s) > 2 /\ s[1] = "for" /\ s[2] = "("
  /\ \E i, j, k \in DOMAIN s :
       LET initializer == SubSeq(s, 3, i)
       IN  /\ i < j /\ j < k /\ s[i] = ";" /\ s[j] = ";" /\ s[k] = ")"
           /\ \/ i = 3
              \/ IsExpressionStatement(initializer)
              \/ IsVar(initializer, Inside(place))
           /\ j = i + 1 \/ IsExpression(Between(s, i, j))
           /\ k = j + 1 \/ IsExpression(Between(s, j, k))
           /\ IsStatement(From(s, k + 1), After(initializer, Inside(place)))

IsStatement(s, place) ==
  \/ IsExpressionStatement(s)
  \/ s # <<>> /\ s[1] = "print" /\ IsExpressionStatement(Tail(s))
  \/ s # <<>> /\ s[1] = "return" /\ place.inFunction /\ (Tail(s) = <<";">> \/ IsExpressionStatement(Tail(s)))
  \/ Len(s) > 1 /\ s[1] = "{" /\ Last(s) = "}" /\ AreDeclarations(Between(s, 1, Len(s)), Inside(place))
  \/ /\ Len(s) > 2 /\ s[1] \in {"if", "while"} /\ s[2] = "("
     /\ \E i \in DOMAIN s :
          /\ s[i] = ")" /\ IsExpression(Between(s, 2, i))
          /\ \/ IsStatement(From(s, i + 1), place)
             \/ /\ s[1] = "if"
                /\ \E j \in DOMAIN s :
                     /\ s[j] = "else" /\ IsStatement(Between(s, i, j), place)
                     /\ IsStatement(From(s, j + 1), place)
  \/ IsFor(s, place)

IsProgram(s) == AreDeclarations(s, Outermost)
============================================================================
