-------------------------------- MODULE Lox --------------------------------
(***************************************************************************)
(* What a Lox program means, without code, stack or upvalues: programs as  *)
(* trees, their text, and their direct evaluation, in which every variable *)
(* is a cell of a store and a closure has the environment it was made in.  *)
(* Truth and equality are those of the language; of Bytecode only the      *)
(* forms of values are used.                                               *)
(*                                                                         *)
(* Expressions are <<"literal", token>>, <<"variable", name>>,             *)
(* <<"assign", name, e>>, <<"unary", op, e>>, <<"binary", op, e, e>> and   *)
(* <<"call", e, es>>; statements <<"expression", e>>, <<"print", e>>,      *)
(* <<"var", name, es>>, <<"block", ss>>, <<"if", e, s, ss>>,               *)
(* <<"while", e, s>>, <<"for", ss, es, es, s>>, <<"return", es>> and       *)
(* <<"fun", name, parameters, ss>>.  What may be left out is a sequence.   *)
(***************************************************************************)
EXTENDS Bytecode, SequencesExt

CONSTANTS
  Denotation,  \* the values of the literal tokens
  Operators,   \* the binary operators, from the loosest to the tightest
  MaxCalls,    \* how deep calls may be nested, the script included
  Time         \* what clock() returns

----------------------------------------------------------------------------
(***************************************************************************)
(* The text of a program, with no more parentheses than it needs           *)
(***************************************************************************)
LevelOf(e) ==
  CASE e[1] = "assign" -> 0
    [] e[1] = "binary" -> CHOOSE i \in DOMAIN Operators : e[2] \in Operators[i]
    [] e[1] = "unary"  -> Len(Operators) + 1
    [] OTHER           -> Len(Operators) + 2

RECURSIVE Text(_), Separated(_), StatementText(_)

At(e, level) == IF LevelOf(e) < level THEN <<"(">> \o Text(e) \o <<")">> ELSE Text(e)

Text(e) ==
  CASE e[1] \in {"literal", "variable"} -> <<e[2]>>
    [] e[1] = "assign" -> <<e[2], "=">> \o Text(e[3])
    [] e[1] = "unary"  -> <<e[2]>> \o At(e[3], LevelOf(e))
    [] e[1] = "binary" -> At(e[3], LevelOf(e)) \o <<e[2]>> \o At(e[4], LevelOf(e) + 1)
    [] e[1] = "call"   -> At(e[2], LevelOf(e)) \o <<"(">> \o Separated([i \in DOMAIN e[3] |-> Text(e[3][i])]) \o <<")">>

Separated(texts) ==
  IF Len(texts) < 2 THEN FlattenSeq(texts)
  ELSE Head(texts) \o <<",">> \o Separated(Tail(texts))

Texts(es) == FlattenSeq([i \in DOMAIN es |-> Text(es[i])])

ProgramText(ss) == FlattenSeq([i \in DOMAIN ss |-> StatementText(ss[i])])

StatementText(s) ==
  CASE s[1] = "expression" -> Text(s[2]) \o <<";">>
    [] s[1] = "print"  -> <<"print">> \o Text(s[2]) \o <<";">>
    [] s[1] = "var"    -> <<"var", s[2]>> \o (IF s[3] = <<>> THEN <<>> ELSE <<"=">>) \o Texts(s[3]) \o <<";">>
    [] s[1] = "block"  -> <<"{">> \o ProgramText(s[2]) \o <<"}">>
    [] s[1] = "if"     -> <<"if", "(">> \o Text(s[2]) \o <<")">> \o StatementText(s[3])
                            \o (IF s[4] = <<>> THEN <<>> ELSE <<"else">>) \o ProgramText(s[4])
    [] s[1] = "while"  -> <<"while", "(">> \o Text(s[2]) \o <<")">> \o StatementText(s[3])
    [] s[1] = "for"    -> <<"for", "(">> \o (IF s[2] = <<>> THEN <<";">> ELSE ProgramText(s[2]))
                            \o Texts(s[3]) \o <<";">> \o Texts(s[4]) \o <<")">> \o StatementText(s[5])
    [] s[1] = "return" -> <<"return">> \o Texts(s[2]) \o <<";">>
    [] s[1] = "fun"    -> <<"fun", s[2], "(">> \o Separated([i \in DOMAIN s[3] |-> <<s[3][i]>>]) \o <<")", "{">>
                            \o ProgramText(s[4]) \o <<"}">>

----------------------------------------------------------------------------
(***************************************************************************)
(* Evaluation.  m is the machine: status is "ok" as long as control just   *)
(* goes on, value is the one of the last expression.                       *)
(***************************************************************************)
Fresh ==
  [env |-> <<>>, store |-> <<>>, globals |-> ("clock" :> Native), closures |-> <<>>,
   calls |-> 1, output |-> <<>>, status |-> "ok", value |-> Nil]

Fail(m) == [m EXCEPT !.status = "runtime error"]

Gives(m, v) == [m EXCEPT !.value = v]

\* A new local variable, which hides older ones of its name.
Bind(m, name, v) ==
  [m EXCEPT !.store = Append(@, v), !.env = (name :> Len(m.store) + 1) @@ @]

\* Everything is true but nil and false.
IsTrue(v) == v.type # "nil" /\ (v.type = "bool" => v.val)

\* Every value is equal to itself, nil too, and to nothing else.
AreEqual(a, b) == a.type = b.type /\ a.val = b.val

\* All but equality takes two numbers, or for + two strings.
Operate(m, op, a, b) ==
  IF op \in {"==", "!="} THEN Gives(m, Bool(AreEqual(a, b) = (op = "==")))
  ELSE IF op = "+" /\ a.type = "string" /\ b.type = "string" THEN Gives(m, String(a.val \o b.val))
  ELSE IF a.type # "number" \/ b.type # "number" THEN Fail(m)
  ELSE Gives(m,
         CASE op = "+" -> Number(a.val + b.val) [] op = "-"  -> Number(a.val - b.val)
           [] op = "*" -> Number(a.val * b.val) [] op = "/"  -> Number(a.val \div b.val)
           [] op = "<" -> Bool(a.val < b.val)   [] op = "<=" -> Bool(a.val <= b.val)
           [] op = ">" -> Bool(a.val > b.val)   [] op = ">=" -> Bool(a.val >= b.val))

\* What comes next, if control just goes on.
Then(m, next(_)) == IF m.status = "ok" THEN next(m) ELSE m

RECURSIVE Eval(_, _), EvalAll(_, _, _), Exec(_, _, _), ExecAll(_, _, _), Repeat(_, _, _, _)

EvalAll(m, es, values) ==
  IF es = <<>> THEN Gives(m, values)
  ELSE Then(Eval(m, Head(es)), LAMBDA n : EvalAll(n, Tail(es), Append(values, n.value)))

Enter(m, c, args) ==
  FoldLeft(LAMBDA n, i : Bind(n, c.parameters[i], args[i]),
           [m EXCEPT !.env = c.env, !.calls = @ + 1, !.value = Nil],
           [i \in DOMAIN args |-> i])

\* A function that does not return a value returns nil.
Leave(m, left) ==
  IF left.status = "runtime error" THEN left
  ELSE [left EXCEPT !.env = m.env, !.calls = m.calls, !.status = "ok",
                    !.value = IF left.status = "return" THEN @ ELSE Nil]

Apply(m, f, args) ==
  CASE f.type = "native" -> Gives(m, Number(Time))
    [] f.type = "closure" ->
         LET c == m.closures[f.val]
         IN  IF Len(args) # Len(c.parameters) \/ m.calls = MaxCalls THEN Fail(m)
             ELSE Leave(m, ExecAll(Enter(m, c, args), c.body, TRUE))
    [] OTHER -> Fail(m)

Eval(m, e) ==
  CASE e[1] = "literal" ->
         Gives(m, CASE e[2] = "nil" -> Nil [] e[2] = "true" -> Bool(TRUE) [] e[2] = "false" -> Bool(FALSE)
                    [] OTHER -> Denotation[e[2]])
    [] e[1] = "variable" ->
         IF e[2] \in DOMAIN m.env THEN Gives(m, m.store[m.env[e[2]]])
         ELSE IF e[2] \in DOMAIN m.globals THEN Gives(m, m.globals[e[2]])
         ELSE Fail(m)
    [] e[1] = "assign" ->
         Then(Eval(m, e[3]), LAMBDA n :
           IF e[2] \in DOMAIN n.env THEN [n EXCEPT !.store[n.env[e[2]]] = n.value]
           ELSE IF e[2] \in DOMAIN n.globals THEN [n EXCEPT !.globals[e[2]] = n.value]
           ELSE Fail(n))
    [] e[1] = "unary" ->
         Then(Eval(m, e[3]), LAMBDA n :
           IF e[2] = "!" THEN Gives(n, Bool(~ IsTrue(n.value)))
           ELSE IF n.value.type = "number" THEN Gives(n, Number(- n.value.val))
           ELSE Fail(n))
    [] e[1] = "binary" /\ e[2] \in {"and", "or"} ->
         Then(Eval(m, e[3]), LAMBDA n : IF IsTrue(n.value) = (e[2] = "and") THEN Eval(n, e[4]) ELSE n)
    [] e[1] = "binary" /\ e[2] \notin {"and", "or"} ->
         Then(Eval(m, e[3]), LAMBDA n :
           Then(Eval(n, e[4]), LAMBDA o : Operate(o, e[2], n.value, o.value)))
    [] e[1] = "call" ->
         Then(Eval(m, e[2]), LAMBDA n :
           Then(EvalAll(n, e[3], <<>>), LAMBDA o : Apply(o, n.value, o.value)))

ExecAll(m, ss, local) ==
  IF ss = <<>> THEN m ELSE Then(Exec(m, Head(ss), local), LAMBDA n : ExecAll(n, Tail(ss), local))

Scoped(m, n) == [n EXCEPT !.env = m.env]

Repeat(m, condition, body, increment) ==
  Then(EvalAll(m, condition, <<>>), LAMBDA n :
    IF condition # <<>> /\ ~ IsTrue(n.value[1]) THEN n
    ELSE Then(Exec(n, body, TRUE), LAMBDA o :
           Then(EvalAll(o, increment, <<>>), LAMBDA p : Repeat(p, condition, body, increment))))

Declare(m, name, v, local) ==
  IF local THEN Bind(m, name, v) ELSE [m EXCEPT !.globals = (name :> v) @@ @]

Exec(m, s, local) ==
  CASE s[1] = "expression" -> Eval(m, s[2])
    [] s[1] = "print" ->
         Then(Eval(m, s[2]), LAMBDA n :
           [n EXCEPT !.output = Append(@,
              IF n.value.type = "closure" THEN [n.value EXCEPT !.val = n.closures[@].name] ELSE n.value)])
    [] s[1] = "var" ->
         Then(EvalAll(m, s[3], <<>>), LAMBDA n :
           Declare(n, s[2], IF s[3] = <<>> THEN Nil ELSE n.value[1], local))
    [] s[1] = "block" -> Scoped(m, ExecAll(m, s[2], TRUE))
    [] s[1] = "if" ->
         Then(Eval(m, s[2]), LAMBDA n :
           IF IsTrue(n.value) THEN Exec(n, s[3], TRUE) ELSE ExecAll(n, s[4], TRUE))
    [] s[1] = "while" -> Repeat(m, <<s[2]>>, s[3], <<>>)
    [] s[1] = "for" ->
         Scoped(m, Then(ExecAll(m, s[2], TRUE), LAMBDA n : Repeat(n, s[3], s[5], s[4])))
    [] s[1] = "return" ->
         Then(EvalAll(m, s[2], <<>>), LAMBDA n :
           [n EXCEPT !.status = "return", !.value = IF s[2] = <<>> THEN Nil ELSE @[1]])
    [] s[1] = "fun" ->
         LET closure == Closure(Len(m.closures) + 1)
             bound   == Declare(m, s[2], closure, local)
         IN  [bound EXCEPT !.closures =
                Append(@, [name |-> s[2], parameters |-> s[3], body |-> s[4], env |-> bound.env])]

\* What a program prints, and how it ends.
Meaning(program) ==
  LET m == ExecAll(Fresh, program, FALSE)
  IN  <<m.output, m.status>>
============================================================================
