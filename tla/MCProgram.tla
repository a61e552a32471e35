----------------------------- MODULE MCProgram -----------------------------
EXTENDS Program

MCLiteral ==
  [token \in {"0", "1", "2", "6", "s"} |->
     CASE token = "0" -> Number(0) [] token = "1" -> Number(1) [] token = "2" -> Number(2)
       [] token = "6" -> Number(6) [] token = "s" -> String(<<"s">>)]

L(token) == <<"literal", token>>
V(name) == <<"variable", name>>
Set(name, e) == <<"assign", name, e>>
U(op, e) == <<"unary", op, e>>
B(e, op, f) == <<"binary", op, e, f>>
Apply(e, es) == <<"call", e, es>>

Do(e) == <<"expression", e>>
Show(e) == <<"print", e>>
Var(name, e) == <<"var", name, <<e>> >>
Group(ss) == <<"block", ss>>
If(e, s) == <<"if", e, s, <<>> >>
IfElse(e, s, t) == <<"if", e, s, <<t>> >>
While(e, s) == <<"while", e, s>>
Give(e) == <<"return", <<e>> >>
Fun(name, parameters, ss) == <<"fun", name, parameters, ss>>

a == V("a")
b == V("b")
f == V("f")
g == V("g")
one == L("1")
two == L("2")
six == L("6")
str == L("s")
nil == L("nil")
yes == L("true")
no == L("false")

AllOperators == UNION {Language!Operators[i] : i \in DOMAIN Language!Operators}

\* Two operators, either way around.
Expressions ==
  {<<Show(B(B(six, o, two), p, one))>> : o, p \in AllOperators}
  \cup {<<Show(B(six, o, B(two, p, one)))>> : o, p \in AllOperators}

\* Everything in the place of everything.
Operands == {a, nil, str, Set("a", one), U("-", a), U("!", a), Apply(f, <<a>>), B(str, "+", str), Set("c", a)}

Uses(e) ==
  {Do(e), Show(U("-", e)), Show(U("!", e)), Show(B(e, "+", a)), Show(B(a, "or", e)), Show(B(e, "and", a)),
   Show(Set("a", e)), Show(Apply(f, <<e>>)), Show(Apply(e, <<a>>)), Show(Apply(f, <<a, e>>))}

\* All but two nils, which NilComparisons below has.
Equalities ==
  {Show(B(pair[1], "==", pair[2])) : pair \in Operands \X Operands \ {<<nil, nil>>}} \cup {Show(B(nil, "!=", a))}

Mixed ==
  {<<Var("a", two), Fun("f", <<"b">>, <<Give(B(b, "*", b))>>), s, Show(a)>> :
     s \in Equalities \cup UNION {Uses(e) : e \in Operands}}

Increment(name) == Set(name, B(V(name), "+", one))

Statements(e) ==
  {If(e, Show(one)), IfElse(e, Show(one), Show(two)), IfElse(e, Group(<<>>), If(a, Show(two))),
   While(B(e, "and", B(a, "<", two)), Show(Increment("a"))),
   <<"for", <<>>, <<B(a, "<", two)>>, <<>>, Show(Increment("a"))>>,
   <<"for", <<Do(Set("a", e))>>, <<U("!", a)>>, <<Set("a", yes)>>, Show(a)>>,
   <<"for", <<Var("c", e)>>, <<no>>, <<>>, Show(a)>>,
   <<"for", <<Var("b", one)>>, <<B(b, "<=", two)>>, <<Increment("b")>>, Group(<<Var("c", b), Show(V("c"))>>)>>,
   Group(<<Var("c", e), Group(<<Var("b", V("c")), Var("c", one), Show(b)>>), Show(V("c"))>>)}

Control ==
  {<<Var("a", one), s, Show(a)>> : s \in UNION {Statements(e) : e \in {yes, nil, a}}}
  \cup {<<Fun("f", <<"a">>, <<s, Give(a)>>), Show(Apply(f, <<one>>))>> : s \in UNION {Statements(e) : e \in {no, a}}}

Counter == Fun("g", <<>>, <<Show(Increment("a"))>>)

Closures ==
  { \* A variable outlives its function, and its closures share it.
    <<Group(<<Fun("f", <<"a">>, <<Counter, Do(Increment("a")), Give(g)>>),
        Var("b", Apply(f, <<one>>)), Var("c", Apply(f, <<six>>)),
        Do(Apply(b, <<>>)), Do(Apply(V("c"), <<>>)), Do(Apply(b, <<>>)), Show(B(b, "==", V("c"))), Show(b)>>)>>,
    \* So do the ends of scopes, and of loops.
    <<<<"var", "b", <<>> >>,
      Group(<<Var("a", one), Var("c", two), Counter, Do(Set("b", g)), Do(Increment("a"))>>), Do(Apply(b, <<>>))>>,
    <<<<"var", "b", <<>> >>,
      <<"for", <<Var("a", one)>>, <<B(a, "<", two)>>, <<Increment("a")>>, Group(<<Counter, Do(Set("b", g))>>)>>,
      Do(Apply(b, <<>>))>>,
    \* Two variables captured out of order, through a function in between.
    <<Fun("f", <<"a", "b">>,
        <<Fun("g", <<"c">>,
            <<Fun("h", <<>>, <<Do(Set("b", V("c"))), Do(Increment("a")), Give(B(a, "+", b))>>), Give(V("h"))>>),
          Var("c", Apply(g, <<six>>)), Show(Apply(V("c"), <<>>)), Show(a), Give(b)>>),
      Show(Apply(f, <<one, two>>))>>,
    \* A local function calls itself; a return leaves loops and blocks.
    <<Group(<<Fun("f", <<"a">>, <<If(B(a, ">", one), Give(a)), Give(Apply(f, <<Increment("a")>>))>>),
              Show(Apply(f, <<one>>))>>)>>,
    <<Fun("f", <<"a">>,
        <<While(yes, Group(<<Var("b", Increment("a")), Fun("g", <<>>, <<Give(b)>>), If(B(b, ">", two), Give(g))>>))>>),
      Show(Apply(Apply(f, <<one>>), <<>>))>>,
    <<Fun("f", <<>>, << <<"return", <<>> >> >>), Show(Apply(f, <<>>)), Show(f)>>,
    \* Errors, natives, calls without end.
    <<Fun("f", <<>>, <<Do(Apply(f, <<>>))>>), Show(one), Do(Apply(f, <<>>)), Show(two)>>,
    <<Fun("f", <<"a">>, <<Show(a)>>), Do(Apply(f, <<one>>)), Do(Apply(f, <<>>)), Show(two)>>,
    <<Show(Apply(V("clock"), <<>>)), Show(V("b"))>>,
    <<Do(Set("b", one))>> }

\* Statements of a function that share a variable: with closures made early or late,
\* in scopes that have ended or not, called before and after.
SharingStatements ==
  {Counter, Do(Increment("a")), Show(a), Group(<<Counter, Do(Set("b", g))>>), Do(Apply(b, <<>>)),
   Group(<<Var("d", a), Fun("g", <<>>, <<Show(Set("d", B(V("d"), "+", a)))>>), Do(Set("b", g)), Do(Increment("d"))>>)}

\* Some of them, with no variable declared twice
Sharers(n) ==
  {ss \in [1..n -> SharingStatements] : \A i, j \in 1..n : ss[i] = Counter /\ ss[j] = Counter => i = j}

Sharing ==
  {<< <<"var", "b", <<>> >>, Fun("f", <<"a">>, ss), Do(Apply(f, <<one>>)), Do(Apply(b, <<>>))>> : ss \in Sharers(3)}
  \cup {<<Fun("f", <<"b">>,
             << <<"for", <<Var("a", one)>>, <<B(a, "<", two)>>, <<Increment("a")>>, Group(ss)>>, Do(Apply(b, <<>>))>>),
           Do(Apply(f, <<nil>>))>> : ss \in Sharers(2)}

\* Statements in statements.
Nesting ==
  {<<Fun("f", <<"a">>, <<s, Show(a)>>), Do(Apply(f, <<one>>))>> :
     s \in UNION {{If(a, t), IfElse(no, Show(one), t), While(B(a, "<", two), Group(<<Do(Increment("a")), t>>)),
                   <<"for", <<Var("d", one)>>, <<B(V("d"), "<=", two)>>, <<Increment("d")>>, t>>} : t \in Statements(no)}}

----------------------------------------------------------------------------
(***************************************************************************)
(* The limits: one less and one more                                       *)
(***************************************************************************)
Of(tree, fits) == [tree |-> tree, fits |-> fits]

Times(n, x) == [i \in 1..n |-> x]

Nested(n) == FoldLeft(LAMBDA s, i : Group(<<Var("a", nil), s>>), Show(a), [i \in 1..(n - 1) |-> i])

Nots(n) == FoldLeft(LAMBDA e, i : U("!", e), nil, [i \in 1..n |-> i])

Names == <<"a", "b", "c", "d", "e", "f", "g", "h", "i", "j", "k", "l">>

Parameters2(n) ==
  <<Fun("f", SubSeq(Names, 1, n), <<Show(V(Names[n]))>>), Do(Apply(f, Times(n, yes)))>>

\* A function that uses the parameters of the two functions around it.  The outer one
\* has as many as there may be, since the inner one is a local variable of it.
Captures(n) ==
  LET outer == ByteCount - 2
      sum(m) == FoldLeft(LAMBDA e, i : B(e, "==", V(Names[i])), a, [i \in 1..(m - 1) |-> i + 1])
  IN  <<Fun("f", SubSeq(Names, 1, outer),
          <<Fun("y", SubSeq(Names, outer + 1, n), <<Fun("z", <<>>, <<Show(sum(n))>>), Do(Apply(V("z"), <<>>))>>),
            Do(Apply(V("y"), Times(n - outer, no)))>>),
        Do(Apply(f, Times(outer, yes)))>>

\* An expression of n bytes, in a program where a jump has to go over so many others.
Jumping(others, program(_)) ==
  {Of(program(Nots(n - 1)), n + others <= ShortMax) : n \in (ShortMax - others)..(ShortMax - others + 1)}

Limits ==
  {Of(Times(n, Show(one)), n <= ByteCount) : n \in ByteCount..(ByteCount + 1)}
  \cup {Of(<<Group(<<Var("a", one), Nested(n)>>)>>, n < ByteCount) : n \in (ByteCount - 1)..ByteCount}
  \cup {Of(Parameters2(n), n < ByteCount) : n \in (ByteCount - 1)..ByteCount}
  \cup {Of(<<Do(Apply(no, Times(n, nil)))>>, n < ByteCount) : n \in (ByteCount - 1)..ByteCount}
  \cup {Of(Captures(n), n <= ByteCount) : n \in ByteCount..(ByteCount + 1)}
  \cup Jumping(5, LAMBDA e : <<If(no, Do(e)), Show(one)>>)
  \cup Jumping(2, LAMBDA e : <<IfElse(yes, Show(one), Do(e))>>)
  \cup Jumping(9, LAMBDA e : <<While(no, Do(e)), Show(one)>>)
  \cup Jumping(13, LAMBDA e : << <<"for", <<>>, <<no>>, <<e>>, Do(nil)>>, Show(one)>>)
  \cup Jumping(1, LAMBDA e : <<Show(B(no, "and", e))>>)
  \cup Jumping(1, LAMBDA e : <<Show(B(yes, "or", e))>>)

MCPrograms ==
  {Of(tree, TRUE) : tree \in Expressions \cup Mixed \cup Control \cup Nesting \cup Closures \cup Sharing} \cup Limits

\* What comes after s in texts that begin with it.
After(s, texts) ==
  LET n == Len(s)
  IN  {IF Len(t) = n THEN "EOF" ELSE t[n + 1] : t \in {t \in texts : IsPrefix(s, t)}}

AllTexts == {Semantics!ProgramText(program.tree) : program \in MCPrograms}

MCContinuations(s) == After(s, AllTexts)

----------------------------------------------------------------------------
(***************************************************************************)
(* Programs that compare nil with nil, wherever the two come from          *)
(***************************************************************************)
NilComparisons ==
  {Of(<< <<"var", "a", <<>> >>, Fun("f", <<>>, <<>>), Show(B(e, op, h))>>, TRUE) :
     op \in {"==", "!="}, e, h \in {nil, a, Apply(f, <<>>)}}

NilTexts == {Semantics!ProgramText(program.tree) : program \in NilComparisons}

NilContinuations(s) == After(s, NilTexts)
============================================================================
