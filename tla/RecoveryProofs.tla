--------------------------- MODULE RecoveryProofs ---------------------------
(***************************************************************************)
(* Proofs about module Recovery, for every text: whatever errors it has,   *)
(* the compiler keeps within its arrays, and what is left to do closes     *)
(* exactly the blocks and functions that are open.                         *)
(***************************************************************************)
EXTENDS Recovery, LeastNumber, SequenceTheorems

----------------------------------------------------------------------------
\* A sequence, whatever its elements are.
IsSeq(s) == s = [i \in 1..Len(s) |-> s[i]] /\ Len(s) \in Nat

ByteIndex == 0..(ByteCount - 1)

Upvalue == [index : ByteIndex, isLocal : BOOLEAN]

IsLocal(l) ==
  /\ l = [name |-> l.name, depth |-> l.depth, isCaptured |-> l.isCaptured]
  /\ l.depth \in Int

IsCompiler(c) ==
  /\ c = [locals |-> c.locals, upvalues |-> c.upvalues, scopeDepth |-> c.scopeDepth,
          code |-> c.code, constants |-> c.constants, arity |-> c.arity, name |-> c.name]
  /\ IsSeq(c.locals) /\ Len(c.locals) \in 1..MaxLocals
  /\ \A i \in 1..Len(c.locals) : IsLocal(c.locals[i])
  /\ c.upvalues \in Seq(Upvalue) /\ Len(c.upvalues) \in 0..MaxUpvalues
  /\ c.scopeDepth \in Nat
  /\ c.code \in Seq(ByteValue)
  /\ IsSeq(c.constants)

\* Below the function itself in slot 0 the locals are those of its blocks, the outer
\* ones first, and only the last one may be in its initializer.
InOrder(c) ==
  LET locals == c.locals
  IN  /\ locals[1].depth = 0
      /\ \A i \in 2..Len(locals) :
           \/ locals[i].depth \in 1..c.scopeDepth
           \/ i = Len(locals) /\ locals[i].depth = Uninitialized /\ c.scopeDepth > 0
      /\ \A i, j \in 1..Len(locals) :
           i < j => locals[i].depth <= locals[j].depth \/ locals[j].depth = Uninitialized

IsReady(c) == \A i \in 1..Len(c.locals) : c.locals[i].depth # Uninitialized

\* markInitialized() finds a local variable: it never marks slot 0.
CanMark(c) == c.scopeDepth > 0 => Len(c.locals) > 1

\* The functions around the current one wait for it to be defined; the current one may
\* have a variable that waits for its initializer.
ChainOK(chain, defining) ==
  /\ IsSeq(chain)
  /\ \A k \in 1..Len(chain) :
       /\ IsCompiler(chain[k]) /\ InOrder(chain[k])
       /\ k < Len(chain) => IsReady(chain[k]) /\ CanMark(chain[k])
       /\ k = Len(chain) => IF defining THEN CanMark(chain[k]) ELSE IsReady(chain[k])

ScopeDepths(chain) == [k \in 1..Len(chain) |-> chain[k].scopeDepth]

\* The items of expressions, which declare nothing and open no block, ...
OfExpressions ==
  {"scan", "consume", "emit", "patch", "loop", "precedence", "prefix", "infix", "infixRule",
   "arguments", "argument"}

\* ... those of variables, which open no block either, ...
OfVariables == {"var", "define", "forInitializer"}

\* ... and those of for, each of which will be the end of the block that it is in.
OfLoops == {"forCondition", "forExit", "forIncrement"}

Endings == OfLoops \cup {"endScope"}

ItemOK(item) ==
  /\ item[1] = "emit" => item[2] \in Seq(ByteValue)
  /\ item[1] \in {"patch", "loop", "else", "whileBody", "forExit", "forIncrement"} => item[2] \in Int
  /\ item[1] \in {"precedence", "prefix", "infix"} => item[2] \in Nat /\ item[2] > 0
  /\ item[1] \in {"argument", "define", "endFunction"} => item[2] \in ByteIndex
  /\ item[1] = "forIncrement" =>
       \/ item[3] = <<>>
       \/ LET exit == item[3][1][2]
          IN  exit \in Int /\ item[3] = << <<"patch", exit>>, <<"emit", <<Op.POP>> >> >>

\* What may be on top of what.
On(upper, lower) ==
  /\ lower = "define" => upper \in OfExpressions
  /\ lower \in OfLoops => upper \in OfExpressions \cup OfVariables
  /\ lower = "infixRule" => upper = "scan"

TodoOK(items) ==
  /\ IsSeq(items)
  /\ \A i \in 1..Len(items) : ItemOK(items[i])
  /\ \A i, j \in 1..Len(items) : i < j => On(items[i][1], items[j][1])

Has(items, name) == \E i \in 1..Len(items) : items[i][1] = name

\* What is left to do ends the blocks and functions that are open, and no others.
Running ==
  /\ TodoOK(todo)
  /\ ChainOK(compilers, Has(todo, "define"))
  /\ ScopeDepths(compilers) = Depths(todo, Endings)
  /\ Has(todo, "infixRule") => Precedence(previous) > 0

IInv ==
  /\ hadError \in BOOLEAN /\ panicMode \in BOOLEAN /\ (panicMode => hadError)
  /\ Running \/ (todo = <<>> /\ compilers = <<>>)

----------------------------------------------------------------------------
Elements(s) == {s[i] : i \in 1..Len(s)}

LEMMA SeqIs ==
  ASSUME NEW s, IsSeq(s)
  PROVE  s \in Seq(Elements(s)) /\ DOMAIN s = 1..Len(s)
<1> DEFINE n == Len(s)
           f == [i \in 1..n |-> s[i]]
<1>1. n \in Nat /\ s = f
  BY DEF IsSeq
<1>2. \A i \in 1..n : s[i] \in Elements(s)
  BY DEF Elements
<1> HIDE DEF n
<1>3. f \in Seq(Elements(s))
  BY <1>1, <1>2
<1>4. DOMAIN f = 1..n
  OBVIOUS
<1> QED
  BY <1>1, <1>3, <1>4 DEF n

LEMMA IsOne ==
  ASSUME NEW S, NEW s \in Seq(S)
  PROVE  IsSeq(s)
<1>1. Len(s) \in Nat /\ s \in [1..Len(s) -> S]
  BY LenProperties
<1> QED
  BY <1>1 DEF IsSeq

LEMMA EmptyIs ==
  /\ IsSeq(<<>>) /\ Len(<<>>) = 0
  /\ \A s : IsSeq(s) => (s = <<>> <=> Len(s) = 0)
<1>1. IsSeq(<<>>) /\ Len(<<>>) = 0
  BY EmptySeq, IsOne
<1>2. ASSUME NEW s, IsSeq(s)  PROVE s = <<>> <=> Len(s) = 0
  BY <1>2, SeqIs, EmptySeq
<1> QED
  BY <1>1, <1>2

LEMMA AppendIs ==
  ASSUME NEW s, IsSeq(s), NEW e
  PROVE  /\ IsSeq(Append(s, e)) /\ Len(Append(s, e)) = Len(s) + 1
         /\ \A i \in 1..Len(s) : Append(s, e)[i] = s[i]
         /\ Append(s, e)[Len(s) + 1] = e
<1> DEFINE S == Elements(s) \cup {e}
<1>1. s \in Seq(S) /\ e \in S
  BY SeqIs, SeqMonotonic
<1> HIDE DEF S
<1> DEFINE t == Append(s, e)
<1>2. /\ t \in Seq(S) /\ Len(t) = Len(s) + 1 /\ Len(s) \in Nat
      /\ \A i \in 1..Len(s) : t[i] = s[i]
      /\ t[Len(s) + 1] = e
  BY <1>1, AppendProperties, LenProperties
<1> HIDE DEF t
<1>3. IsSeq(t)
  BY <1>2, IsOne
<1> QED
  BY <1>2, <1>3 DEF t

LEMMA ConcatIs ==
  ASSUME NEW s, IsSeq(s), NEW t, IsSeq(t)
  PROVE  /\ IsSeq(s \o t) /\ Len(s \o t) = Len(s) + Len(t)
         /\ \A i \in 1..Len(s) : (s \o t)[i] = s[i]
         /\ \A i \in 1..Len(t) : (s \o t)[Len(s) + i] = t[i]
<1> DEFINE S == Elements(s) \cup Elements(t)
           u == s \o t
<1>1. s \in Seq(S) /\ t \in Seq(S)
  BY SeqIs, SeqMonotonic
<1> HIDE DEF S
<1>2. /\ u \in Seq(S) /\ Len(u) = Len(s) + Len(t) /\ Len(s) \in Nat /\ Len(t) \in Nat
      /\ \A i \in 1..(Len(s) + Len(t)) : u[i] = IF i <= Len(s) THEN s[i] ELSE t[i - Len(s)]
  BY <1>1, ConcatProperties, LenProperties
<1>3. IsSeq(u)
  BY <1>2, IsOne
<1> HIDE DEF u
<1> QED
  BY <1>2, <1>3 DEF u

LEMMA TailIs ==
  ASSUME NEW s, IsSeq(s), s # <<>>
  PROVE  /\ IsSeq(Tail(s)) /\ Len(Tail(s)) = Len(s) - 1 /\ Len(s) \in Nat /\ Len(s) > 0
         /\ \A i \in 1..(Len(s) - 1) : Tail(s)[i] = s[i + 1]
         /\ Head(s) = s[1]
<1>1. s \in Seq(Elements(s))
  BY SeqIs
<1>2. Len(s) \in Nat /\ Len(s) > 0
  BY EmptyIs DEF IsSeq
<1> DEFINE t == Tail(s)
<1>3. /\ t \in Seq(Elements(s)) /\ Len(t) = Len(s) - 1
      /\ \A i \in 1..Len(t) : t[i] = s[i + 1]
      /\ Head(s) = s[1]
  BY <1>1, <1>2, HeadTailProperties
<1> HIDE DEF t
<1>4. IsSeq(t) /\ \A i \in 1..(Len(s) - 1) : t[i] = s[i + 1]
  BY <1>3, IsOne
<1> QED
  BY <1>2, <1>3, <1>4 DEF t

LEMMA FirstIs ==
  ASSUME NEW s, IsSeq(s), NEW m \in 0..Len(s)
  PROVE  /\ IsSeq(SubSeq(s, 1, m)) /\ Len(SubSeq(s, 1, m)) = m
         /\ \A i \in 1..m : SubSeq(s, 1, m)[i] = s[i]
<1>1. Len(s) \in Nat /\ m \in Int /\ \A i \in 1..m : s[i] \in Elements(s)
  BY DEF IsSeq, Elements
<1> DEFINE t == SubSeq(s, 1, m)
<1>2. /\ t \in Seq(Elements(s))
      /\ Len(t) = IF 1 <= m THEN m - 1 + 1 ELSE 0
      /\ \A i \in 1..(m - 1 + 1) : t[i] = s[1 + i - 1]
  BY <1>1, SubSeqProperties
<1> HIDE DEF t
<1>3. Len(t) = m /\ \A i \in 1..m : t[i] = s[i]
  BY <1>1, <1>2
<1>4. IsSeq(t)
  BY <1>2, IsOne
<1> QED
  BY <1>3, <1>4 DEF t

LEMMA Same ==
  ASSUME NEW s, IsSeq(s), NEW t, IsSeq(t), Len(s) = Len(t), \A i \in 1..Len(s) : s[i] = t[i]
  PROVE  s = t
BY DEF IsSeq

LEMMA LastReplaced ==
  ASSUME NEW s, IsSeq(s), Len(s) > 0, NEW e
  PROVE  LET t == [s EXCEPT ![Len(s)] = e]
         IN  /\ IsSeq(t) /\ Len(t) = Len(s)
             /\ \A i \in 1..(Len(s) - 1) : t[i] = s[i]
             /\ t[Len(s)] = e
<1> DEFINE S == Elements(s) \cup {e}
           n == Len(s)
           t == [s EXCEPT ![n] = e]
<1>1. s \in Seq(S) /\ e \in S /\ n \in Nat /\ n \in 1..n
  BY SeqIs, SeqMonotonic DEF IsSeq
<1> HIDE DEF S
<1>2. t \in Seq(S) /\ Len(t) = n /\ \A j \in 1..n : t[j] = IF j = n THEN e ELSE s[j]
  BY <1>1, ExceptSeq
<1>3. IsSeq(t)
  BY <1>2, IsOne
<1> HIDE DEF t
<1> QED
  BY <1>1, <1>2, <1>3 DEF t

----------------------------------------------------------------------------
\* How the item at the n-th place from the bottom changes the depths.
After(depths, name, endings) ==
  CASE name = "endFunction" -> Append(depths, 1)
    [] name \in endings     -> [depths EXCEPT ![Len(depths)] = @ + 1]
    [] OTHER                -> depths

Below(items, n) == items[Len(items) + 1 - n][1]

DepthsFrom(items, endings, of, n) ==
  IF n = 0 THEN <<0>> ELSE After(of[n - 1], Below(items, n), endings)

AreDepths(items, endings, of) ==
  of = [n \in 0..Len(items) |-> DepthsFrom(items, endings, of, n)]

\* The first so many items open nothing.
Quiet(items, m, endings) ==
  \A i \in 1..m : \A d : After(d, items[i][1], endings) = d

LEMMA DepthsFromLocal ==
  ASSUME NEW items, NEW endings, NEW of, NEW other, NEW n, n # 0 => of[n - 1] = other[n - 1]
  PROVE  DepthsFrom(items, endings, of, n) = DepthsFrom(items, endings, other, n)
BY DEF DepthsFrom

LEMMA DepthsExist ==
  ASSUME NEW items, NEW endings, NEW last \in Nat
  PROVE  \E of : of = [n \in 0..last |-> DepthsFrom(items, endings, of, n)]
<1> DEFINE From(of, n) == DepthsFrom(items, endings, of, n)
           N == {m \in Nat : \E of : of = [n \in 0..m |-> From(of, n)]}
<1>1. 0 \in N
  <2> DEFINE f == [n \in 0..0 |-> <<0>>]
  <2>1. ASSUME NEW n \in 0..0  PROVE f[n] = From(f, n)
    BY DEF DepthsFrom
  <2>2. f = [n \in 0..0 |-> From(f, n)]
    BY <2>1
  <2> QED
    BY <2>2
<1>2. ASSUME NEW m \in Nat, m \in N  PROVE m + 1 \in N
  <2>1. PICK f : f = [n \in 0..m |-> From(f, n)]
    BY <1>2
  <2> DEFINE g == [n \in 0..(m + 1) |-> IF n = m + 1 THEN From(f, n) ELSE f[n]]
  <2>2. ASSUME NEW n \in 1..(m + 1)  PROVE g[n - 1] = f[n - 1]
    OBVIOUS
  <2> HIDE DEF From
  <2>3. ASSUME NEW n \in 0..(m + 1)  PROVE g[n] = From(g, n)
    <3>1. g[n] = From(f, n)
      BY <2>1
    <3>2. n # 0 => f[n - 1] = g[n - 1]
      BY <2>2
    <3> HIDE DEF g
    <3> QED
      BY <3>1, <3>2, DepthsFromLocal DEF From
  <2>4. DOMAIN g = 0..(m + 1) /\ g = [n \in DOMAIN g |-> g[n]]
    OBVIOUS
  <2> HIDE DEF g
  <2>5. g = [n \in 0..(m + 1) |-> From(g, n)]
    BY <2>3, <2>4
  <2> QED
    BY <2>5
<1> QED
  <2> HIDE DEF N
  <2>1. last \in N
    BY <1>1, <1>2, Induction
  <2> QED
    BY <2>1 DEF N

LEMMA DepthsAre ==
  ASSUME NEW items, Len(items) \in Nat, NEW endings
  PROVE  \E of : AreDepths(items, endings, of) /\ Depths(items, endings) = of[Len(items)]
<1> DEFINE chosen == CHOOSE of : AreDepths(items, endings, of)
<1>1. \E of : AreDepths(items, endings, of)
  BY DepthsExist DEF AreDepths
<1>2. AreDepths(items, endings, chosen)
  BY <1>1
<1>3. Depths(items, endings) = chosen[Len(items)]
  BY DEF Depths, AreDepths, DepthsFrom, After, Below
<1> QED
  BY <1>2, <1>3

LEMMA DepthsStep ==
  ASSUME NEW items, Len(items) \in Nat, NEW endings, NEW of, AreDepths(items, endings, of)
  PROVE  /\ of[0] = <<0>>
         /\ \A n \in 1..Len(items) : of[n] = After(of[n - 1], Below(items, n), endings)
<1>1. \A n \in 0..Len(items) : of[n] = DepthsFrom(items, endings, of, n)
  BY DEF AreDepths
<1> QED
  BY <1>1 DEF DepthsFrom

\* The depths at some place are a matter of the items below it.
LEMMA DepthsAgree ==
  ASSUME NEW a, Len(a) \in Nat, NEW b, Len(b) \in Nat, NEW endings, NEW other, NEW f, NEW g,
         AreDepths(a, endings, f), AreDepths(b, other, g),
         NEW m \in Nat, m <= Len(a), m <= Len(b),
         \A n \in 1..m : \A d : After(d, Below(a, n), endings) = After(d, Below(b, n), other)
  PROVE  \A n \in 0..m : f[n] = g[n]
<1> DEFINE N == {n \in Nat : n <= m => f[n] = g[n]}
<1>1. /\ f[0] = <<0>> /\ \A n \in 1..Len(a) : f[n] = After(f[n - 1], Below(a, n), endings)
      /\ g[0] = <<0>> /\ \A n \in 1..Len(b) : g[n] = After(g[n - 1], Below(b, n), other)
  BY DepthsStep
<1>2. 0 \in N
  BY <1>1
<1>3. ASSUME NEW n \in Nat, n \in N  PROVE n + 1 \in N
  <2> SUFFICES ASSUME n + 1 <= m  PROVE f[n + 1] = g[n + 1]
    OBVIOUS
  <2> DEFINE k == n + 1
  <2>1. k \in 1..m /\ k \in 1..Len(a) /\ k \in 1..Len(b) /\ k - 1 = n /\ f[n] = g[n]
    BY <1>3
  <2> HIDE DEF k
  <2>2. f[k] = After(f[n], Below(a, k), endings) /\ g[k] = After(g[n], Below(b, k), other)
    BY <1>1, <2>1
  <2>3. f[k] = g[k]
    BY <2>1, <2>2
  <2> QED
    BY <2>3 DEF k
<1> QED
  <2> HIDE DEF N
  <2>1. Nat \subseteq N
    BY <1>2, <1>3, Induction
  <2> QED
    BY <2>1 DEF N

LEMMA SameDepths ==
  ASSUME NEW a, IsSeq(a), NEW endings, NEW other,
         \A i \in 1..Len(a) : \A d : After(d, a[i][1], endings) = After(d, a[i][1], other)
  PROVE  Depths(a, endings) = Depths(a, other)
<1>1. Len(a) \in Nat
  BY DEF IsSeq
<1>2. PICK f : AreDepths(a, endings, f) /\ Depths(a, endings) = f[Len(a)]
  BY <1>1, DepthsAre
<1>3. PICK g : AreDepths(a, other, g) /\ Depths(a, other) = g[Len(a)]
  BY <1>1, DepthsAre
<1>4. \A n \in 1..Len(a) : \A d : After(d, Below(a, n), endings) = After(d, Below(a, n), other)
  BY <1>1 DEF Below
<1>5. \A n \in 0..Len(a) : f[n] = g[n]
  BY <1>1, <1>2, <1>3, <1>4, DepthsAgree
<1> QED
  BY <1>1, <1>2, <1>3, <1>5

LEMMA NoDepths ==
  ASSUME NEW endings
  PROVE  Depths(<<>>, endings) = <<0>>
<1>1. Len(<<>>) = 0
  BY EmptyIs
<1>2. PICK f : AreDepths(<<>>, endings, f) /\ Depths(<<>>, endings) = f[Len(<<>>)]
  BY <1>1, DepthsAre
<1> QED
  BY <1>1, <1>2, DepthsStep

\* Of what is put on top of other items only the lowest can open something.
LEMMA DepthsOver ==
  ASSUME NEW items, IsSeq(items), Len(items) > 0, NEW rest, IsSeq(rest), NEW endings,
         Quiet(items, Len(items) - 1, endings)
  PROVE  Depths(items \o rest, endings) =
           After(Depths(rest, endings), items[Len(items)][1], endings)
<1> DEFINE u == items \o rest
           r == Len(rest)
           m == Len(items)
<1>1. /\ Len(u) = m + r /\ m \in Nat /\ r \in Nat /\ Len(u) \in Nat
      /\ \A i \in 1..m : u[i] = items[i]
      /\ \A i \in 1..r : u[m + i] = rest[i]
  BY ConcatIs DEF IsSeq
<1> HIDE DEF u
<1>2. PICK f : AreDepths(u, endings, f) /\ Depths(u, endings) = f[m + r]
  BY <1>1, DepthsAre
<1>3. PICK g : AreDepths(rest, endings, g) /\ Depths(rest, endings) = g[r]
  BY <1>1, DepthsAre
<1>4. \A n \in 1..r : Below(u, n) = Below(rest, n)
  <2> SUFFICES ASSUME NEW n \in 1..r  PROVE Below(u, n) = Below(rest, n)
    OBVIOUS
  <2> DEFINE i == r + 1 - n
  <2>1. i \in 1..r /\ Len(u) + 1 - n = m + i
    BY <1>1
  <2>2. u[m + i] = rest[i]
    BY <1>1, <2>1
  <2> QED
    BY <2>1, <2>2 DEF Below
<1>5. f[r] = g[r]
  <2>1. r <= Len(u) /\ r <= Len(rest)
    BY <1>1
  <2>2. \A n \in 1..r : \A d : After(d, Below(u, n), endings) = After(d, Below(rest, n), endings)
    BY <1>4
  <2>3. \A n \in 0..r : f[n] = g[n]
    <3>1. /\ Len(u) \in Nat /\ Len(rest) \in Nat /\ r \in Nat
          /\ AreDepths(u, endings, f) /\ AreDepths(rest, endings, g)
      BY <1>1, <1>2, <1>3
    <3> HIDE DEF r
    <3> QED
      BY <2>1, <2>2, <3>1, DepthsAgree
  <2> QED
    BY <1>1, <2>3
<1>6. \A n \in 1..(m + r) : f[n] = After(f[n - 1], Below(u, n), endings)
  <2>1. \A n \in 1..Len(u) : f[n] = After(f[n - 1], Below(u, n), endings)
    BY <1>1, <1>2, DepthsStep
  <2> QED
    BY <1>1, <2>1
<1>7. f[r + 1] = After(g[r], items[m][1], endings)
  <2>1. r + 1 \in 1..(m + r) /\ Below(u, r + 1) = u[m][1] /\ u[m] = items[m] /\ r + 1 - 1 = r
    BY <1>1 DEF Below
  <2> QED
    BY <1>5, <1>6, <2>1
<1> DEFINE N == {n \in Nat : n < m => f[r + 1 + n] = f[r + 1]}
<1>8. 0 \in N
  BY <1>1
<1>9. ASSUME NEW n \in Nat, n \in N  PROVE n + 1 \in N
  <2> SUFFICES ASSUME n + 1 < m  PROVE f[r + 1 + (n + 1)] = f[r + 1]
    OBVIOUS
  <2> DEFINE k == r + 1 + (n + 1)
             i == m - (n + 1)
  <2>1. /\ k \in 1..(m + r) /\ k - 1 = r + 1 + n /\ f[r + 1 + n] = f[r + 1]
        /\ i \in 1..(m - 1) /\ i \in 1..m /\ Len(u) + 1 - k = i
    BY <1>1, <1>9
  <2> HIDE DEF k, i
  <2>2. Below(u, k) = items[i][1]
    BY <1>1, <2>1 DEF Below
  <2>3. f[k] = After(f[k - 1], Below(u, k), endings)
    BY <1>6, <2>1
  <2>4. f[k] = f[k - 1]
    BY <2>1, <2>2, <2>3 DEF Quiet
  <2> QED
    BY <2>1, <2>4 DEF k
<1>10. m - 1 \in N
  <2> HIDE DEF N
  <2>1. Nat \subseteq N /\ m - 1 \in Nat
    BY <1>1, <1>8, <1>9, Induction
  <2> QED
    BY <2>1
<1>11. f[m + r] = f[r + 1]
  BY <1>1, <1>10
<1> QED
  BY <1>2, <1>3, <1>7, <1>11 DEF u

LEMMA DepthsOverNone ==
  ASSUME NEW items, IsSeq(items), NEW rest, IsSeq(rest), NEW endings,
         Quiet(items, Len(items), endings)
  PROVE  Depths(items \o rest, endings) = Depths(rest, endings)
<1>1. CASE Len(items) = 0
  <2>1. items = <<>> /\ rest \in Seq(Elements(rest))
    BY <1>1, EmptyIs, SeqIs
  <2>2. items \o rest = rest
    BY <2>1, ConcatEmptySeq
  <2> QED
    BY <2>2
<1>2. CASE Len(items) # 0
  <2> DEFINE m == Len(items)
  <2>1. m \in Nat /\ m > 0 /\ m \in 1..m
    BY <1>2 DEF IsSeq
  <2>2. Quiet(items, m - 1, endings)
    BY <2>1 DEF Quiet
  <2>3. Depths(items \o rest, endings) = After(Depths(rest, endings), items[m][1], endings)
    BY <2>1, <2>2, DepthsOver
  <2>4. \A d : After(d, items[m][1], endings) = d
    BY <2>1 DEF Quiet
  <2> QED
    BY <2>3, <2>4
<1> QED
  BY <1>1, <1>2

LEMMA DepthsTop ==
  ASSUME NEW items, IsSeq(items), items # <<>>, NEW endings
  PROVE  Depths(items, endings) = After(Depths(Tail(items), endings), Head(items)[1], endings)
<1> DEFINE t == Tail(items)
           h == <<Head(items)>>
<1>1. IsSeq(t) /\ IsSeq(h) /\ Len(h) = 1 /\ h[1] = Head(items)
  BY TailIs DEF IsSeq
<1>2. items = h \o t
  <2> DEFINE u == h \o t
  <2>1. /\ IsSeq(u) /\ Len(u) = 1 + Len(t)
        /\ \A i \in 1..1 : u[i] = h[i]
        /\ \A i \in 1..Len(t) : u[1 + i] = t[i]
    BY <1>1, ConcatIs
  <2> HIDE DEF u
  <2>2. /\ Len(t) = Len(items) - 1 /\ Len(items) \in Nat /\ Len(items) > 0
        /\ \A i \in 1..(Len(items) - 1) : t[i] = items[i + 1]
        /\ h[1] = items[1]
    BY TailIs
  <2> HIDE DEF t, h
  <2>3. Len(u) = Len(items)
    BY <2>1, <2>2
  <2>4. ASSUME NEW i \in 1..Len(items)  PROVE items[i] = u[i]
    <3>1. CASE i = 1
      BY <2>1, <2>2, <3>1
    <3>2. CASE i # 1
      <4> DEFINE j == i - 1
      <4>1. j \in 1..(Len(items) - 1) /\ j \in 1..Len(t) /\ i = j + 1 /\ 1 + j = i
        BY <2>2, <3>2
      <4> HIDE DEF j
      <4> QED
        BY <2>1, <2>2, <4>1
    <3> QED
      BY <3>1, <3>2
  <2>5. items = u
    BY <2>1, <2>3, <2>4, Same
  <2> QED
    BY <2>5 DEF u
<1> HIDE DEF t, h
<1>3. Depths(h \o t, endings) = After(Depths(t, endings), h[1][1], endings)
  <2>1. Len(h) > 0 /\ Quiet(h, Len(h) - 1, endings)
    BY <1>1 DEF Quiet
  <2>2. Depths(h \o t, endings) = After(Depths(t, endings), h[Len(h)][1], endings)
    BY <1>1, <2>1, DepthsOver
  <2> QED
    BY <1>1, <2>2
<1> QED
  BY <1>1, <1>2, <1>3 DEF t

----------------------------------------------------------------------------
\* Bytes
LEMMA OpcodesAreBytes ==
  /\ Op.CONSTANT \in ByteValue /\ Op.NIL \in ByteValue /\ Op.TRUE \in ByteValue
  /\ Op.FALSE \in ByteValue /\ Op.POP \in ByteValue /\ Op.GET_LOCAL \in ByteValue
  /\ Op.SET_LOCAL \in ByteValue /\ Op.GET_GLOBAL \in ByteValue /\ Op.DEFINE_GLOBAL \in ByteValue
  /\ Op.SET_GLOBAL \in ByteValue /\ Op.GET_UPVALUE \in ByteValue /\ Op.SET_UPVALUE \in ByteValue
  /\ Op.EQUAL \in ByteValue /\ Op.GREATER \in ByteValue /\ Op.LESS \in ByteValue
  /\ Op.ADD \in ByteValue /\ Op.SUBTRACT \in ByteValue /\ Op.MULTIPLY \in ByteValue
  /\ Op.DIVIDE \in ByteValue /\ Op.NOT \in ByteValue /\ Op.NEGATE \in ByteValue
  /\ Op.PRINT \in ByteValue /\ Op.JUMP \in ByteValue /\ Op.JUMP_IF_FALSE \in ByteValue
  /\ Op.LOOP \in ByteValue /\ Op.CALL \in ByteValue /\ Op.CLOSURE \in ByteValue
  /\ Op.CLOSE_UPVALUE \in ByteValue /\ Op.RETURN \in ByteValue
<1>1. \A name \in DOMAIN Op : Op[name] \in ByteValue
  BY DEF ByteValue
<1>2. DOMAIN Op =
        {"CONSTANT", "NIL", "TRUE", "FALSE", "POP", "GET_LOCAL", "SET_LOCAL", "GET_GLOBAL",
         "DEFINE_GLOBAL", "SET_GLOBAL", "GET_UPVALUE", "SET_UPVALUE", "EQUAL", "GREATER", "LESS",
         "ADD", "SUBTRACT", "MULTIPLY", "DIVIDE", "NOT", "NEGATE", "PRINT", "JUMP",
         "JUMP_IF_FALSE", "LOOP", "CALL", "CLOSURE", "CLOSE_UPVALUE", "RETURN"}
  BY DEF Op
<1> QED
  BY <1>1, <1>2

LEMMA IndexesAreBytes ==
  /\ ByteIndex \subseteq ByteValue /\ ByteIndex \subseteq Nat
  /\ 0 \in ByteIndex /\ 1 \in ByteIndex /\ ByteCount - 1 \in ByteIndex
BY ByteAssumption DEF ByteIndex, ByteValue

LEMMA HalvesAreBytes ==
  ASSUME NEW n \in Int
  PROVE  HighByte(n) \in ByteIndex /\ LowByte(n) \in ByteIndex
<1>1. ByteCount \in Nat /\ ByteCount > 0
  BY ByteAssumption
<1>2. \A m \in Int : m % ByteCount \in 0..(ByteCount - 1)
  BY <1>1
<1>3. n \div ByteCount \in Int
  BY <1>1
<1> QED
  BY <1>2, <1>3 DEF HighByte, LowByte, ByteIndex

----------------------------------------------------------------------------
\* Compilers that differ in nothing that scopes are about.
Alike(c, e) ==
  /\ IsCompiler(e)
  /\ e.scopeDepth = c.scopeDepth
  /\ Len(e.locals) = Len(c.locals)
  /\ \A i \in 1..Len(c.locals) : e.locals[i].depth = c.locals[i].depth

LEMMA AlikeIs ==
  ASSUME NEW c, NEW e, Alike(c, e)
  PROVE  /\ InOrder(c) => InOrder(e)
         /\ IsReady(c) => IsReady(e)
         /\ CanMark(c) => CanMark(e)
<1>1. ASSUME IsReady(c)  PROVE IsReady(e)
  BY <1>1 DEF Alike, IsReady
<1>2. ASSUME CanMark(c)  PROVE CanMark(e)
  BY <1>2 DEF Alike, CanMark
<1>3. ASSUME InOrder(c)  PROVE InOrder(e)
  <2> DEFINE n == Len(c.locals)
  <2>1. n \in Nat /\ n > 0 /\ Len(e.locals) = n /\ e.scopeDepth = c.scopeDepth
    BY DEF Alike, IsCompiler
  <2>2. \A i \in 1..n : e.locals[i].depth = c.locals[i].depth
    BY DEF Alike
  <2>3. e.locals[1].depth = 0
    BY <1>3, <2>1, <2>2 DEF InOrder
  <2> HIDE DEF n
  <2>4. /\ \A i \in 2..n : \/ c.locals[i].depth \in 1..c.scopeDepth
                           \/ i = n /\ c.locals[i].depth = Uninitialized /\ c.scopeDepth > 0
        /\ \A i, j \in 1..n :
             i < j => c.locals[i].depth <= c.locals[j].depth \/ c.locals[j].depth = Uninitialized
    BY <1>3 DEF InOrder, n
  <2>5. \A i \in 2..n : i \in 1..n
    BY <2>1
  <2>6. /\ \A i \in 2..n : \/ e.locals[i].depth \in 1..e.scopeDepth
                           \/ i = n /\ e.locals[i].depth = Uninitialized /\ e.scopeDepth > 0
        /\ \A i, j \in 1..n :
             i < j => e.locals[i].depth <= e.locals[j].depth \/ e.locals[j].depth = Uninitialized
    BY <2>1, <2>2, <2>4, <2>5
  <2> QED
    BY <2>1, <2>3, <2>6 DEF InOrder
<1> QED
  BY <1>1, <1>2, <1>3

LEMMA AlikeTwice ==
  ASSUME NEW c, NEW d, NEW e, Alike(c, d), Alike(d, e)
  PROVE  Alike(c, e)
BY DEF Alike

LEMMA AlikeItself ==
  ASSUME NEW c, IsCompiler(c)
  PROVE  Alike(c, c)
BY DEF Alike

LEMMA AlikeChain ==
  ASSUME NEW chain, NEW defining, ChainOK(chain, defining), NEW after, IsSeq(after),
         Len(after) = Len(chain), \A k \in 1..Len(chain) : Alike(chain[k], after[k])
  PROVE  ChainOK(after, defining) /\ ScopeDepths(after) = ScopeDepths(chain)
<1>1. ASSUME NEW k \in 1..Len(after)
      PROVE  /\ IsCompiler(after[k]) /\ InOrder(after[k])
             /\ k < Len(after) => IsReady(after[k]) /\ CanMark(after[k])
             /\ k = Len(after) => IF defining THEN CanMark(after[k]) ELSE IsReady(after[k])
  <2>1. k \in 1..Len(chain) /\ Alike(chain[k], after[k])
    OBVIOUS
  <2>2. /\ InOrder(chain[k])
        /\ k < Len(chain) => IsReady(chain[k]) /\ CanMark(chain[k])
        /\ k = Len(chain) => IF defining THEN CanMark(chain[k]) ELSE IsReady(chain[k])
    BY <2>1 DEF ChainOK
  <2>3. /\ InOrder(chain[k]) => InOrder(after[k])
        /\ IsReady(chain[k]) => IsReady(after[k])
        /\ CanMark(chain[k]) => CanMark(after[k])
    BY <2>1, AlikeIs
  <2>4. IsCompiler(after[k])
    BY <2>1 DEF Alike
  <2> QED
    BY <2>2, <2>3, <2>4
<1>2. ScopeDepths(after) = ScopeDepths(chain)
  <2>1. \A k \in 1..Len(chain) : after[k].scopeDepth = chain[k].scopeDepth
    BY DEF Alike
  <2> QED
    BY <2>1 DEF ScopeDepths
<1> QED
  BY <1>1, <1>2 DEF ChainOK

LEMMA AlikeLast ==
  ASSUME NEW chain, NEW defining, ChainOK(chain, defining), Len(chain) > 0, NEW e,
         Alike(chain[Len(chain)], e)
  PROVE  LET after == [chain EXCEPT ![Len(chain)] = e]
         IN  ChainOK(after, defining) /\ ScopeDepths(after) = ScopeDepths(chain)
<1> DEFINE n     == Len(chain)
           after == [chain EXCEPT ![n] = e]
<1>1. IsSeq(chain) /\ n \in Nat
  BY DEF ChainOK, IsSeq
<1>2. /\ IsSeq(after) /\ Len(after) = n
      /\ \A k \in 1..(n - 1) : after[k] = chain[k]
      /\ after[n] = e
  BY <1>1, LastReplaced
<1> HIDE DEF after
<1>3. ASSUME NEW k \in 1..n  PROVE Alike(chain[k], after[k])
  <2>1. CASE k = n
    BY <1>2, <2>1
  <2>2. CASE k # n
    <3>1. k \in 1..(n - 1) /\ IsCompiler(chain[k])
      BY <1>1, <2>2 DEF ChainOK
    <3> QED
      BY <1>2, <3>1, AlikeItself
  <2> QED
    BY <2>1, <2>2
<1>4. ChainOK(after, defining) /\ ScopeDepths(after) = ScopeDepths(chain)
  BY <1>2, <1>3, AlikeChain
<1> QED
  BY <1>4 DEF after

----------------------------------------------------------------------------
\* Writing to a chunk
LEMMA FieldReplaced ==
  ASSUME NEW c, NEW x,
         c = [locals |-> c.locals, upvalues |-> c.upvalues, scopeDepth |-> c.scopeDepth,
              code |-> c.code, constants |-> c.constants, arity |-> c.arity, name |-> c.name]
  PROVE  /\ [c EXCEPT !.code = x] =
              [locals |-> c.locals, upvalues |-> c.upvalues, scopeDepth |-> c.scopeDepth,
               code |-> x, constants |-> c.constants, arity |-> c.arity, name |-> c.name]
         /\ [c EXCEPT !.constants = x] =
              [locals |-> c.locals, upvalues |-> c.upvalues, scopeDepth |-> c.scopeDepth,
               code |-> c.code, constants |-> x, arity |-> c.arity, name |-> c.name]
         /\ [c EXCEPT !.arity = x] =
              [locals |-> c.locals, upvalues |-> c.upvalues, scopeDepth |-> c.scopeDepth,
               code |-> c.code, constants |-> c.constants, arity |-> x, name |-> c.name]
         /\ [c EXCEPT !.locals = x] =
              [locals |-> x, upvalues |-> c.upvalues, scopeDepth |-> c.scopeDepth,
               code |-> c.code, constants |-> c.constants, arity |-> c.arity, name |-> c.name]
         /\ [c EXCEPT !.upvalues = x] =
              [locals |-> c.locals, upvalues |-> x, scopeDepth |-> c.scopeDepth,
               code |-> c.code, constants |-> c.constants, arity |-> c.arity, name |-> c.name]
         /\ [c EXCEPT !.scopeDepth = x] =
              [locals |-> c.locals, upvalues |-> c.upvalues, scopeDepth |-> x,
               code |-> c.code, constants |-> c.constants, arity |-> c.arity, name |-> c.name]
OBVIOUS

LEMMA CodeIs ==
  ASSUME NEW c, IsCompiler(c), NEW code \in Seq(ByteValue)
  PROVE  LET e == [c EXCEPT !.code = code]
         IN  Alike(c, e) /\ e.code = code /\ e.upvalues = c.upvalues
<1> DEFINE e == [c EXCEPT !.code = code]
<1>1. e = [locals |-> c.locals, upvalues |-> c.upvalues, scopeDepth |-> c.scopeDepth,
           code |-> code, constants |-> c.constants, arity |-> c.arity, name |-> c.name]
  BY FieldReplaced DEF IsCompiler
<1> HIDE DEF e
<1>2. /\ e.locals = c.locals /\ e.upvalues = c.upvalues /\ e.scopeDepth = c.scopeDepth
      /\ e.code = code /\ e.constants = c.constants /\ e.arity = c.arity /\ e.name = c.name
  BY <1>1
<1>3. IsCompiler(e)
  BY <1>1, <1>2 DEF IsCompiler
<1>4. Alike(c, e)
  BY <1>2, <1>3 DEF Alike
<1> QED
  BY <1>2, <1>4 DEF e

LEMMA ArityIs ==
  ASSUME NEW c, IsCompiler(c), NEW arity
  PROVE  Alike(c, [c EXCEPT !.arity = arity])
<1> DEFINE e == [c EXCEPT !.arity = arity]
<1>1. e = [locals |-> c.locals, upvalues |-> c.upvalues, scopeDepth |-> c.scopeDepth,
           code |-> c.code, constants |-> c.constants, arity |-> arity, name |-> c.name]
  BY FieldReplaced DEF IsCompiler
<1> HIDE DEF e
<1>2. /\ e.locals = c.locals /\ e.upvalues = c.upvalues /\ e.scopeDepth = c.scopeDepth
      /\ e.code = c.code /\ e.constants = c.constants /\ e.arity = arity /\ e.name = c.name
  BY <1>1
<1>3. IsCompiler(e)
  BY <1>1, <1>2 DEF IsCompiler
<1>4. Alike(c, e)
  BY <1>2, <1>3 DEF Alike
<1> QED
  BY <1>4 DEF e

LEMMA ConstantIs ==
  ASSUME NEW c, IsCompiler(c), NEW value
  PROVE  LET made == MakeConstant(c, value)
         IN  /\ Alike(c, made.compiler) /\ made.compiler.upvalues = c.upvalues
             /\ made.index \in ByteIndex
<1> DEFINE constants == Append(c.constants, value)
           e         == [c EXCEPT !.constants = constants]
           n         == Len(c.constants)
<1>1. e = [locals |-> c.locals, upvalues |-> c.upvalues, scopeDepth |-> c.scopeDepth,
           code |-> c.code, constants |-> constants, arity |-> c.arity, name |-> c.name]
  BY FieldReplaced DEF IsCompiler
<1>2. IsSeq(constants) /\ n \in Nat
  BY AppendIs DEF IsCompiler, IsSeq
<1>3. MakeConstant(c, value).compiler = e
  BY DEF MakeConstant
<1>4. MakeConstant(c, value).index = IF n <= ByteCount - 1 THEN n ELSE 0
  BY DEF MakeConstant
<1>5. MakeConstant(c, value).index \in ByteIndex
  BY <1>2, <1>4, ByteAssumption DEF ByteIndex
<1> HIDE DEF e, constants
<1>6. /\ e.locals = c.locals /\ e.upvalues = c.upvalues /\ e.scopeDepth = c.scopeDepth
      /\ e.code = c.code /\ e.constants = constants /\ e.arity = c.arity /\ e.name = c.name
  BY <1>1
<1>7. IsCompiler(e)
  BY <1>1, <1>2, <1>6 DEF IsCompiler
<1>8. Alike(c, e)
  BY <1>6, <1>7 DEF Alike
<1> QED
  BY <1>3, <1>5, <1>6, <1>8

LEMMA EmitIs ==
  ASSUME NEW c, IsCompiler(c), NEW bytes \in Seq(ByteValue)
  PROVE  Alike(c, Emit(c, bytes)) /\ Emit(c, bytes).upvalues = c.upvalues
<1> DEFINE code == c.code \o bytes
<1>1. code \in Seq(ByteValue)
  BY ConcatProperties DEF IsCompiler
<1>2. Emit(c, bytes) = [c EXCEPT !.code = code]
  BY DEF Emit
<1> HIDE DEF code
<1> QED
  BY <1>1, <1>2, CodeIs

LEMMA BytesAre ==
  ASSUME NEW a \in ByteValue, NEW b \in ByteValue, NEW c \in ByteValue
  PROVE  <<a>> \in Seq(ByteValue) /\ <<a, b>> \in Seq(ByteValue) /\ <<a, b, c>> \in Seq(ByteValue)
OBVIOUS

LEMMA EmitJumpIs ==
  ASSUME NEW c, IsCompiler(c), NEW op \in ByteValue
  PROVE  Alike(c, EmitJump(c, op)) /\ Operand(EmitJump(c, op)) \in Int
<1> DEFINE e == EmitJump(c, op)
<1>1. ByteCount - 1 \in ByteValue
  BY IndexesAreBytes
<1>2. Alike(c, e)
  BY <1>1, BytesAre, EmitIs DEF EmitJump
<1> HIDE DEF e
<1>3. e.code \in Seq(ByteValue)
  BY <1>2 DEF Alike, IsCompiler
<1>4. Len(e.code) \in Nat
  BY <1>3, LenProperties
<1> QED
  BY <1>2, <1>4 DEF Operand, e

LEMMA ByteReplaced ==
  ASSUME NEW code \in Seq(ByteValue), NEW i, NEW byte \in ByteValue
  PROVE  [code EXCEPT ![i] = byte] \in Seq(ByteValue)
<1> DEFINE t == [code EXCEPT ![i] = byte]
           n == Len(code)
<1>1. n \in Nat /\ code \in [1..n -> ByteValue]
  BY LenProperties
<1> HIDE DEF n
<1>2. t \in [1..n -> ByteValue]
  BY <1>1
<1> HIDE DEF t
<1>3. t = [j \in 1..n |-> t[j]] /\ \A j \in 1..n : t[j] \in ByteValue
  BY <1>2
<1>4. t \in Seq(ByteValue)
  BY <1>1, <1>3
<1> QED
  BY <1>4 DEF t

LEMMA PatchJumpIs ==
  ASSUME NEW c, IsCompiler(c), NEW offset \in Int
  PROVE  Alike(c, PatchJump(c, offset).compiler)
<1> DEFINE jump  == Len(c.code) - offset - 2
           first == [c.code EXCEPT ![offset + 1] = HighByte(jump)]
           both  == [first EXCEPT ![offset + 2] = LowByte(jump)]
<1>1. c.code \in Seq(ByteValue) /\ Len(c.code) \in Nat
  BY LenProperties DEF IsCompiler
<1>2. jump \in Int
  BY <1>1
<1>3. PatchJump(c, offset).compiler =
        [c EXCEPT !.code[offset + 1] = HighByte(jump), !.code[offset + 2] = LowByte(jump)]
  BY DEF PatchJump
<1> HIDE DEF jump
<1>4. HighByte(jump) \in ByteValue /\ LowByte(jump) \in ByteValue
  BY <1>2, HalvesAreBytes, IndexesAreBytes
<1>5. first \in Seq(ByteValue)
  BY <1>1, <1>4, ByteReplaced
<1> DEFINE one == [c EXCEPT !.code = first]
<1>6. Alike(c, one) /\ one.code = first
  BY <1>5, CodeIs
<1> HIDE DEF first
<1>7. both \in Seq(ByteValue)
  BY <1>4, <1>5, ByteReplaced
<1>8. [c EXCEPT !.code[offset + 1] = HighByte(jump), !.code[offset + 2] = LowByte(jump)] =
        [one EXCEPT !.code[offset + 2] = LowByte(jump)]
  BY DEF first
<1> HIDE DEF one
<1>9. [one EXCEPT !.code[offset + 2] = LowByte(jump)] = [one EXCEPT !.code = both]
  BY <1>6
<1> HIDE DEF both
<1>10. Alike(one, [one EXCEPT !.code = both])
  BY <1>6, <1>7, CodeIs DEF Alike
<1> QED
  BY <1>3, <1>6, <1>8, <1>9, <1>10, AlikeTwice

LEMMA EmitLoopIs ==
  ASSUME NEW c, IsCompiler(c), NEW loopStart \in Int
  PROVE  Alike(c, EmitLoop(c, loopStart).compiler)
<1> DEFINE offset == Len(c.code) + 1 - loopStart + 2
           bytes  == <<Op.LOOP, HighByte(offset), LowByte(offset)>>
<1>1. offset \in Int
  BY LenProperties DEF IsCompiler
<1>2. EmitLoop(c, loopStart).compiler = Emit(c, bytes)
  BY DEF EmitLoop
<1> HIDE DEF offset
<1>3. HighByte(offset) \in ByteValue /\ LowByte(offset) \in ByteValue /\ Op.LOOP \in ByteValue
  BY <1>1, HalvesAreBytes, IndexesAreBytes, OpcodesAreBytes
<1>4. bytes \in Seq(ByteValue)
  BY <1>3, BytesAre
<1> HIDE DEF bytes
<1> QED
  BY <1>2, <1>4, EmitIs

----------------------------------------------------------------------------
\* Scopes
LEMMA LocalsIs ==
  ASSUME NEW c, IsCompiler(c), NEW locals, IsSeq(locals), Len(locals) \in 1..MaxLocals,
         \A i \in 1..Len(locals) : IsLocal(locals[i])
  PROVE  LET e == [c EXCEPT !.locals = locals]
         IN  IsCompiler(e) /\ e.locals = locals /\ e.scopeDepth = c.scopeDepth
<1> DEFINE e == [c EXCEPT !.locals = locals]
<1>1. e = [locals |-> locals, upvalues |-> c.upvalues, scopeDepth |-> c.scopeDepth,
           code |-> c.code, constants |-> c.constants, arity |-> c.arity, name |-> c.name]
  BY FieldReplaced DEF IsCompiler
<1> HIDE DEF e
<1>2. /\ e.locals = locals /\ e.upvalues = c.upvalues /\ e.scopeDepth = c.scopeDepth
      /\ e.code = c.code /\ e.constants = c.constants /\ e.arity = c.arity /\ e.name = c.name
  BY <1>1
<1>3. IsCompiler(e)
  BY <1>1, <1>2 DEF IsCompiler
<1> QED
  BY <1>2, <1>3 DEF e

LEMMA ScopeDepthIs ==
  ASSUME NEW c, IsCompiler(c), NEW depth \in Nat
  PROVE  LET e == [c EXCEPT !.scopeDepth = depth]
         IN  IsCompiler(e) /\ e.locals = c.locals /\ e.scopeDepth = depth
<1> DEFINE e == [c EXCEPT !.scopeDepth = depth]
<1>1. e = [locals |-> c.locals, upvalues |-> c.upvalues, scopeDepth |-> depth,
           code |-> c.code, constants |-> c.constants, arity |-> c.arity, name |-> c.name]
  BY FieldReplaced DEF IsCompiler
<1> HIDE DEF e
<1>2. /\ e.locals = c.locals /\ e.upvalues = c.upvalues /\ e.scopeDepth = depth
      /\ e.code = c.code /\ e.constants = c.constants /\ e.arity = c.arity /\ e.name = c.name
  BY <1>1
<1>3. IsCompiler(e)
  BY <1>1, <1>2 DEF IsCompiler
<1> QED
  BY <1>2, <1>3 DEF e

LEMMA BeginScopeIs ==
  ASSUME NEW c, IsCompiler(c), InOrder(c), IsReady(c)
  PROVE  LET e == BeginScope(c)
         IN  IsCompiler(e) /\ InOrder(e) /\ IsReady(e) /\ e.scopeDepth = c.scopeDepth + 1
<1> DEFINE e == BeginScope(c)
           n == Len(c.locals)
<1>1. c.scopeDepth + 1 \in Nat /\ c.scopeDepth \in Nat /\ n \in Nat
  BY DEF IsCompiler
<1>2. e = [c EXCEPT !.scopeDepth = c.scopeDepth + 1]
  BY DEF BeginScope
<1>3. IsCompiler(e) /\ e.locals = c.locals /\ e.scopeDepth = c.scopeDepth + 1
  BY <1>1, <1>2, ScopeDepthIs
<1> HIDE DEF e
<1>4. IsReady(e)
  BY <1>3 DEF IsReady
<1>5. /\ e.locals[1].depth = 0
      /\ \A i \in 2..n : \/ e.locals[i].depth \in 1..c.scopeDepth
                         \/ i = n /\ e.locals[i].depth = Uninitialized /\ c.scopeDepth > 0
      /\ \A i, j \in 1..n :
           i < j => e.locals[i].depth <= e.locals[j].depth \/ e.locals[j].depth = Uninitialized
  BY <1>3 DEF InOrder
<1>6. \A i \in 2..n : \/ e.locals[i].depth \in 1..e.scopeDepth
                      \/ i = n /\ e.locals[i].depth = Uninitialized /\ e.scopeDepth > 0
  BY <1>1, <1>3, <1>5
<1>7. InOrder(e)
  BY <1>3, <1>5, <1>6 DEF InOrder
<1> QED
  BY <1>3, <1>4, <1>7 DEF e

LEMMA MarkInitializedIs ==
  ASSUME NEW c, IsCompiler(c), InOrder(c), CanMark(c)
  PROVE  LET e == MarkInitialized(c)
         IN  /\ IsCompiler(e) /\ InOrder(e) /\ IsReady(e) /\ CanMark(e)
             /\ e.scopeDepth = c.scopeDepth
<1> DEFINE e      == MarkInitialized(c)
           n      == Len(c.locals)
           last   == [c.locals[n] EXCEPT !.depth = c.scopeDepth]
           locals == [c.locals EXCEPT ![n] = last]
<1>1. /\ IsSeq(c.locals) /\ n \in 1..MaxLocals /\ n \in Nat /\ n > 0 /\ c.scopeDepth \in Nat
      /\ \A i \in 1..n : IsLocal(c.locals[i])
  BY DEF IsCompiler
<1>2. CASE c.scopeDepth = 0
  <2>1. e = c
    BY <1>2 DEF MarkInitialized
  <2>2. ASSUME NEW i \in 1..n  PROVE c.locals[i].depth # Uninitialized
    <3>1. CASE i = 1
      BY <3>1 DEF InOrder, Uninitialized
    <3>2. CASE i # 1
      BY <1>1, <1>2, <3>2 DEF InOrder, Uninitialized
    <3> QED
      BY <3>1, <3>2
  <2>3. IsReady(c)
    BY <2>2 DEF IsReady
  <2> QED
    BY <2>1, <2>3
<1>3. CASE c.scopeDepth # 0
  <2>1. n > 1 /\ c.scopeDepth > 0
    BY <1>1, <1>3 DEF CanMark
  <2>2. e = [c EXCEPT !.locals[n].depth = c.scopeDepth]
    BY <1>3 DEF MarkInitialized
  <2>3. [c EXCEPT !.locals[n].depth = c.scopeDepth] = [c EXCEPT !.locals = locals]
    OBVIOUS
  <2>4. IsLocal(last) /\ last.depth = c.scopeDepth
    <3> DEFINE l == c.locals[n]
    <3>1. l = [name |-> l.name, depth |-> l.depth, isCaptured |-> l.isCaptured]
      BY <1>1 DEF IsLocal
    <3> HIDE DEF l
    <3> DEFINE m == [l EXCEPT !.depth = c.scopeDepth]
    <3>2. m = [name |-> l.name, depth |-> c.scopeDepth, isCaptured |-> l.isCaptured]
      BY <3>1
    <3> HIDE DEF m
    <3>3. IsLocal(m) /\ m.depth = c.scopeDepth
      BY <1>1, <3>2 DEF IsLocal
    <3> QED
      BY <3>3 DEF m, l
  <2> HIDE DEF last, e
  <2>5. /\ IsSeq(locals) /\ Len(locals) = n
        /\ \A i \in 1..(n - 1) : locals[i] = c.locals[i]
        /\ locals[n] = last
    BY <1>1, LastReplaced
  <2> HIDE DEF locals
  <2>6. \A i \in 1..n : IsLocal(locals[i])
    BY <1>1, <2>4, <2>5
  <2>7. IsCompiler(e) /\ e.locals = locals /\ e.scopeDepth = c.scopeDepth
    <3>1. /\ IsSeq(locals) /\ Len(locals) \in 1..MaxLocals
          /\ \A i \in 1..Len(locals) : IsLocal(locals[i])
      BY <1>1, <2>5, <2>6
    <3> DEFINE f == [c EXCEPT !.locals = locals]
    <3>2. IsCompiler(f) /\ f.locals = locals /\ f.scopeDepth = c.scopeDepth
      BY <3>1, LocalsIs
    <3> QED
      BY <2>2, <2>3, <3>2
  <2>8. /\ c.locals[1].depth = 0
        /\ \A i \in 2..n : \/ c.locals[i].depth \in 1..c.scopeDepth
                           \/ i = n /\ c.locals[i].depth = Uninitialized /\ c.scopeDepth > 0
        /\ \A i, j \in 1..n :
             i < j => c.locals[i].depth <= c.locals[j].depth \/ c.locals[j].depth = Uninitialized
    BY DEF InOrder
  <2> HIDE DEF n
  <2>9. \A i \in 1..(n - 1) : /\ locals[i].depth = c.locals[i].depth
                              /\ locals[i].depth \in 0..c.scopeDepth /\ (i > 1 => locals[i].depth > 0)
    BY <1>1, <2>1, <2>5, <2>8
  <2>10. locals[n].depth = c.scopeDepth
    BY <2>4, <2>5
  <2>11. IsReady(e)
    <3>1. \A i \in 1..n : locals[i].depth >= 0
      BY <1>1, <2>9, <2>10
    <3> QED
      BY <2>5, <2>7, <3>1 DEF IsReady, Uninitialized
  <2>12. /\ locals[1].depth = 0
         /\ \A i \in 2..n : locals[i].depth \in 1..c.scopeDepth
    BY <1>1, <2>1, <2>8, <2>9, <2>10
  <2>13. ASSUME NEW i \in 1..n, NEW j \in 1..n, i < j  PROVE locals[i].depth <= locals[j].depth
    <3>1. CASE j = n
      BY <1>1, <2>9, <2>10, <2>13, <3>1
    <3>2. CASE j # n
      <4>1. i \in 1..(n - 1) /\ j \in 1..(n - 1)
        BY <1>1, <2>13, <3>2
      <4>2. c.locals[j].depth # Uninitialized
        BY <2>9, <4>1 DEF Uninitialized
      <4> QED
        BY <2>8, <2>9, <2>13, <4>1, <4>2
    <3> QED
      BY <3>1, <3>2
  <2>14. InOrder(e)
    BY <2>5, <2>7, <2>12, <2>13 DEF InOrder
  <2>15. CanMark(e)
    BY <2>1, <2>5, <2>7 DEF CanMark
  <2> QED
    BY <2>7, <2>11, <2>14, <2>15 DEF e
<1> QED
  BY <1>2, <1>3

LEMMA NewLocalIs ==
  ASSUME NEW name
  PROVE  IsLocal(NewLocal(name)) /\ NewLocal(name).depth = Uninitialized
BY DEF IsLocal, NewLocal, Uninitialized

LEMMA DeclaredIs ==
  ASSUME NEW c, NEW name
  PROVE  DeclareVariable(c, name).compiler =
           IF c.scopeDepth = 0 \/ Len(c.locals) = MaxLocals THEN c
           ELSE [c EXCEPT !.locals = Append(c.locals, NewLocal(name))]
<1> DEFINE more  == [c EXCEPT !.locals = Append(c.locals, NewLocal(name))]
           again == \E i \in DOMAIN c.locals : c.locals[i].name = name /\ InThisScope(c, i)
<1>1. AddLocal(c, name) = IF Len(c.locals) = MaxLocals THEN [compiler |-> c, error |-> TRUE]
                          ELSE [compiler |-> more, error |-> FALSE]
  BY DEF AddLocal
<1>2. c.scopeDepth # 0 =>
        DeclareVariable(c, name).compiler = [AddLocal(c, name) EXCEPT !.error = @ \/ again].compiler
  BY DEF DeclareVariable
<1>3. c.scopeDepth = 0 => DeclareVariable(c, name).compiler = c
  BY DEF DeclareVariable
<1> HIDE DEF more, again
<1>4. ASSUME NEW r, NEW x, NEW y, r = [compiler |-> x, error |-> y]
      PROVE  [r EXCEPT !.error = @ \/ again].compiler = x
  BY <1>4
<1>5. [AddLocal(c, name) EXCEPT !.error = @ \/ again].compiler =
        IF Len(c.locals) = MaxLocals THEN c ELSE more
  <2>1. CASE Len(c.locals) = MaxLocals
    <3>1. AddLocal(c, name) = [compiler |-> c, error |-> TRUE]
      BY <1>1, <2>1
    <3> QED
      BY <1>4, <2>1, <3>1
  <2>2. CASE Len(c.locals) # MaxLocals
    <3>1. AddLocal(c, name) = [compiler |-> more, error |-> FALSE]
      BY <1>1, <2>2
    <3> QED
      BY <1>4, <2>2, <3>1
  <2> QED
    BY <2>1, <2>2
<1> QED
  BY <1>2, <1>3, <1>5 DEF more

LEMMA DeclareVariableIs ==
  ASSUME NEW c, IsCompiler(c), InOrder(c), IsReady(c), NEW name
  PROVE  LET e == DeclareVariable(c, name).compiler
         IN  IsCompiler(e) /\ InOrder(e) /\ CanMark(e) /\ e.scopeDepth = c.scopeDepth
<1> DEFINE e      == DeclareVariable(c, name).compiler
           n      == Len(c.locals)
           locals == Append(c.locals, NewLocal(name))
<1>1. /\ IsSeq(c.locals) /\ n \in 1..MaxLocals /\ n \in Nat /\ n > 0 /\ c.scopeDepth \in Nat
      /\ \A i \in 1..n : IsLocal(c.locals[i])
      /\ MaxLocals \in Nat /\ MaxLocals > 1
  BY CompilerAssumption, ByteAssumption DEF IsCompiler
<1>2. CASE c.scopeDepth = 0 \/ n = MaxLocals
  <2>1. e = c
    BY <1>2, DeclaredIs
  <2>2. CanMark(c)
    BY <1>1, <1>2 DEF CanMark
  <2> QED
    BY <2>1, <2>2
<1>3. CASE ~ (c.scopeDepth = 0 \/ n = MaxLocals)
  <2>1. e = [c EXCEPT !.locals = locals]
    BY <1>3, DeclaredIs
  <2>2. /\ IsSeq(locals) /\ Len(locals) = n + 1
        /\ \A i \in 1..n : locals[i] = c.locals[i]
        /\ locals[n + 1] = NewLocal(name)
    BY <1>1, AppendIs
  <2> HIDE DEF e, locals
  <2>3. /\ Len(locals) \in 1..MaxLocals
        /\ \A i \in 1..Len(locals) : IsLocal(locals[i])
    <3>1. \A i \in 1..(n + 1) : i = n + 1 \/ i \in 1..n
      BY <1>1
    <3> QED
      BY <1>1, <1>3, <2>2, <3>1, NewLocalIs
  <2>4. IsCompiler(e) /\ e.locals = locals /\ e.scopeDepth = c.scopeDepth
    <3> DEFINE f == [c EXCEPT !.locals = locals]
    <3>1. IsCompiler(f) /\ f.locals = locals /\ f.scopeDepth = c.scopeDepth
      BY <2>2, <2>3, LocalsIs
    <3> QED
      BY <2>1, <3>1
  <2>5. CanMark(e)
    BY <1>1, <2>2, <2>4 DEF CanMark
  <2>6. /\ c.locals[1].depth = 0
        /\ \A i \in 2..n : c.locals[i].depth \in 1..c.scopeDepth
        /\ \A i, j \in 1..n : i < j => c.locals[i].depth <= c.locals[j].depth
    <3>1. \A i \in 1..n : c.locals[i].depth # Uninitialized
      BY DEF IsReady
    <3>2. \A i \in 2..n : i \in 1..n
      BY <1>1
    <3> QED
      BY <3>1, <3>2 DEF InOrder
  <2> HIDE DEF n
  <2>7. /\ locals[1].depth = 0
        /\ \A i \in 2..n : locals[i].depth \in 1..c.scopeDepth
        /\ \A i, j \in 1..n : i < j => locals[i].depth <= locals[j].depth
        /\ locals[n + 1].depth = Uninitialized
    <3>1. \A i \in 1..n : locals[i].depth = c.locals[i].depth
      BY <2>2
    <3>2. 1 \in 1..n /\ \A i \in 2..n : i \in 1..n
      BY <1>1
    <3> QED
      BY <2>2, <2>6, <3>1, <3>2, NewLocalIs
  <2>8. \A i \in 1..(n + 1) : i = n + 1 \/ i \in 1..n
    BY <1>1
  <2>9. /\ \A i \in 2..(n + 1) : \/ locals[i].depth \in 1..e.scopeDepth
                                 \/ i = n + 1 /\ locals[i].depth = Uninitialized /\ e.scopeDepth > 0
        /\ \A i, j \in 1..(n + 1) :
             i < j => locals[i].depth <= locals[j].depth \/ locals[j].depth = Uninitialized
    <3>1. \A i \in 2..(n + 1) : i = n + 1 \/ i \in 2..n
      BY <1>1
    <3>2. e.scopeDepth > 0
      BY <1>1, <1>3, <2>4
    <3>3. \A i, j \in 1..(n + 1) : i < j => i \in 1..n
      BY <1>1
    <3> QED
      BY <2>4, <2>7, <2>8, <3>1, <3>2, <3>3
  <2>10. InOrder(e)
    BY <2>2, <2>4, <2>7, <2>9 DEF InOrder
  <2> QED
    BY <2>4, <2>5, <2>10 DEF e
<1> QED
  BY <1>2, <1>3

LEMMA HighestIs ==
  ASSUME NEW S \in SUBSET Nat, S # {}, NEW bound \in Nat, \A n \in S : n <= bound
  PROVE  Highest(S) \in S /\ \A n \in S : n <= Highest(S)
BY Greatest DEF Highest

\* endScope() leaves the locals of the blocks around, of which there is at least the one
\* of the function itself.
LEMMA EndScopeIs ==
  ASSUME NEW c, IsCompiler(c), InOrder(c), IsReady(c), c.scopeDepth > 0
  PROVE  LET e == EndScope(c)
         IN  /\ IsCompiler(e) /\ InOrder(e) /\ IsReady(e) /\ e.scopeDepth = c.scopeDepth - 1
             /\ Len(c.locals) - Kept(c) \in Nat
<1> DEFINE e     == EndScope(c)
           n     == Len(c.locals)
           outer == c.scopeDepth - 1
           H     == {k \in 0..n : k > 0 => c.locals[k].depth <= outer}
           m     == Kept(c)
           kept  == SubSeq(c.locals, 1, m)
           inner == [c EXCEPT !.scopeDepth = outer]
<1>1. /\ IsSeq(c.locals) /\ n \in 1..MaxLocals /\ n \in Nat /\ n > 0 /\ c.scopeDepth \in Nat
      /\ outer \in Nat
      /\ \A i \in 1..n : IsLocal(c.locals[i]) /\ c.locals[i].depth \in Int
      /\ MaxLocals \in Nat
  BY CompilerAssumption, ByteAssumption DEF IsCompiler, IsLocal
<1>2. /\ c.locals[1].depth = 0
      /\ \A i \in 2..n : c.locals[i].depth \in 1..c.scopeDepth
      /\ \A i, j \in 1..n : i < j => c.locals[i].depth <= c.locals[j].depth
  <2>1. \A i \in 1..n : c.locals[i].depth # Uninitialized
    BY DEF IsReady
  <2>2. \A i \in 2..n : i \in 1..n
    BY <1>1
  <2> QED
    BY <2>1, <2>2 DEF InOrder
<1>3. m = Highest(H)
  BY DEF Kept
<1>4. e = [inner EXCEPT !.locals = kept]
  <2>1. e = [c EXCEPT !.scopeDepth = outer, !.locals = kept]
    BY DEF EndScope
  <2> HIDE DEF kept, outer, m
  <2> QED
    BY <2>1
<1>5. IsCompiler(inner) /\ inner.locals = c.locals /\ inner.scopeDepth = outer
  BY <1>1, ScopeDepthIs
<1> HIDE DEF m, inner, e
<1>6. m \in H /\ 1 <= m
  <2>1. 1 \in H /\ H \subseteq 0..n
    BY <1>1, <1>2
  <2> HIDE DEF H
  <2>2. H \in SUBSET Nat /\ H # {} /\ \A k \in H : k <= n
    BY <1>1, <2>1
  <2> HIDE DEF n
  <2>3. Highest(H) \in H /\ \A k \in H : k <= Highest(H)
    BY <1>1, <2>2, HighestIs
  <2> QED
    BY <1>3, <2>1, <2>3
<1>7. m \in 1..n /\ m \in 0..n /\ m \in Nat /\ c.locals[m].depth <= outer
  BY <1>1, <1>6
<1> HIDE DEF H
<1>8. \A i \in 2..m : c.locals[i].depth \in 1..outer
  <2> SUFFICES ASSUME NEW i \in 2..m  PROVE c.locals[i].depth \in 1..outer
    OBVIOUS
  <2>1. i \in 2..n /\ i \in 1..n /\ (i < m \/ i = m)
    BY <1>7
  <2>2. c.locals[i].depth <= c.locals[m].depth
    <3>1. CASE i = m
      BY <1>1, <2>1, <3>1
    <3>2. CASE i < m
      BY <1>2, <1>7, <2>1, <3>2
    <3> QED
      BY <2>1, <3>1, <3>2
  <2>3. c.locals[i].depth \in 1..c.scopeDepth /\ c.locals[m].depth \in Int
    BY <1>1, <1>2, <1>7, <2>1
  <2> HIDE DEF n
  <2> QED
    BY <1>1, <1>7, <2>2, <2>3
<1>9. IsSeq(kept) /\ Len(kept) = m /\ \A i \in 1..m : kept[i] = c.locals[i]
  BY <1>1, <1>7, FirstIs
<1> HIDE DEF kept, outer
<1>10. IsCompiler(e) /\ e.locals = kept /\ e.scopeDepth = outer
  <2>1. /\ IsSeq(kept) /\ Len(kept) \in 1..MaxLocals
        /\ \A i \in 1..Len(kept) : IsLocal(kept[i])
    BY <1>1, <1>7, <1>9
  <2> DEFINE f == [inner EXCEPT !.locals = kept]
  <2>2. IsCompiler(f) /\ f.locals = kept /\ f.scopeDepth = inner.scopeDepth
    BY <1>5, <2>1, LocalsIs
  <2> QED
    BY <1>4, <1>5, <2>2
<1> HIDE DEF n
<1>11. \A i \in 1..m : i \in 1..n
  BY <1>1, <1>7
<1>12. InOrder(e)
  <2>1. kept[1].depth = 0
    BY <1>2, <1>7, <1>9
  <2>2. \A i \in 2..m : kept[i].depth \in 1..outer
    BY <1>7, <1>8, <1>9
  <2>3. \A i, j \in 1..m : i < j => kept[i].depth <= kept[j].depth
    BY <1>2, <1>9, <1>11
  <2> QED
    BY <1>9, <1>10, <2>1, <2>2, <2>3 DEF InOrder
<1>13. IsReady(e)
  <2>1. \A i \in 1..m : c.locals[i].depth # Uninitialized
    BY <1>11 DEF IsReady, n
  <2> QED
    BY <1>9, <1>10, <2>1 DEF IsReady
<1>14. n - m \in Nat
  BY <1>1, <1>7
<1> QED
  BY <1>10, <1>12, <1>13, <1>14 DEF e, n, m, outer

LEMMA NewFunctionIs ==
  ASSUME NEW name
  PROVE  LET c == NewFunction(name)
         IN  IsCompiler(c) /\ InOrder(c) /\ IsReady(c) /\ c.scopeDepth = 0
<1> DEFINE own == [name |-> NoName, depth |-> 0, isCaptured |-> FALSE]
           c   == NewFunction(name)
<1>1. c = [locals |-> <<own>>, upvalues |-> <<>>, scopeDepth |-> 0,
           code |-> <<>>, constants |-> <<>>, arity |-> 0, name |-> name]
  BY DEF NewFunction, NewCompiler
<1>2. IsLocal(own) /\ own.depth = 0
  BY DEF IsLocal
<1> HIDE DEF own, c
<1> DEFINE locals == <<own>>
<1>3. /\ IsSeq(locals) /\ Len(locals) = 1 /\ locals[1] = own
  <2>1. locals \in Seq({own}) /\ Len(locals) = 1 /\ locals[1] = own
    OBVIOUS
  <2> QED
    BY <2>1, IsOne
<1>4. <<>> \in Seq(Upvalue) /\ Len(<<>>) = 0 /\ <<>> \in Seq(ByteValue) /\ IsSeq(<<>>)
  BY EmptyIs, EmptySeq
<1> DEFINE none == <<>>
<1> HIDE DEF locals, none
<1>5. /\ c.locals = locals /\ c.upvalues = none /\ c.scopeDepth = 0 /\ c.code = none
      /\ c.constants = none /\ c.arity = 0 /\ c.name = name
  BY <1>1 DEF locals, none
<1>6. /\ none \in Seq(Upvalue) /\ Len(none) = 0 /\ none \in Seq(ByteValue) /\ IsSeq(none)
  BY <1>4 DEF none
<1>7. c = [locals |-> c.locals, upvalues |-> c.upvalues, scopeDepth |-> c.scopeDepth,
           code |-> c.code, constants |-> c.constants, arity |-> c.arity, name |-> c.name]
  BY <1>1
<1>8. Len(c.locals) \in 1..MaxLocals /\ Len(c.upvalues) \in 0..MaxUpvalues
  <2>1. Len(c.locals) = 1 /\ Len(c.upvalues) = 0
    BY <1>3, <1>5, <1>6
  <2> QED
    BY <2>1, CompilerAssumption, ByteAssumption
<1>9. \A i \in 1..Len(c.locals) : i = 1 /\ c.locals[i] = own
  <2>1. Len(c.locals) = 1 /\ c.locals[1] = own
    BY <1>3, <1>5
  <2> QED
    BY <2>1
<1>10. IsCompiler(c)
  BY <1>2, <1>3, <1>5, <1>6, <1>7, <1>8, <1>9 DEF IsCompiler
<1>11. IsReady(c)
  BY <1>2, <1>9 DEF IsReady, Uninitialized
<1>12. InOrder(c)
  BY <1>2, <1>3, <1>5, <1>9 DEF InOrder
<1> QED
  BY <1>5, <1>10, <1>11, <1>12 DEF c

LEMMA DefineVariableIs ==
  ASSUME NEW c, IsCompiler(c), InOrder(c), CanMark(c), NEW global \in ByteIndex
  PROVE  LET e == DefineVariable(c, global)
         IN  IsCompiler(e) /\ InOrder(e) /\ IsReady(e) /\ CanMark(e) /\ e.scopeDepth = c.scopeDepth
<1> DEFINE e == DefineVariable(c, global)
<1>1. CASE c.scopeDepth > 0
  <2>1. e = MarkInitialized(c)
    BY <1>1 DEF DefineVariable
  <2> QED
    BY <2>1, MarkInitializedIs
<1>2. CASE ~ (c.scopeDepth > 0)
  <2>1. <<Op.DEFINE_GLOBAL, global>> \in Seq(ByteValue)
    BY OpcodesAreBytes, IndexesAreBytes, BytesAre
  <2>2. e = Emit(c, <<Op.DEFINE_GLOBAL, global>>)
    BY <1>2 DEF DefineVariable
  <2>3. Alike(c, e)
    BY <2>1, <2>2, EmitIs
  <2>4. c.scopeDepth = 0
    BY <1>2 DEF IsCompiler
  \* It would find nothing to do.
  <2>5. IsReady(c)
    <3>1. MarkInitialized(c) = c
      BY <2>4 DEF MarkInitialized
    <3> QED
      BY <3>1, MarkInitializedIs
  <2> HIDE DEF e
  <2>6. InOrder(e) /\ IsReady(e) /\ CanMark(e)
    BY <2>3, <2>5, AlikeIs
  <2>7. IsCompiler(e) /\ e.scopeDepth = c.scopeDepth
    BY <2>3 DEF Alike
  <2> QED
    BY <2>6, <2>7 DEF e
<1> QED
  BY <1>1, <1>2

----------------------------------------------------------------------------
\* The chain when its last compiler changes.
LEMMA LastChanged ==
  ASSUME NEW chain, NEW defining, ChainOK(chain, defining), Len(chain) > 0, NEW still,
         NEW e, IsCompiler(e), InOrder(e), IF still THEN CanMark(e) ELSE IsReady(e)
  PROVE  LET after == [chain EXCEPT ![Len(chain)] = e]
         IN  /\ ChainOK(after, still) /\ Len(after) = Len(chain) /\ Len(chain) \in Nat
             /\ \A k \in 1..(Len(chain) - 1) : after[k] = chain[k]
             /\ after[Len(chain)] = e
<1> DEFINE n     == Len(chain)
           after == [chain EXCEPT ![n] = e]
<1>1. IsSeq(chain) /\ n \in Nat /\ n > 0
  BY DEF ChainOK, IsSeq
<1>2. /\ IsSeq(after) /\ Len(after) = n
      /\ \A k \in 1..(n - 1) : after[k] = chain[k]
      /\ after[n] = e
  BY <1>1, LastReplaced
<1> HIDE DEF after
<1>3. ASSUME NEW k \in 1..n
      PROVE  /\ IsCompiler(after[k]) /\ InOrder(after[k])
             /\ k < n => IsReady(after[k]) /\ CanMark(after[k])
             /\ k = n => IF still THEN CanMark(after[k]) ELSE IsReady(after[k])
  <2>1. CASE k = n
    BY <1>2, <2>1
  <2>2. CASE k # n
    <3>1. k \in 1..(n - 1) /\ k < n
      BY <1>1, <2>2
    <3>2. IsCompiler(chain[k]) /\ InOrder(chain[k]) /\ IsReady(chain[k]) /\ CanMark(chain[k])
      BY <3>1 DEF ChainOK
    <3> HIDE DEF n
    <3> QED
      BY <1>2, <2>2, <3>1, <3>2
  <2> QED
    BY <2>1, <2>2
<1>4. ChainOK(after, still)
  BY <1>2, <1>3 DEF ChainOK
<1> QED
  BY <1>1, <1>2, <1>4 DEF after, n

LEMMA SameScopes ==
  ASSUME NEW chain, NEW defining, ChainOK(chain, defining), Len(chain) > 0, NEW still,
         NEW e, IsCompiler(e), InOrder(e), IF still THEN CanMark(e) ELSE IsReady(e),
         e.scopeDepth = chain[Len(chain)].scopeDepth
  PROVE  LET after == [chain EXCEPT ![Len(chain)] = e]
         IN  ChainOK(after, still) /\ ScopeDepths(after) = ScopeDepths(chain)
<1> DEFINE n     == Len(chain)
           after == [chain EXCEPT ![n] = e]
<1>1. /\ ChainOK(after, still) /\ Len(after) = n /\ n \in Nat
      /\ \A k \in 1..(n - 1) : after[k] = chain[k]
      /\ after[n] = e
  BY LastChanged
<1> HIDE DEF after
<1>2. \A k \in 1..n : after[k].scopeDepth = chain[k].scopeDepth
  <2>1. \A k \in 1..n : k = n \/ k \in 1..(n - 1)
    BY <1>1
  <2> QED
    BY <1>1, <2>1
<1>3. ScopeDepths(after) = ScopeDepths(chain)
  BY <1>1, <1>2 DEF ScopeDepths
<1> QED
  BY <1>1, <1>3 DEF after

----------------------------------------------------------------------------
\* The depths of what is left to do
DepthsOK(d) ==
  /\ IsSeq(d) /\ Len(d) > 0
  /\ \A k \in 1..Len(d) : d[k] \in Nat /\ (k > 1 => d[k] > 0)

LEMMA AfterOK ==
  ASSUME NEW d, DepthsOK(d), NEW name, NEW endings, "endFunction" \notin endings
  PROVE  DepthsOK(After(d, name, endings))
<1> DEFINE n == Len(d)
           a == After(d, name, endings)
<1>1. IsSeq(d) /\ n \in Nat /\ n > 0 /\ \A k \in 1..n : d[k] \in Nat /\ (k > 1 => d[k] > 0)
  BY DEF DepthsOK, IsSeq
<1>2. CASE name = "endFunction"
  <2> DEFINE t == Append(d, 1)
  <2>1. IsSeq(t) /\ Len(t) = n + 1 /\ (\A k \in 1..n : t[k] = d[k]) /\ t[n + 1] = 1
    BY <1>1, AppendIs
  <2>2. a = t
    BY <1>2 DEF After
  <2> HIDE DEF t, a
  <2>3. \A k \in 1..(n + 1) : k = n + 1 \/ k \in 1..n
    BY <1>1
  <2>4. DepthsOK(t)
    BY <1>1, <2>1, <2>3 DEF DepthsOK
  <2> QED
    BY <2>2, <2>4 DEF a
<1>3. CASE name # "endFunction" /\ name \in endings
  <2> DEFINE t == [d EXCEPT ![n] = d[n] + 1]
  <2>1. IsSeq(t) /\ Len(t) = n /\ (\A k \in 1..(n - 1) : t[k] = d[k]) /\ t[n] = d[n] + 1
    BY <1>1, LastReplaced
  <2>2. a = t
    BY <1>3 DEF After
  <2> HIDE DEF t, a
  <2>3. \A k \in 1..n : k = n \/ k \in 1..(n - 1)
    BY <1>1
  <2>4. DepthsOK(t)
    BY <1>1, <2>1, <2>3 DEF DepthsOK
  <2> QED
    BY <2>2, <2>4 DEF a
<1>4. CASE name # "endFunction" /\ name \notin endings
  BY <1>4 DEF After
<1> QED
  BY <1>2, <1>3, <1>4

LEMMA DepthsAreOK ==
  ASSUME NEW items, IsSeq(items), NEW endings, "endFunction" \notin endings
  PROVE  DepthsOK(Depths(items, endings))
<1> DEFINE n == Len(items)
<1>1. n \in Nat
  BY DEF IsSeq
<1>2. PICK f : AreDepths(items, endings, f) /\ Depths(items, endings) = f[n]
  BY <1>1, DepthsAre
<1>3. f[0] = <<0>> /\ \A m \in 1..n : f[m] = After(f[m - 1], Below(items, m), endings)
  BY <1>1, <1>2, DepthsStep
<1> DEFINE N == {m \in Nat : m <= n => DepthsOK(f[m])}
<1>4. 0 \in N
  <2> DEFINE z == <<0>>
  <2>1. z \in Seq({0}) /\ Len(z) = 1 /\ z[1] = 0
    OBVIOUS
  <2>2. IsSeq(z)
    BY <2>1, IsOne
  <2> HIDE DEF z
  <2>3. \A k \in 1..1 : z[k] \in Nat /\ ~ (k > 1)
    BY <2>1
  <2>4. DepthsOK(z)
    BY <2>1, <2>2, <2>3 DEF DepthsOK
  <2> QED
    BY <1>3, <2>4 DEF z
<1>5. ASSUME NEW m \in Nat, m \in N  PROVE m + 1 \in N
  <2> SUFFICES ASSUME m + 1 <= n  PROVE DepthsOK(f[m + 1])
    OBVIOUS
  <2> DEFINE k == m + 1
  <2>1. k \in 1..n /\ k - 1 = m /\ DepthsOK(f[m])
    BY <1>1, <1>5
  <2> HIDE DEF k
  <2>2. f[k] = After(f[m], Below(items, k), endings)
    BY <1>3, <2>1
  <2>3. DepthsOK(f[k])
    BY <2>1, <2>2, AfterOK
  <2> QED
    BY <2>3 DEF k
<1> QED
  <2> HIDE DEF N
  <2>1. n \in N
    BY <1>1, <1>4, <1>5, Induction
  <2> QED
    BY <1>1, <1>2, <2>1 DEF N

----------------------------------------------------------------------------
\* Variables of functions around
LEMMA ResolveLocalIs ==
  ASSUME NEW c, IsCompiler(c), NEW name
  PROVE  LET i == ResolveLocal(c, name)
         IN  i # NotFound => i \in 0..(Len(c.locals) - 1) /\ i \in ByteIndex
<1> DEFINE S == Named(c, name)
           n == Len(c.locals)
           i == ResolveLocal(c, name)
<1>1. n \in Nat /\ n \in 1..MaxLocals /\ MaxLocals = ByteCount /\ ByteCount \in Nat
  BY CompilerAssumption, ByteAssumption DEF IsCompiler
<1>2. S \in SUBSET Nat /\ S \subseteq 0..(n - 1) /\ \A k \in S : k <= n
  BY <1>1 DEF Named
<1>3. i = IF S = {} THEN NotFound ELSE Highest(S)
  BY DEF ResolveLocal
<1> HIDE DEF S, i
<1>4. i # NotFound => i \in 0..(n - 1)
  <2> SUFFICES ASSUME i # NotFound  PROVE i \in 0..(n - 1)
    OBVIOUS
  <2>1. S # {} /\ i = Highest(S)
    BY <1>3
  <2> HIDE DEF n
  <2>2. Highest(S) \in S
    BY <1>1, <1>2, <2>1, HighestIs
  <2> QED
    BY <1>2, <2>1, <2>2
<1>5. \A k \in 0..(n - 1) : k \in ByteIndex
  BY <1>1 DEF ByteIndex
<1> QED
  BY <1>4, <1>5 DEF i, n

LEMMA CapturedIs ==
  ASSUME NEW l, NEW captured, l = [name |-> l.name, depth |-> l.depth, isCaptured |-> l.isCaptured]
  PROVE  [l EXCEPT !.isCaptured = captured] =
           [name |-> l.name, depth |-> l.depth, isCaptured |-> captured]
OBVIOUS

LEMMA CaptureIs ==
  ASSUME NEW c, IsCompiler(c), NEW i \in 0..(Len(c.locals) - 1)
  PROVE  Alike(c, Capture(c, i))
<1> DEFINE n      == Len(c.locals)
           k      == i + 1
           l      == c.locals[k]
           new    == [l EXCEPT !.isCaptured = TRUE]
           locals == [c.locals EXCEPT ![k] = new]
           e      == Capture(c, i)
<1>1. /\ IsSeq(c.locals) /\ n \in 1..MaxLocals /\ n \in Nat /\ k \in 1..n
      /\ \A j \in 1..n : IsLocal(c.locals[j])
  BY DEF IsCompiler
<1>2. e = [c EXCEPT !.locals[k].isCaptured = TRUE]
  BY DEF Capture
<1>3. [c EXCEPT !.locals[k].isCaptured = TRUE] = [c EXCEPT !.locals = locals]
  OBVIOUS
<1>4. IsLocal(new) /\ new.depth = l.depth
  <2>1. l = [name |-> l.name, depth |-> l.depth, isCaptured |-> l.isCaptured] /\ l.depth \in Int
    BY <1>1 DEF IsLocal
  <2> HIDE DEF l
  <2>2. new = [name |-> l.name, depth |-> l.depth, isCaptured |-> TRUE]
    BY <2>1, CapturedIs, Zenon
  <2> HIDE DEF new
  <2> QED
    BY <2>1, <2>2 DEF IsLocal
<1>5. IsSeq(locals) /\ Len(locals) = n /\ \A j \in 1..n : locals[j] = IF j = k THEN new ELSE c.locals[j]
  <2> DEFINE S == Elements(c.locals) \cup {new}
  <2>1. c.locals \in Seq(S) /\ new \in S
    BY <1>1, SeqIs, SeqMonotonic
  <2> HIDE DEF S, new
  <2>2. locals \in Seq(S) /\ Len(locals) = n /\ \A j \in 1..n : locals[j] = IF j = k THEN new ELSE c.locals[j]
    BY <1>1, <2>1, ExceptSeq
  <2> QED
    BY <2>2, IsOne
<1> HIDE DEF e, new, locals
<1>6. /\ IsSeq(locals) /\ Len(locals) \in 1..MaxLocals
      /\ \A j \in 1..Len(locals) : IsLocal(locals[j])
  BY <1>1, <1>4, <1>5
<1>7. IsCompiler(e) /\ e.locals = locals /\ e.scopeDepth = c.scopeDepth
  <2> DEFINE f == [c EXCEPT !.locals = locals]
  <2>1. IsCompiler(f) /\ f.locals = locals /\ f.scopeDepth = c.scopeDepth
    BY <1>6, LocalsIs
  <2> QED
    BY <1>2, <1>3, <2>1
<1>8. \A j \in 1..n : locals[j].depth = c.locals[j].depth
  BY <1>4, <1>5
<1>9. Alike(c, e)
  BY <1>5, <1>7, <1>8 DEF Alike
<1> QED
  BY <1>9 DEF e

LEMMA AddUpvalueIs ==
  ASSUME NEW c, IsCompiler(c), NEW upvalue \in Upvalue
  PROVE  LET added == AddUpvalue(c, upvalue)
         IN  Alike(c, added.compiler) /\ added.index \in ByteIndex
<1> DEFINE added    == AddUpvalue(c, upvalue)
           n        == Len(c.upvalues)
           same     == {i \in DOMAIN c.upvalues : c.upvalues[i] = upvalue}
           place    == CHOOSE i \in same : TRUE
           upvalues == Append(c.upvalues, upvalue)
           more     == [c EXCEPT !.upvalues = upvalues]
<1>1. /\ c.upvalues \in Seq(Upvalue) /\ n \in 0..MaxUpvalues /\ n \in Nat
      /\ MaxUpvalues = ByteCount /\ ByteCount \in Nat /\ ByteCount > 0
      /\ DOMAIN c.upvalues = 1..n
  BY CompilerAssumption, ByteAssumption, LenProperties DEF IsCompiler
<1>2. added = IF same # {} THEN [compiler |-> c, index |-> place - 1, error |-> FALSE]
              ELSE IF n = MaxUpvalues THEN [compiler |-> c, index |-> 0, error |-> TRUE]
              ELSE [compiler |-> more, index |-> n, error |-> FALSE]
  BY DEF AddUpvalue
<1>3. same # {} => place \in 1..n
  BY <1>1
<1>4. n # MaxUpvalues => Alike(c, more)
  <2> SUFFICES ASSUME n # MaxUpvalues  PROVE Alike(c, more)
    OBVIOUS
  <2>1. more = [locals |-> c.locals, upvalues |-> upvalues, scopeDepth |-> c.scopeDepth,
                code |-> c.code, constants |-> c.constants, arity |-> c.arity, name |-> c.name]
    BY FieldReplaced DEF IsCompiler
  <2>2. upvalues \in Seq(Upvalue) /\ Len(upvalues) = n + 1
    BY <1>1, AppendProperties
  <2>3. Len(upvalues) \in 0..MaxUpvalues
    BY <1>1, <2>2
  <2> HIDE DEF more, upvalues
  <2>4. /\ more.locals = c.locals /\ more.upvalues = upvalues /\ more.scopeDepth = c.scopeDepth
        /\ more.code = c.code /\ more.constants = c.constants /\ more.arity = c.arity /\ more.name = c.name
    BY <2>1
  <2>5. IsCompiler(more)
    BY <2>1, <2>2, <2>3, <2>4 DEF IsCompiler
  <2> QED
    BY <2>4, <2>5 DEF Alike
<1>5. Alike(c, c)
  BY AlikeItself
<1> HIDE DEF added, same, place, more, n
<1>6. CASE same # {}
  <2>1. added.compiler = c /\ added.index = place - 1
    BY <1>2, <1>6
  <2> QED
    BY <1>1, <1>3, <1>5, <1>6, <2>1 DEF added, ByteIndex
<1>7. CASE same = {} /\ n = MaxUpvalues
  <2>1. added.compiler = c /\ added.index = 0
    BY <1>2, <1>7
  <2> QED
    BY <1>1, <1>5, <2>1 DEF added, ByteIndex
<1>8. CASE same = {} /\ n # MaxUpvalues
  <2>1. added.compiler = more /\ added.index = n
    BY <1>2, <1>8
  <2> QED
    BY <1>1, <1>4, <1>8, <2>1 DEF added, ByteIndex
<1> QED
  BY <1>6, <1>7, <1>8

\* One function of Passing, given those around it.
Pass(chain, name, home, at, j) ==
  IF j = home
  THEN [compiler |-> Capture(chain[j], ResolveLocal(chain[home], name)),
        index    |-> ResolveLocal(chain[home], name),
        error    |-> InOwnInitializer(chain[j], name)]
  ELSE AddUpvalue(chain[j], [index |-> at[j - 1].index, isLocal |-> j = home + 1])

LEMMA PassIsLocal ==
  ASSUME NEW chain, NEW name, NEW home, NEW at, NEW other, NEW j,
         j # home => at[j - 1] = other[j - 1]
  PROVE  Pass(chain, name, home, at, j) = Pass(chain, name, home, other, j)
BY DEF Pass

LEMMA PassingExists ==
  ASSUME NEW chain, NEW name, NEW home \in Nat, home > 0, NEW n \in Nat
  PROVE  \E at : at = [j \in home..n |-> Pass(chain, name, home, at, j)]
<1> DEFINE From(at, j) == Pass(chain, name, home, at, j)
           N == {m \in Nat : \E at : at = [j \in home..m |-> From(at, j)]}
<1>1. 0 \in N
  <2> DEFINE f == [j \in home..0 |-> <<>>]
  <2>1. home..0 = {}
    OBVIOUS
  <2>2. f = [j \in home..0 |-> From(f, j)]
    BY <2>1
  <2> QED
    BY <2>2
<1>2. ASSUME NEW m \in Nat, m \in N  PROVE m + 1 \in N
  <2>1. PICK f : f = [j \in home..m |-> From(f, j)]
    BY <1>2
  <2> DEFINE g == [j \in home..(m + 1) |-> IF j = m + 1 THEN From(f, j) ELSE f[j]]
  <2>2. ASSUME NEW j \in home..(m + 1), j # home  PROVE g[j - 1] = f[j - 1]
    BY <2>2
  <2> HIDE DEF From
  <2>3. ASSUME NEW j \in home..(m + 1)  PROVE g[j] = From(g, j)
    <3>1. g[j] = From(f, j)
      BY <2>1
    <3>2. j # home => f[j - 1] = g[j - 1]
      BY <2>2
    <3> HIDE DEF g
    <3> QED
      BY <3>1, <3>2, PassIsLocal DEF From
  <2>4. DOMAIN g = home..(m + 1) /\ g = [j \in DOMAIN g |-> g[j]]
    OBVIOUS
  <2> HIDE DEF g
  <2>5. g = [j \in home..(m + 1) |-> From(g, j)]
    BY <2>3, <2>4
  <2> QED
    BY <2>5
<1> QED
  <2> HIDE DEF N
  <2>1. n \in N
    BY <1>1, <1>2, Induction
  <2> QED
    BY <2>1 DEF N

LEMMA PassingIs ==
  ASSUME NEW chain, Len(chain) \in Nat, NEW name, NEW home \in Nat, home > 0
  PROVE  \A j \in home..Len(chain) :
           Passing(chain, name, home)[j] = Pass(chain, name, home, Passing(chain, name, home), j)
<1> DEFINE at == Passing(chain, name, home)
<1>1. at = [j \in home..Len(chain) |-> Pass(chain, name, home, at, j)]
  <2>1. \E f : f = [j \in home..Len(chain) |-> Pass(chain, name, home, f, j)]
    BY PassingExists
  <2> QED
    BY <2>1, Zenon DEF Passing, Pass
<1> HIDE DEF at
<1>2. \A j \in home..Len(chain) : at[j] = Pass(chain, name, home, at, j)
  BY <1>1
<1> QED
  BY <1>2 DEF at

LEMMA PassingTyped ==
  ASSUME NEW chain, NEW name, NEW home \in 1..Len(chain), Len(chain) \in Nat,
         \A k \in 1..Len(chain) : IsCompiler(chain[k]),
         ResolveLocal(chain[home], name) # NotFound
  PROVE  \A j \in home..Len(chain) :
           /\ Alike(chain[j], Passing(chain, name, home)[j].compiler)
           /\ Passing(chain, name, home)[j].index \in ByteIndex
<1> DEFINE n     == Len(chain)
           at    == Passing(chain, name, home)
           local == ResolveLocal(chain[home], name)
           N     == {m \in Nat : \A j \in home..n : j <= m =>
                       Alike(chain[j], at[j].compiler) /\ at[j].index \in ByteIndex}
<1>1. n \in Nat /\ home \in Nat /\ home > 0
  OBVIOUS
<1>2. \A j \in home..n : at[j] = Pass(chain, name, home, at, j)
  BY <1>1, PassingIs
<1>3. local \in 0..(Len(chain[home].locals) - 1) /\ local \in ByteIndex
  BY ResolveLocalIs
<1> HIDE DEF at
<1>4. 0 \in N
  BY <1>1
<1>5. ASSUME NEW m \in Nat, m \in N  PROVE m + 1 \in N
  <2> SUFFICES ASSUME NEW j \in home..n, j = m + 1
               PROVE  Alike(chain[j], at[j].compiler) /\ at[j].index \in ByteIndex
    <3>1. \A i \in home..n : i <= m + 1 => i <= m \/ i = m + 1
      BY <1>1
    <3> QED
      BY <1>5, <3>1
  <2>1. IsCompiler(chain[j]) /\ j \in 1..n
    BY <1>1
  <2>2. CASE j = home
    <3>1. Alike(chain[j], Capture(chain[j], local))
      BY <1>3, <2>1, <2>2, CaptureIs
    <3>2. at[j] = [compiler |-> Capture(chain[j], local), index |-> local,
                   error |-> InOwnInitializer(chain[j], name)]
      BY <1>2, <2>2 DEF Pass
    <3>3. at[j].compiler = Capture(chain[j], local) /\ at[j].index = local
      BY <3>2
    <3> QED
      BY <1>3, <3>1, <3>3
  <2>3. CASE j # home
    <3> DEFINE upvalue == [index |-> at[j - 1].index, isLocal |-> j = home + 1]
    <3>1. j - 1 \in home..n /\ j - 1 <= m
      BY <1>1, <2>3
    <3>2. at[j - 1].index \in ByteIndex
      BY <1>5, <3>1
    <3>3. (j = home + 1) \in BOOLEAN
      OBVIOUS
    <3>4. upvalue \in Upvalue
      BY <3>2, <3>3 DEF Upvalue
    <3>5. at[j] = AddUpvalue(chain[j], upvalue)
      BY <1>2, <2>3 DEF Pass
    <3> HIDE DEF upvalue
    <3> QED
      BY <2>1, <3>4, <3>5, AddUpvalueIs
  <2> QED
    BY <2>2, <2>3
<1>6. n \in N
  <2> HIDE DEF N
  <2> QED
    BY <1>1, <1>4, <1>5, Induction
<1>7. \A j \in home..n : Alike(chain[j], at[j].compiler) /\ at[j].index \in ByteIndex
  BY <1>1, <1>6
<1> QED
  BY <1>7 DEF at

LEMMA ResolveUpvalueIs ==
  ASSUME NEW chain, NEW defining, ChainOK(chain, defining), Len(chain) > 0, NEW name
  PROVE  LET resolved == ResolveUpvalue(chain, name)
         IN  /\ ChainOK(resolved.chain, defining)
             /\ ScopeDepths(resolved.chain) = ScopeDepths(chain)
             /\ resolved.index # NotFound => resolved.index \in ByteIndex
<1> DEFINE n        == Len(chain)
           homes    == {k \in 1..(n - 1) : ResolveLocal(chain[k], name) # NotFound}
           home     == Highest(homes)
           at       == Passing(chain, name, home)
           after    == [j \in DOMAIN chain |-> IF j < home THEN chain[j] ELSE at[j].compiler]
           resolved == ResolveUpvalue(chain, name)
<1>1. /\ IsSeq(chain) /\ n \in Nat /\ n > 0 /\ DOMAIN chain = 1..n
      /\ \A k \in 1..n : IsCompiler(chain[k])
  BY SeqIs DEF ChainOK, IsSeq
<1>2. resolved = IF homes = {} THEN [chain |-> chain, index |-> NotFound, error |-> FALSE]
                 ELSE [chain |-> after, index |-> at[n].index, error |-> \E j \in home..n : at[j].error]
  BY DEF ResolveUpvalue
<1>3. CASE homes = {}
  <2>1. resolved.chain = chain /\ resolved.index = NotFound
    BY <1>2, <1>3
  <2> QED
    BY <2>1
<1>4. CASE homes # {}
  <2>1. resolved.chain = after /\ resolved.index = at[n].index
    BY <1>2, <1>4
  <2>2. home \in homes
    <3>1. homes \in SUBSET Nat /\ \A k \in homes : k <= n
      BY <1>1
    <3> HIDE DEF homes, n
    <3> QED
      BY <1>1, <1>4, <3>1, HighestIs
  <2>3. home \in 1..n /\ home < n /\ ResolveLocal(chain[home], name) # NotFound
    BY <1>1, <2>2
  <2> HIDE DEF home
  <2>4. \A j \in home..n : Alike(chain[j], at[j].compiler) /\ at[j].index \in ByteIndex
    BY <1>1, <2>3, PassingTyped
  <2> HIDE DEF at
  <2>5. IsSeq(after) /\ Len(after) = n
    <3> DEFINE S == {after[j] : j \in 1..n}
    <3>1. after = [j \in 1..n |-> IF j < home THEN chain[j] ELSE at[j].compiler]
      BY <1>1
    <3>2. \A j \in 1..n : after[j] \in S
      OBVIOUS
    <3> HIDE DEF S
    <3>3. after \in [1..n -> S] /\ n \in Nat
      BY <1>1, <3>1, <3>2
    <3> HIDE DEF n, after
    <3>4. after \in Seq(S) /\ Len(after) = n
      BY <3>3
    <3> QED
      BY <3>4, IsOne
  <2>6. \A k \in 1..n : Alike(chain[k], after[k])
    <3> SUFFICES ASSUME NEW k \in 1..n  PROVE Alike(chain[k], after[k])
      OBVIOUS
    <3>1. CASE k < home
      BY <1>1, <3>1, AlikeItself
    <3>2. CASE ~ (k < home)
      <4>1. k \in home..n /\ after[k] = at[k].compiler
        BY <1>1, <2>3, <3>2
      <4> QED
        BY <2>4, <4>1
    <3> QED
      BY <3>1, <3>2
  <2> HIDE DEF after
  <2>7. ChainOK(after, defining) /\ ScopeDepths(after) = ScopeDepths(chain)
    BY <2>5, <2>6, AlikeChain
  <2>8. at[n].index \in ByteIndex
    BY <1>1, <2>3, <2>4
  <2> HIDE DEF resolved
  <2> QED
    BY <2>1, <2>7, <2>8 DEF resolved
<1> QED
  BY <1>3, <1>4

LEMMA NamedVariableIs ==
  ASSUME NEW defining, ChainOK(compilers, defining), Len(compilers) > 0, NEW name
  PROVE  LET v == NamedVariable(name)
         IN  /\ ChainOK(v.chain, defining) /\ ScopeDepths(v.chain) = ScopeDepths(compilers)
             /\ v.get \in ByteValue /\ v.set \in ByteValue /\ v.arg \in ByteIndex
<1> DEFINE local    == ResolveLocal(Current, name)
           resolved == ResolveUpvalue(compilers, name)
           global   == MakeConstant(Current, String(<<name>>))
           v        == NamedVariable(name)
<1>1. IsCompiler(Current)
  <2>1. Len(compilers) \in 1..Len(compilers)
    BY DEF ChainOK, IsSeq
  <2> QED
    BY <2>1 DEF ChainOK, Current
<1>2. CASE local # NotFound
  <2>1. local \in ByteIndex
    BY <1>1, <1>2, ResolveLocalIs
  <2>2. /\ v.chain = compilers /\ v.get = Op.GET_LOCAL /\ v.set = Op.SET_LOCAL /\ v.arg = local
    BY <1>2 DEF NamedVariable
  <2> HIDE DEF v, local
  <2>3. ChainOK(v.chain, defining) /\ ScopeDepths(v.chain) = ScopeDepths(compilers)
    BY <2>2
  <2> QED
    BY <2>1, <2>2, <2>3, OpcodesAreBytes DEF v
<1>3. CASE local = NotFound /\ resolved.index # NotFound
  <2>1. /\ ChainOK(resolved.chain, defining) /\ ScopeDepths(resolved.chain) = ScopeDepths(compilers)
        /\ resolved.index \in ByteIndex
    BY <1>3, ResolveUpvalueIs
  <2>2. /\ v.chain = resolved.chain /\ v.get = Op.GET_UPVALUE /\ v.set = Op.SET_UPVALUE
        /\ v.arg = resolved.index
    BY <1>3 DEF NamedVariable
  <2> HIDE DEF v, resolved
  <2>3. ChainOK(v.chain, defining) /\ ScopeDepths(v.chain) = ScopeDepths(compilers)
    BY <2>1, <2>2
  <2> QED
    BY <2>1, <2>2, <2>3, OpcodesAreBytes DEF v
<1>4. CASE local = NotFound /\ resolved.index = NotFound
  <2>1. Alike(Current, global.compiler) /\ global.index \in ByteIndex
    BY <1>1, ConstantIs
  <2>2. /\ v.chain = With(global.compiler) /\ v.get = Op.GET_GLOBAL /\ v.set = Op.SET_GLOBAL
        /\ v.arg = global.index
    BY <1>4 DEF NamedVariable
  <2> HIDE DEF v, global
  <2>3. ChainOK(v.chain, defining) /\ ScopeDepths(v.chain) = ScopeDepths(compilers)
    BY <2>1, <2>2, AlikeLast DEF With, Current
  <2> QED
    BY <2>1, <2>2, <2>3, OpcodesAreBytes DEF v
<1> QED
  BY <1>2, <1>3, <1>4

----------------------------------------------------------------------------
\* The bytes of instructions
LEMMA ClosureOperandsAre ==
  ASSUME NEW upvalues \in Seq(Upvalue)
  PROVE  ClosureOperands(upvalues) \in Seq(ByteValue)
<1> DEFINE n        == Len(upvalues)
           operands == ClosureOperands(upvalues)
           last     == 2 * n
           byte(i)  == LET upvalue == upvalues[(i + 1) \div 2]
                       IN  IF i % 2 = 0 THEN upvalue.index ELSE IF upvalue.isLocal THEN 1 ELSE 0
<1>1. n \in Nat /\ \A k \in 1..n : upvalues[k] \in Upvalue
  BY LenProperties, ElementOfSeq
<1>2. operands = [i \in 1..last |-> byte(i)]
  BY DEF ClosureOperands
<1>3. ASSUME NEW i \in 1..last  PROVE byte(i) \in ByteValue
  <2> DEFINE k == (i + 1) \div 2
  <2>1. k \in 1..n
    BY <1>1
  <2> HIDE DEF k
  <2>2. upvalues[k].index \in ByteValue
    BY <1>1, <2>1, IndexesAreBytes DEF Upvalue
  <2>3. 0 \in ByteValue /\ 1 \in ByteValue
    BY IndexesAreBytes
  <2>4. byte(i) = IF i % 2 = 0 THEN upvalues[k].index ELSE IF upvalues[k].isLocal THEN 1 ELSE 0
    BY DEF k
  <2> HIDE DEF byte
  <2> QED
    BY <2>2, <2>3, <2>4
<1>4. last \in Nat
  BY <1>1
<1> HIDE DEF last, byte, operands
<1>5. operands \in [1..last -> ByteValue]
  BY <1>2, <1>3
<1>6. operands \in Seq(ByteValue)
  BY <1>4, <1>5
<1> QED
  BY <1>6 DEF operands

LEMMA UnaryCodeIs ==
  ASSUME NEW token
  PROVE  UnaryCode(token) \in Seq(ByteValue)
BY BytesAre, OpcodesAreBytes DEF UnaryCode

LEMMA LiteralCodeIs ==
  ASSUME NEW token \in {"nil", "true", "false"}
  PROVE  LiteralCode(token) \in Seq(ByteValue)
<1>1. <<Op.NIL>> \in Seq(ByteValue) /\ <<Op.TRUE>> \in Seq(ByteValue) /\ <<Op.FALSE>> \in Seq(ByteValue)
  BY BytesAre, OpcodesAreBytes
<1>2. CASE token = "nil"
  BY <1>1, <1>2 DEF LiteralCode
<1>3. CASE token = "true"
  BY <1>1, <1>3 DEF LiteralCode
<1>4. CASE token = "false"
  BY <1>1, <1>4 DEF LiteralCode
<1> QED
  BY <1>2, <1>3, <1>4

Operators == {"==", "!=", "<", "<=", ">", ">=", "+", "-", "*", "/"}

LEMMA PrecedenceIs ==
  ASSUME NEW token
  PROVE  /\ Precedence(token) \in Nat
         /\ Precedence(token) > 0 => token \in Operators \cup {"(", "and", "or"}
BY DEF Precedence, PREC, Operators

LEMMA BinaryCodeIs ==
  ASSUME NEW token \in Operators
  PROVE  BinaryCode(token) \in Seq(ByteValue)
<1>1. \A a, b \in ByteValue : <<a>> \in Seq(ByteValue) /\ <<a, b>> \in Seq(ByteValue)
  BY BytesAre
<1>2. CASE token \in {"==", "!="}
  BY <1>1, <1>2, OpcodesAreBytes DEF BinaryCode
<1>3. CASE token \in {"<", ">="}
  BY <1>1, <1>3, OpcodesAreBytes DEF BinaryCode
<1>4. CASE token \in {">", "<="}
  BY <1>1, <1>4, OpcodesAreBytes DEF BinaryCode
<1>5. CASE token \in {"+", "-"}
  BY <1>1, <1>5, OpcodesAreBytes DEF BinaryCode
<1>6. CASE token \in {"*", "/"}
  BY <1>1, <1>6, OpcodesAreBytes DEF BinaryCode
<1> QED
  BY <1>2, <1>3, <1>4, <1>5, <1>6 DEF Operators

\* The instructions that leave the locals of a block.
LEMMA ExitsAre ==
  ASSUME NEW c, Len(c.locals) - Kept(c) \in Nat
  PROVE  LET exits == ScopeExits(c)
         IN  [i \in DOMAIN exits |-> IF exits[i] THEN Op.CLOSE_UPVALUE ELSE Op.POP] \in Seq(ByteValue)
<1> DEFINE m     == Len(c.locals) - Kept(c)
           exits == ScopeExits(c)
           code  == [i \in DOMAIN exits |-> IF exits[i] THEN Op.CLOSE_UPVALUE ELSE Op.POP]
<1>1. DOMAIN exits = 1..m
  BY DEF ScopeExits
<1> HIDE DEF m, exits
<1>2. m \in Nat
  BY DEF m
<1>3. \A i \in 1..m : (IF exits[i] THEN Op.CLOSE_UPVALUE ELSE Op.POP) \in ByteValue
  BY OpcodesAreBytes
<1>4. code \in [1..m -> ByteValue]
  BY <1>1, <1>3
<1> HIDE DEF code
<1>5. code \in Seq(ByteValue)
  BY <1>2, <1>4
<1> QED
  BY <1>5 DEF code, exits

----------------------------------------------------------------------------
\* What is left to do, when its first item is taken.
LEMMA HasOver ==
  ASSUME NEW items, IsSeq(items), NEW rest, IsSeq(rest), NEW name
  PROVE  Has(items \o rest, name) <=> Has(items, name) \/ Has(rest, name)
<1> DEFINE u == items \o rest
           m == Len(items)
           r == Len(rest)
<1>1. /\ Len(u) = m + r /\ m \in Nat /\ r \in Nat
      /\ \A i \in 1..m : u[i] = items[i]
      /\ \A i \in 1..r : u[m + i] = rest[i]
  BY ConcatIs DEF IsSeq
<1> HIDE DEF u
<1>2. ASSUME NEW i \in 1..m, items[i][1] = name  PROVE Has(u, name)
  <2>1. i \in 1..Len(u) /\ u[i][1] = name
    BY <1>1, <1>2
  <2> QED
    BY <2>1 DEF Has
<1>3. ASSUME NEW i \in 1..r, rest[i][1] = name  PROVE Has(u, name)
  <2>1. m + i \in 1..Len(u) /\ u[m + i][1] = name
    BY <1>1, <1>3
  <2> QED
    BY <2>1 DEF Has
<1>4. ASSUME NEW i \in 1..Len(u), u[i][1] = name  PROVE Has(items, name) \/ Has(rest, name)
  <2>1. CASE i <= m
    <3>1. i \in 1..m /\ items[i][1] = name
      BY <1>1, <1>4, <2>1
    <3> QED
      BY <3>1 DEF Has
  <2>2. CASE i > m
    <3> DEFINE k == i - m
    <3>1. k \in 1..r /\ i = m + k
      BY <1>1, <2>2
    <3> HIDE DEF k
    <3>2. rest[k][1] = name
      BY <1>1, <1>4, <3>1
    <3> QED
      BY <3>1, <3>2 DEF Has
  <2> QED
    BY <1>1, <2>1, <2>2
<1>5. Has(u, name) <=> Has(items, name) \/ Has(rest, name)
  BY <1>2, <1>3, <1>4 DEF Has
<1> QED
  BY <1>5 DEF u

\* Every item of the one list may be on top of every item of the other.
AllOn(items, rest) ==
  \A i \in 1..Len(items), j \in 1..Len(rest) : On(items[i][1], rest[j][1])

LEMMA TodoOver ==
  ASSUME NEW items, TodoOK(items), NEW rest, TodoOK(rest), AllOn(items, rest)
  PROVE  TodoOK(items \o rest)
<1> DEFINE u == items \o rest
           m == Len(items)
           r == Len(rest)
<1>1. IsSeq(items) /\ IsSeq(rest)
  BY DEF TodoOK
<1>2. /\ IsSeq(u) /\ Len(u) = m + r /\ m \in Nat /\ r \in Nat
      /\ \A i \in 1..m : u[i] = items[i]
      /\ \A i \in 1..r : u[m + i] = rest[i]
  BY <1>1, ConcatIs DEF IsSeq
<1> HIDE DEF u
<1>3. ASSUME NEW i \in 1..(m + r)
      PROVE  \/ i \in 1..m /\ u[i] = items[i]
             \/ i > m /\ i - m \in 1..r /\ u[i] = rest[i - m]
  <2>1. CASE i <= m
    BY <1>2, <2>1
  <2>2. CASE i > m
    <3> DEFINE k == i - m
    <3>1. k \in 1..r /\ i = m + k
      BY <1>2, <2>2
    <3> HIDE DEF k
    <3>2. u[i] = rest[k]
      BY <1>2, <3>1
    <3> QED
      BY <2>2, <3>1, <3>2 DEF k
  <2> QED
    BY <1>2, <2>1, <2>2
<1>4. ASSUME NEW i \in 1..Len(u)  PROVE ItemOK(u[i])
  BY <1>2, <1>3 DEF TodoOK
<1>5. ASSUME NEW i \in 1..Len(u), NEW j \in 1..Len(u), i < j  PROVE On(u[i][1], u[j][1])
  <2>1. i \in 1..(m + r) /\ j \in 1..(m + r)
    BY <1>2
  <2>2. CASE j \in 1..m
    <3>1. i \in 1..m /\ u[i] = items[i] /\ u[j] = items[j]
      BY <1>2, <1>5, <2>1, <2>2
    <3> QED
      BY <1>5, <2>2, <3>1 DEF TodoOK
  <2>3. CASE j \notin 1..m
    <3>1. j > m /\ j - m \in 1..r /\ u[j] = rest[j - m]
      BY <1>3, <2>1, <2>3
    <3>2. CASE i \in 1..m
      BY <1>2, <3>1, <3>2 DEF AllOn
    <3>3. CASE i \notin 1..m
      <4>1. i > m /\ i - m \in 1..r /\ u[i] = rest[i - m]
        BY <1>3, <2>1, <3>3
      <4>2. i - m < j - m
        BY <1>2, <1>5, <2>1
      <4> QED
        BY <3>1, <4>1, <4>2 DEF TodoOK
    <3> QED
      BY <3>2, <3>3
  <2> QED
    BY <2>2, <2>3
<1>6. TodoOK(u)
  BY <1>2, <1>4, <1>5 DEF TodoOK
<1> QED
  BY <1>6 DEF u

LEMMA FirstItem ==
  ASSUME NEW name, Doing(name), TodoOK(todo)
  PROVE  /\ TodoOK(Tail(todo)) /\ IsSeq(Tail(todo)) /\ todo # <<>>
         /\ ItemOK(Head(todo)) /\ Head(todo)[1] = name
         /\ \A j \in 1..Len(Tail(todo)) : On(name, Tail(todo)[j][1])
         /\ \A n : Has(todo, n) <=> name = n \/ Has(Tail(todo), n)
<1> DEFINE t == Tail(todo)
           n == Len(todo)
<1>1. todo # <<>> /\ Head(todo)[1] = name
  BY DEF Doing
<1>2. IsSeq(todo)
  BY DEF TodoOK
<1>3. /\ IsSeq(t) /\ Len(t) = n - 1 /\ n \in Nat /\ n > 0
      /\ \A i \in 1..(n - 1) : t[i] = todo[i + 1]
      /\ Head(todo) = todo[1]
  BY <1>1, <1>2, TailIs
<1> HIDE DEF t
<1>4. ItemOK(Head(todo))
  BY <1>3 DEF TodoOK
<1>5. \A j \in 1..Len(t) : j \in 1..(n - 1) /\ j + 1 \in 1..n /\ 1 < j + 1 /\ t[j] = todo[j + 1]
  BY <1>3
<1>6. \A j \in 1..Len(t) : On(name, t[j][1])
  <2> SUFFICES ASSUME NEW j \in 1..Len(t)  PROVE On(name, t[j][1])
    OBVIOUS
  <2>1. On(todo[1][1], todo[j + 1][1])
    BY <1>3, <1>5 DEF TodoOK
  <2> QED
    BY <1>1, <1>3, <1>5, <2>1
<1>7. TodoOK(t)
  <2>1. \A j \in 1..Len(t) : ItemOK(t[j])
    BY <1>5 DEF TodoOK
  <2>2. ASSUME NEW i \in 1..Len(t), NEW j \in 1..Len(t), i < j  PROVE On(t[i][1], t[j][1])
    <3>1. i + 1 < j + 1 /\ i + 1 \in 1..n /\ j + 1 \in 1..n /\ t[i] = todo[i + 1] /\ t[j] = todo[j + 1]
      BY <1>3, <1>5, <2>2
    <3>2. On(todo[i + 1][1], todo[j + 1][1])
      BY <3>1 DEF TodoOK
    <3> QED
      BY <3>1, <3>2
  <2> QED
    BY <1>3, <2>1, <2>2 DEF TodoOK
<1>8. ASSUME NEW x  PROVE Has(todo, x) <=> name = x \/ Has(t, x)
  <2>1. ASSUME Has(todo, x)  PROVE name = x \/ Has(t, x)
    <3>1. PICK i \in 1..n : todo[i][1] = x
      BY <2>1 DEF Has
    <3>2. CASE i = 1
      BY <1>1, <1>3, <3>1, <3>2
    <3>3. CASE i # 1
      <4> DEFINE j == i - 1
      <4>1. j \in 1..Len(t) /\ j + 1 = i
        BY <1>3, <3>3
      <4> HIDE DEF j
      <4>2. t[j][1] = x
        BY <1>5, <3>1, <4>1
      <4> QED
        BY <4>1, <4>2 DEF Has
    <3> QED
      BY <3>2, <3>3
  <2>2. ASSUME name = x  PROVE Has(todo, x)
    <3>1. 1 \in 1..n /\ todo[1][1] = x
      BY <1>1, <1>3, <2>2
    <3> QED
      BY <3>1 DEF Has
  <2>3. ASSUME Has(t, x)  PROVE Has(todo, x)
    <3>1. PICK j \in 1..Len(t) : t[j][1] = x
      BY <2>3 DEF Has
    <3>2. j + 1 \in 1..n /\ todo[j + 1][1] = x
      BY <1>5, <3>1
    <3> QED
      BY <3>2 DEF Has
  <2> QED
    BY <2>1, <2>2, <2>3
<1> QED
  BY <1>1, <1>3, <1>4, <1>6, <1>7, <1>8 DEF t

----------------------------------------------------------------------------
\* The items of an action come in place of the one that was taken.
InPlaceOf(items, name) ==
  /\ TodoOK(items)
  /\ \A i \in 1..Len(items) : \A lower :
       lower # "infixRule" /\ On(name, lower) => On(items[i][1], lower)

LEMMA ChainFor ==
  ASSUME NEW chain, NEW a \in BOOLEAN, NEW b \in BOOLEAN, a <=> b, ChainOK(chain, a)
  PROVE  ChainOK(chain, b)
<1>1. a = b
  OBVIOUS
<1> QED
  BY <1>1

LEMMA HasIsBoolean ==
  ASSUME NEW items, NEW name
  PROVE  Has(items, name) \in BOOLEAN
BY DEF Has

LEMMA RunsOn ==
  ASSUME IInv, NEW name, Doing(name)
  PROVE  /\ Running /\ TodoOK(todo) /\ todo # <<>>
         /\ IsSeq(compilers) /\ Len(compilers) \in Nat /\ Len(compilers) > 0
         /\ \A k \in 1..Len(compilers) : IsCompiler(compilers[k]) /\ InOrder(compilers[k])
         /\ IsCompiler(Current) /\ InOrder(Current)
         /\ DepthsOK(Depths(todo, Endings)) /\ ScopeDepths(compilers) = Depths(todo, Endings)
<1>1. todo # <<>>
  BY DEF Doing
<1>2. Running
  BY <1>1 DEF IInv
<1>3. IsSeq(todo) /\ TodoOK(todo)
  BY <1>2 DEF Running, TodoOK
<1>4. DepthsOK(Depths(todo, Endings)) /\ ScopeDepths(compilers) = Depths(todo, Endings)
  BY <1>2, <1>3, DepthsAreOK DEF Running, Endings, OfLoops
<1>5. IsSeq(compilers)
  BY <1>2 DEF Running, ChainOK
<1>6. Len(compilers) \in Nat /\ Len(compilers) > 0
  <2> DEFINE d == ScopeDepths(compilers)
             n == Len(compilers)
  <2>1. IsSeq(d) /\ Len(d) > 0 /\ n \in Nat
    BY <1>4, <1>5 DEF DepthsOK, IsSeq
  <2>2. DOMAIN d = 1..n
    BY DEF ScopeDepths
  <2>3. DOMAIN d = 1..Len(d)
    BY <2>1, SeqIs
  <2> HIDE DEF d, n
  <2>4. n > 0
    BY <2>1, <2>2, <2>3 DEF IsSeq
  <2> QED
    BY <2>1, <2>4 DEF n
<1>7. \A k \in 1..Len(compilers) : IsCompiler(compilers[k]) /\ InOrder(compilers[k])
  BY <1>2 DEF Running, ChainOK
<1>8. Len(compilers) \in 1..Len(compilers)
  BY <1>6
<1>9. IsCompiler(Current) /\ InOrder(Current)
  BY <1>7, <1>8 DEF Current
<1> QED
  BY <1>1, <1>2, <1>3, <1>4, <1>5, <1>6, <1>7, <1>9

LEMMA RestIs ==
  ASSUME IInv, NEW name, Doing(name), name # "scan"
  PROVE  /\ TodoOK(Tail(todo)) /\ IsSeq(Tail(todo))
         /\ ~ Has(Tail(todo), "infixRule")
         /\ name \notin OfExpressions => ~ Has(Tail(todo), "define")
         /\ DepthsOK(Depths(Tail(todo), Endings))
         /\ Depths(todo, Endings) = After(Depths(Tail(todo), Endings), name, Endings)
<1>1. TodoOK(todo)
  BY RunsOn
<1>2. /\ TodoOK(Tail(todo)) /\ IsSeq(Tail(todo)) /\ todo # <<>> /\ Head(todo)[1] = name
      /\ \A j \in 1..Len(Tail(todo)) : On(name, Tail(todo)[j][1])
  BY <1>1, FirstItem
<1>3. ~ Has(Tail(todo), "infixRule")
  BY <1>2 DEF Has, On
<1>4. name \notin OfExpressions => ~ Has(Tail(todo), "define")
  BY <1>2 DEF Has, On
<1>5. DepthsOK(Depths(Tail(todo), Endings))
  BY <1>2, DepthsAreOK DEF Endings, OfLoops
<1>6. Depths(todo, Endings) = After(Depths(Tail(todo), Endings), name, Endings)
  BY <1>1, <1>2, DepthsTop DEF TodoOK
<1> QED
  BY <1>2, <1>3, <1>4, <1>5, <1>6

\* A chain that may go on with what there is to do now.
Continues(chain, items) ==
  /\ ChainOK(chain, Has(items \o Tail(todo), "define"))
  /\ ScopeDepths(chain) = Depths(items \o Tail(todo), Endings)

LEMMA TodoReplaced ==
  ASSUME IInv, NEW name, Doing(name), name # "scan", NEW items, InPlaceOf(items, name)
  PROVE  /\ TodoOK(items \o Tail(todo))
         /\ Has(items \o Tail(todo), "infixRule") => Has(items, "infixRule")
<1> DEFINE t == Tail(todo)
<1>1. TodoOK(t) /\ IsSeq(t) /\ ~ Has(t, "infixRule")
  BY RestIs
<1>2. \A j \in 1..Len(t) : On(name, t[j][1])
  BY RunsOn, FirstItem
<1>3. TodoOK(items) /\ IsSeq(items)
  BY DEF InPlaceOf, TodoOK
<1> HIDE DEF t
<1>4. AllOn(items, t)
  <2> SUFFICES ASSUME NEW i \in 1..Len(items), NEW j \in 1..Len(t)  PROVE On(items[i][1], t[j][1])
    BY DEF AllOn
  <2>1. t[j][1] # "infixRule"
    BY <1>1 DEF Has
  <2> QED
    BY <1>2, <2>1 DEF InPlaceOf
<1>5. TodoOK(items \o t)
  BY <1>1, <1>3, <1>4, TodoOver
<1>6. Has(items \o t, "infixRule") => Has(items, "infixRule")
  BY <1>1, <1>3, HasOver
<1> QED
  BY <1>5, <1>6 DEF t

LEMMA Reported ==
  ASSUME IInv, NEW error, Report(error)
  PROVE  hadError' \in BOOLEAN /\ panicMode' \in BOOLEAN /\ (panicMode' => hadError')
BY DEF IInv, Report

LEMMA Stays ==
  ASSUME IInv, NEW name, Doing(name), name # "scan", NEW items, InPlaceOf(items, name),
         ~ Has(items, "infixRule"), NEW chain, Continues(chain, items), NEW error,
         Staying(chain, error, items)
  PROVE  IInv'
<1>1. compilers' = chain /\ Report(error) /\ todo' = items \o Tail(todo)
  BY DEF Staying
<1>2. TodoOK(items \o Tail(todo)) /\ ~ Has(items \o Tail(todo), "infixRule")
  BY TodoReplaced
<1>3. TodoOK(todo') /\ ~ Has(todo', "infixRule")
  BY <1>1, <1>2
<1>4. ChainOK(compilers', Has(todo', "define")) /\ ScopeDepths(compilers') = Depths(todo', Endings)
  BY <1>1 DEF Continues
<1>5. Running'
  BY <1>3, <1>4 DEF Running
<1>6. hadError' \in BOOLEAN /\ panicMode' \in BOOLEAN /\ (panicMode' => hadError')
  BY <1>1, Reported
<1> QED
  BY <1>5, <1>6 DEF IInv

LEMMA ScanIs ==
  /\ IsSeq(<<Scan>>) /\ Len(<<Scan>>) = 1 /\ <<Scan>>[1][1] = "scan" /\ ItemOK(Scan)
  /\ TodoOK(<<Scan>>)
  /\ \A name : Has(<<Scan>>, name) <=> name = "scan"
<1> DEFINE s == <<Scan>>
<1>1. s \in Seq({Scan}) /\ Len(s) = 1 /\ s[1] = Scan
  OBVIOUS
<1>2. Scan[1] = "scan"
  BY DEF Scan
<1>3. ItemOK(Scan)
  BY <1>2 DEF ItemOK
<1>4. IsSeq(s)
  BY <1>1, IsOne
<1> HIDE DEF s
<1>5. TodoOK(s)
  BY <1>1, <1>3, <1>4 DEF TodoOK
<1>6. \A name : Has(s, name) <=> name = "scan"
  BY <1>1, <1>2 DEF Has
<1> QED
  BY <1>1, <1>2, <1>3, <1>4, <1>5, <1>6 DEF s

LEMMA ScanOver ==
  ASSUME NEW items, TodoOK(items)
  PROVE  /\ TodoOK(<<Scan>> \o items)
         /\ \A n : n # "scan" => (Has(<<Scan>> \o items, n) <=> Has(items, n))
         /\ Depths(<<Scan>> \o items, Endings) = Depths(items, Endings)
<1> DEFINE s == <<Scan>>
<1>1. /\ IsSeq(s) /\ Len(s) = 1 /\ s[1][1] = "scan" /\ TodoOK(s)
      /\ \A name : Has(s, name) <=> name = "scan"
  BY ScanIs
<1>2. IsSeq(items)
  BY DEF TodoOK
<1> HIDE DEF s
<1>3. AllOn(s, items)
  <2>1. \A i \in 1..Len(s) : s[i][1] = "scan"
    BY <1>1
  <2> QED
    BY <2>1 DEF AllOn, On, OfExpressions
<1>4. TodoOK(s \o items)
  BY <1>1, <1>3, TodoOver
<1>5. \A n : n # "scan" => (Has(s \o items, n) <=> Has(items, n))
  BY <1>1, <1>2, HasOver
<1>6. Depths(s \o items, Endings) = Depths(items, Endings)
  <2>1. \A i \in 1..Len(s) : s[i][1] = "scan"
    BY <1>1
  <2>2. \A d : After(d, "scan", Endings) = d
    BY DEF After, Endings, OfLoops
  <2>3. Quiet(s, Len(s), Endings)
    BY <2>1, <2>2 DEF Quiet
  <2> QED
    BY <1>1, <1>2, <2>3, DepthsOverNone
<1> QED
  BY <1>4, <1>5, <1>6 DEF s

LEMMA Advances ==
  ASSUME IInv, NEW name, Doing(name), name # "scan", NEW items, InPlaceOf(items, name),
         Has(items, "infixRule") => Precedence(current) > 0,
         NEW chain, Continues(chain, items), NEW error, Advancing(chain, error, items)
  PROVE  IInv'
<1> DEFINE u == items \o Tail(todo)
<1>1. compilers' = chain /\ Report(error) /\ todo' = <<Scan>> \o items \o Tail(todo) /\ previous' = current
  BY DEF Advancing
<1>2. TodoOK(u) /\ (Has(u, "infixRule") => Has(items, "infixRule"))
  BY TodoReplaced
<1>3. <<Scan>> \o items \o Tail(todo) = <<Scan>> \o u
  <2> DEFINE s == <<Scan>>
             t == Tail(todo)
             S == Elements(s) \cup Elements(items) \cup Elements(t)
  <2>1. IsSeq(s) /\ IsSeq(items) /\ IsSeq(t)
    BY ScanIs, RestIs DEF InPlaceOf, TodoOK
  <2> HIDE DEF s, t
  <2>2. s \in Seq(S) /\ items \in Seq(S) /\ t \in Seq(S)
    BY <2>1, SeqIs, SeqMonotonic
  <2> HIDE DEF S
  <2>3. (s \o items) \o t = s \o (items \o t)
    BY <2>2, ConcatAssociative
  <2> QED
    BY <2>3 DEF s, t
<1>4. ChainOK(chain, Has(u, "define")) /\ ScopeDepths(chain) = Depths(u, Endings)
  BY DEF Continues
<1> HIDE DEF u
<1> DEFINE w == <<Scan>> \o u
<1>5. /\ TodoOK(w) /\ (Has(w, "infixRule") => Has(u, "infixRule"))
      /\ (Has(w, "define") <=> Has(u, "define"))
      /\ Depths(w, Endings) = Depths(u, Endings)
  BY <1>2, ScanOver
<1> HIDE DEF w
<1>6. ChainOK(chain, Has(w, "define"))
  <2>1. Has(w, "define") \in BOOLEAN /\ Has(u, "define") \in BOOLEAN
    BY HasIsBoolean
  <2> QED
    BY <1>4, <1>5, <2>1, ChainFor
<1>7. todo' = w
  BY <1>1, <1>3 DEF w
<1>8. TodoOK(todo') /\ (Has(todo', "infixRule") => Precedence(previous') > 0)
  BY <1>1, <1>2, <1>5, <1>7
<1>9. ChainOK(compilers', Has(todo', "define")) /\ ScopeDepths(compilers') = Depths(todo', Endings)
  BY <1>1, <1>4, <1>5, <1>6, <1>7
<1>10. Running'
  BY <1>8, <1>9 DEF Running
<1>11. hadError' \in BOOLEAN /\ panicMode' \in BOOLEAN /\ (panicMode' => hadError')
  BY <1>1, Reported
<1> QED
  BY <1>10, <1>11 DEF IInv

----------------------------------------------------------------------------
\* Items that open nothing and wait for nothing.
MayReplace(upper, name) ==
  /\ upper \notin {"define", "infixRule", "endFunction"} \cup Endings
  /\ name \in OfExpressions => upper \in OfExpressions
  /\ name \in OfVariables => upper \in OfExpressions \cup OfVariables

Fits(item, name) == ItemOK(item) /\ MayReplace(item[1], name)

PlainItems(items, name) == IsSeq(items) /\ \A i \in 1..Len(items) : Fits(items[i], name)

LEMMA PlainIs ==
  ASSUME NEW items, NEW name, PlainItems(items, name)
  PROVE  /\ InPlaceOf(items, name) /\ IsSeq(items)
         /\ ~ Has(items, "infixRule") /\ ~ Has(items, "define")
         /\ Quiet(items, Len(items), Endings)
<1> USE DEF PlainItems, Fits, MayReplace
<1>1. IsSeq(items) /\ \A i \in 1..Len(items) : ItemOK(items[i])
  OBVIOUS
<1>2. ~ Has(items, "infixRule") /\ ~ Has(items, "define")
  BY DEF Has
<1>3. Quiet(items, Len(items), Endings)
  <2> SUFFICES ASSUME NEW i \in 1..Len(items), NEW d  PROVE After(d, items[i][1], Endings) = d
    BY DEF Quiet
  <2>1. items[i][1] # "endFunction" /\ items[i][1] \notin Endings
    OBVIOUS
  <2> QED
    BY <2>1 DEF After
<1>4. TodoOK(items)
  <2>1. \A i, j \in 1..Len(items) : On(items[i][1], items[j][1])
    BY DEF On, Endings
  <2> QED
    BY <1>1, <2>1 DEF TodoOK
<1>5. InPlaceOf(items, name)
  <2> SUFFICES ASSUME NEW i \in 1..Len(items), NEW lower, lower # "infixRule", On(name, lower)
               PROVE  On(items[i][1], lower)
    BY <1>4 DEF InPlaceOf
  <2>1. MayReplace(items[i][1], name)
    OBVIOUS
  <2> QED
    BY <2>1 DEF On
<1> QED
  BY <1>1, <1>2, <1>3, <1>5

\* A chain that differs in nothing that scopes are about.
LikeNow(chain) ==
  ChainOK(chain, Has(todo, "define")) /\ ScopeDepths(chain) = ScopeDepths(compilers)

LEMMA Unchanged ==
  ASSUME IInv, NEW name, Doing(name)
  PROVE  LikeNow(compilers)
BY RunsOn DEF LikeNow, Running

LEMMA Written ==
  ASSUME IInv, NEW name, Doing(name), NEW e, Alike(Current, e)
  PROVE  LikeNow(With(e))
<1>1. ChainOK(compilers, Has(todo, "define")) /\ Len(compilers) > 0
  BY RunsOn DEF Running
<1>2. Has(todo, "define") \in BOOLEAN
  BY HasIsBoolean
<1> DEFINE defining == Has(todo, "define")
<1> HIDE DEF defining
<1>3. ChainOK(compilers, defining) /\ Alike(compilers[Len(compilers)], e)
  BY <1>1 DEF defining, Current
<1>4. ChainOK(With(e), defining) /\ ScopeDepths(With(e)) = ScopeDepths(compilers)
  BY <1>1, <1>3, AlikeLast DEF With
<1> QED
  BY <1>4 DEF LikeNow, defining

Opens == {"scan", "define", "endFunction"} \cup Endings

LEMMA QuietContinues ==
  ASSUME IInv, NEW name, Doing(name), name \notin Opens, NEW items, IsSeq(items),
         ~ Has(items, "define"), Quiet(items, Len(items), Endings), NEW chain, LikeNow(chain)
  PROVE  Continues(chain, items)
<1> DEFINE t == Tail(todo)
<1>1. IsSeq(t) /\ Depths(todo, Endings) = After(Depths(t, Endings), name, Endings)
  BY RestIs DEF Opens
<1>2. Depths(todo, Endings) = Depths(t, Endings)
  BY <1>1 DEF After, Opens
<1>4. Depths(items \o t, Endings) = Depths(t, Endings)
  BY <1>1, DepthsOverNone
<1>5. Has(todo, "define") <=> Has(t, "define")
  BY RunsOn, FirstItem DEF Opens
<1>6. Has(items \o t, "define") <=> Has(t, "define")
  BY <1>1, HasOver
<1>7. ScopeDepths(chain) = Depths(items \o t, Endings)
  BY <1>2, <1>4, RunsOn DEF LikeNow
<1>8. ChainOK(chain, Has(items \o t, "define"))
  <2>1. Has(items \o t, "define") \in BOOLEAN /\ Has(todo, "define") \in BOOLEAN
    BY HasIsBoolean
  <2>2. Has(todo, "define") <=> Has(items \o t, "define")
    BY <1>5, <1>6
  <2>3. ChainOK(chain, Has(todo, "define"))
    BY DEF LikeNow
  <2> HIDE DEF t
  <2> QED
    BY <2>1, <2>2, <2>3, ChainFor
<1> QED
  BY <1>7, <1>8 DEF Continues

LEMMA PlainContinues ==
  ASSUME IInv, NEW name, Doing(name), name \notin Opens, NEW items, PlainItems(items, name),
         NEW chain, LikeNow(chain)
  PROVE  Continues(chain, items)
BY PlainIs, QuietContinues

LEMMA PlainStays ==
  ASSUME IInv, NEW name, Doing(name), name \notin Opens, NEW items, PlainItems(items, name),
         NEW chain, LikeNow(chain), NEW error, Staying(chain, error, items)
  PROVE  IInv'
<1>1. Continues(chain, items)
  BY PlainContinues
<1>2. InPlaceOf(items, name) /\ ~ Has(items, "infixRule") /\ name # "scan"
  BY PlainIs DEF Opens
<1> QED
  BY <1>1, <1>2, Stays

LEMMA PlainAdvances ==
  ASSUME IInv, NEW name, Doing(name), name \notin Opens, NEW items, PlainItems(items, name),
         NEW chain, LikeNow(chain), NEW error, Advancing(chain, error, items)
  PROVE  IInv'
<1>1. Continues(chain, items)
  BY PlainContinues
<1>2. InPlaceOf(items, name) /\ ~ Has(items, "infixRule") /\ name # "scan"
  BY PlainIs DEF Opens
<1> QED
  BY <1>1, <1>2, Advances

----------------------------------------------------------------------------
\* Short lists of items
LEMMA NoItems ==
  ASSUME NEW name
  PROVE  PlainItems(<<>>, name)
BY EmptyIs DEF PlainItems

LEMMA OneItem ==
  ASSUME NEW name, NEW a, Fits(a, name)
  PROVE  PlainItems(<<a>>, name)
<1> DEFINE s == <<a>>
<1>1. s \in Seq({a}) /\ Len(s) = 1 /\ s[1] = a
  OBVIOUS
<1> HIDE DEF s
<1>2. IsSeq(s) /\ \A i \in 1..Len(s) : i = 1
  BY <1>1, IsOne
<1> QED
  BY <1>1, <1>2 DEF PlainItems, s

LEMMA TwoItems ==
  ASSUME NEW name, NEW a, NEW b, Fits(a, name), Fits(b, name)
  PROVE  PlainItems(<<a, b>>, name)
<1> DEFINE s == <<a, b>>
<1>1. s \in Seq({a, b}) /\ Len(s) = 2 /\ s[1] = a /\ s[2] = b
  OBVIOUS
<1> HIDE DEF s
<1>2. IsSeq(s) /\ \A i \in 1..Len(s) : i = 1 \/ i = 2
  BY <1>1, IsOne
<1> QED
  BY <1>1, <1>2 DEF PlainItems, s

LEMMA ThreeItems ==
  ASSUME NEW name, NEW a, NEW b, NEW c, Fits(a, name), Fits(b, name), Fits(c, name)
  PROVE  PlainItems(<<a, b, c>>, name)
<1> DEFINE s == <<a, b, c>>
<1>1. s \in Seq({a, b, c}) /\ Len(s) = 3 /\ s[1] = a /\ s[2] = b /\ s[3] = c
  OBVIOUS
<1> HIDE DEF s
<1>2. IsSeq(s) /\ \A i \in 1..Len(s) : i = 1 \/ i = 2 \/ i = 3
  BY <1>1, IsOne
<1> QED
  BY <1>1, <1>2 DEF PlainItems, s

LEMMA FourItems ==
  ASSUME NEW name, NEW a, NEW b, NEW c, NEW d,
         Fits(a, name), Fits(b, name), Fits(c, name), Fits(d, name)
  PROVE  PlainItems(<<a, b, c, d>>, name)
<1> DEFINE s == <<a, b, c, d>>
<1>1. s \in Seq({a, b, c, d}) /\ Len(s) = 4 /\ s[1] = a /\ s[2] = b /\ s[3] = c /\ s[4] = d
  OBVIOUS
<1> HIDE DEF s
<1>2. IsSeq(s) /\ \A i \in 1..Len(s) : i = 1 \/ i = 2 \/ i = 3 \/ i = 4
  BY <1>1, IsOne
<1> QED
  BY <1>1, <1>2 DEF PlainItems, s

LEMMA JoinedItems ==
  ASSUME NEW name, NEW a, PlainItems(a, name), NEW b, PlainItems(b, name)
  PROVE  PlainItems(a \o b, name)
<1> DEFINE u == a \o b
           m == Len(a)
           r == Len(b)
<1>1. /\ IsSeq(u) /\ Len(u) = m + r /\ m \in Nat /\ r \in Nat
      /\ \A i \in 1..m : u[i] = a[i]
      /\ \A i \in 1..r : u[m + i] = b[i]
  BY ConcatIs DEF PlainItems, IsSeq
<1> HIDE DEF u
<1>2. ASSUME NEW i \in 1..Len(u)  PROVE Fits(u[i], name)
  <2>1. CASE i <= m
    <3>1. i \in 1..m
      BY <1>1, <2>1
    <3> QED
      BY <1>1, <3>1 DEF PlainItems
  <2>2. CASE i > m
    <3> DEFINE k == i - m
    <3>1. k \in 1..r /\ i = m + k
      BY <1>1, <2>2
    <3> HIDE DEF k
    <3> QED
      BY <1>1, <3>1 DEF PlainItems
  <2> QED
    BY <1>1, <2>1, <2>2
<1>3. PlainItems(u, name)
  BY <1>1, <1>2 DEF PlainItems
<1> QED
  BY <1>3 DEF u

\* The items of expressions fit everywhere.
LEMMA ExpressionItems ==
  ASSUME NEW name
  PROVE  /\ \A x : Fits(<<"consume", x>>, name)
         /\ \A x \in Seq(ByteValue) : Fits(<<"emit", x>>, name)
         /\ \A x \in Int : Fits(<<"patch", x>>, name) /\ Fits(<<"loop", x>>, name)
         /\ \A x \in Nat : x > 0 => /\ Fits(<<"precedence", x>>, name) /\ Fits(<<"prefix", x>>, name)
                                    /\ Fits(<<"infix", x>>, name)
         /\ \A x \in ByteIndex : Fits(<<"argument", x>>, name)
         /\ Fits(<<"arguments">>, name) /\ Fits(Expression, name)
<1> USE DEF Fits, MayReplace, ItemOK, Endings, OfLoops, OfExpressions
<1>1. \A x : Fits(<<"consume", x>>, name)
  OBVIOUS
<1>2. \A x \in Seq(ByteValue) : Fits(<<"emit", x>>, name)
  OBVIOUS
<1>3. \A x \in Int : Fits(<<"patch", x>>, name) /\ Fits(<<"loop", x>>, name)
  OBVIOUS
<1>4. \A x \in Nat : x > 0 => /\ Fits(<<"precedence", x>>, name) /\ Fits(<<"prefix", x>>, name)
                              /\ Fits(<<"infix", x>>, name)
  OBVIOUS
<1>5. \A x \in ByteIndex : Fits(<<"argument", x>>, name)
  OBVIOUS
<1>6. Fits(<<"arguments">>, name)
  OBVIOUS
<1>7. Fits(Expression, name)
  BY DEF Expression, PREC
<1> QED
  BY <1>1, <1>2, <1>3, <1>4, <1>5, <1>6, <1>7

\* The other items fit where they may declare.
LEMMA StatementItems ==
  ASSUME NEW name, name \notin OfExpressions \cup OfVariables
  PROVE  /\ Fits(<<"fun">>, name) /\ Fits(<<"var">>, name) /\ Fits(<<"recover">>, name)
         /\ Fits(<<"declaration">>, name) /\ Fits(<<"program">>, name) /\ Fits(<<"endCompiler">>, name)
         /\ Fits(<<"synchronize">>, name) /\ Fits(<<"statement">>, name) /\ Fits(<<"block">>, name)
         /\ Fits(<<"parameters">>, name) /\ Fits(<<"parameter">>, name) /\ Fits(<<"parameterName">>, name)
         /\ Fits(<<"forInitializer">>, name) /\ Fits(<<"then">>, name) /\ Fits(<<"return">>, name)
         /\ \A x \in Int : Fits(<<"else", x>>, name) /\ Fits(<<"whileBody", x>>, name)
<1> USE DEF Fits, MayReplace, ItemOK, Endings, OfLoops
<1>1. /\ Fits(<<"fun">>, name) /\ Fits(<<"var">>, name) /\ Fits(<<"recover">>, name)
      /\ Fits(<<"declaration">>, name) /\ Fits(<<"program">>, name) /\ Fits(<<"endCompiler">>, name)
  OBVIOUS
<1>2. /\ Fits(<<"synchronize">>, name) /\ Fits(<<"statement">>, name) /\ Fits(<<"block">>, name)
      /\ Fits(<<"parameters">>, name) /\ Fits(<<"parameter">>, name) /\ Fits(<<"parameterName">>, name)
  OBVIOUS
<1>3. Fits(<<"forInitializer">>, name) /\ Fits(<<"then">>, name) /\ Fits(<<"return">>, name)
  OBVIOUS
<1>4. \A x \in Int : Fits(<<"else", x>>, name) /\ Fits(<<"whileBody", x>>, name)
  OBVIOUS
<1> QED
  BY <1>1, <1>2, <1>3, <1>4

----------------------------------------------------------------------------
\* Tokens and instructions
LEMMA ArgumentsAre ==
  ASSUME IInv, NEW name, Doing(name)
  PROVE  /\ name = "emit" => Argument(1) \in Seq(ByteValue)
         /\ name \in {"patch", "loop", "else", "whileBody", "forExit", "forIncrement"} =>
              Argument(1) \in Int
         /\ name \in {"precedence", "prefix", "infix"} => Argument(1) \in Nat /\ Argument(1) > 0
         /\ name \in {"argument", "define", "endFunction"} => Argument(1) \in ByteIndex
<1>1. ItemOK(Head(todo)) /\ Head(todo)[1] = name
  BY RunsOn, FirstItem
<1>2. Argument(1) = Head(todo)[2]
  BY DEF Argument
<1> QED
  BY <1>1, <1>2 DEF ItemOK

LEMMA ScanTokenStep ==
  ASSUME IInv, ScanToken
  PROVE  IInv'
<1> DEFINE t == Tail(todo)
<1>1. Doing("scan")
  BY DEF ScanToken
<1>2. PICK token : Report(token = Error) /\ todo' = IF token = Error THEN todo ELSE t
  BY DEF ScanToken
<1>3. compilers' = compilers /\ previous' = previous
  BY DEF ScanToken
<1>4. hadError' \in BOOLEAN /\ panicMode' \in BOOLEAN /\ (panicMode' => hadError')
  <2> DEFINE error == token = Error
  <2>1. Report(error)
    BY <1>2
  <2> HIDE DEF error
  <2> QED
    BY <2>1, Reported
<1>5. Running
  BY <1>1, RunsOn
<1>6. CASE token = Error
  <2>1. todo' = todo
    BY <1>2, <1>6
  <2>2. Running'
    BY <1>3, <1>5, <2>1 DEF Running
  <2> QED
    BY <1>4, <2>2 DEF IInv
<1>7. CASE token # Error
  <2>1. todo' = t
    BY <1>2, <1>7
  <2>2. /\ TodoOK(t) /\ IsSeq(t) /\ todo # <<>> /\ Head(todo)[1] = "scan"
        /\ \A n : Has(todo, n) <=> "scan" = n \/ Has(t, n)
    BY <1>1, <1>5, FirstItem DEF Running
  <2>3. Depths(todo, Endings) = Depths(t, Endings)
    <3>1. Depths(todo, Endings) = After(Depths(t, Endings), "scan", Endings)
      BY <1>5, <2>2, DepthsTop DEF Running, TodoOK
    <3> QED
      BY <3>1 DEF After, Endings, OfLoops
  <2>4. ChainOK(compilers, Has(t, "define"))
    <3>1. Has(t, "define") \in BOOLEAN /\ Has(todo, "define") \in BOOLEAN
      BY HasIsBoolean
    <3>2. Has(todo, "define") <=> Has(t, "define")
      BY <2>2
    <3>3. ChainOK(compilers, Has(todo, "define"))
      BY <1>5 DEF Running
    <3> HIDE DEF t
    <3> QED
      BY <3>1, <3>2, <3>3, ChainFor
  <2>5. Has(t, "infixRule") => Precedence(previous) > 0
    BY <1>5, <2>2 DEF Running
  <2>6. TodoOK(todo') /\ (Has(todo', "infixRule") => Precedence(previous') > 0)
    BY <1>3, <2>1, <2>2, <2>5
  <2>7. ChainOK(compilers', Has(todo', "define")) /\ ScopeDepths(compilers') = Depths(todo', Endings)
    BY <1>3, <1>5, <2>1, <2>3, <2>4 DEF Running
  <2>8. Running'
    BY <2>6, <2>7 DEF Running
  <2> QED
    BY <1>4, <2>8 DEF IInv
<1> QED
  BY <1>6, <1>7

LEMMA ConsumeStep ==
  ASSUME IInv, Consume
  PROVE  IInv'
<1>1. Doing("consume") /\ "consume" \notin Opens
  BY DEF Consume, Opens, Endings, OfLoops
<1>2. PlainItems(<<>>, "consume") /\ LikeNow(compilers)
  BY <1>1, NoItems, Unchanged
<1>3. Advancing(compilers, FALSE, <<>>) \/ Staying(compilers, TRUE, <<>>)
  BY DEF Consume
<1>4. ASSUME Advancing(compilers, FALSE, <<>>)  PROVE IInv'
  BY <1>1, <1>2, <1>4, PlainAdvances
<1>5. ASSUME Staying(compilers, TRUE, <<>>)  PROVE IInv'
  BY <1>1, <1>2, <1>5, PlainStays
<1> QED
  BY <1>3, <1>4, <1>5

LEMMA EmitStep ==
  ASSUME IInv, EmitBytes
  PROVE  IInv'
<1> DEFINE e == Emit(Current, Argument(1))
<1>1. Doing("emit") /\ "emit" \notin Opens /\ Staying(With(e), FALSE, <<>>)
  BY DEF EmitBytes, Opens, Endings, OfLoops
<1>2. Alike(Current, e)
  BY <1>1, RunsOn, ArgumentsAre, EmitIs
<1> HIDE DEF e
<1>3. PlainItems(<<>>, "emit") /\ LikeNow(With(e))
  BY <1>1, <1>2, NoItems, Written
<1> QED
  BY <1>1, <1>3, PlainStays

LEMMA PatchStep ==
  ASSUME IInv, Patch
  PROVE  IInv'
<1> DEFINE patched == PatchJump(Current, Argument(1))
<1>1. Doing("patch") /\ "patch" \notin Opens /\ Staying(With(patched.compiler), patched.error, <<>>)
  BY DEF Patch, Opens, Endings, OfLoops
<1>2. Alike(Current, patched.compiler)
  BY <1>1, RunsOn, ArgumentsAre, PatchJumpIs
<1> HIDE DEF patched
<1>3. PlainItems(<<>>, "patch") /\ LikeNow(With(patched.compiler))
  BY <1>1, <1>2, NoItems, Written
<1> QED
  BY <1>1, <1>3, PlainStays

LEMMA LoopStep ==
  ASSUME IInv, Loop
  PROVE  IInv'
<1> DEFINE looped == EmitLoop(Current, Argument(1))
<1>1. Doing("loop") /\ "loop" \notin Opens /\ Staying(With(looped.compiler), looped.error, <<>>)
  BY DEF Loop, Opens, Endings, OfLoops
<1>2. Alike(Current, looped.compiler)
  BY <1>1, RunsOn, ArgumentsAre, EmitLoopIs
<1> HIDE DEF looped
<1>3. PlainItems(<<>>, "loop") /\ LikeNow(With(looped.compiler))
  BY <1>1, <1>2, NoItems, Written
<1> QED
  BY <1>1, <1>3, PlainStays

----------------------------------------------------------------------------
\* Expressions
LEMMA ParsePrecedenceStep ==
  ASSUME IInv, ParsePrecedence
  PROVE  IInv'
<1> DEFINE items == << <<"prefix", Argument(1)>> >>
<1>1. Doing("precedence") /\ "precedence" \notin Opens /\ Advancing(compilers, FALSE, items)
  BY DEF ParsePrecedence, Opens, Endings, OfLoops
<1>2. Fits(<<"prefix", Argument(1)>>, "precedence")
  BY <1>1, ArgumentsAre, ExpressionItems
<1>3. PlainItems(items, "precedence") /\ LikeNow(compilers)
  BY <1>1, <1>2, OneItem, Unchanged
<1> HIDE DEF items
<1> QED
  BY <1>1, <1>3, PlainAdvances

LEMMA ArgumentsStep ==
  ASSUME IInv, Arguments
  PROVE  IInv'
<1> DEFINE none == << <<"consume", ")">>, <<"emit", <<Op.CALL, 0>> >> >>
           some == <<Expression, <<"argument", 0>> >>
           name == "arguments"
<1>1. Doing(name) /\ name \notin Opens
  BY DEF Arguments, Opens, Endings, OfLoops
<1>2. Staying(compilers, FALSE, none) \/ Staying(compilers, FALSE, some)
  BY DEF Arguments
<1>3. <<Op.CALL, 0>> \in Seq(ByteValue) /\ 0 \in ByteIndex
  BY OpcodesAreBytes, IndexesAreBytes, BytesAre
<1>4. PlainItems(none, name)
  BY <1>3, ExpressionItems, TwoItems
<1>5. PlainItems(some, name)
  BY <1>3, ExpressionItems, TwoItems
<1>6. LikeNow(compilers)
  BY <1>1, Unchanged
<1> HIDE DEF none, some
<1> QED
  BY <1>1, <1>2, <1>4, <1>5, <1>6, PlainStays

LEMMA NextArgumentStep ==
  ASSUME IInv, NextArgument
  PROVE  IInv'
<1> DEFINE full     == Argument(1) = ByteCount - 1
           argCount == IF full THEN Argument(1) ELSE Argument(1) + 1
           more     == <<Expression, <<"argument", argCount>> >>
           last     == << <<"consume", ")">>, <<"emit", <<Op.CALL, argCount>> >> >>
           name     == "argument"
<1>1. Doing(name) /\ name \notin Opens
  BY DEF NextArgument, Opens, Endings, OfLoops
<1>2. Advancing(compilers, full, more) \/ Staying(compilers, full, last)
  BY DEF NextArgument
<1>3. argCount \in ByteIndex
  <2>1. Argument(1) \in ByteIndex
    BY <1>1, ArgumentsAre
  <2> QED
    BY <2>1, ByteAssumption DEF ByteIndex
<1> HIDE DEF argCount, full
<1>4. <<Op.CALL, argCount>> \in Seq(ByteValue)
  BY <1>3, OpcodesAreBytes, IndexesAreBytes, BytesAre
<1>5. PlainItems(more, name)
  BY <1>3, ExpressionItems, TwoItems
<1>6. PlainItems(last, name)
  BY <1>4, ExpressionItems, TwoItems
<1>7. LikeNow(compilers)
  BY <1>1, Unchanged
<1> HIDE DEF more, last
<1>8. ASSUME Advancing(compilers, full, more)  PROVE IInv'
  BY <1>1, <1>5, <1>7, <1>8, PlainAdvances
<1>9. ASSUME Staying(compilers, full, last)  PROVE IInv'
  BY <1>1, <1>6, <1>7, <1>9, PlainStays
<1> QED
  BY <1>2, <1>8, <1>9

LEMMA InfixStep ==
  ASSUME IInv, Infix
  PROVE  IInv'
<1> DEFINE items == << <<"infixRule">>, Head(todo)>>
           name  == "infix"
<1>1. Doing(name) /\ name \notin Opens
  BY DEF Infix, Opens, Endings, OfLoops
<1>2. \/ Argument(1) <= Precedence(current) /\ Advancing(compilers, FALSE, items)
      \/ Staying(compilers, FALSE, <<>>)
  BY DEF Infix
<1>3. LikeNow(compilers) /\ PlainItems(<<>>, name)
  BY <1>1, Unchanged, NoItems
<1>4. ASSUME Argument(1) <= Precedence(current), Advancing(compilers, FALSE, items)
      PROVE  IInv'
  <2>1. Precedence(current) > 0
    <3>1. Argument(1) \in Nat /\ Argument(1) > 0
      BY <1>1, ArgumentsAre
    <3>2. Precedence(current) \in Nat
      BY PrecedenceIs
    <3> QED
      BY <1>4, <3>1, <3>2
  <2>2. /\ IsSeq(items) /\ Len(items) = 2
        /\ items[1] = <<"infixRule">> /\ items[2] = Head(todo)
    <3> DEFINE S == {<<"infixRule">>, Head(todo)}
    <3>1. /\ items \in Seq(S) /\ Len(items) = 2
          /\ items[1] = <<"infixRule">> /\ items[2] = Head(todo)
      OBVIOUS
    <3> HIDE DEF items, S
    <3> QED
      BY <3>1, IsOne
  <2> HIDE DEF items
  <2>3. items[1][1] = "infixRule" /\ items[2][1] = "infix" /\ ItemOK(items[1]) /\ ItemOK(items[2])
    <3>1. ItemOK(Head(todo)) /\ Head(todo)[1] = name
      BY <1>1, RunsOn, FirstItem
    <3>2. ItemOK(<<"infixRule">>) /\ <<"infixRule">>[1] = "infixRule"
      BY DEF ItemOK
    <3> QED
      BY <2>2, <3>1, <3>2
  <2>4. \A i \in 1..Len(items) : i = 1 \/ i = 2
    BY <2>2
  <2>5. TodoOK(items)
    <3>1. \A i, j \in 1..Len(items) : i < j => i = 1 /\ j = 2
      BY <2>2
    <3>2. On("infixRule", "infix")
      BY DEF On, OfLoops
    <3>3. \A i, j \in 1..Len(items) : i < j => On(items[i][1], items[j][1])
      BY <2>3, <3>1, <3>2
    <3> QED
      BY <2>2, <2>3, <2>4, <3>3 DEF TodoOK
  <2>6. InPlaceOf(items, name)
    <3>1. \A lower : On("infixRule", lower) \/ lower = "infixRule"
      BY DEF On, OfExpressions
    <3>2. \A lower : On("infix", lower) \/ lower = "infixRule"
      BY DEF On, OfExpressions
    <3> QED
      BY <2>3, <2>4, <2>5, <3>1, <3>2 DEF InPlaceOf
  <2>7. ~ Has(items, "define") /\ Quiet(items, Len(items), Endings)
    <3>1. \A i \in 1..Len(items) : items[i][1] \in {"infixRule", "infix"}
      BY <2>3, <2>4
    <3>2. \A x \in {"infixRule", "infix"} : x # "define" /\ \A d : After(d, x, Endings) = d
      BY DEF After, Endings, OfLoops
    <3> QED
      BY <3>1, <3>2 DEF Has, Quiet
  <2>8. Continues(compilers, items)
    BY <1>1, <1>3, <2>2, <2>7, QuietContinues
  <2>9. name # "scan"
    OBVIOUS
  <2> QED
    BY <1>1, <1>4, <2>1, <2>6, <2>8, <2>9, Advances
<1>5. ASSUME Staying(compilers, FALSE, <<>>)  PROVE IInv'
  BY <1>1, <1>3, <1>5, PlainStays
<1> QED
  BY <1>2, <1>4, <1>5

LEMMA AndRuleStep ==
  ASSUME IInv, Doing("infixRule"), AndRule
  PROVE  IInv'
<1> DEFINE jumped == EmitJump(Current, Op.JUMP_IF_FALSE)
           e      == Emit(jumped, <<Op.POP>>)
           items  == << <<"precedence", PREC.AND>>, <<"patch", Operand(jumped)>> >>
           name   == "infixRule"
<1>1. name \notin Opens /\ Staying(With(e), FALSE, items)
  BY DEF AndRule, Opens, Endings, OfLoops
<1>2. Alike(Current, jumped) /\ Operand(jumped) \in Int
  BY RunsOn, EmitJumpIs, OpcodesAreBytes
<1> HIDE DEF jumped
<1>3. Alike(jumped, e)
  <2>1. <<Op.POP>> \in Seq(ByteValue) /\ IsCompiler(jumped)
    BY <1>2, BytesAre, OpcodesAreBytes DEF Alike
  <2> QED
    BY <2>1, EmitIs
<1>4. PREC.AND \in Nat /\ PREC.AND > 0
  BY DEF PREC
<1>5. PlainItems(items, name)
  BY <1>2, <1>4, ExpressionItems, TwoItems
<1> HIDE DEF e, items
<1>6. LikeNow(With(e))
  BY <1>2, <1>3, AlikeTwice, Written
<1> QED
  BY <1>1, <1>5, <1>6, PlainStays

LEMMA OrRuleStep ==
  ASSUME IInv, Doing("infixRule"), OrRule
  PROVE  IInv'
<1> DEFINE elseJump == EmitJump(Current, Op.JUMP_IF_FALSE)
           endJump  == EmitJump(elseJump, Op.JUMP)
           patched  == PatchJump(endJump, Operand(elseJump))
           e        == Emit(patched.compiler, <<Op.POP>>)
           items    == << <<"precedence", PREC.OR>>, <<"patch", Operand(endJump)>> >>
           name     == "infixRule"
<1>1. name \notin Opens /\ Staying(With(e), patched.error, items)
  BY DEF OrRule, Opens, Endings, OfLoops
<1>2. Alike(Current, elseJump) /\ Operand(elseJump) \in Int
  BY RunsOn, EmitJumpIs, OpcodesAreBytes
<1> HIDE DEF elseJump
<1>3. Alike(elseJump, endJump) /\ Operand(endJump) \in Int
  <2>1. IsCompiler(elseJump) /\ Op.JUMP \in ByteValue
    BY <1>2, OpcodesAreBytes DEF Alike
  <2> QED
    BY <2>1, EmitJumpIs
<1> HIDE DEF endJump
<1>4. Alike(endJump, patched.compiler)
  <2>1. IsCompiler(endJump)
    BY <1>3 DEF Alike
  <2> QED
    BY <1>2, <2>1, PatchJumpIs
<1> HIDE DEF patched
<1>5. Alike(patched.compiler, e)
  <2>1. <<Op.POP>> \in Seq(ByteValue) /\ IsCompiler(patched.compiler)
    BY <1>4, BytesAre, OpcodesAreBytes DEF Alike
  <2> QED
    BY <2>1, EmitIs
<1>6. PREC.OR \in Nat /\ PREC.OR > 0
  BY DEF PREC
<1>7. PlainItems(items, name)
  BY <1>3, <1>6, ExpressionItems, TwoItems
<1> HIDE DEF e, items
<1>8. Alike(Current, e)
  BY <1>2, <1>3, <1>4, <1>5, AlikeTwice
<1>9. LikeNow(With(e))
  BY <1>8, Written
<1> QED
  BY <1>1, <1>7, <1>9, PlainStays

LEMMA InfixRuleStep ==
  ASSUME IInv, InfixRule
  PROVE  IInv'
<1> DEFINE call   == << <<"arguments">> >>
           binary == << <<"precedence", OperandPrecedence(previous)>>, <<"emit", BinaryCode(previous)>> >>
           name   == "infixRule"
<1>1. Doing(name) /\ name \notin Opens
  BY DEF InfixRule, Opens, Endings, OfLoops
<1>2. LikeNow(compilers)
  BY <1>1, Unchanged
<1>3. CASE previous = "("
  <2>1. Staying(compilers, FALSE, call)
    BY <1>3 DEF InfixRule
  <2>2. PlainItems(call, name)
    BY ExpressionItems, OneItem
  <2> HIDE DEF call
  <2> QED
    BY <1>1, <1>2, <2>1, <2>2, PlainStays
<1>4. CASE previous = "and"
  <2>1. AndRule
    BY <1>4 DEF InfixRule
  <2> QED
    BY <1>1, <2>1, AndRuleStep
<1>5. CASE previous = "or"
  <2>1. OrRule
    BY <1>5 DEF InfixRule
  <2> QED
    BY <1>1, <2>1, OrRuleStep
<1>6. CASE previous \notin {"(", "and", "or"}
  <2>1. Staying(compilers, FALSE, binary)
    BY <1>6 DEF InfixRule
  <2>2. Precedence(previous) > 0
    <3>1. Running /\ Has(todo, name)
      BY <1>1, RunsOn, FirstItem
    <3> QED
      BY <3>1 DEF Running
  <2>3. previous \in Operators /\ OperandPrecedence(previous) \in Nat /\ OperandPrecedence(previous) > 0
    BY <1>6, <2>2, PrecedenceIs DEF OperandPrecedence
  <2>4. BinaryCode(previous) \in Seq(ByteValue)
    BY <2>3, BinaryCodeIs
  <2>5. PlainItems(binary, name)
    BY <2>3, <2>4, ExpressionItems, TwoItems
  <2> HIDE DEF binary
  <2> QED
    BY <1>1, <1>2, <2>1, <2>5, PlainStays
<1> QED
  BY <1>3, <1>4, <1>5, <1>6

LEMMA EmitConstantStep ==
  ASSUME IInv, NEW name, Doing(name), name \notin Opens, NEW items, PlainItems(items, name),
         NEW value, EmitConstant(value, items)
  PROVE  IInv'
<1> DEFINE made == MakeConstant(Current, value)
           e    == Emit(made.compiler, <<Op.CONSTANT, made.index>>)
<1>1. Staying(With(e), made.error, items)
  BY DEF EmitConstant
<1>2. Alike(Current, made.compiler) /\ made.index \in ByteIndex
  BY RunsOn, ConstantIs
<1> HIDE DEF made
<1>3. Alike(made.compiler, e)
  <2>1. IsCompiler(made.compiler) /\ <<Op.CONSTANT, made.index>> \in Seq(ByteValue)
    BY <1>2, IndexesAreBytes, OpcodesAreBytes, BytesAre DEF Alike
  <2> QED
    BY <2>1, EmitIs
<1> HIDE DEF e
<1>4. LikeNow(With(e))
  BY <1>2, <1>3, AlikeTwice, Written
<1> QED
  BY <1>1, <1>4, PlainStays

LEMMA VariableStep ==
  ASSUME IInv, NEW name, Doing(name), name \notin Opens, NEW rest, PlainItems(rest, name), NEW token,
         LET variable == NamedVariable(token)
         IN  \/ Advancing(variable.chain, variable.error,
                  <<Expression, <<"emit", <<variable.set, variable.arg>> >> >> \o rest)
             \/ Staying(variable.chain, variable.error,
                  << <<"emit", <<variable.get, variable.arg>> >> >> \o rest)
  PROVE  IInv'
<1> DEFINE v        == NamedVariable(token)
           write    == <<Expression, <<"emit", <<v.set, v.arg>> >> >>
           read     == << <<"emit", <<v.get, v.arg>> >> >>
           defining == Has(todo, "define")
<1>1. /\ ChainOK(v.chain, defining) /\ ScopeDepths(v.chain) = ScopeDepths(compilers)
      /\ v.get \in ByteValue /\ v.set \in ByteValue /\ v.arg \in ByteIndex
  <2>1. ChainOK(compilers, defining) /\ Len(compilers) > 0
    BY RunsOn DEF Running
  <2> HIDE DEF defining
  <2> QED
    BY <2>1, NamedVariableIs
<1>2. Advancing(v.chain, v.error, write \o rest) \/ Staying(v.chain, v.error, read \o rest)
  OBVIOUS
<1> HIDE DEF v
<1>3. <<v.get, v.arg>> \in Seq(ByteValue) /\ <<v.set, v.arg>> \in Seq(ByteValue)
  BY <1>1, IndexesAreBytes, BytesAre
<1>4. PlainItems(write, name) /\ PlainItems(read, name)
  BY <1>3, ExpressionItems, OneItem, TwoItems
<1> HIDE DEF write, read
<1> DEFINE writing == write \o rest
           reading == read \o rest
<1>5. PlainItems(writing, name) /\ PlainItems(reading, name)
  BY <1>4, JoinedItems
<1>6. LikeNow(v.chain)
  BY <1>1 DEF LikeNow
<1>7. Advancing(v.chain, v.error, writing) \/ Staying(v.chain, v.error, reading)
  BY <1>2
<1> HIDE DEF writing, reading
<1>8. ASSUME Advancing(v.chain, v.error, writing)  PROVE IInv'
  BY <1>5, <1>6, <1>8, PlainAdvances
<1>9. ASSUME Staying(v.chain, v.error, reading)  PROVE IInv'
  BY <1>5, <1>6, <1>9, PlainStays
<1> QED
  BY <1>7, <1>8, <1>9

LEMMA PrefixStep ==
  ASSUME IInv, Prefix
  PROVE  IInv'
<1> DEFINE precedence == Argument(1)
           rest       == << <<"infix", precedence>> >>
           unary      == << <<"precedence", PREC.UNARY>>, <<"emit", UnaryCode(previous)>> >>
           literal    == Emit(Current, LiteralCode(previous))
           name       == "prefix"
           v          == NamedVariable(previous)
<1>1. Doing(name) /\ name \notin Opens
  BY DEF Prefix, Opens, Endings, OfLoops
<1>2. \/ Staying(compilers, FALSE, Grouping \o rest)
      \/ Staying(compilers, FALSE, unary \o rest)
      \/ previous \in {"nil", "true", "false"} /\ Staying(With(literal), FALSE, rest)
      \/ EmitConstant(Literal[previous], rest)
      \/ Advancing(v.chain, v.error, <<Expression, <<"emit", <<v.set, v.arg>> >> >> \o rest)
      \/ Staying(v.chain, v.error, << <<"emit", <<v.get, v.arg>> >> >> \o rest)
      \/ Staying(compilers, TRUE, <<>>)
  BY DEF Prefix
<1>3. PlainItems(rest, name)
  <2>1. Fits(<<"infix", precedence>>, name)
    BY <1>1, ArgumentsAre, ExpressionItems
  <2> QED
    BY <2>1, OneItem
<1>4. LikeNow(compilers)
  BY <1>1, Unchanged
<1>5. PlainItems(Grouping, name)
  BY ExpressionItems, TwoItems DEF Grouping
<1>6. PlainItems(unary, name)
  <2>1. PREC.UNARY \in Nat /\ PREC.UNARY > 0
    BY DEF PREC
  <2> QED
    BY <2>1, UnaryCodeIs, ExpressionItems, TwoItems
<1> HIDE DEF rest, unary
<1>7. ASSUME Staying(compilers, FALSE, Grouping \o rest)  PROVE IInv'
  <2> DEFINE items == Grouping \o rest
  <2>1. PlainItems(items, name) /\ Staying(compilers, FALSE, items)
    BY <1>3, <1>5, <1>7, JoinedItems
  <2> HIDE DEF items
  <2> QED
    BY <1>1, <1>4, <2>1, PlainStays
<1>8. ASSUME Staying(compilers, FALSE, unary \o rest)  PROVE IInv'
  <2> DEFINE items == unary \o rest
  <2>1. PlainItems(items, name) /\ Staying(compilers, FALSE, items)
    BY <1>3, <1>6, <1>8, JoinedItems
  <2> HIDE DEF items
  <2> QED
    BY <1>1, <1>4, <2>1, PlainStays
<1>9. ASSUME previous \in {"nil", "true", "false"}, Staying(With(literal), FALSE, rest)  PROVE IInv'
  <2>1. Alike(Current, literal)
    BY <1>1, <1>9, RunsOn, LiteralCodeIs, EmitIs
  <2> HIDE DEF literal
  <2>2. LikeNow(With(literal))
    BY <1>1, <2>1, Written
  <2> QED
    BY <1>1, <1>3, <1>9, <2>2, PlainStays
<1>10. ASSUME EmitConstant(Literal[previous], rest)  PROVE IInv'
  BY <1>1, <1>3, <1>10, EmitConstantStep
<1>11. ASSUME \/ Advancing(v.chain, v.error, <<Expression, <<"emit", <<v.set, v.arg>> >> >> \o rest)
              \/ Staying(v.chain, v.error, << <<"emit", <<v.get, v.arg>> >> >> \o rest)
       PROVE  IInv'
  BY <1>1, <1>3, <1>11, VariableStep
<1>12. ASSUME Staying(compilers, TRUE, <<>>)  PROVE IInv'
  BY <1>1, <1>4, <1>12, NoItems, PlainStays
<1> QED
  BY <1>2, <1>7, <1>8, <1>9, <1>10, <1>11, <1>12

----------------------------------------------------------------------------
\* Lists of items of which the last one is special.
EndsWith(items, name, last) ==
  /\ IsSeq(items) /\ Len(items) > 0
  /\ items[Len(items)][1] = last /\ ItemOK(items[Len(items)])
  /\ \A i \in 1..(Len(items) - 1) : Fits(items[i], name) /\ On(items[i][1], last)
  /\ last # "infixRule"
  /\ \A lower : lower # "infixRule" /\ On(name, lower) => On(last, lower)

LEMMA EndsIs ==
  ASSUME NEW items, NEW name, NEW last, EndsWith(items, name, last)
  PROVE  /\ InPlaceOf(items, name) /\ IsSeq(items) /\ ~ Has(items, "infixRule")
         /\ Has(items, "define") <=> last = "define"
         /\ Len(items) > 0 /\ items[Len(items)][1] = last
         /\ Quiet(items, Len(items) - 1, Endings)
<1> DEFINE n == Len(items)
<1>1. /\ IsSeq(items) /\ n \in Nat /\ n > 0 /\ items[n][1] = last /\ ItemOK(items[n])
      /\ \A i \in 1..(n - 1) : Fits(items[i], name) /\ On(items[i][1], last)
      /\ last # "infixRule"
      /\ \A lower : lower # "infixRule" /\ On(name, lower) => On(last, lower)
  BY DEF EndsWith, IsSeq
<1>2. \A i \in 1..n : i = n \/ i \in 1..(n - 1)
  BY <1>1
<1>3. \A i \in 1..(n - 1) : ItemOK(items[i]) /\ MayReplace(items[i][1], name)
  BY <1>1 DEF Fits
<1> HIDE DEF n
<1>4. ~ Has(items, "infixRule")
  <2>1. \A i \in 1..n : items[i][1] # "infixRule"
    BY <1>1, <1>2, <1>3 DEF MayReplace
  <2> QED
    BY <2>1 DEF Has, n
<1>5. Has(items, "define") <=> last = "define"
  <2>1. \A i \in 1..(n - 1) : items[i][1] # "define"
    BY <1>3 DEF MayReplace
  <2>2. n \in 1..n
    BY <1>1
  <2> QED
    BY <1>1, <1>2, <2>1, <2>2 DEF Has, n
<1>6. Quiet(items, n - 1, Endings)
  <2> SUFFICES ASSUME NEW i \in 1..(n - 1), NEW d  PROVE After(d, items[i][1], Endings) = d
    BY DEF Quiet
  <2>1. items[i][1] # "endFunction" /\ items[i][1] \notin Endings
    BY <1>3 DEF MayReplace
  <2> QED
    BY <2>1 DEF After
<1>7. TodoOK(items)
  <2>1. \A i \in 1..n : ItemOK(items[i])
    BY <1>1, <1>2, <1>3
  <2>2. ASSUME NEW i \in 1..n, NEW j \in 1..n, i < j  PROVE On(items[i][1], items[j][1])
    <3>1. i \in 1..(n - 1)
      BY <1>1, <2>2
    <3>2. CASE j = n
      BY <1>1, <3>1, <3>2
    <3>3. CASE j \in 1..(n - 1)
      <4>1. items[j][1] \notin {"define", "infixRule", "endFunction"} \cup Endings
        BY <1>3, <3>3 DEF MayReplace
      <4> QED
        BY <4>1 DEF On, Endings
    <3> QED
      BY <1>2, <3>2, <3>3
  <2> QED
    BY <1>1, <2>1, <2>2 DEF TodoOK, n
<1>8. InPlaceOf(items, name)
  <2> SUFFICES ASSUME NEW i \in 1..n, NEW lower, lower # "infixRule", On(name, lower)
               PROVE  On(items[i][1], lower)
    BY <1>7 DEF InPlaceOf, n
  <2>1. CASE i = n
    BY <1>1, <2>1
  <2>2. CASE i \in 1..(n - 1)
    <3>1. MayReplace(items[i][1], name)
      BY <1>3, <2>2
    <3> QED
      BY <3>1 DEF On, MayReplace
  <2> QED
    BY <1>2, <2>1, <2>2
<1> QED
  BY <1>1, <1>4, <1>5, <1>6, <1>8 DEF n

LEMMA JoinedEnds ==
  ASSUME NEW name, NEW last, NEW a, PlainItems(a, name), \A i \in 1..Len(a) : On(a[i][1], last),
         NEW b, EndsWith(b, name, last)
  PROVE  EndsWith(a \o b, name, last)
<1> DEFINE u == a \o b
           m == Len(a)
           r == Len(b)
<1>1. /\ IsSeq(u) /\ Len(u) = m + r /\ m \in Nat /\ r \in Nat /\ r > 0
      /\ \A i \in 1..m : u[i] = a[i]
      /\ \A i \in 1..r : u[m + i] = b[i]
  <2>1. IsSeq(a) /\ IsSeq(b) /\ r > 0
    BY DEF PlainItems, EndsWith
  <2> QED
    BY <2>1, ConcatIs DEF IsSeq
<1>2. /\ b[r][1] = last /\ ItemOK(b[r])
      /\ \A i \in 1..(r - 1) : Fits(b[i], name) /\ On(b[i][1], last)
      /\ last # "infixRule"
      /\ \A lower : lower # "infixRule" /\ On(name, lower) => On(last, lower)
  BY DEF EndsWith
<1> HIDE DEF u
<1>3. ASSUME NEW i \in 1..(m + r - 1)  PROVE Fits(u[i], name) /\ On(u[i][1], last)
  <2>1. CASE i <= m
    <3>1. i \in 1..m
      BY <1>1, <2>1
    <3> QED
      BY <1>1, <3>1 DEF PlainItems
  <2>2. CASE i > m
    <3> DEFINE k == i - m
    <3>1. k \in 1..r /\ k \in 1..(r - 1) /\ i = m + k
      BY <1>1, <2>2
    <3> HIDE DEF k, r
    <3> QED
      BY <1>1, <1>2, <3>1
  <2> QED
    BY <1>1, <2>1, <2>2
<1>4. u[m + r] = b[r]
  <2>1. r \in 1..r
    BY <1>1
  <2> QED
    BY <1>1, <2>1
<1>5. Len(u) > 0
  BY <1>1
<1>6. EndsWith(u, name, last)
  BY <1>1, <1>2, <1>3, <1>4, <1>5 DEF EndsWith
<1> QED
  BY <1>6 DEF u

MayEnd(item, name, last) ==
  /\ ItemOK(item) /\ item[1] = last /\ last # "infixRule"
  /\ \A lower : lower # "infixRule" /\ On(name, lower) => On(last, lower)

MayBeOn(item, name, last) == Fits(item, name) /\ On(item[1], last)

LEMMA OneEnd ==
  ASSUME NEW name, NEW last, NEW a,
         MayEnd(a, name, last)
  PROVE  EndsWith(<<a>>, name, last)
<1> DEFINE s == <<a>>
<1>1. s \in Seq({a}) /\ Len(s) = 1 /\ s[1] = a
  OBVIOUS
<1> HIDE DEF s
<1>2. IsSeq(s) /\ \A i \in 1..(Len(s) - 1) : FALSE
  BY <1>1, IsOne
<1>3. EndsWith(s, name, last)
  BY <1>1, <1>2 DEF EndsWith, MayEnd, MayBeOn
<1> QED
  BY <1>3 DEF s

LEMMA TwoEnd ==
  ASSUME NEW name, NEW last, NEW a, NEW b,
         MayBeOn(a, name, last), MayEnd(b, name, last)
  PROVE  EndsWith(<<a, b>>, name, last)
<1> DEFINE s == <<a, b>>
<1>1. s \in Seq({a, b}) /\ Len(s) = 2 /\ s[1] = a /\ s[2] = b
  OBVIOUS
<1> HIDE DEF s
<1>2. IsSeq(s) /\ \A i \in 1..(Len(s) - 1) : i = 1
  BY <1>1, IsOne
<1>3. EndsWith(s, name, last)
  BY <1>1, <1>2 DEF EndsWith, MayEnd, MayBeOn
<1> QED
  BY <1>3 DEF s

LEMMA ThreeEnd ==
  ASSUME NEW name, NEW last, NEW a, NEW b, NEW c,
         MayBeOn(a, name, last), MayBeOn(b, name, last), MayEnd(c, name, last)
  PROVE  EndsWith(<<a, b, c>>, name, last)
<1> DEFINE s == <<a, b, c>>
<1>1. s \in Seq({a, b, c}) /\ Len(s) = 3 /\ s[1] = a /\ s[2] = b /\ s[3] = c
  OBVIOUS
<1> HIDE DEF s
<1>2. IsSeq(s) /\ \A i \in 1..(Len(s) - 1) : i = 1 \/ i = 2
  BY <1>1, IsOne
<1>3. EndsWith(s, name, last)
  BY <1>1, <1>2 DEF EndsWith, MayEnd, MayBeOn
<1> QED
  BY <1>3 DEF s

LEMMA SixEnd ==
  ASSUME NEW name, NEW last, NEW a, NEW b, NEW c, NEW d, NEW e, NEW f,
         MayBeOn(a, name, last), MayBeOn(b, name, last), MayBeOn(c, name, last),
         MayBeOn(d, name, last), MayBeOn(e, name, last), MayEnd(f, name, last)
  PROVE  EndsWith(<<a, b, c, d, e, f>>, name, last)
<1> DEFINE s == <<a, b, c, d, e, f>>
<1>1. /\ s \in Seq({a, b, c, d, e, f}) /\ Len(s) = 6
      /\ s[1] = a /\ s[2] = b /\ s[3] = c /\ s[4] = d /\ s[5] = e /\ s[6] = f
  OBVIOUS
<1> HIDE DEF s
<1>2. IsSeq(s) /\ \A i \in 1..(Len(s) - 1) : i = 1 \/ i = 2 \/ i = 3 \/ i = 4 \/ i = 5
  BY <1>1, IsOne
<1>3. EndsWith(s, name, last)
  BY <1>1, <1>2 DEF EndsWith, MayEnd, MayBeOn
<1> QED
  BY <1>3 DEF s

LEMMA EndsContinues ==
  ASSUME IInv, NEW name, Doing(name), name \notin OfExpressions, NEW last, NEW items,
         EndsWith(items, name, last), NEW chain, NEW defining \in BOOLEAN,
         defining <=> last = "define", ChainOK(chain, defining),
         ScopeDepths(chain) = After(Depths(Tail(todo), Endings), last, Endings)
  PROVE  Continues(chain, items)
<1> DEFINE t == Tail(todo)
<1>1. IsSeq(t) /\ ~ Has(t, "define")
  BY RestIs DEF OfExpressions
<1>2. /\ IsSeq(items) /\ Len(items) > 0 /\ items[Len(items)][1] = last
      /\ Quiet(items, Len(items) - 1, Endings)
      /\ Has(items, "define") <=> last = "define"
  BY EndsIs
<1>3. Depths(items \o t, Endings) = After(Depths(t, Endings), last, Endings)
  BY <1>1, <1>2, DepthsOver
<1>4. Has(items \o t, "define") <=> defining
  <2>1. Has(items \o t, "define") <=> Has(items, "define") \/ Has(t, "define")
    BY <1>1, <1>2, HasOver
  <2> QED
    BY <1>1, <1>2, <2>1
<1>5. ChainOK(chain, Has(items \o t, "define"))
  <2>1. Has(items \o t, "define") \in BOOLEAN
    BY HasIsBoolean
  <2> HIDE DEF t
  <2> QED
    BY <1>4, <2>1, ChainFor
<1>6. ScopeDepths(chain) = Depths(items \o t, Endings)
  BY <1>3
<1> QED
  BY <1>5, <1>6 DEF Continues

LEMMA EndsStays ==
  ASSUME IInv, NEW name, Doing(name), name \notin OfExpressions, NEW last, NEW items,
         EndsWith(items, name, last), NEW chain, NEW defining \in BOOLEAN,
         defining <=> last = "define", ChainOK(chain, defining),
         ScopeDepths(chain) = After(Depths(Tail(todo), Endings), last, Endings),
         NEW error, Staying(chain, error, items)
  PROVE  IInv'
<1>1. Continues(chain, items)
  BY EndsContinues
<1>2. InPlaceOf(items, name) /\ ~ Has(items, "infixRule") /\ name # "scan"
  BY EndsIs DEF OfExpressions
<1> QED
  BY <1>1, <1>2, Stays

LEMMA EndsAdvances ==
  ASSUME IInv, NEW name, Doing(name), name \notin OfExpressions, NEW last, NEW items,
         EndsWith(items, name, last), NEW chain, NEW defining \in BOOLEAN,
         defining <=> last = "define", ChainOK(chain, defining),
         ScopeDepths(chain) = After(Depths(Tail(todo), Endings), last, Endings),
         NEW error, Advancing(chain, error, items)
  PROVE  IInv'
<1>1. Continues(chain, items)
  BY EndsContinues
<1>2. InPlaceOf(items, name) /\ ~ Has(items, "infixRule") /\ name # "scan"
  BY EndsIs DEF OfExpressions
<1> QED
  BY <1>1, <1>2, Advances

----------------------------------------------------------------------------
\* Declarations
LEMMA ReadyForStatements ==
  ASSUME IInv, NEW name, Doing(name), name \notin OfExpressions \cup {"define"}
  PROVE  ~ Has(todo, "define") /\ ChainOK(compilers, FALSE) /\ IsReady(Current)
<1>1. ~ Has(Tail(todo), "define")
  BY RestIs DEF OfExpressions
<1>2. Has(todo, "define") <=> name = "define" \/ Has(Tail(todo), "define")
  BY RunsOn, FirstItem
<1>3. ~ Has(todo, "define")
  BY <1>1, <1>2
<1>4. ChainOK(compilers, FALSE)
  <2>1. ChainOK(compilers, Has(todo, "define")) /\ Has(todo, "define") \in BOOLEAN
    BY RunsOn, HasIsBoolean DEF Running
  <2>2. Has(todo, "define") <=> FALSE
    BY <1>3
  <2> QED
    BY <2>1, <2>2, ChainFor
<1>5. IsReady(Current)
  <2>1. Len(compilers) \in 1..Len(compilers)
    BY RunsOn
  <2> QED
    BY <1>4, <2>1 DEF ChainOK, Current
<1> QED
  BY <1>3, <1>4, <1>5

LEMMA ParsedVariableIs ==
  ASSUME IInv, NEW name, Doing(name), name \notin OfExpressions \cup {"define"}
  PROVE  LET v == ParsedVariable
         IN  /\ IsCompiler(v.compiler) /\ InOrder(v.compiler) /\ CanMark(v.compiler)
             /\ v.compiler.scopeDepth = Current.scopeDepth /\ v.index \in ByteIndex
<1> DEFINE v        == ParsedVariable
           declared == DeclareVariable(Current, previous)
           made     == MakeConstant(Current, String(<<previous>>))
<1>1. IsCompiler(Current) /\ InOrder(Current) /\ IsReady(Current)
  BY RunsOn, ReadyForStatements
<1>2. CASE Current.scopeDepth > 0
  <2>1. v.compiler = declared.compiler /\ v.index = 0
    BY <1>2 DEF ParsedVariable
  <2>2. /\ IsCompiler(declared.compiler) /\ InOrder(declared.compiler) /\ CanMark(declared.compiler)
        /\ declared.compiler.scopeDepth = Current.scopeDepth
    BY <1>1, DeclareVariableIs
  <2> QED
    BY <2>1, <2>2, IndexesAreBytes
<1>3. CASE ~ (Current.scopeDepth > 0)
  <2>1. v = made
    BY <1>3 DEF ParsedVariable
  <2>2. Alike(Current, made.compiler) /\ made.index \in ByteIndex
    BY <1>1, ConstantIs
  <2> HIDE DEF v, made
  <2>3. InOrder(made.compiler) /\ IsCompiler(made.compiler)
        /\ made.compiler.scopeDepth = Current.scopeDepth
    BY <1>1, <2>2, AlikeIs DEF Alike
  <2>4. CanMark(made.compiler)
    BY <1>3, <2>3 DEF CanMark
  <2> QED
    BY <2>1, <2>2, <2>3, <2>4 DEF v
<1> QED
  BY <1>2, <1>3

LEMMA DeclarationStep ==
  ASSUME IInv, Declaration
  PROVE  IInv'
<1> DEFINE fun   == << <<"consume", "identifier">>, <<"fun">>, <<"recover">> >>
           var   == << <<"consume", "identifier">>, <<"var">>, <<"recover">> >>
           other == << <<"statement">>, <<"recover">> >>
           name  == "declaration"
<1>1. Doing(name) /\ name \notin Opens /\ name \notin OfExpressions \cup OfVariables
  BY DEF Declaration, Opens, Endings, OfLoops, OfExpressions, OfVariables
<1>2. \/ Advancing(compilers, FALSE, fun) \/ Advancing(compilers, FALSE, var)
      \/ Staying(compilers, FALSE, other)
  BY DEF Declaration
<1>3. Fits(<<"consume", "identifier">>, name)
  BY ExpressionItems
<1>4. Fits(<<"fun">>, name) /\ Fits(<<"var">>, name) /\ Fits(<<"recover">>, name) /\ Fits(<<"statement">>, name)
  BY <1>1, StatementItems
<1>5. PlainItems(fun, name) /\ PlainItems(var, name) /\ PlainItems(other, name)
  BY <1>3, <1>4, TwoItems, ThreeItems
<1>6. LikeNow(compilers)
  BY <1>1, Unchanged
<1> HIDE DEF fun, var, other
<1>7. ASSUME Advancing(compilers, FALSE, fun) \/ Advancing(compilers, FALSE, var)  PROVE IInv'
  BY <1>1, <1>5, <1>6, <1>7, PlainAdvances
<1>8. ASSUME Staying(compilers, FALSE, other)  PROVE IInv'
  BY <1>1, <1>5, <1>6, <1>8, PlainStays
<1> QED
  BY <1>2, <1>7, <1>8

\* The last compiler of the chain has changed, but not its depth.
LEMMA ScopesKept ==
  ASSUME IInv, NEW name, Doing(name), NEW e, IsCompiler(e), InOrder(e),
         e.scopeDepth = Current.scopeDepth, NEW still \in BOOLEAN,
         IF still THEN CanMark(e) ELSE IsReady(e)
  PROVE  ChainOK(With(e), still) /\ ScopeDepths(With(e)) = Depths(todo, Endings)
<1> DEFINE defining == Has(todo, "define")
<1>1. /\ ChainOK(compilers, defining) /\ Len(compilers) > 0
      /\ ScopeDepths(compilers) = Depths(todo, Endings)
  BY RunsOn DEF Running
<1> HIDE DEF defining
<1>2. e.scopeDepth = compilers[Len(compilers)].scopeDepth
  BY DEF Current
<1>3. ChainOK(With(e), still) /\ ScopeDepths(With(e)) = ScopeDepths(compilers)
  BY <1>1, <1>2, SameScopes DEF With
<1> QED
  BY <1>1, <1>3

LEMMA VarDeclarationStep ==
  ASSUME IInv, VarDeclaration
  PROVE  IInv'
<1> DEFINE variable == ParsedVariable
           rest     == << <<"consume", ";">>, <<"define", variable.index>> >>
           c        == variable.compiler
           e        == Emit(c, <<Op.NIL>>)
           first    == <<Expression>>
           items    == first \o rest
           name     == "var"
           t        == Depths(Tail(todo), Endings)
<1>1. Doing(name) /\ name \notin OfExpressions \cup {"define"} /\ name \notin OfExpressions
      /\ name # "scan"
  BY DEF VarDeclaration, OfExpressions
<1>2. Advancing(With(c), variable.error, items) \/ Staying(With(e), variable.error, rest)
  BY DEF VarDeclaration
<1>3. /\ IsCompiler(c) /\ InOrder(c) /\ CanMark(c) /\ c.scopeDepth = Current.scopeDepth
      /\ variable.index \in ByteIndex
  BY <1>1, ParsedVariableIs
<1> HIDE DEF variable
<1>4. EndsWith(rest, name, "define")
  <2>1. MayEnd(<<"define", variable.index>>, name, "define")
    BY <1>3 DEF MayEnd, ItemOK, On, OfExpressions, OfVariables
  <2>2. MayBeOn(<<"consume", ";">>, name, "define")
    BY ExpressionItems DEF MayBeOn, On, OfExpressions, OfLoops
  <2> QED
    BY <2>1, <2>2, TwoEnd
<1> HIDE DEF rest
<1>5. EndsWith(items, name, "define")
  <2>1. PlainItems(first, name)
    BY ExpressionItems, OneItem
  <2>2. \A i \in 1..Len(first) : On(first[i][1], "define")
    <3>1. Len(first) = 1 /\ first[1] = Expression
      OBVIOUS
    <3>2. On(Expression[1], "define")
      BY DEF On, OfExpressions, OfLoops, Expression
    <3> HIDE DEF first
    <3> QED
      BY <3>1, <3>2
  <2> HIDE DEF first
  <2> QED
    BY <1>4, <2>1, <2>2, JoinedEnds
<1>6. Depths(todo, Endings) = After(t, "define", Endings)
  <2>1. Depths(todo, Endings) = After(t, name, Endings)
    BY <1>1, RestIs
  <2> QED
    BY <2>1 DEF After, Endings, OfLoops
<1>7. ChainOK(With(c), TRUE) /\ ScopeDepths(With(c)) = After(t, "define", Endings)
  BY <1>1, <1>3, <1>6, ScopesKept
<1>8. ChainOK(With(e), TRUE) /\ ScopeDepths(With(e)) = After(t, "define", Endings)
  <2>1. <<Op.NIL>> \in Seq(ByteValue)
    BY BytesAre, OpcodesAreBytes
  <2>2. Alike(c, e)
    BY <1>3, <2>1, EmitIs
  <2> HIDE DEF e, c
  <2>3. IsCompiler(e) /\ InOrder(e) /\ CanMark(e) /\ e.scopeDepth = Current.scopeDepth
    BY <1>3, <2>2, AlikeIs DEF Alike
  <2> QED
    BY <1>1, <1>6, <2>3, ScopesKept
<1> HIDE DEF c, e, items
<1>9. ASSUME Advancing(With(c), variable.error, items)  PROVE IInv'
  BY <1>1, <1>5, <1>7, <1>9, EndsAdvances
<1>10. ASSUME Staying(With(e), variable.error, rest)  PROVE IInv'
  BY <1>1, <1>4, <1>8, <1>10, EndsStays
<1> QED
  BY <1>2, <1>9, <1>10

LEMMA QuietAfter ==
  ASSUME IInv, NEW name, Doing(name), name \notin OfExpressions, NEW items, PlainItems(items, name),
         NEW chain, ChainOK(chain, FALSE), ScopeDepths(chain) = Depths(Tail(todo), Endings)
  PROVE  Continues(chain, items)
<1> DEFINE t == Tail(todo)
<1>1. IsSeq(t) /\ ~ Has(t, "define")
  BY RestIs DEF OfExpressions
<1>2. IsSeq(items) /\ ~ Has(items, "define") /\ Quiet(items, Len(items), Endings)
  BY PlainIs
<1>3. Depths(items \o t, Endings) = Depths(t, Endings)
  BY <1>1, <1>2, DepthsOverNone
<1>4. Has(items \o t, "define") <=> FALSE
  BY <1>1, <1>2, HasOver
<1>5. ChainOK(chain, Has(items \o t, "define"))
  <2>1. Has(items \o t, "define") \in BOOLEAN /\ FALSE \in BOOLEAN
    BY HasIsBoolean
  <2> HIDE DEF t
  <2> QED
    BY <1>4, <2>1, ChainFor
<1>6. ScopeDepths(chain) = Depths(items \o t, Endings)
  BY <1>3
<1> QED
  BY <1>5, <1>6 DEF Continues

LEMMA QuietStays ==
  ASSUME IInv, NEW name, Doing(name), name \notin OfExpressions, NEW items, PlainItems(items, name),
         NEW chain, ChainOK(chain, FALSE), ScopeDepths(chain) = Depths(Tail(todo), Endings),
         NEW error, Staying(chain, error, items)
  PROVE  IInv'
<1>1. Continues(chain, items)
  BY QuietAfter
<1>2. InPlaceOf(items, name) /\ ~ Has(items, "infixRule") /\ name # "scan"
  BY PlainIs DEF OfExpressions
<1> QED
  BY <1>1, <1>2, Stays

LEMMA QuietAdvances ==
  ASSUME IInv, NEW name, Doing(name), name \notin OfExpressions, NEW items, PlainItems(items, name),
         NEW chain, ChainOK(chain, FALSE), ScopeDepths(chain) = Depths(Tail(todo), Endings),
         NEW error, Advancing(chain, error, items)
  PROVE  IInv'
<1>1. Continues(chain, items)
  BY QuietAfter
<1>2. InPlaceOf(items, name) /\ ~ Has(items, "infixRule") /\ name # "scan"
  BY PlainIs DEF OfExpressions
<1> QED
  BY <1>1, <1>2, Advances

LEMMA DefineStep ==
  ASSUME IInv, Define
  PROVE  IInv'
<1> DEFINE e    == DefineVariable(Current, Argument(1))
           name == "define"
<1>1. Doing(name) /\ name \notin OfExpressions /\ name # "scan" /\ Staying(With(e), FALSE, <<>>)
  BY DEF Define, OfExpressions
<1>2. CanMark(Current)
  <2>1. Has(todo, "define") /\ ChainOK(compilers, Has(todo, "define"))
    BY <1>1, RunsOn, FirstItem DEF Running
  <2>2. Has(todo, "define") \in BOOLEAN /\ TRUE \in BOOLEAN /\ (Has(todo, "define") <=> TRUE)
    BY <2>1, HasIsBoolean
  <2>3. ChainOK(compilers, TRUE)
    BY <2>1, <2>2, ChainFor
  <2>4. Len(compilers) \in 1..Len(compilers)
    BY <1>1, RunsOn
  <2> QED
    BY <2>3, <2>4 DEF ChainOK, Current
<1>3. IsCompiler(e) /\ InOrder(e) /\ IsReady(e) /\ e.scopeDepth = Current.scopeDepth
  BY <1>1, <1>2, RunsOn, ArgumentsAre, DefineVariableIs
<1> HIDE DEF e
<1>4. ChainOK(With(e), FALSE) /\ ScopeDepths(With(e)) = Depths(todo, Endings)
  BY <1>1, <1>3, ScopesKept
<1>5. Depths(todo, Endings) = Depths(Tail(todo), Endings)
  <2>1. Depths(todo, Endings) = After(Depths(Tail(todo), Endings), name, Endings)
    BY <1>1, RestIs
  <2> QED
    BY <2>1 DEF After, Endings, OfLoops
<1> QED
  BY <1>1, <1>4, <1>5, NoItems, QuietStays

LEMMA OneFunctionMore ==
  ASSUME NEW chain, ChainOK(chain, FALSE), Len(chain) > 0, CanMark(chain[Len(chain)]),
         NEW e, IsCompiler(e), InOrder(e), IsReady(e)
  PROVE  LET after == Append(chain, e)
         IN  ChainOK(after, FALSE) /\ ScopeDepths(after) = Append(ScopeDepths(chain), e.scopeDepth)
<1> DEFINE n     == Len(chain)
           after == Append(chain, e)
           d     == ScopeDepths(chain)
           more  == Append(d, e.scopeDepth)
           new   == ScopeDepths(after)
<1>1. IsSeq(chain) /\ n \in Nat /\ n > 0
  BY DEF ChainOK, IsSeq
<1>2. /\ IsSeq(after) /\ Len(after) = n + 1
      /\ \A k \in 1..n : after[k] = chain[k]
      /\ after[n + 1] = e
  BY <1>1, AppendIs
<1> HIDE DEF after
<1>3. \A k \in 1..(n + 1) : k = n + 1 \/ k \in 1..n
  BY <1>1
<1>4. \A k \in 1..n : IsCompiler(chain[k]) /\ InOrder(chain[k]) /\ IsReady(chain[k]) /\ CanMark(chain[k])
  <2> SUFFICES ASSUME NEW k \in 1..n
               PROVE  IsCompiler(chain[k]) /\ InOrder(chain[k]) /\ IsReady(chain[k]) /\ CanMark(chain[k])
    OBVIOUS
  <2>1. k < n \/ k = n
    BY <1>1
  <2> QED
    BY <2>1 DEF ChainOK
<1> HIDE DEF n
<1>5. ASSUME NEW k \in 1..(n + 1)
      PROVE  /\ IsCompiler(after[k]) /\ InOrder(after[k]) /\ IsReady(after[k])
             /\ k < n + 1 => CanMark(after[k])
  BY <1>1, <1>2, <1>3, <1>4
<1>6. ChainOK(after, FALSE)
  BY <1>2, <1>5 DEF ChainOK
<1>7. IsSeq(d) /\ Len(d) = n /\ \A k \in 1..n : d[k] = chain[k].scopeDepth
  <2> DEFINE S == {chain[k].scopeDepth : k \in 1..n}
  <2>1. d \in [1..n -> S] /\ \A k \in 1..n : d[k] = chain[k].scopeDepth
    BY DEF ScopeDepths, n
  <2> HIDE DEF S, d
  <2>2. d \in Seq(S) /\ Len(d) = n
    BY <1>1, <2>1
  <2> QED
    BY <2>1, <2>2, IsOne
<1> HIDE DEF d
<1>8. IsSeq(more) /\ Len(more) = n + 1 /\ (\A k \in 1..n : more[k] = d[k]) /\ more[n + 1] = e.scopeDepth
  BY <1>7, AppendIs
<1> HIDE DEF more
<1>9. \A k \in 1..(n + 1) : more[k] = after[k].scopeDepth
  BY <1>2, <1>3, <1>7, <1>8
<1>10. new = more
  <2>1. new = [k \in 1..(n + 1) |-> after[k].scopeDepth]
    BY <1>2 DEF ScopeDepths
  <2>2. more = [k \in 1..(n + 1) |-> more[k]]
    BY <1>8 DEF IsSeq
  <2> HIDE DEF new
  <2> QED
    BY <1>9, <2>1, <2>2
<1> QED
  BY <1>6, <1>10 DEF after, more, d

LEMMA FunDeclarationStep ==
  ASSUME IInv, FunDeclaration
  PROVE  IInv'
<1> DEFINE variable == ParsedVariable
           m        == MarkInitialized(variable.compiler)
           e        == BeginScope(NewFunction(previous))
           items    == << <<"consume", "(">>, <<"parameters">>, <<"consume", ")">>, <<"consume", "{">>,
                          <<"block">>, <<"endFunction", variable.index>> >>
           chain    == Append(With(m), e)
           name     == "fun"
           last     == "endFunction"
           t        == Depths(Tail(todo), Endings)
<1>1. /\ Doing(name) /\ name \notin OfExpressions \cup {"define"} /\ name \notin OfExpressions
      /\ name # "scan" /\ name \notin OfExpressions \cup OfVariables
  BY DEF FunDeclaration, OfExpressions, OfVariables
<1>2. Staying(chain, variable.error, items)
  BY DEF FunDeclaration
<1>3. /\ IsCompiler(variable.compiler) /\ InOrder(variable.compiler) /\ CanMark(variable.compiler)
      /\ variable.compiler.scopeDepth = Current.scopeDepth /\ variable.index \in ByteIndex
  BY <1>1, ParsedVariableIs
<1> HIDE DEF variable
<1>4. IsCompiler(m) /\ InOrder(m) /\ IsReady(m) /\ CanMark(m) /\ m.scopeDepth = Current.scopeDepth
  BY <1>3, MarkInitializedIs
<1>5. IsCompiler(e) /\ InOrder(e) /\ IsReady(e) /\ e.scopeDepth = 1
  <2> DEFINE c == NewFunction(previous)
  <2>1. IsCompiler(c) /\ InOrder(c) /\ IsReady(c) /\ c.scopeDepth = 0
    BY NewFunctionIs
  <2> HIDE DEF c
  <2>2. /\ IsCompiler(BeginScope(c)) /\ InOrder(BeginScope(c)) /\ IsReady(BeginScope(c))
        /\ BeginScope(c).scopeDepth = c.scopeDepth + 1
    BY <2>1, BeginScopeIs
  <2>3. BeginScope(c).scopeDepth = 1
    BY <2>1, <2>2
  <2> QED
    BY <2>2, <2>3 DEF c
<1> HIDE DEF m, e
<1>6. ChainOK(With(m), FALSE) /\ ScopeDepths(With(m)) = Depths(todo, Endings)
  BY <1>1, <1>4, ScopesKept
<1>7. Len(With(m)) > 0 /\ CanMark(With(m)[Len(With(m))])
  <2> DEFINE defining == Has(todo, "define")
  <2>1. ChainOK(compilers, defining) /\ Len(compilers) > 0
    BY <1>1, RunsOn DEF Running
  <2> HIDE DEF defining
  <2>2. Len(With(m)) = Len(compilers) /\ With(m)[Len(compilers)] = m
    <3>1. IsReady(m) /\ IF FALSE THEN CanMark(m) ELSE IsReady(m)
      BY <1>4
    <3> DEFINE after == [compilers EXCEPT ![Len(compilers)] = m]
    <3>2. Len(after) = Len(compilers) /\ after[Len(compilers)] = m
      BY <1>4, <2>1, <3>1, LastChanged
    <3> QED
      BY <3>2 DEF With
  <2> QED
    BY <1>4, <2>1, <2>2
<1>8. ChainOK(chain, FALSE) /\ ScopeDepths(chain) = Append(Depths(todo, Endings), 1)
  <2> DEFINE w == With(m)
  <2>1. ChainOK(w, FALSE) /\ Len(w) > 0 /\ CanMark(w[Len(w)]) /\ ScopeDepths(w) = Depths(todo, Endings)
    BY <1>6, <1>7
  <2> HIDE DEF w
  <2> DEFINE after == Append(w, e)
  <2>2. ChainOK(after, FALSE) /\ ScopeDepths(after) = Append(ScopeDepths(w), e.scopeDepth)
    BY <1>5, <2>1, OneFunctionMore
  <2>3. ScopeDepths(after) = Append(Depths(todo, Endings), 1)
    BY <1>5, <2>1, <2>2
  <2> QED
    BY <2>2, <2>3 DEF w
<1>9. ScopeDepths(chain) = After(t, last, Endings)
  <2>1. Depths(todo, Endings) = After(t, name, Endings)
    BY <1>1, RestIs
  <2>2. Depths(todo, Endings) = t
    BY <2>1 DEF After, Endings, OfLoops
  <2>3. After(t, last, Endings) = Append(t, 1)
    BY DEF After, Endings, OfLoops
  <2> QED
    BY <1>8, <2>2, <2>3
<1>10. EndsWith(items, name, last)
  <2> DEFINE a == <<"consume", "(">>
             b == <<"parameters">>
             c == <<"consume", ")">>
             d == <<"consume", "{">>
             f == <<"block">>
             z == <<"endFunction", variable.index>>
  <2>1. MayEnd(z, name, last)
    BY <1>3 DEF MayEnd, ItemOK, On, OfExpressions, OfVariables
  <2>2. MayBeOn(a, name, last) /\ MayBeOn(c, name, last) /\ MayBeOn(d, name, last)
    BY ExpressionItems DEF MayBeOn, On, OfLoops
  <2>3. MayBeOn(b, name, last) /\ MayBeOn(f, name, last)
    BY <1>1, StatementItems DEF MayBeOn, On, OfLoops
  <2> HIDE DEF a, b, c, d, f, z
  <2>4. EndsWith(<<a, b, c, d, f, z>>, name, last)
    BY <2>1, <2>2, <2>3, SixEnd
  <2> QED
    BY <2>4 DEF a, b, c, d, f, z
<1> HIDE DEF chain, items
<1>11. FALSE \in BOOLEAN /\ (FALSE <=> last = "define")
  OBVIOUS
<1> QED
  BY <1>1, <1>2, <1>8, <1>9, <1>10, <1>11, EndsStays

LEMMA ParametersStep ==
  ASSUME IInv, Parameters
  PROVE  IInv'
<1> DEFINE some == << <<"parameter">> >>
           name == "parameters"
<1>1. Doing(name) /\ name \notin Opens /\ name \notin OfExpressions \cup OfVariables
  BY DEF Parameters, Opens, Endings, OfLoops, OfExpressions, OfVariables
<1>2. Staying(compilers, FALSE, <<>>) \/ Staying(compilers, FALSE, some)
  BY DEF Parameters
<1>3. PlainItems(<<>>, name) /\ PlainItems(some, name)
  BY <1>1, NoItems, StatementItems, OneItem
<1>4. LikeNow(compilers)
  BY <1>1, Unchanged
<1> HIDE DEF some
<1>5. ASSUME Staying(compilers, FALSE, <<>>)  PROVE IInv'
  BY <1>1, <1>3, <1>4, <1>5, PlainStays
<1>6. ASSUME Staying(compilers, FALSE, some)  PROVE IInv'
  BY <1>1, <1>3, <1>4, <1>6, PlainStays
<1> QED
  BY <1>2, <1>5, <1>6

LEMMA ParameterStep ==
  ASSUME IInv, Parameter
  PROVE  IInv'
<1> DEFINE e     == [Current EXCEPT !.arity = Current.arity + 1]
           full  == Current.arity + 1 > ByteCount - 1
           items == << <<"consume", "identifier">>, <<"parameterName">> >>
           name  == "parameter"
<1>1. Doing(name) /\ name \notin Opens /\ name \notin OfExpressions \cup OfVariables
  BY DEF Parameter, Opens, Endings, OfLoops, OfExpressions, OfVariables
<1>2. Staying(With(e), full, items)
  BY DEF Parameter
<1>3. Alike(Current, e)
  <2> DEFINE arity == Current.arity + 1
             c     == Current
  <2>1. IsCompiler(c)
    BY <1>1, RunsOn
  <2> HIDE DEF arity, c
  <2>2. Alike(c, [c EXCEPT !.arity = arity])
    BY <2>1, ArityIs
  <2> QED
    BY <2>2 DEF arity, c
<1>4. PlainItems(items, name)
  BY <1>1, ExpressionItems, StatementItems, TwoItems
<1> HIDE DEF e, items, full
<1>5. LikeNow(With(e))
  BY <1>1, <1>3, Written
<1> QED
  BY <1>1, <1>2, <1>4, <1>5, PlainStays

LEMMA ParameterNameStep ==
  ASSUME IInv, ParameterName
  PROVE  IInv'
<1> DEFINE variable == ParsedVariable
           e        == DefineVariable(variable.compiler, variable.index)
           more     == << <<"parameter">> >>
           name     == "parameterName"
<1>1. /\ Doing(name) /\ name \notin OfExpressions \cup {"define"} /\ name \notin OfExpressions
      /\ name # "scan" /\ name \notin OfExpressions \cup OfVariables
  BY DEF ParameterName, OfExpressions, OfVariables
<1>2. Advancing(With(e), variable.error, more) \/ Staying(With(e), variable.error, <<>>)
  BY DEF ParameterName
<1>3. /\ IsCompiler(variable.compiler) /\ InOrder(variable.compiler) /\ CanMark(variable.compiler)
      /\ variable.compiler.scopeDepth = Current.scopeDepth /\ variable.index \in ByteIndex
  BY <1>1, ParsedVariableIs
<1> HIDE DEF variable
<1>4. IsCompiler(e) /\ InOrder(e) /\ IsReady(e) /\ e.scopeDepth = Current.scopeDepth
  BY <1>3, DefineVariableIs
<1> HIDE DEF e
<1>5. ChainOK(With(e), FALSE) /\ ScopeDepths(With(e)) = Depths(Tail(todo), Endings)
  <2>1. ChainOK(With(e), FALSE) /\ ScopeDepths(With(e)) = Depths(todo, Endings)
    BY <1>1, <1>4, ScopesKept
  <2>2. Depths(todo, Endings) = After(Depths(Tail(todo), Endings), name, Endings)
    BY <1>1, RestIs
  <2>3. Depths(todo, Endings) = Depths(Tail(todo), Endings)
    BY <2>2 DEF After, Endings, OfLoops
  <2> QED
    BY <2>1, <2>3
<1>6. PlainItems(<<>>, name) /\ PlainItems(more, name)
  BY <1>1, NoItems, StatementItems, OneItem
<1> HIDE DEF more
<1>7. ASSUME Advancing(With(e), variable.error, more)  PROVE IInv'
  BY <1>1, <1>5, <1>6, <1>7, QuietAdvances
<1>8. ASSUME Staying(With(e), variable.error, <<>>)  PROVE IInv'
  BY <1>1, <1>5, <1>6, <1>8, QuietStays
<1> QED
  BY <1>2, <1>7, <1>8

\* The last function is gone, and the one around it has changed, but not its depth.
LEMMA OneFunctionLess ==
  ASSUME NEW chain, ChainOK(chain, FALSE), Len(chain) > 1, NEW e, IsCompiler(e), InOrder(e),
         IsReady(e), e.scopeDepth = chain[Len(chain) - 1].scopeDepth
  PROVE  LET after == Append(SubSeq(chain, 1, Len(chain) - 2), e)
         IN  /\ ChainOK(after, FALSE) /\ Len(after) = Len(chain) - 1
             /\ \A k \in 1..(Len(chain) - 1) : after[k].scopeDepth = chain[k].scopeDepth
<1> DEFINE n     == Len(chain)
           first == SubSeq(chain, 1, n - 2)
           after == Append(first, e)
<1>1. IsSeq(chain) /\ n \in Nat /\ n > 1 /\ n - 2 \in 0..n
  BY DEF ChainOK, IsSeq
<1>2. IsSeq(first) /\ Len(first) = n - 2 /\ \A k \in 1..(n - 2) : first[k] = chain[k]
  BY <1>1, FirstIs
<1> HIDE DEF first
<1>3. /\ IsSeq(after) /\ Len(after) = n - 1
      /\ \A k \in 1..(n - 2) : after[k] = chain[k]
      /\ after[n - 1] = e
  <2>1. /\ IsSeq(after) /\ Len(after) = Len(first) + 1
        /\ \A k \in 1..Len(first) : after[k] = first[k]
        /\ after[Len(first) + 1] = e
    BY <1>2, AppendIs
  <2>2. n - 2 + 1 = n - 1
    BY <1>1
  <2> HIDE DEF after, n
  <2> QED
    BY <1>1, <1>2, <2>1, <2>2
<1> HIDE DEF after
<1>4. \A k \in 1..(n - 1) : k = n - 1 \/ k \in 1..(n - 2)
  BY <1>1
<1>5. ASSUME NEW k \in 1..(n - 2)
      PROVE  IsCompiler(chain[k]) /\ InOrder(chain[k]) /\ IsReady(chain[k]) /\ CanMark(chain[k])
  <2>1. k \in 1..n /\ k < n
    BY <1>1
  <2> QED
    BY <2>1 DEF ChainOK
<1> HIDE DEF n
<1>6. ASSUME NEW k \in 1..(n - 1)
      PROVE  /\ IsCompiler(after[k]) /\ InOrder(after[k]) /\ IsReady(after[k])
             /\ k < n - 1 => CanMark(after[k])
  BY <1>1, <1>3, <1>4, <1>5
<1>7. ChainOK(after, FALSE)
  BY <1>3, <1>6 DEF ChainOK
<1>8. \A k \in 1..(n - 1) : after[k].scopeDepth = chain[k].scopeDepth
  BY <1>3, <1>4 DEF n
<1> QED
  BY <1>3, <1>7, <1>8 DEF after, first, n

LEMMA EndFunctionStep ==
  ASSUME IInv, EndFunction
  PROVE  IInv'
<1> DEFINE n        == Len(compilers)
           outer    == compilers[n - 1]
           made     == MakeConstant(outer, Function(Finished(Current)))
           operands == ClosureOperands(Current.upvalues)
           bytes    == <<Op.CLOSURE, made.index>> \o operands
           closure  == Emit(made.compiler, bytes)
           e        == DefineVariable(closure, Argument(1))
           after    == Append(SubSeq(compilers, 1, n - 2), e)
           name     == "endFunction"
           d        == Depths(Tail(todo), Endings)
<1>1. /\ Doing(name) /\ name \notin OfExpressions /\ name # "scan"
      /\ name \notin OfExpressions \cup {"define"}
  BY DEF EndFunction, OfExpressions
<1>2. Staying(after, made.error, <<>>)
  BY DEF EndFunction
<1>3. /\ IsSeq(compilers) /\ n \in Nat /\ n > 0 /\ IsCompiler(Current)
      /\ ScopeDepths(compilers) = Depths(todo, Endings) /\ ChainOK(compilers, FALSE)
  BY <1>1, RunsOn, ReadyForStatements
<1>4. IsSeq(d) /\ Len(d) > 0 /\ Len(d) \in Nat /\ ScopeDepths(compilers) = Append(d, 1)
  <2>1. DepthsOK(d) /\ Depths(todo, Endings) = After(d, name, Endings)
    BY <1>1, RestIs
  <2>2. IsSeq(d) /\ Len(d) > 0 /\ Len(d) \in Nat
    BY <2>1 DEF DepthsOK, IsSeq
  <2>3. After(d, name, Endings) = Append(d, 1)
    BY DEF After, Endings, OfLoops
  <2> HIDE DEF d
  <2> QED
    BY <1>3, <2>1, <2>2, <2>3
<1> HIDE DEF d
<1>5. Len(d) = n - 1 /\ \A k \in 1..(n - 1) : d[k] = compilers[k].scopeDepth
  <2> DEFINE more == Append(d, 1)
             s    == ScopeDepths(compilers)
  <2>1. /\ IsSeq(more) /\ Len(more) = Len(d) + 1
        /\ \A k \in 1..Len(d) : more[k] = d[k]
    BY <1>4, AppendIs
  <2>2. DOMAIN more = 1..(Len(d) + 1)
    BY <2>1, SeqIs
  <2>3. DOMAIN s = 1..n /\ \A k \in 1..n : s[k] = compilers[k].scopeDepth
    BY DEF ScopeDepths
  <2>4. s = more
    BY <1>4
  <2> HIDE DEF more, s, n
  <2>5. n = Len(d) + 1
    <3>1. 1..n = 1..(Len(d) + 1)
      BY <2>2, <2>3, <2>4
    <3> QED
      BY <1>3, <1>4, <3>1
  <2>6. \A k \in 1..(n - 1) : k \in 1..Len(d) /\ k \in 1..n
    BY <1>3, <2>5
  <2> QED
    BY <1>3, <1>4, <2>1, <2>3, <2>4, <2>5, <2>6
<1>6. n > 1 /\ n - 1 \in 1..n /\ n - 1 < n
  BY <1>3, <1>4, <1>5
<1>7. IsCompiler(outer) /\ InOrder(outer) /\ CanMark(outer)
  BY <1>3, <1>6 DEF ChainOK
<1> HIDE DEF outer
<1>8. Alike(outer, made.compiler) /\ made.index \in ByteIndex
  BY <1>7, ConstantIs
<1> HIDE DEF made
<1>9. bytes \in Seq(ByteValue)
  <2>1. operands \in Seq(ByteValue)
    BY <1>3, ClosureOperandsAre DEF IsCompiler
  <2>2. <<Op.CLOSURE, made.index>> \in Seq(ByteValue)
    BY <1>8, IndexesAreBytes, OpcodesAreBytes, BytesAre
  <2> HIDE DEF operands
  <2> QED
    BY <2>1, <2>2, ConcatProperties
<1> HIDE DEF bytes
<1>10. Alike(outer, closure)
  <2>1. IsCompiler(made.compiler)
    BY <1>8 DEF Alike
  <2>2. Alike(made.compiler, closure)
    BY <1>9, <2>1, EmitIs
  <2> HIDE DEF closure
  <2> QED
    BY <1>8, <2>2, AlikeTwice
<1> HIDE DEF closure
<1>11. IsCompiler(e) /\ InOrder(e) /\ IsReady(e) /\ e.scopeDepth = outer.scopeDepth
  <2>1. IsCompiler(closure) /\ InOrder(closure) /\ CanMark(closure)
        /\ closure.scopeDepth = outer.scopeDepth
    BY <1>7, <1>10, AlikeIs DEF Alike
  <2>2. Argument(1) \in ByteIndex
    BY <1>1, ArgumentsAre
  <2> QED
    BY <2>1, <2>2, DefineVariableIs
<1> HIDE DEF e
<1>12. /\ ChainOK(after, FALSE) /\ Len(after) = n - 1
       /\ \A k \in 1..(n - 1) : after[k].scopeDepth = compilers[k].scopeDepth
  <2>1. e.scopeDepth = compilers[Len(compilers) - 1].scopeDepth /\ Len(compilers) > 1
    BY <1>6, <1>11 DEF outer
  <2> QED
    BY <1>3, <1>11, <2>1, OneFunctionLess
<1> HIDE DEF after, n
<1>13. ScopeDepths(after) = d
  <2>1. ScopeDepths(after) = [k \in 1..(n - 1) |-> after[k].scopeDepth]
    BY <1>12 DEF ScopeDepths
  <2>2. d = [k \in 1..(n - 1) |-> d[k]]
    BY <1>4, <1>5 DEF IsSeq
  <2> QED
    BY <1>5, <1>12, <2>1, <2>2
<1>14. PlainItems(<<>>, name) /\ ScopeDepths(after) = Depths(Tail(todo), Endings)
  BY <1>13, NoItems DEF d
<1> QED
  BY <1>1, <1>2, <1>12, <1>14, QuietStays

----------------------------------------------------------------------------
\* Statements
LEMMA JumpAndPop ==
  ASSUME NEW c, IsCompiler(c), NEW op \in ByteValue
  PROVE  LET jumped == EmitJump(c, op)
         IN  Alike(c, Emit(jumped, <<Op.POP>>)) /\ Operand(jumped) \in Int
<1> DEFINE jumped == EmitJump(c, op)
           e      == Emit(jumped, <<Op.POP>>)
<1>1. Alike(c, jumped) /\ Operand(jumped) \in Int
  BY EmitJumpIs
<1> HIDE DEF jumped
<1>2. <<Op.POP>> \in Seq(ByteValue) /\ IsCompiler(jumped)
  BY <1>1, BytesAre, OpcodesAreBytes DEF Alike
<1>3. Alike(jumped, e)
  BY <1>2, EmitIs
<1> HIDE DEF e
<1>4. Alike(c, e)
  BY <1>1, <1>3, AlikeTwice
<1> QED
  BY <1>1, <1>4 DEF e, jumped

LEMMA ThenStep ==
  ASSUME IInv, Then
  PROVE  IInv'
<1> DEFINE jumped == EmitJump(Current, Op.JUMP_IF_FALSE)
           e      == Emit(jumped, <<Op.POP>>)
           items  == << <<"statement">>, <<"else", Operand(jumped)>> >>
           name   == "then"
<1>1. Doing(name) /\ name \notin Opens /\ name \notin OfExpressions \cup OfVariables
  BY DEF Then, Opens, Endings, OfLoops, OfExpressions, OfVariables
<1>2. Staying(With(e), FALSE, items)
  BY DEF Then
<1>3. Alike(Current, e) /\ Operand(jumped) \in Int
  BY <1>1, RunsOn, OpcodesAreBytes, JumpAndPop
<1> HIDE DEF e, jumped
<1>4. PlainItems(items, name)
  BY <1>1, <1>3, StatementItems, TwoItems
<1> HIDE DEF items
<1>5. LikeNow(With(e))
  BY <1>1, <1>3, Written
<1> QED
  BY <1>1, <1>2, <1>4, <1>5, PlainStays

LEMMA ElseStep ==
  ASSUME IInv, Else
  PROVE  IInv'
<1> DEFINE jumped  == EmitJump(Current, Op.JUMP)
           patched == PatchJump(jumped, Argument(1))
           c       == patched.compiler
           e       == Emit(c, <<Op.POP>>)
           rest    == << <<"patch", Operand(jumped)>> >>
           first   == << <<"statement">> >>
           items   == first \o rest
           name    == "else"
<1>1. Doing(name) /\ name \notin Opens /\ name \notin OfExpressions \cup OfVariables
  BY DEF Else, Opens, Endings, OfLoops, OfExpressions, OfVariables
<1>2. Advancing(With(e), patched.error, items) \/ Staying(With(e), patched.error, rest)
  BY DEF Else
<1>3. Alike(Current, jumped) /\ Operand(jumped) \in Int
  BY <1>1, RunsOn, EmitJumpIs, OpcodesAreBytes
<1> HIDE DEF jumped
<1>4. Argument(1) \in Int
  BY <1>1, ArgumentsAre
<1>5. Alike(jumped, c)
  <2>1. IsCompiler(jumped)
    BY <1>3 DEF Alike
  <2> QED
    BY <1>4, <2>1, PatchJumpIs
<1> HIDE DEF c, patched
<1>6. Alike(c, e)
  <2>1. <<Op.POP>> \in Seq(ByteValue) /\ IsCompiler(c)
    BY <1>5, BytesAre, OpcodesAreBytes DEF Alike
  <2> QED
    BY <2>1, EmitIs
<1> HIDE DEF e
<1>7. LikeNow(With(e))
  <2>1. Alike(Current, e)
    BY <1>3, <1>5, <1>6, AlikeTwice
  <2> QED
    BY <1>1, <2>1, Written
<1>8. PlainItems(rest, name) /\ PlainItems(first, name)
  BY <1>1, <1>3, ExpressionItems, StatementItems, OneItem
<1> HIDE DEF first, rest
<1>9. PlainItems(items, name)
  BY <1>8, JoinedItems
<1> HIDE DEF items
<1>10. ASSUME Advancing(With(e), patched.error, items)  PROVE IInv'
  BY <1>1, <1>7, <1>9, <1>10, PlainAdvances
<1>11. ASSUME Staying(With(e), patched.error, rest)  PROVE IInv'
  BY <1>1, <1>7, <1>8, <1>11, PlainStays
<1> QED
  BY <1>2, <1>10, <1>11

LEMMA WhileBodyStep ==
  ASSUME IInv, WhileBody
  PROVE  IInv'
<1> DEFINE jumped == EmitJump(Current, Op.JUMP_IF_FALSE)
           e      == Emit(jumped, <<Op.POP>>)
           items  == << <<"statement">>, <<"loop", Argument(1)>>, <<"patch", Operand(jumped)>>,
                        <<"emit", <<Op.POP>> >> >>
           name   == "whileBody"
<1>1. Doing(name) /\ name \notin Opens /\ name \notin OfExpressions \cup OfVariables
  BY DEF WhileBody, Opens, Endings, OfLoops, OfExpressions, OfVariables
<1>2. Staying(With(e), FALSE, items)
  BY DEF WhileBody
<1>3. Alike(Current, e) /\ Operand(jumped) \in Int
  BY <1>1, RunsOn, OpcodesAreBytes, JumpAndPop
<1> HIDE DEF e, jumped
<1>4. PlainItems(items, name)
  <2> DEFINE a == <<"statement">>
             b == <<"loop", Argument(1)>>
             c == <<"patch", Operand(jumped)>>
             d == <<"emit", <<Op.POP>> >>
  <2>1. Argument(1) \in Int /\ <<Op.POP>> \in Seq(ByteValue)
    BY <1>1, ArgumentsAre, BytesAre, OpcodesAreBytes
  <2>2. Fits(a, name) /\ Fits(b, name) /\ Fits(c, name) /\ Fits(d, name)
    BY <1>1, <1>3, <2>1, ExpressionItems, StatementItems
  <2> HIDE DEF a, b, c, d
  <2>3. PlainItems(<<a, b, c, d>>, name)
    BY <2>2, FourItems
  <2> QED
    BY <2>3 DEF a, b, c, d
<1> HIDE DEF items
<1>5. LikeNow(With(e))
  BY <1>1, <1>3, Written
<1> QED
  BY <1>1, <1>2, <1>4, <1>5, PlainStays

LEMMA BlockStep ==
  ASSUME IInv, Block
  PROVE  IInv'
<1> DEFINE none == << <<"consume", "}">> >>
           some == << <<"declaration">>, <<"block">> >>
           name == "block"
<1>1. Doing(name) /\ name \notin Opens /\ name \notin OfExpressions \cup OfVariables
  BY DEF Block, Opens, Endings, OfLoops, OfExpressions, OfVariables
<1>2. Staying(compilers, FALSE, none) \/ Staying(compilers, FALSE, some)
  BY DEF Block
<1>3. PlainItems(none, name)
  BY ExpressionItems, OneItem
<1>4. PlainItems(some, name)
  BY <1>1, StatementItems, TwoItems
<1>5. LikeNow(compilers)
  BY <1>1, Unchanged
<1> HIDE DEF none, some
<1> QED
  BY <1>1, <1>2, <1>3, <1>4, <1>5, PlainStays

LEMMA ReturnStep ==
  ASSUME IInv, Return
  PROVE  IInv'
<1> DEFINE topLevel == Len(compilers) = 1
           e        == Emit(Current, <<Op.NIL, Op.RETURN>>)
           items    == <<Expression, <<"consume", ";">>, <<"emit", <<Op.RETURN>> >> >>
           name     == "return"
<1>1. Doing(name) /\ name \notin Opens
  BY DEF Return, Opens, Endings, OfLoops
<1>2. Advancing(With(e), topLevel, <<>>) \/ Staying(compilers, topLevel, items)
  BY DEF Return
<1>3. Alike(Current, e)
  <2>1. <<Op.NIL, Op.RETURN>> \in Seq(ByteValue) /\ IsCompiler(Current)
    BY <1>1, RunsOn, BytesAre, OpcodesAreBytes
  <2> QED
    BY <2>1, EmitIs
<1>4. PlainItems(items, name) /\ PlainItems(<<>>, name)
  <2>1. <<Op.RETURN>> \in Seq(ByteValue)
    BY BytesAre, OpcodesAreBytes
  <2> QED
    BY <2>1, ExpressionItems, ThreeItems, NoItems
<1> HIDE DEF e, items, topLevel
<1>5. LikeNow(With(e)) /\ LikeNow(compilers)
  BY <1>1, <1>3, Written, Unchanged
<1>6. ASSUME Advancing(With(e), topLevel, <<>>)  PROVE IInv'
  BY <1>1, <1>4, <1>5, <1>6, PlainAdvances
<1>7. ASSUME Staying(compilers, topLevel, items)  PROVE IInv'
  BY <1>1, <1>4, <1>5, <1>7, PlainStays
<1> QED
  BY <1>2, <1>6, <1>7

LEMMA SynchronizeStep ==
  ASSUME IInv, Synchronize
  PROVE  IInv'
<1> DEFINE items == << <<"synchronize">> >>
           name  == "synchronize"
<1>1. Doing(name) /\ name \notin Opens /\ name \notin OfExpressions \cup OfVariables
  BY DEF Synchronize, Opens, Endings, OfLoops, OfExpressions, OfVariables
<1>2. Staying(compilers, FALSE, <<>>) \/ Advancing(compilers, FALSE, items)
  BY DEF Synchronize
<1>3. PlainItems(items, name) /\ PlainItems(<<>>, name) /\ LikeNow(compilers)
  BY <1>1, StatementItems, OneItem, NoItems, Unchanged
<1> HIDE DEF items
<1>4. ASSUME Staying(compilers, FALSE, <<>>)  PROVE IInv'
  BY <1>1, <1>3, <1>4, PlainStays
<1>5. ASSUME Advancing(compilers, FALSE, items)  PROVE IInv'
  BY <1>1, <1>3, <1>5, PlainAdvances
<1> QED
  BY <1>2, <1>4, <1>5

LEMMA ProgramStep ==
  ASSUME IInv, Program
  PROVE  IInv'
<1> DEFINE last == << <<"endCompiler">> >>
           more == << <<"declaration">>, <<"program">> >>
           name == "program"
<1>1. Doing(name) /\ name \notin Opens /\ name \notin OfExpressions \cup OfVariables
  BY DEF Program, Opens, Endings, OfLoops, OfExpressions, OfVariables
<1>2. Advancing(compilers, FALSE, last) \/ Staying(compilers, FALSE, more)
  BY DEF Program
<1>3. PlainItems(last, name) /\ PlainItems(more, name) /\ LikeNow(compilers)
  BY <1>1, StatementItems, OneItem, TwoItems, Unchanged
<1> HIDE DEF last, more
<1>4. ASSUME Advancing(compilers, FALSE, last)  PROVE IInv'
  BY <1>1, <1>3, <1>4, PlainAdvances
<1>5. ASSUME Staying(compilers, FALSE, more)  PROVE IInv'
  BY <1>1, <1>3, <1>5, PlainStays
<1> QED
  BY <1>2, <1>4, <1>5

LEMMA RecoverStep ==
  ASSUME IInv, Recover
  PROVE  IInv'
<1> DEFINE items == IF panicMode THEN << <<"synchronize">> >> ELSE <<>>
           name  == "recover"
<1>1. Doing(name) /\ name \notin Opens /\ name \notin OfExpressions \cup OfVariables /\ name # "scan"
  BY DEF Recover, Opens, Endings, OfLoops, OfExpressions, OfVariables
<1>2. /\ todo' = items \o Tail(todo) /\ compilers' = compilers /\ previous' = previous
      /\ hadError' = hadError /\ panicMode' = FALSE
  BY DEF Recover
<1>3. PlainItems(items, name)
  <2>1. PlainItems(<< <<"synchronize">> >>, name) /\ PlainItems(<<>>, name)
    BY <1>1, StatementItems, OneItem, NoItems
  <2> QED
    BY <2>1
<1> HIDE DEF items
<1>4. Continues(compilers, items)
  BY <1>1, <1>3, Unchanged, PlainContinues
<1>5. TodoOK(items \o Tail(todo)) /\ ~ Has(items \o Tail(todo), "infixRule")
  BY <1>1, <1>3, PlainIs, TodoReplaced
<1>6. Running'
  <2>1. Running' = (/\ TodoOK(items \o Tail(todo))
                    /\ ChainOK(compilers, Has(items \o Tail(todo), "define"))
                    /\ ScopeDepths(compilers) = Depths(items \o Tail(todo), Endings)
                    /\ Has(items \o Tail(todo), "infixRule") => Precedence(previous) > 0)
    BY <1>2 DEF Running
  <2> QED
    BY <1>4, <1>5, <2>1 DEF Continues
<1>7. hadError' \in BOOLEAN /\ panicMode' \in BOOLEAN /\ (panicMode' => hadError')
  BY <1>2 DEF IInv
<1> QED
  BY <1>6, <1>7 DEF IInv

\* Blocks, and for, which is one.
LEMMA SameRange ==
  ASSUME NEW a \in Nat, NEW b \in Nat, 1..a = 1..b
  PROVE  a = b
<1>1. \A i \in Nat : i > 0 => (i <= a <=> i <= b)
  OBVIOUS
<1>2. (a > 0 => a <= b) /\ (b > 0 => b <= a)
  BY <1>1
<1> QED
  BY <1>2

LEMMA DepthsNow ==
  ASSUME IInv, NEW name, Doing(name)
  PROVE  LET d == Depths(todo, Endings)
         IN  /\ IsSeq(d) /\ Len(d) = Len(compilers)
             /\ \A k \in 1..Len(compilers) : d[k] = compilers[k].scopeDepth
<1> DEFINE d == Depths(todo, Endings)
           n == Len(compilers)
<1>1. IsSeq(d) /\ n \in Nat /\ ScopeDepths(compilers) = d
  BY RunsOn DEF DepthsOK
<1>2. d = [k \in 1..n |-> compilers[k].scopeDepth]
  BY <1>1 DEF ScopeDepths
<1> HIDE DEF d
<1>3. DOMAIN d = 1..Len(d) /\ Len(d) \in Nat
  BY <1>1, SeqIs DEF IsSeq
<1>4. 1..Len(d) = 1..n
  BY <1>2, <1>3
<1>5. Len(d) = n
  BY <1>1, <1>3, <1>4, SameRange
<1> QED
  BY <1>1, <1>2, <1>5 DEF d

LEMMA ChangedDepth ==
  ASSUME NEW chain, NEW defining, ChainOK(chain, defining), Len(chain) > 0, NEW still,
         NEW e, IsCompiler(e), InOrder(e), IF still THEN CanMark(e) ELSE IsReady(e)
  PROVE  LET after == [chain EXCEPT ![Len(chain)] = e]
         IN  /\ ChainOK(after, still)
             /\ ScopeDepths(after) = [ScopeDepths(chain) EXCEPT ![Len(chain)] = e.scopeDepth]
<1> DEFINE n     == Len(chain)
           after == [chain EXCEPT ![n] = e]
           d     == ScopeDepths(chain)
           g     == [d EXCEPT ![n] = e.scopeDepth]
<1>1. /\ ChainOK(after, still) /\ Len(after) = n /\ n \in Nat
      /\ \A k \in 1..(n - 1) : after[k] = chain[k]
      /\ after[n] = e
  BY LastChanged
<1> HIDE DEF after
<1>2. d = [k \in 1..n |-> chain[k].scopeDepth]
  BY DEF ScopeDepths
<1> HIDE DEF d
<1>3. g = [k \in 1..n |-> IF k = n THEN e.scopeDepth ELSE d[k]]
  BY <1>2
<1>4. ScopeDepths(after) = [k \in 1..n |-> after[k].scopeDepth]
  BY <1>1 DEF ScopeDepths
<1>5. \A k \in 1..n : after[k].scopeDepth = IF k = n THEN e.scopeDepth ELSE d[k]
  <2>1. \A k \in 1..n : k = n \/ k \in 1..(n - 1)
    BY <1>1
  <2> QED
    BY <1>1, <1>2, <2>1
<1> HIDE DEF g, n
<1>6. ScopeDepths(after) = g
  BY <1>3, <1>4, <1>5
<1> QED
  BY <1>1, <1>6 DEF after, g, d, n

LEMMA LastDepth ==
  ASSUME IInv, NEW name, Doing(name), NEW e, IsCompiler(e), InOrder(e), NEW still \in BOOLEAN,
         IF still THEN CanMark(e) ELSE IsReady(e)
  PROVE  /\ ChainOK(With(e), still)
         /\ ScopeDepths(With(e)) = [Depths(todo, Endings) EXCEPT ![Len(compilers)] = e.scopeDepth]
<1> DEFINE defining == Has(todo, "define")
<1>1. /\ ChainOK(compilers, defining) /\ Len(compilers) > 0
      /\ ScopeDepths(compilers) = Depths(todo, Endings)
  BY RunsOn DEF Running
<1> HIDE DEF defining
<1>2. /\ ChainOK(With(e), still)
      /\ ScopeDepths(With(e)) = [ScopeDepths(compilers) EXCEPT ![Len(compilers)] = e.scopeDepth]
  BY <1>1, ChangedDepth DEF With
<1> QED
  BY <1>1, <1>2

LEMMA AfterEnding ==
  ASSUME NEW d, NEW last \in Endings
  PROVE  After(d, last, Endings) = [d EXCEPT ![Len(d)] = d[Len(d)] + 1]
BY DEF After, Endings, OfLoops

\* "{" and for begin a block that is to be ended.
LEMMA BlockBegun ==
  ASSUME IInv, NEW name, Doing(name), name \notin OfExpressions \cup {"define"}, name \notin Opens,
         NEW last \in Endings
  PROVE  LET e == BeginScope(Current)
         IN  /\ ChainOK(With(e), FALSE)
             /\ ScopeDepths(With(e)) = After(Depths(Tail(todo), Endings), last, Endings)
<1> DEFINE d == Depths(todo, Endings)
           e == BeginScope(Current)
           n == Len(compilers)
<1>1. d = Depths(Tail(todo), Endings)
  <2>1. d = After(Depths(Tail(todo), Endings), name, Endings)
    BY RestIs DEF Opens
  <2> QED
    BY <2>1 DEF After, Opens
<1>2. n \in Nat /\ n > 0 /\ IsCompiler(Current) /\ InOrder(Current) /\ IsReady(Current)
      /\ ChainOK(compilers, FALSE)
  BY RunsOn, ReadyForStatements
<1>3. IsCompiler(e) /\ InOrder(e) /\ IsReady(e) /\ e.scopeDepth = Current.scopeDepth + 1
  BY <1>2, BeginScopeIs
<1> HIDE DEF e
<1>4. ChainOK(With(e), FALSE) /\ ScopeDepths(With(e)) = [d EXCEPT ![n] = e.scopeDepth]
  BY <1>2, <1>3, LastDepth
<1>5. Len(d) = n /\ d[n] = Current.scopeDepth
  <2>1. Len(d) = n /\ \A k \in 1..n : d[k] = compilers[k].scopeDepth
    BY DepthsNow
  <2>2. n \in 1..n
    BY <1>2
  <2> HIDE DEF d
  <2> QED
    BY <2>1, <2>2 DEF Current
<1> HIDE DEF d, n
<1>6. After(d, last, Endings) = [d EXCEPT ![n] = e.scopeDepth]
  <2>1. After(d, last, Endings) = [d EXCEPT ![Len(d)] = d[Len(d)] + 1]
    BY AfterEnding
  <2> QED
    BY <1>3, <1>5, <2>1
<1>7. /\ ChainOK(With(e), FALSE)
      /\ ScopeDepths(With(e)) = After(Depths(Tail(todo), Endings), last, Endings)
  BY <1>1, <1>4, <1>6
<1> QED
  BY <1>7 DEF e

LEMMA LeaveScopeStep ==
  ASSUME IInv, LeaveScope
  PROVE  IInv'
<1> DEFINE exits == ScopeExits(Current)
           code  == [i \in DOMAIN exits |-> IF exits[i] THEN Op.CLOSE_UPVALUE ELSE Op.POP]
           c     == EndScope(Current)
           e     == Emit(c, code)
           name  == "endScope"
           d     == Depths(Tail(todo), Endings)
           n     == Len(compilers)
           g     == Depths(todo, Endings)
<1>1. /\ Doing(name) /\ name \notin OfExpressions \cup {"define"} /\ name \notin OfExpressions
      /\ name # "scan" /\ name \in Endings
  BY DEF LeaveScope, OfExpressions, Endings
<1>2. Staying(With(e), FALSE, <<>>)
  BY DEF LeaveScope
<1>3. n \in Nat /\ n > 0 /\ IsCompiler(Current) /\ InOrder(Current) /\ IsReady(Current)
      /\ ChainOK(compilers, FALSE)
  BY <1>1, RunsOn, ReadyForStatements
<1>4. IsSeq(d) /\ (\A k \in 1..Len(d) : d[k] \in Nat) /\ g = [d EXCEPT ![Len(d)] = d[Len(d)] + 1]
  <2>1. DepthsOK(d) /\ g = After(d, name, Endings)
    BY <1>1, RestIs
  <2>2. After(d, name, Endings) = [d EXCEPT ![Len(d)] = d[Len(d)] + 1]
    BY <1>1, AfterEnding
  <2> HIDE DEF d, g
  <2> QED
    BY <2>1, <2>2 DEF DepthsOK
<1>5. IsSeq(g) /\ Len(g) = n /\ \A k \in 1..n : g[k] = compilers[k].scopeDepth
  BY <1>1, DepthsNow
<1> HIDE DEF d, g, n
<1>6. Len(d) = n /\ d = [k \in 1..n |-> d[k]]
  <2>1. DOMAIN g = 1..n /\ DOMAIN d = 1..Len(d) /\ Len(d) \in Nat
    BY <1>4, <1>5, SeqIs DEF IsSeq
  <2>2. 1..n = 1..Len(d)
    BY <1>4, <2>1
  <2>3. n = Len(d)
    BY <1>3, <2>1, <2>2, SameRange
  <2> QED
    BY <1>4, <2>3 DEF IsSeq
<1>7. Current.scopeDepth = d[n] + 1 /\ d[n] \in Nat
  <2>1. n \in 1..n
    BY <1>3
  <2>2. g[n] = Current.scopeDepth
    BY <1>5, <2>1 DEF Current, n
  <2> QED
    BY <1>4, <1>6, <2>1, <2>2
<1>8. /\ IsCompiler(c) /\ InOrder(c) /\ IsReady(c) /\ c.scopeDepth = Current.scopeDepth - 1
      /\ Len(Current.locals) - Kept(Current) \in Nat
  BY <1>3, <1>7, EndScopeIs
<1>9. code \in Seq(ByteValue)
  BY <1>8, ExitsAre
<1> HIDE DEF c, code, exits
<1>10. IsCompiler(e) /\ InOrder(e) /\ IsReady(e) /\ e.scopeDepth = d[n]
  <2>1. Alike(c, e)
    BY <1>8, <1>9, EmitIs
  <2> HIDE DEF e
  <2> QED
    BY <1>7, <1>8, <2>1, AlikeIs DEF Alike
<1> HIDE DEF e
<1>11. ChainOK(With(e), FALSE) /\ ScopeDepths(With(e)) = [g EXCEPT ![n] = d[n]]
  <2>1. ScopeDepths(With(e)) = [Depths(todo, Endings) EXCEPT ![Len(compilers)] = e.scopeDepth]
        /\ ChainOK(With(e), FALSE)
    BY <1>1, <1>3, <1>10, LastDepth
  <2> QED
    BY <1>10, <2>1 DEF g, n
<1>12. [g EXCEPT ![n] = d[n]] = d
  BY <1>4, <1>6
<1>13. ScopeDepths(With(e)) = Depths(Tail(todo), Endings)
  BY <1>11, <1>12 DEF d
<1> QED
  BY <1>1, <1>2, <1>11, <1>13, NoItems, QuietStays

LEMMA EndCompilerStep ==
  ASSUME IInv, EndCompiler
  PROVE  IInv'
BY DEF EndCompiler, IInv

LEMMA Appended ==
  /\ \A a : Append(<<>>, a) = <<a>>
  /\ \A a, b, c : Append(<<a, b>>, c) = <<a, b, c>>
  /\ \A a, b, c, d : Append(<<a, b, c>>, d) = <<a, b, c, d>>
<1>1. ASSUME NEW a  PROVE Append(<<>>, a) = <<a>>
  <2> DEFINE s == <<>>
             u == <<a>>
             t == Append(s, a)
  <2>1. s \in Seq({a}) /\ Len(s) = 0
    OBVIOUS
  <2>2. u \in Seq({a}) /\ Len(u) = 1 /\ u[1] = a
    OBVIOUS
  <2> HIDE DEF s, u
  <2>3. IsSeq(s)
    BY <2>1, IsOne
  <2>4. /\ IsSeq(t) /\ Len(t) = Len(s) + 1
        /\ \A i \in 1..Len(s) : t[i] = s[i]
        /\ t[Len(s) + 1] = a
    BY <2>3, AppendIs
  <2> HIDE DEF t
  <2>5. \A i \in 1..1 : i = 1
    OBVIOUS
  <2>6. Len(t) = Len(u) /\ \A i \in 1..1 : t[i] = u[i]
    BY <2>1, <2>2, <2>4, <2>5
  <2>7. t = u
    BY <2>2, <2>4, <2>6, IsOne, Same
  <2> QED
    BY <2>7 DEF s, t, u
<1>2. ASSUME NEW a, NEW b, NEW c  PROVE Append(<<a, b>>, c) = <<a, b, c>>
  <2> DEFINE s == <<a, b>>
             u == <<a, b, c>>
             t == Append(s, c)
  <2>1. s \in Seq({a, b, c}) /\ Len(s) = 2 /\ s[1] = a /\ s[2] = b
    OBVIOUS
  <2>2. u \in Seq({a, b, c}) /\ Len(u) = 3 /\ u[1] = a /\ u[2] = b /\ u[3] = c
    OBVIOUS
  <2> HIDE DEF s, u
  <2>3. IsSeq(s)
    BY <2>1, IsOne
  <2>4. /\ IsSeq(t) /\ Len(t) = Len(s) + 1
        /\ \A i \in 1..Len(s) : t[i] = s[i]
        /\ t[Len(s) + 1] = c
    BY <2>3, AppendIs
  <2> HIDE DEF t
  <2>5. \A i \in 1..3 : i = 1 \/ i = 2 \/ i = 3
    OBVIOUS
  <2>6. Len(t) = Len(u) /\ \A i \in 1..3 : t[i] = u[i]
    BY <2>1, <2>2, <2>4, <2>5
  <2>7. t = u
    BY <2>2, <2>4, <2>6, IsOne, Same
  <2> QED
    BY <2>7 DEF s, t, u
<1>3. ASSUME NEW a, NEW b, NEW c, NEW d  PROVE Append(<<a, b, c>>, d) = <<a, b, c, d>>
  <2> DEFINE s == <<a, b, c>>
             u == <<a, b, c, d>>
             t == Append(s, d)
  <2>1. s \in Seq({a, b, c, d}) /\ Len(s) = 3 /\ s[1] = a /\ s[2] = b /\ s[3] = c
    OBVIOUS
  <2>2. u \in Seq({a, b, c, d}) /\ Len(u) = 4 /\ u[1] = a /\ u[2] = b /\ u[3] = c /\ u[4] = d
    OBVIOUS
  <2> HIDE DEF s, u
  <2>3. IsSeq(s)
    BY <2>1, IsOne
  <2>4. /\ IsSeq(t) /\ Len(t) = Len(s) + 1
        /\ \A i \in 1..Len(s) : t[i] = s[i]
        /\ t[Len(s) + 1] = d
    BY <2>3, AppendIs
  <2> HIDE DEF t
  <2>5. \A i \in 1..4 : i = 1 \/ i = 2 \/ i = 3 \/ i = 4
    OBVIOUS
  <2>6. Len(t) = Len(u) /\ \A i \in 1..4 : t[i] = u[i]
    BY <2>1, <2>2, <2>4, <2>5
  <2>7. t = u
    BY <2>2, <2>4, <2>6, IsOne, Same
  <2> QED
    BY <2>7 DEF s, t, u
<1> QED
  BY <1>1, <1>2, <1>3

\* The condition of if and while, and what comes after it.
LEMMA ConditionItems ==
  ASSUME NEW name, NEW item, Fits(item, name)
  PROVE  PlainItems(Append(Condition, item), name)
<1> DEFINE a == <<"consume", "(">>
           b == Expression
           c == <<"consume", ")">>
<1>1. Fits(a, name) /\ Fits(b, name) /\ Fits(c, name)
  BY ExpressionItems
<1>2. Condition = <<a, b, c>>
  BY DEF Condition
<1> HIDE DEF a, b, c
<1>3. Append(Condition, item) = <<a, b, c, item>>
  BY <1>2, Appended
<1>4. PlainItems(<<a, b, c, item>>, name)
  BY <1>1, FourItems
<1> QED
  BY <1>3, <1>4

LEMMA StatementStep ==
  ASSUME IInv, Statement
  PROVE  IInv'
<1> DEFINE e     == BeginScope(Current)
           for   == << <<"consume", "(">>, <<"forInitializer">>, <<"forCondition">> >>
           if    == Append(Condition, <<"then">>)
           ret   == << <<"return">> >>
           while == Append(Condition, <<"whileBody", Len(Current.code)>>)
           block == << <<"block">>, <<"endScope">> >>
           name  == "statement"
<1>1. /\ Doing(name) /\ name \notin Opens /\ name \notin OfExpressions \cup OfVariables
      /\ name \notin OfExpressions \cup {"define"} /\ name \notin OfExpressions
  BY DEF Statement, Opens, Endings, OfLoops, OfExpressions, OfVariables
<1>2. \/ Advancing(compilers, FALSE, PrintStatement) \/ Advancing(compilers, FALSE, if)
      \/ Advancing(compilers, FALSE, ret) \/ Advancing(compilers, FALSE, while)
      \/ Advancing(With(e), FALSE, for) \/ Advancing(With(e), FALSE, block)
      \/ Staying(compilers, FALSE, ExpressionStatement)
  BY DEF Statement
<1>3. PlainItems(PrintStatement, name) /\ PlainItems(ExpressionStatement, name)
  <2>1. <<Op.PRINT>> \in Seq(ByteValue) /\ <<Op.POP>> \in Seq(ByteValue)
    BY BytesAre, OpcodesAreBytes
  <2> DEFINE b     == <<"consume", ";">>
             print == <<"emit", <<Op.PRINT>> >>
             pop   == <<"emit", <<Op.POP>> >>
  <2>2. Fits(Expression, name) /\ Fits(b, name) /\ Fits(print, name) /\ Fits(pop, name)
    BY <2>1, ExpressionItems
  <2> HIDE DEF b, print, pop
  <2>3. PlainItems(<<Expression, b, print>>, name) /\ PlainItems(<<Expression, b, pop>>, name)
    BY <2>2, ThreeItems
  <2> QED
    BY <2>3 DEF b, print, pop, PrintStatement, ExpressionStatement
<1>4. PlainItems(if, name) /\ PlainItems(ret, name)
  <2>1. Fits(<<"then">>, name) /\ Fits(<<"return">>, name)
    BY <1>1, StatementItems
  <2> QED
    BY <2>1, ConditionItems, OneItem
<1>5. PlainItems(while, name)
  <2>1. Len(Current.code) \in Int
    <3>1. Current.code \in Seq(ByteValue)
      BY <1>1, RunsOn DEF IsCompiler
    <3> QED
      BY <3>1, LenProperties
  <2>2. Fits(<<"whileBody", Len(Current.code)>>, name)
    BY <1>1, <2>1, StatementItems
  <2> QED
    BY <2>2, ConditionItems
<1>6. EndsWith(for, name, "forCondition")
  <2> DEFINE a == <<"consume", "(">>
             b == <<"forInitializer">>
             z == <<"forCondition">>
  <2>1. MayBeOn(a, name, "forCondition") /\ MayBeOn(b, name, "forCondition")
    BY <1>1, ExpressionItems, StatementItems DEF MayBeOn, On, OfLoops, OfExpressions, OfVariables
  <2>2. MayEnd(z, name, "forCondition")
    BY DEF MayEnd, ItemOK, On, OfExpressions, OfVariables, OfLoops
  <2> HIDE DEF a, b, z
  <2>3. EndsWith(<<a, b, z>>, name, "forCondition")
    BY <2>1, <2>2, ThreeEnd
  <2> QED
    BY <2>3 DEF a, b, z
<1>7. EndsWith(block, name, "endScope")
  <2> DEFINE a == <<"block">>
             z == <<"endScope">>
  <2>1. MayBeOn(a, name, "endScope")
    BY <1>1, StatementItems DEF MayBeOn, On, OfLoops
  <2>2. MayEnd(z, name, "endScope")
    BY DEF MayEnd, ItemOK, On, OfExpressions, OfVariables, OfLoops
  <2> HIDE DEF a, z
  <2>3. EndsWith(<<a, z>>, name, "endScope")
    BY <2>1, <2>2, TwoEnd
  <2> QED
    BY <2>3 DEF a, z
<1>8. /\ ChainOK(With(e), FALSE)
      /\ ScopeDepths(With(e)) = After(Depths(Tail(todo), Endings), "forCondition", Endings)
      /\ ScopeDepths(With(e)) = After(Depths(Tail(todo), Endings), "endScope", Endings)
  <2>1. "forCondition" \in Endings /\ "endScope" \in Endings
    BY DEF Endings, OfLoops
  <2> QED
    BY <1>1, <2>1, BlockBegun
<1>9. LikeNow(compilers)
  BY <1>1, Unchanged
<1>10. FALSE \in BOOLEAN /\ (FALSE <=> "forCondition" = "define") /\ (FALSE <=> "endScope" = "define")
  OBVIOUS
<1> HIDE DEF e, for, if, ret, while, block
<1>11. ASSUME \/ Advancing(compilers, FALSE, PrintStatement) \/ Advancing(compilers, FALSE, if)
              \/ Advancing(compilers, FALSE, ret) \/ Advancing(compilers, FALSE, while)
       PROVE  IInv'
  BY <1>1, <1>3, <1>4, <1>5, <1>9, <1>11, PlainAdvances
<1>12. ASSUME Staying(compilers, FALSE, ExpressionStatement)  PROVE IInv'
  BY <1>1, <1>3, <1>9, <1>12, PlainStays
<1>13. ASSUME Advancing(With(e), FALSE, for)  PROVE IInv'
  BY <1>1, <1>6, <1>8, <1>10, <1>13, EndsAdvances
<1>14. ASSUME Advancing(With(e), FALSE, block)  PROVE IInv'
  BY <1>1, <1>7, <1>8, <1>10, <1>14, EndsAdvances
<1> QED
  BY <1>2, <1>11, <1>12, <1>13, <1>14

LEMMA ForInitializerStep ==
  ASSUME IInv, ForInitializer
  PROVE  IInv'
<1> DEFINE variable == << <<"consume", "identifier">>, <<"var">> >>
           name     == "forInitializer"
<1>1. Doing(name) /\ name \notin Opens
  BY DEF ForInitializer, Opens, Endings, OfLoops
<1>2. \/ Advancing(compilers, FALSE, <<>>) \/ Advancing(compilers, FALSE, variable)
      \/ Staying(compilers, FALSE, ExpressionStatement)
  BY DEF ForInitializer
<1>3. PlainItems(<<>>, name) /\ LikeNow(compilers)
  BY <1>1, NoItems, Unchanged
<1>4. PlainItems(ExpressionStatement, name)
  <2>1. <<Op.POP>> \in Seq(ByteValue)
    BY BytesAre, OpcodesAreBytes
  <2> DEFINE b   == <<"consume", ";">>
             pop == <<"emit", <<Op.POP>> >>
  <2>2. Fits(Expression, name) /\ Fits(b, name) /\ Fits(pop, name)
    BY <2>1, ExpressionItems
  <2> HIDE DEF b, pop
  <2>3. PlainItems(<<Expression, b, pop>>, name)
    BY <2>2, ThreeItems
  <2> QED
    BY <2>3 DEF b, pop, ExpressionStatement
<1>5. PlainItems(variable, name)
  <2>1. Fits(<<"var">>, name)
    BY DEF Fits, MayReplace, ItemOK, Endings, OfLoops, OfExpressions, OfVariables
  <2> QED
    BY <2>1, ExpressionItems, TwoItems
<1> HIDE DEF variable
<1>6. ASSUME Advancing(compilers, FALSE, <<>>) \/ Advancing(compilers, FALSE, variable)  PROVE IInv'
  BY <1>1, <1>3, <1>5, <1>6, PlainAdvances
<1>7. ASSUME Staying(compilers, FALSE, ExpressionStatement)  PROVE IInv'
  BY <1>1, <1>3, <1>4, <1>7, PlainStays
<1> QED
  BY <1>2, <1>6, <1>7

\* One end of the block of for takes the place of another.
LEMMA EndReplaced ==
  ASSUME IInv, NEW name \in OfLoops, Doing(name), NEW last \in Endings
  PROVE  /\ ChainOK(compilers, FALSE)
         /\ ScopeDepths(compilers) = After(Depths(Tail(todo), Endings), last, Endings)
         /\ Depths(todo, Endings) = After(Depths(Tail(todo), Endings), last, Endings)
<1> DEFINE d == Depths(Tail(todo), Endings)
<1>1. name \notin OfExpressions \cup {"define"} /\ name # "scan" /\ name \in Endings
  BY DEF OfLoops, OfExpressions, Endings
<1>2. ChainOK(compilers, FALSE) /\ ScopeDepths(compilers) = Depths(todo, Endings)
  BY <1>1, ReadyForStatements, RunsOn
<1>3. Depths(todo, Endings) = After(d, name, Endings)
  BY <1>1, RestIs
<1> HIDE DEF d
<1>4. After(d, name, Endings) = After(d, last, Endings)
  BY <1>1, AfterEnding
<1>5. Depths(todo, Endings) = After(d, last, Endings)
  BY <1>3, <1>4
<1> QED
  BY <1>2, <1>5 DEF d

\* The end of a loop is in the same place as the one before it.
LEMMA MayEndFor ==
  ASSUME NEW name \in OfLoops, NEW item, ItemOK(item), item[1] \in Endings
  PROVE  MayEnd(item, name, item[1])
BY DEF MayEnd, On, OfLoops, Endings, OfExpressions, OfVariables

LEMMA ForConditionStep ==
  ASSUME IInv, ForCondition
  PROVE  IInv'
<1> DEFINE loopStart == Len(Current.code)
           z    == <<"forIncrement", loopStart, <<>> >>
           x    == <<"forExit", loopStart>>
           none == <<z>>
           some == <<Expression, <<"consume", ";">>, x>>
           name == "forCondition"
<1>1. /\ Doing(name) /\ name \notin OfExpressions /\ name \in OfLoops
      /\ "forIncrement" \in Endings /\ "forExit" \in Endings
  BY DEF ForCondition, OfExpressions, OfLoops, Endings
<1>2. Advancing(compilers, FALSE, none) \/ Staying(compilers, FALSE, some)
  BY DEF ForCondition
<1>3. loopStart \in Int
  <2>1. Current.code \in Seq(ByteValue)
    BY <1>1, RunsOn DEF IsCompiler
  <2> QED
    BY <2>1, LenProperties
<1> HIDE DEF loopStart
<1>4. ItemOK(z) /\ z[1] = "forIncrement" /\ ItemOK(x) /\ x[1] = "forExit"
  BY <1>3 DEF ItemOK
<1> HIDE DEF z, x
<1>5. MayEnd(z, name, "forIncrement") /\ MayEnd(x, name, "forExit")
  BY <1>1, <1>4, MayEndFor
<1>6. EndsWith(none, name, "forIncrement")
  BY <1>5, OneEnd
<1>7. EndsWith(some, name, "forExit")
  <2> DEFINE b == <<"consume", ";">>
  <2>1. MayBeOn(Expression, name, "forExit") /\ MayBeOn(b, name, "forExit")
    <3>1. Fits(Expression, name) /\ Fits(b, name)
      BY ExpressionItems
    <3>2. On(Expression[1], "forExit") /\ On(b[1], "forExit")
      BY DEF On, OfLoops, OfExpressions, Expression
    <3> QED
      BY <3>1, <3>2 DEF MayBeOn
  <2> HIDE DEF b
  <2>2. EndsWith(<<Expression, b, x>>, name, "forExit")
    BY <1>5, <2>1, ThreeEnd
  <2> QED
    BY <2>2 DEF b
<1>8. /\ ChainOK(compilers, FALSE)
      /\ ScopeDepths(compilers) = After(Depths(Tail(todo), Endings), "forIncrement", Endings)
      /\ ScopeDepths(compilers) = After(Depths(Tail(todo), Endings), "forExit", Endings)
  BY <1>1, EndReplaced
<1>9. FALSE \in BOOLEAN /\ (FALSE <=> "forIncrement" = "define") /\ (FALSE <=> "forExit" = "define")
  OBVIOUS
<1> HIDE DEF none, some
<1>10. ASSUME Advancing(compilers, FALSE, none)  PROVE IInv'
  BY <1>1, <1>6, <1>8, <1>9, <1>10, EndsAdvances
<1>11. ASSUME Staying(compilers, FALSE, some)  PROVE IInv'
  BY <1>1, <1>7, <1>8, <1>9, <1>11, EndsStays
<1> QED
  BY <1>2, <1>10, <1>11

LEMMA ForExitStep ==
  ASSUME IInv, ForExit
  PROVE  IInv'
<1> DEFINE jumped == EmitJump(Current, Op.JUMP_IF_FALSE)
           e      == Emit(jumped, <<Op.POP>>)
           atExit == << <<"patch", Operand(jumped)>>, <<"emit", <<Op.POP>> >> >>
           z      == <<"forIncrement", Argument(1), atExit>>
           items  == <<z>>
           name   == "forExit"
           last   == "forIncrement"
<1>1. /\ Doing(name) /\ name \notin OfExpressions /\ name \in OfLoops /\ last \in Endings
      /\ name \notin OfExpressions \cup {"define"}
  BY DEF ForExit, OfExpressions, OfLoops, Endings
<1>2. Staying(With(e), FALSE, items)
  BY DEF ForExit
<1>3. Alike(Current, e) /\ Operand(jumped) \in Int /\ Argument(1) \in Int
  BY <1>1, RunsOn, OpcodesAreBytes, JumpAndPop, ArgumentsAre
<1> HIDE DEF e, jumped
<1>4. ItemOK(z) /\ z[1] = last
  <2>1. z[1] = last /\ z[2] = Argument(1) /\ z[3] = atExit
    OBVIOUS
  <2>2. atExit[1][2] = Operand(jumped)
    OBVIOUS
  <2> DEFINE exit == z[3][1][2]
  <2>3. exit = Operand(jumped)
    BY <2>1, <2>2
  <2>4. z[3] = << <<"patch", exit>>, <<"emit", <<Op.POP>> >> >>
    BY <2>1, <2>3
  <2> HIDE DEF z
  <2> QED
    BY <1>3, <2>1, <2>3, <2>4 DEF ItemOK
<1> HIDE DEF z
<1>5. EndsWith(items, name, last)
  <2>1. MayEnd(z, name, last)
    BY <1>1, <1>4, MayEndFor
  <2> QED
    BY <2>1, OneEnd
<1> HIDE DEF items
<1>6. IsCompiler(e) /\ InOrder(e) /\ IsReady(e) /\ e.scopeDepth = Current.scopeDepth
  <2>1. InOrder(Current) /\ IsReady(Current)
    BY <1>1, RunsOn, ReadyForStatements
  <2> QED
    BY <1>3, <2>1, AlikeIs DEF Alike
<1>7. ChainOK(With(e), FALSE) /\ ScopeDepths(With(e)) = Depths(todo, Endings)
  BY <1>1, <1>6, ScopesKept
<1>8. ScopeDepths(With(e)) = After(Depths(Tail(todo), Endings), last, Endings)
  BY <1>1, <1>7, EndReplaced
<1>9. FALSE \in BOOLEAN /\ (FALSE <=> last = "define")
  OBVIOUS
<1> QED
  BY <1>1, <1>2, <1>5, <1>7, <1>8, <1>9, EndsStays

LEMMA SevenItems ==
  ASSUME NEW name, NEW a, NEW b, NEW c, NEW d, NEW e, NEW f, NEW g,
         Fits(a, name), Fits(b, name), Fits(c, name), Fits(d, name), Fits(e, name),
         Fits(f, name), Fits(g, name)
  PROVE  PlainItems(<<a, b, c, d, e, f, g>>, name)
<1> DEFINE s == <<a, b, c, d, e, f, g>>
<1>1. /\ s \in Seq({a, b, c, d, e, f, g}) /\ Len(s) = 7
      /\ s[1] = a /\ s[2] = b /\ s[3] = c /\ s[4] = d /\ s[5] = e /\ s[6] = f /\ s[7] = g
  OBVIOUS
<1> HIDE DEF s
<1>2. IsSeq(s) /\ \A i \in 1..Len(s) : i = 1 \/ i = 2 \/ i = 3 \/ i = 4 \/ i = 5 \/ i = 6 \/ i = 7
  BY <1>1, IsOne
<1> QED
  BY <1>1, <1>2 DEF PlainItems, s

\* What comes behind a loop ends the block of for.
LEMMA AtExitEnds ==
  ASSUME IInv, Doing("forIncrement")
  PROVE  EndsWith(Append(Argument(2), <<"endScope">>), "forIncrement", "endScope")
<1> DEFINE z    == <<"endScope">>
           name == "forIncrement"
           last == "endScope"
           exit == Argument(2)[1][2]
           p    == <<"patch", exit>>
           q    == <<"emit", <<Op.POP>> >>
<1>1. \/ Argument(2) = <<>>
      \/ exit \in Int /\ Argument(2) = <<p, q>>
  <2>1. ItemOK(Head(todo)) /\ Head(todo)[1] = name
    BY RunsOn, FirstItem
  <2>2. Argument(2) = Head(todo)[3]
    BY DEF Argument
  <2> QED
    BY <2>1, <2>2 DEF ItemOK
<1>2. MayEnd(z, name, last)
  BY DEF MayEnd, ItemOK, On, OfExpressions, OfVariables, OfLoops
<1>3. CASE Argument(2) = <<>>
  <2> HIDE DEF z
  <2>1. EndsWith(<<z>>, name, last)
    BY <1>2, OneEnd
  <2>2. Append(Argument(2), z) = <<z>>
    BY <1>3, Appended
  <2>3. EndsWith(Append(Argument(2), z), name, last)
    BY <2>1, <2>2
  <2> QED
    BY <2>3 DEF z
<1>4. CASE exit \in Int /\ Argument(2) = <<p, q>>
  <2> HIDE DEF exit
  <2>1. <<Op.POP>> \in Seq(ByteValue) /\ exit \in Int
    BY <1>4, BytesAre, OpcodesAreBytes
  <2>2. MayBeOn(p, name, last) /\ MayBeOn(q, name, last)
    BY <2>1, ExpressionItems DEF MayBeOn, On, OfLoops
  <2>3. Argument(2) = <<p, q>>
    BY <1>4
  <2> HIDE DEF p, q, z
  <2>4. EndsWith(<<p, q, z>>, name, last)
    BY <1>2, <2>2, ThreeEnd
  <2>5. Append(Argument(2), z) = <<p, q, z>>
    BY <2>3, Appended
  <2>6. EndsWith(Append(Argument(2), z), name, last)
    BY <2>4, <2>5
  <2> QED
    BY <2>6 DEF z
<1> QED
  BY <1>1, <1>3, <1>4

\* Anything may be on top of the end of a block.
LEMMA OnEndOfBlock ==
  ASSUME NEW name, NEW items, PlainItems(items, name), NEW rest, EndsWith(rest, name, "endScope")
  PROVE  EndsWith(items \o rest, name, "endScope")
<1>1. \A i \in 1..Len(items) : On(items[i][1], "endScope")
  BY DEF On, OfLoops
<1> QED
  BY <1>1, JoinedEnds

LEMMA ForIncrementStep ==
  ASSUME IInv, ForIncrement
  PROVE  IInv'
<1> DEFINE loopStart == Argument(1)
           atExit    == Append(Argument(2), <<"endScope">>)
           e         == EmitJump(Current, Op.JUMP)
           start     == Len(e.code)
           none      == << <<"statement">>, <<"loop", loopStart>> >>
           some      == << Expression, <<"emit", <<Op.POP>> >>, <<"consume", ")">>,
                           <<"loop", loopStart>>, <<"patch", Operand(e)>>,
                           <<"statement">>, <<"loop", start>> >>
           short     == none \o atExit
           long      == some \o atExit
           name      == "forIncrement"
           last      == "endScope"
<1>1. /\ Doing(name) /\ name \notin OfExpressions /\ name \in OfLoops /\ last \in Endings
      /\ name \notin OfExpressions \cup {"define"} /\ name \notin OfExpressions \cup OfVariables
  BY DEF ForIncrement, OfExpressions, OfVariables, OfLoops, Endings
<1>2. Advancing(compilers, FALSE, short) \/ Staying(With(e), FALSE, long)
  BY DEF ForIncrement
<1>3. EndsWith(atExit, name, last)
  BY <1>1, AtExitEnds
<1> HIDE DEF atExit
<1>4. loopStart \in Int /\ Alike(Current, e) /\ Operand(e) \in Int
  BY <1>1, RunsOn, ArgumentsAre, OpcodesAreBytes, EmitJumpIs
<1> HIDE DEF e, loopStart
<1>5. start \in Int
  <2>1. e.code \in Seq(ByteValue)
    BY <1>4 DEF Alike, IsCompiler
  <2> QED
    BY <2>1, LenProperties
<1> HIDE DEF start
<1>6. PlainItems(none, name)
  BY <1>1, <1>4, ExpressionItems, StatementItems, TwoItems
<1>7. PlainItems(some, name)
  <2> DEFINE a == <<"emit", <<Op.POP>> >>
             b == <<"consume", ")">>
             c == <<"loop", loopStart>>
             d == <<"patch", Operand(e)>>
             f == <<"statement">>
             g == <<"loop", start>>
  <2>1. <<Op.POP>> \in Seq(ByteValue)
    BY BytesAre, OpcodesAreBytes
  <2>2. Fits(Expression, name) /\ Fits(a, name) /\ Fits(b, name) /\ Fits(c, name) /\ Fits(d, name)
        /\ Fits(g, name)
    BY <1>4, <1>5, <2>1, ExpressionItems
  <2>3. Fits(f, name)
    BY <1>1, StatementItems
  <2> HIDE DEF a, b, c, d, f, g
  <2>4. PlainItems(<<Expression, a, b, c, d, f, g>>, name)
    BY <2>2, <2>3, SevenItems
  <2> QED
    BY <2>4 DEF a, b, c, d, f, g
<1> HIDE DEF none, some
<1>8. EndsWith(short, name, last) /\ EndsWith(long, name, last)
  BY <1>3, <1>6, <1>7, OnEndOfBlock
<1> HIDE DEF short, long
<1>9. /\ ChainOK(compilers, FALSE)
      /\ ScopeDepths(compilers) = After(Depths(Tail(todo), Endings), last, Endings)
      /\ Depths(todo, Endings) = After(Depths(Tail(todo), Endings), last, Endings)
  BY <1>1, EndReplaced
<1>10. ChainOK(With(e), FALSE) /\ ScopeDepths(With(e)) = Depths(todo, Endings)
  <2>1. InOrder(Current) /\ IsReady(Current)
    BY <1>1, RunsOn, ReadyForStatements
  <2>2. IsCompiler(e) /\ InOrder(e) /\ IsReady(e) /\ e.scopeDepth = Current.scopeDepth
    BY <1>4, <2>1, AlikeIs DEF Alike
  <2> QED
    BY <1>1, <2>2, ScopesKept
<1>11. ScopeDepths(With(e)) = After(Depths(Tail(todo), Endings), last, Endings)
  BY <1>9, <1>10
<1>12. FALSE \in BOOLEAN /\ (FALSE <=> last = "define")
  OBVIOUS
<1>13. ASSUME Advancing(compilers, FALSE, short)  PROVE IInv'
  BY <1>1, <1>8, <1>9, <1>12, <1>13, EndsAdvances
<1>14. ASSUME Staying(With(e), FALSE, long)  PROVE IInv'
  BY <1>1, <1>8, <1>10, <1>11, <1>12, <1>14, EndsStays
<1> QED
  BY <1>2, <1>13, <1>14

----------------------------------------------------------------------------
\* The whole
LEMMA InitiallyIs ==
  ASSUME CompilerInit
  PROVE  IInv
<1> DEFINE c     == NewFunction("script")
           chain == <<c>>
           prog  == <<"program">>
           items == <<Scan, prog>>
           name  == "recover"
<1>1. /\ todo = items /\ compilers = chain /\ hadError = FALSE /\ panicMode = FALSE
  BY DEF CompilerInit
<1>2. PlainItems(items, name)
  <2>1. name \notin OfExpressions \cup OfVariables
    BY DEF OfExpressions, OfVariables
  <2>2. Fits(prog, name)
    BY <2>1, StatementItems
  <2>3. Fits(Scan, name)
    BY ScanIs DEF Scan, Fits, MayReplace, Endings, OfLoops, OfExpressions
  <2> HIDE DEF prog
  <2> QED
    BY <2>2, <2>3, TwoItems
<1> HIDE DEF items, c
<1>3. /\ TodoOK(items) /\ IsSeq(items) /\ ~ Has(items, "infixRule") /\ ~ Has(items, "define")
      /\ Quiet(items, Len(items), Endings)
  BY <1>2, PlainIs DEF InPlaceOf
<1>4. Depths(items, Endings) = <<0>>
  <2>1. items \o <<>> = items
    <3> DEFINE u == items \o <<>>
    <3>1. /\ IsSeq(u) /\ Len(u) = Len(items) + Len(<<>>)
          /\ \A i \in 1..Len(items) : u[i] = items[i]
      BY <1>3, EmptyIs, ConcatIs
    <3>2. Len(u) = Len(items) /\ Len(items) \in Nat
      BY <1>3, <3>1, EmptyIs DEF IsSeq
    <3> HIDE DEF u
    <3>3. u = items
      BY <1>3, <3>1, <3>2, Same
    <3> QED
      BY <3>3 DEF u
  <2>2. Depths(items \o <<>>, Endings) = Depths(<<>>, Endings)
    BY <1>3, EmptyIs, DepthsOverNone
  <2>3. Depths(<<>>, Endings) = <<0>>
    BY NoDepths
  <2> QED
    BY <2>1, <2>2, <2>3
<1>5. IsCompiler(c) /\ InOrder(c) /\ IsReady(c) /\ c.scopeDepth = 0
  BY NewFunctionIs DEF c
<1>6. IsSeq(chain) /\ Len(chain) = 1 /\ chain[1] = c
  <2>1. chain \in Seq({c}) /\ Len(chain) = 1 /\ chain[1] = c
    OBVIOUS
  <2> QED
    BY <2>1, IsOne
<1> HIDE DEF chain
<1>7. ChainOK(chain, FALSE)
  BY <1>5, <1>6 DEF ChainOK
<1>8. ScopeDepths(chain) = <<0>>
  <2> DEFINE d == ScopeDepths(chain)
             z == <<0>>
  <2>1. d = [k \in 1..1 |-> chain[k].scopeDepth]
    BY <1>6 DEF ScopeDepths
  <2>2. z \in Seq({0}) /\ Len(z) = 1 /\ z[1] = 0
    OBVIOUS
  <2> HIDE DEF d, z
  <2>3. z = [k \in 1..1 |-> z[k]]
    BY <2>2, IsOne DEF IsSeq
  <2>4. \A k \in 1..1 : chain[k].scopeDepth = z[k]
    BY <1>5, <1>6, <2>2
  <2>5. d = z
    BY <2>1, <2>3, <2>4
  <2> QED
    BY <2>5 DEF d, z
<1>9. ChainOK(compilers, Has(todo, "define"))
  <2>1. Has(items, "define") \in BOOLEAN /\ FALSE \in BOOLEAN /\ (FALSE <=> Has(items, "define"))
    BY <1>3, HasIsBoolean
  <2>2. ChainOK(chain, Has(items, "define"))
    BY <1>7, <2>1, ChainFor
  <2> QED
    BY <1>1, <2>2
<1>10. Running
  BY <1>1, <1>3, <1>4, <1>8, <1>9 DEF Running
<1> QED
  BY <1>1, <1>10 DEF IInv

LEMMA StepIs ==
  ASSUME IInv, [CompilerNext]_parserVars
  PROVE  IInv'
<1>1. CASE UNCHANGED parserVars
  <2>1. /\ todo' = todo /\ compilers' = compilers /\ previous' = previous
        /\ hadError' = hadError /\ panicMode' = panicMode
    BY <1>1 DEF parserVars
  <2> QED
    BY <2>1 DEF IInv, Running
<1>2. CASE ScanToken \/ Consume \/ EmitBytes \/ Patch \/ Loop
  BY <1>2, ScanTokenStep, ConsumeStep, EmitStep, PatchStep, LoopStep
<1>3. CASE ParsePrecedence \/ Prefix \/ Infix \/ InfixRule \/ Arguments \/ NextArgument
  BY <1>3, ParsePrecedenceStep, PrefixStep, InfixStep, InfixRuleStep, ArgumentsStep, NextArgumentStep
<1>4. CASE Declaration \/ VarDeclaration \/ Define
  BY <1>4, DeclarationStep, VarDeclarationStep, DefineStep
<1>5. CASE FunDeclaration \/ Parameters \/ Parameter \/ ParameterName \/ EndFunction
  BY <1>5, FunDeclarationStep, ParametersStep, ParameterStep, ParameterNameStep, EndFunctionStep
<1>6. CASE Statement \/ Block \/ LeaveScope \/ Then \/ Else \/ WhileBody
  BY <1>6, StatementStep, BlockStep, LeaveScopeStep, ThenStep, ElseStep, WhileBodyStep
<1>7. CASE ForInitializer \/ ForCondition \/ ForExit \/ ForIncrement \/ Return
  BY <1>7, ForInitializerStep, ForConditionStep, ForExitStep, ForIncrementStep, ReturnStep
<1>8. CASE Recover \/ Synchronize \/ Program \/ EndCompiler
  BY <1>8, RecoverStep, SynchronizeStep, ProgramStep, EndCompilerStep
<1> QED
  BY <1>1, <1>2, <1>3, <1>4, <1>5, <1>6, <1>7, <1>8 DEF CompilerNext

LEMMA RunningTyped ==
  ASSUME Running, NEW k \in DOMAIN compilers
  PROVE  LET compiler == compilers[k]
         IN  /\ Len(compiler.locals) \in 1..MaxLocals
             /\ Len(compiler.upvalues) \in 0..MaxUpvalues
             /\ \A i \in DOMAIN compiler.locals : compiler.locals[i].depth \in -1..compiler.scopeDepth
             /\ compiler.scopeDepth = 0 => k = 1 /\ Len(compiler.locals) = 1
             /\ compiler.code \in Seq(ByteValue)
<1> DEFINE defining == Has(todo, "define")
           c == compilers[k]
           n == Len(compilers)
           d == ScopeDepths(compilers)
<1>1. IsSeq(compilers) /\ n \in Nat /\ DOMAIN compilers = 1..n
  BY SeqIs DEF Running, ChainOK, IsSeq
<1>2. k \in 1..n
  BY <1>1
<1>3. IsCompiler(c) /\ InOrder(c)
  <2>1. ChainOK(compilers, defining)
    BY DEF Running
  <2> HIDE DEF defining
  <2> QED
    BY <1>2, <2>1 DEF ChainOK
<1>4. c.scopeDepth = 0 => k = 1
  <2>1. "endFunction" \notin Endings /\ IsSeq(todo) /\ d = Depths(todo, Endings)
    BY DEF Endings, OfLoops, Running, TodoOK
  <2>2. DepthsOK(d)
    BY <2>1, DepthsAreOK
  <2>3. DOMAIN d = 1..Len(d)
    BY <2>2, SeqIs DEF DepthsOK
  <2>4. DOMAIN d = 1..n /\ d[k] = c.scopeDepth
    BY <1>2 DEF ScopeDepths
  <2> HIDE DEF d, c
  <2>5. k > 1 => d[k] > 0
    BY <1>2, <2>2, <2>3, <2>4 DEF DepthsOK
  <2> QED
    BY <1>1, <1>2, <2>4, <2>5
<1> HIDE DEF c
<1>5. /\ IsSeq(c.locals) /\ Len(c.locals) \in 1..MaxLocals /\ DOMAIN c.locals = 1..Len(c.locals)
      /\ Len(c.upvalues) \in 0..MaxUpvalues /\ c.scopeDepth \in Nat /\ c.code \in Seq(ByteValue)
  BY <1>3, SeqIs DEF IsCompiler
<1>6. /\ c.locals[1].depth = 0
      /\ \A i \in 2..Len(c.locals) :
           \/ c.locals[i].depth \in 1..c.scopeDepth
           \/ c.locals[i].depth = -1 /\ c.scopeDepth > 0
  BY <1>3 DEF InOrder, Uninitialized
<1>7. ASSUME NEW i \in 1..Len(c.locals)  PROVE c.locals[i].depth \in -1..c.scopeDepth
  <2>1. i = 1 \/ i \in 2..Len(c.locals)
    BY <1>5
  <2> QED
    BY <1>5, <1>6, <2>1
<1>8. c.scopeDepth = 0 => Len(c.locals) = 1
  <2>1. ASSUME c.scopeDepth = 0, Len(c.locals) # 1  PROVE FALSE
    <3>1. Len(c.locals) \in 2..Len(c.locals)
      <4> DEFINE m == Len(c.locals)
      <4>1. m \in 1..MaxLocals /\ m # 1 /\ MaxLocals \in Nat
        BY <1>5, <2>1, ResolutionAssumption
      <4> HIDE DEF m
      <4>2. m \in 2..m
        BY <4>1
      <4> QED
        BY <4>2 DEF m
    <3> QED
      BY <1>5, <1>6, <2>1, <3>1
  <2> QED
    BY <2>1
<1> QED
  BY <1>4, <1>5, <1>7, <1>8 DEF c

LEMMA InvTypes ==
  ASSUME IInv
  PROVE  TypeOK
<1>1. todo # <<>> => compilers # <<>>
  <2>1. ASSUME todo # <<>>  PROVE compilers # <<>>
    <3> DEFINE name == Head(todo)[1]
    <3>1. Doing(name)
      BY <2>1 DEF Doing
    <3> HIDE DEF name
    <3>2. IsSeq(compilers) /\ Len(compilers) > 0
      BY <3>1, RunsOn
    <3> QED
      BY <3>2, EmptyIs
  <2> QED
    BY <2>1
<1>2. ASSUME NEW k \in DOMAIN compilers  PROVE Running
  <2>1. compilers # <<>>
    BY <1>2
  <2> QED
    BY <2>1 DEF IInv
<1>3. hadError \in BOOLEAN /\ panicMode \in BOOLEAN /\ (panicMode => hadError)
  BY DEF IInv
<1> QED
  BY <1>1, <1>2, <1>3, RunningTyped DEF TypeOK

LEMMA InvStarts ==
  ASSUME IInv
  PROVE  CleanStart
<1> DEFINE name  == "declaration"
           block == {"endScope"}
<1> SUFFICES ASSUME Doing(name)
             PROVE  /\ \A k \in DOMAIN compilers : \A i \in DOMAIN compilers[k].locals :
                         compilers[k].locals[i].depth # Uninitialized
                    /\ [k \in DOMAIN compilers |-> compilers[k].scopeDepth] = Depths(todo, block)
  BY DEF CleanStart
<1>1. name \notin OfExpressions \cup {"define"} /\ name \notin OfExpressions \cup OfVariables
      /\ name \notin OfLoops
  BY DEF OfExpressions, OfVariables, OfLoops
<1>2. /\ IsSeq(compilers) /\ DOMAIN compilers = 1..Len(compilers) /\ TodoOK(todo) /\ todo # <<>>
      /\ ScopeDepths(compilers) = Depths(todo, Endings)
  BY RunsOn, SeqIs
<1>3. ASSUME NEW k \in 1..Len(compilers)  PROVE IsReady(compilers[k]) /\ IsCompiler(compilers[k])
  <2>1. ChainOK(compilers, FALSE) /\ Len(compilers) \in Nat
    BY <1>1, ReadyForStatements, RunsOn
  <2> QED
    BY <1>3, <2>1 DEF ChainOK
<1>4. ASSUME NEW k \in DOMAIN compilers, NEW i \in DOMAIN compilers[k].locals
      PROVE  compilers[k].locals[i].depth # Uninitialized
  <2> DEFINE c == compilers[k]
  <2>1. IsReady(c) /\ IsCompiler(c)
    BY <1>2, <1>3
  <2> HIDE DEF c
  <2>2. DOMAIN c.locals = 1..Len(c.locals)
    BY <2>1, SeqIs DEF IsCompiler
  <2>3. \A j \in DOMAIN c.locals : c.locals[j].depth # Uninitialized
    BY <2>1, <2>2 DEF IsReady
  <2> QED
    BY <2>3 DEF c
<1>5. \A i \in 1..Len(todo) : todo[i][1] \notin OfLoops
  <2>1. /\ IsSeq(todo) /\ Len(todo) \in Nat /\ Len(todo) > 0 /\ Head(todo) = todo[1]
        /\ \A i, j \in 1..Len(todo) : i < j => On(todo[i][1], todo[j][1])
    BY <1>2, TailIs DEF TodoOK, IsSeq
  <2>2. todo[1][1] = name
    BY <2>1 DEF Doing
  <2>3. ASSUME NEW i \in 1..Len(todo), i # 1  PROVE todo[i][1] \notin OfLoops
    <3>1. On(name, todo[i][1])
      <4>1. 1 \in 1..Len(todo) /\ 1 < i
        BY <2>1, <2>3
      <4> QED
        BY <2>1, <2>2, <4>1
    <3> QED
      BY <1>1, <3>1 DEF On
  <2> QED
    BY <1>1, <2>2, <2>3
<1>6. Depths(todo, Endings) = Depths(todo, block)
  <2>1. ASSUME NEW i \in 1..Len(todo), NEW d
        PROVE  After(d, todo[i][1], Endings) = After(d, todo[i][1], block)
    BY <1>5 DEF After, Endings
  <2>2. IsSeq(todo)
    BY <1>2 DEF TodoOK
  <2> HIDE DEF block
  <2> QED
    BY <2>1, <2>2, SameDepths
<1>7. [k \in DOMAIN compilers |-> compilers[k].scopeDepth] = Depths(todo, block)
  BY <1>2, <1>6 DEF ScopeDepths
<1> QED
  BY <1>4, <1>7

\* Whatever the text, in every state of compile() what its functions have left to do ends
\* the blocks and functions that are open, and no others; only a declaration that is under
\* way has a variable that waits for its initializer.
THEOREM Inductive == Spec => []IInv
<1>1. CompilerInit => IInv
  BY InitiallyIs
<1>2. IInv /\ [CompilerNext]_parserVars => IInv'
  BY StepIs
<1> QED
  BY <1>1, <1>2, PTL DEF Spec

\* Whatever the text and the errors in it, the compiler stays within its arrays of locals
\* and upvalues, each operand and instruction it writes is a byte, and no function but the
\* script is ever outside of all blocks: addLocal(), addUpvalue() and makeConstant() report
\* their limits and go on.
THEOREM TypesHold == Spec => []TypeOK
<1>1. IInv => TypeOK
  BY InvTypes
<1> QED
  BY <1>1, Inductive, PTL

\* Each declaration() begins in the state the one before it would have left without an
\* error: no local waits for its initializer, and in each function just the blocks around
\* are open, those that block(), forStatement() and function() are still to end.
THEOREM StartsClean == Spec => []CleanStart
<1>1. IInv => CleanStart
  BY InvStarts
<1> QED
  BY <1>1, Inductive, PTL
=============================================================================
