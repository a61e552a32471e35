---------------------------- MODULE ScopesProofs ----------------------------
(***************************************************************************)
(* Proofs about module Scopes, for every set of names, every size of the   *)
(* arrays of a compiler and every nesting of functions and blocks: the     *)
(* upvalues denote what they should, and the slots and upvalues that the   *)
(* compiler assigns are the variables of lexical scoping.                  *)
(***************************************************************************)
EXTENDS Scopes, LeastNumber, SequenceTheorems, FiniteSetTheorems

CompilerType == [locals : Seq(Local), upvalues : Seq(Upvalue), scopeDepth : 0..MaxDepth]

\* Below the function itself in slot 0 the locals are those of its blocks, the outer
\* ones first, and only the last one may be in its initializer.
LocalsInOrder(compiler) ==
  LET locals == compiler.locals
  IN  /\ locals[1].name = NoName /\ locals[1].depth = 0
      /\ \A i \in 2..Len(locals) :
           /\ locals[i].name \in Name
           /\ \/ locals[i].depth \in 1..compiler.scopeDepth
              \/ i = Len(locals) /\ locals[i].depth = Uninitialized /\ compiler.scopeDepth > 0
      /\ \A i, j \in DOMAIN locals :
           i < j => locals[i].depth <= locals[j].depth \/ locals[j].depth = Uninitialized

\* Every upvalue refers to a captured local or to an upvalue of the function around.
RefersOut(chain, k) ==
  \A i \in DOMAIN chain[k].upvalues :
    LET upvalue == chain[k].upvalues[i]
    IN  /\ k > 1
        /\ IF upvalue.isLocal
           THEN /\ upvalue.index + 1 \in DOMAIN chain[k - 1].locals
                /\ chain[k - 1].locals[upvalue.index + 1].isCaptured
           ELSE upvalue.index + 1 \in DOMAIN chain[k - 1].upvalues

\* addUpvalue() does not add one that is there.
NoTwoAlike(chain, k) ==
  \A i, j \in DOMAIN chain[k].upvalues :
    chain[k].upvalues[i] = chain[k].upvalues[j] => i = j

Sound(chain, k) ==
  /\ LocalsInOrder(chain[k])
  /\ k < Len(chain) => IsReady(chain[k])
  /\ k > 1 => chain[k].scopeDepth > 0
  /\ RefersOut(chain, k)
  /\ NoTwoAlike(chain, k)

IInv == TypeOK /\ (~ hadError => \A k \in DOMAIN compilers : Sound(compilers, k))

----------------------------------------------------------------------------
LEMMA IsAppend ==
  ASSUME NEW S, NEW s \in Seq(S), NEW t \in Seq(S), NEW e \in S,
         Len(t) = Len(s) + 1, \A i \in 1..Len(s) : t[i] = s[i], t[Len(s) + 1] = e
  PROVE  t = Append(s, e)
<1> DEFINE a == Append(s, e)
<1>1. /\ a \in Seq(S) /\ Len(a) = Len(s) + 1 /\ Len(s) \in Nat
      /\ \A i \in 1..Len(s) : a[i] = s[i]
      /\ a[Len(s) + 1] = e
  BY AppendProperties, LenProperties
<1> HIDE DEF a
<1>2. \A i \in 1..Len(t) : t[i] = a[i]
  BY <1>1
<1>3. t = a
  BY <1>1, <1>2, SeqEqual
<1> QED
  BY <1>3 DEF a

LEMMA IsPrefix ==
  ASSUME NEW S, NEW s \in Seq(S), NEW t \in Seq(S),
         Len(t) <= Len(s), \A i \in 1..Len(t) : t[i] = s[i]
  PROVE  t = SubSeq(s, 1, Len(t))
<1> DEFINE a == SubSeq(s, 1, Len(t))
<1>1. Len(s) \in Nat /\ Len(t) \in Nat
  BY LenProperties
<1>2. \A i \in 1..Len(t) : s[i] \in S
  BY <1>1, ElementOfSeq
<1>3. /\ a \in Seq(S)
      /\ Len(a) = (IF 1 <= Len(t) THEN Len(t) - 1 + 1 ELSE 0)
      /\ \A i \in 1..(Len(t) - 1 + 1) : a[i] = s[1 + i - 1]
  BY <1>1, <1>2, SubSeqProperties
<1> HIDE DEF a
<1>4. Len(a) = Len(t) /\ \A i \in 1..Len(t) : a[i] = t[i]
  BY <1>1, <1>3
<1>5. t = a
  BY <1>3, <1>4, SeqEqual
<1> QED
  BY <1>5 DEF a

LEMMA PrefixIs ==
  ASSUME NEW S, NEW s \in Seq(S), NEW m \in 0..Len(s)
  PROVE  /\ SubSeq(s, 1, m) \in Seq(S)
         /\ Len(SubSeq(s, 1, m)) = m
         /\ DOMAIN SubSeq(s, 1, m) = 1..m
         /\ \A i \in 1..m : SubSeq(s, 1, m)[i] = s[i]
<1> DEFINE a == SubSeq(s, 1, m)
<1>1. Len(s) \in Nat
  BY LenProperties
<1>2. m \in Nat /\ \A i \in 1..m : s[i] \in S
  BY <1>1, ElementOfSeq
<1>3. /\ a \in Seq(S)
      /\ Len(a) = (IF 1 <= m THEN m - 1 + 1 ELSE 0)
      /\ \A i \in 1..(m - 1 + 1) : a[i] = s[1 + i - 1]
  BY <1>1, <1>2, SubSeqProperties
<1> HIDE DEF a
<1>4. Len(a) = m /\ \A i \in 1..m : a[i] = s[i]
  BY <1>2, <1>3
<1>5. DOMAIN a = 1..m
  BY <1>3, <1>4, LenProperties
<1> QED
  BY <1>3, <1>4, <1>5 DEF a

Highs(compiler, d) ==
  {n \in 0..Len(compiler.locals) : n > 0 => compiler.locals[n].depth \in 0..(d - 1)}

LEMMA HighestIs ==
  ASSUME NEW S \in SUBSET Nat, S # {}, NEW bound \in Nat, \A n \in S : n <= bound
  PROVE  /\ Highest(S) \in S
         /\ \A n \in S : n <= Highest(S)
BY Greatest DEF Highest

\* The variables that the upvalues of one function denote, given those of the functions
\* around it.
Denotes(chain, of, k) ==
  IF k = 0 THEN <<>>
  ELSE [i \in DOMAIN chain[k].upvalues |->
          IF chain[k].upvalues[i].isLocal THEN <<k - 1, chain[k].upvalues[i].index>>
          ELSE of[k - 1][chain[k].upvalues[i].index + 1]]

LEMMA DenotesIsLocal ==
  ASSUME NEW chain, NEW of, NEW other, NEW k, k # 0 => of[k - 1] = other[k - 1]
  PROVE  Denotes(chain, of, k) = Denotes(chain, other, k)
BY DEF Denotes

LEMMA DenotationExists ==
  ASSUME NEW chain, NEW n \in Nat
  PROVE  \E of : of = [k \in 0..n |-> Denotes(chain, of, k)]
<1> DEFINE N == {m \in Nat : \E of : of = [k \in 0..m |-> Denotes(chain, of, k)]}
<1>1. 0 \in N
  <2> DEFINE f == [k \in 0..0 |-> <<>>]
  <2>1. ASSUME NEW k \in 0..0  PROVE f[k] = Denotes(chain, f, k)
    BY DEF Denotes
  <2>2. f = [k \in 0..0 |-> Denotes(chain, f, k)]
    BY <2>1
  <2> QED
    BY <2>2
<1>2. ASSUME NEW m \in Nat, m \in N  PROVE m + 1 \in N
  <2>1. PICK f : f = [k \in 0..m |-> Denotes(chain, f, k)]
    BY <1>2
  <2> DEFINE g == [k \in 0..(m + 1) |-> IF k = m + 1 THEN Denotes(chain, f, k) ELSE f[k]]
  <2>2. ASSUME NEW k \in 1..(m + 1)  PROVE g[k - 1] = f[k - 1]
    OBVIOUS
  <2>3. ASSUME NEW k \in 0..(m + 1)  PROVE g[k] = Denotes(chain, g, k)
    <3>1. g[k] = Denotes(chain, f, k)
      BY <2>1
    <3>2. k # 0 => f[k - 1] = g[k - 1]
      BY <2>2
    <3> HIDE DEF g
    <3> QED
      BY <3>1, <3>2, DenotesIsLocal
  <2>4. DOMAIN g = 0..(m + 1) /\ g = [k \in DOMAIN g |-> g[k]]
    OBVIOUS
  <2> HIDE DEF g
  <2>5. g = [k \in 0..(m + 1) |-> Denotes(chain, g, k)]
    BY <2>3, <2>4
  <2> QED
    BY <2>5
<1> QED
  <2> HIDE DEF N
  <2>1. n \in N
    BY <1>1, <1>2, Induction
  <2> QED
    BY <2>1 DEF N

LEMMA DenotationIs ==
  ASSUME NEW chain, Len(chain) \in Nat
  PROVE  /\ DOMAIN Denotation(chain) = 0..Len(chain)
         /\ \A k \in 0..Len(chain) : Denotation(chain)[k] = Denotes(chain, Denotation(chain), k)
<1>1. Denotation(chain) = [k \in 0..Len(chain) |-> Denotes(chain, Denotation(chain), k)]
  <2>1. \E of : of = [k \in 0..Len(chain) |-> Denotes(chain, of, k)]
    BY DenotationExists
  <2> QED
    BY <2>1, Zenon DEF Denotation, Denotes
<1> QED
  BY <1>1

\* The same for a function that is not the imaginary one around the outermost.
LEMMA DenotedBy ==
  ASSUME NEW chain, Len(chain) \in Nat, NEW k \in 1..Len(chain)
  PROVE  /\ DOMAIN Denotation(chain)[k] = DOMAIN chain[k].upvalues
         /\ \A i \in DOMAIN chain[k].upvalues :
              Denotation(chain)[k][i] =
                IF chain[k].upvalues[i].isLocal THEN <<k - 1, chain[k].upvalues[i].index>>
                ELSE Denotation(chain)[k - 1][chain[k].upvalues[i].index + 1]
<1>1. Denotation(chain)[k] = Denotes(chain, Denotation(chain), k)
  BY DenotationIs
<1> QED
  BY <1>1 DEF Denotes

\* What the upvalues of a function denote is a matter of the functions up to it.
LEMMA DenotationIsLocal ==
  ASSUME NEW chain, NEW other, NEW m \in Nat,
         Len(chain) \in Nat, Len(other) \in Nat, m <= Len(chain), m <= Len(other),
         \A k \in 1..m : chain[k].upvalues = other[k].upvalues
  PROVE  \A k \in 0..m : Denotation(chain)[k] = Denotation(other)[k]
<1> DEFINE N == {k \in Nat : k <= m => Denotation(chain)[k] = Denotation(other)[k]}
<1>1. 0 \in N
  BY DenotationIs DEF Denotes
<1>2. ASSUME NEW k \in Nat, k \in N  PROVE k + 1 \in N
  <2> SUFFICES ASSUME k + 1 <= m  PROVE Denotation(chain)[k + 1] = Denotation(other)[k + 1]
    OBVIOUS
  <2>1. chain[k + 1].upvalues = other[k + 1].upvalues
    OBVIOUS
  <2>2. Denotation(chain)[k] = Denotation(other)[k]
    BY <1>2
  <2>3. Denotes(chain, Denotation(chain), k + 1) = Denotes(other, Denotation(other), k + 1)
    BY <2>1, <2>2 DEF Denotes
  <2> QED
    BY <2>3, DenotationIs
<1> QED
  <2> HIDE DEF N
  <2>1. Nat \subseteq N
    BY <1>1, <1>2, Induction
  <2> QED
    BY <2>1 DEF N

----------------------------------------------------------------------------
\* The locals of a compiler, as the operations on them leave them.

LEMMA CompilerIs ==
  ASSUME NEW c \in CompilerType
  PROVE  /\ c = [locals |-> c.locals, upvalues |-> c.upvalues, scopeDepth |-> c.scopeDepth]
         /\ c.locals \in Seq(Local) /\ Len(c.locals) \in Nat
         /\ DOMAIN c.locals = 1..Len(c.locals)
         /\ \A i \in 1..Len(c.locals) :
              /\ c.locals[i] \in Local
              /\ c.locals[i].name \in Name \cup {NoName}
              /\ c.locals[i].depth \in Int /\ c.locals[i].depth \in -1..MaxDepth
              /\ c.locals[i].isCaptured \in BOOLEAN
         /\ c.upvalues \in Seq(Upvalue) /\ Len(c.upvalues) \in Nat
         /\ DOMAIN c.upvalues = 1..Len(c.upvalues)
         /\ c.scopeDepth \in 0..MaxDepth /\ c.scopeDepth \in Nat
<1> USE ScopesAssumption
<1>1. /\ c = [locals |-> c.locals, upvalues |-> c.upvalues, scopeDepth |-> c.scopeDepth]
      /\ c.locals \in Seq(Local) /\ c.upvalues \in Seq(Upvalue) /\ c.scopeDepth \in 0..MaxDepth
  BY DEF CompilerType
<1>2. /\ Len(c.locals) \in Nat /\ DOMAIN c.locals = 1..Len(c.locals)
      /\ Len(c.upvalues) \in Nat /\ DOMAIN c.upvalues = 1..Len(c.upvalues)
  BY <1>1, LenProperties
<1>3. ASSUME NEW i \in 1..Len(c.locals)
      PROVE  /\ c.locals[i] \in Local
             /\ c.locals[i].name \in Name \cup {NoName}
             /\ c.locals[i].depth \in Int /\ c.locals[i].depth \in -1..MaxDepth
             /\ c.locals[i].isCaptured \in BOOLEAN
  <2>1. c.locals[i] \in Local
    BY <1>1, ElementOfSeq
  <2> QED
    BY <2>1 DEF Local
<1> QED
  BY <1>1, <1>2, <1>3

\* Every block knows how many locals are from outside it.
LEMMA OutsideIs ==
  ASSUME NEW c \in CompilerType, NEW d \in Int
  PROVE  /\ Outside(c, d) \in Highs(c, d) /\ Outside(c, d) \in 0..Len(c.locals)
         /\ \A n \in Highs(c, d) : n <= Outside(c, d)
<1>1. Len(c.locals) \in Nat
  BY CompilerIs
<1>2. /\ Highs(c, d) \in SUBSET Nat /\ Highs(c, d) \subseteq 0..Len(c.locals)
      /\ 0 \in Highs(c, d)
      /\ \A n \in Highs(c, d) : n <= Len(c.locals)
  BY <1>1 DEF Highs
<1>3. Outside(c, d) = Highest(Highs(c, d))
  BY DEF Outside, Highs
<1> QED
  BY <1>1, <1>2, <1>3, HighestIs

LEMMA OutsideFollows ==
  ASSUME NEW c, NEW other, NEW d, Highs(c, d) = Highs(other, d)
  PROVE  Outside(c, d) = Outside(other, d)
BY DEF Outside, Highs

LEMMA BlocksAre ==
  ASSUME NEW c \in CompilerType
  PROVE  /\ BlocksOf(c) \in Seq(Nat)
         /\ Len(BlocksOf(c)) = c.scopeDepth + 1
         /\ \A d \in 1..(c.scopeDepth + 1) : BlocksOf(c)[d] = Outside(c, d - 1)
<1>1. c.scopeDepth \in Nat
  BY CompilerIs
<1>2. \A d \in 1..(c.scopeDepth + 1) : Outside(c, d - 1) \in Nat
  BY <1>1, OutsideIs, CompilerIs
<1>3. BlocksOf(c) \in Seq(Nat) /\ Len(BlocksOf(c)) = c.scopeDepth + 1
  BY <1>1, <1>2 DEF BlocksOf
<1> QED
  BY <1>1, <1>3 DEF BlocksOf

LEMMA SameBlocks ==
  ASSUME NEW c \in CompilerType, NEW b \in CompilerType, b.scopeDepth = c.scopeDepth,
         \A d \in 0..c.scopeDepth : Outside(b, d) = Outside(c, d)
  PROVE  BlocksOf(b) = BlocksOf(c)
<1>1. c.scopeDepth \in Nat /\ \A d \in 1..(c.scopeDepth + 1) : d - 1 \in 0..c.scopeDepth
  BY CompilerIs
<1> QED
  BY <1>1 DEF BlocksOf

LEMMA OneBlockMore ==
  ASSUME NEW c \in CompilerType, NEW b \in CompilerType, b.scopeDepth = c.scopeDepth + 1,
         \A d \in 0..c.scopeDepth : Outside(b, d) = Outside(c, d)
  PROVE  BlocksOf(b) = Append(BlocksOf(c), Outside(b, c.scopeDepth + 1))
<1> DEFINE n == c.scopeDepth + 1
           s == BlocksOf(c)
           t == BlocksOf(b)
<1>1. c.scopeDepth \in Nat /\ n \in Nat /\ b.scopeDepth = n
  BY CompilerIs
<1>2. /\ s \in Seq(Nat) /\ Len(s) = n
      /\ \A d \in 1..n : s[d] = Outside(c, d - 1)
  BY BlocksAre
<1>3. /\ t \in Seq(Nat) /\ Len(t) = n + 1
      /\ \A d \in 1..(n + 1) : t[d] = Outside(b, d - 1)
  BY <1>1, BlocksAre
<1>4. Outside(b, n) \in Nat
  <2>1. n \in Int /\ Len(b.locals) \in Nat
    BY <1>1, CompilerIs
  <2> HIDE DEF n
  <2> QED
    BY <2>1, OutsideIs
<1>5. \A d \in 1..n : t[d] = s[d]
  <2> TAKE d \in 1..n
  <2>1. d - 1 \in 0..c.scopeDepth /\ d \in 1..(n + 1)
    BY <1>1
  <2> QED
    BY <1>2, <1>3, <2>1
<1>6. t[n + 1] = Outside(b, n)
  <2> DEFINE e == n + 1
  <2>1. e \in 1..e /\ e - 1 = n
    BY <1>1
  <2>2. t[e] = Outside(b, e - 1)
    <3> HIDE DEF t
    <3>1. \A d \in 1..e : t[d] = Outside(b, d - 1)
      BY <1>3
    <3> HIDE DEF e
    <3> QED
      BY <2>1, <3>1
  <2> QED
    BY <2>1, <2>2
<1>7. t = Append(s, Outside(b, n))
  <2> HIDE DEF n, s, t
  <2> QED
    BY <1>2, <1>3, <1>4, <1>5, <1>6, IsAppend
<1> QED
  BY <1>7

LEMMA VariablesAre ==
  ASSUME NEW c \in CompilerType
  PROVE  /\ VariablesOf(c) \in Seq(Name \cup {NoName})
         /\ Len(VariablesOf(c)) = Len(c.locals)
         /\ DOMAIN VariablesOf(c) = 1..Len(c.locals)
         /\ \A i \in 1..Len(c.locals) : VariablesOf(c)[i] = c.locals[i].name
<1>1. VariablesOf(c) = [i \in 1..Len(c.locals) |-> c.locals[i].name]
  BY CompilerIs DEF VariablesOf
<1>2. Len(c.locals) \in Nat /\ \A i \in 1..Len(c.locals) : c.locals[i].name \in Name \cup {NoName}
  BY CompilerIs
<1> QED
  BY <1>1, <1>2

\* No local is in its initializer when the last one is not.
LEMMA ReadyIs ==
  ASSUME NEW c \in CompilerType, LocalsInOrder(c), Len(c.locals) > 0
  PROVE  IsReady(c) <=> c.locals[Len(c.locals)].depth # Uninitialized
<1>1. /\ Len(c.locals) \in Nat /\ c.scopeDepth \in Nat
      /\ DOMAIN c.locals = 1..Len(c.locals)
  BY CompilerIs
<1>2. \A i \in 1..Len(c.locals) : i # Len(c.locals) => c.locals[i].depth # Uninitialized
  BY <1>1 DEF LocalsInOrder, Uninitialized
<1> QED
  BY <1>1, <1>2 DEF IsReady

----------------------------------------------------------------------------
\* beginScope()
LEMMA ScopeBegun ==
  ASSUME NEW c \in CompilerType, Len(c.locals) > 0, LocalsInOrder(c), IsReady(c),
         c.scopeDepth < MaxDepth
  PROVE  /\ BeginScope(c) \in CompilerType
         /\ BeginScope(c).locals = c.locals /\ BeginScope(c).upvalues = c.upvalues
         /\ BeginScope(c).scopeDepth = c.scopeDepth + 1
         /\ LocalsInOrder(BeginScope(c))
         /\ BlocksOf(BeginScope(c)) = Append(BlocksOf(c), Len(VariablesOf(c)))
<1> DEFINE b == BeginScope(c)
           n == Len(c.locals)
<1>1. /\ b = [locals |-> c.locals, upvalues |-> c.upvalues, scopeDepth |-> c.scopeDepth + 1]
      /\ n \in Nat /\ DOMAIN c.locals = 1..n /\ c.scopeDepth \in Nat
  BY CompilerIs DEF BeginScope
<1>2. c.locals \in Seq(Local) /\ c.upvalues \in Seq(Upvalue) /\ c.scopeDepth + 1 \in 0..MaxDepth
  BY CompilerIs, ScopesAssumption
<1>3. b \in CompilerType
  BY <1>1, <1>2 DEF CompilerType
<1>4. /\ b.locals = c.locals /\ b.upvalues = c.upvalues
      /\ b.scopeDepth = c.scopeDepth + 1
  BY <1>1
<1>5. LocalsInOrder(b)
  <2> HIDE DEF b, n
  <2>1. b.locals = c.locals /\ b.scopeDepth = c.scopeDepth + 1 /\ c.scopeDepth \in Nat
    BY <1>1, <1>4
  <2>2. 1..c.scopeDepth \subseteq 1..b.scopeDepth
    BY <2>1
  <2> QED
    BY <2>1, <2>2 DEF LocalsInOrder
<1>6. \A i \in 1..n : c.locals[i].depth \in 0..c.scopeDepth
  BY <1>1 DEF LocalsInOrder, IsReady, Uninitialized
<1>7. \A d \in Int : Outside(b, d) = Outside(c, d)
  BY <1>4 DEF Outside
<1>8. Outside(c, c.scopeDepth + 1) = n
  <2>1. n \in Highs(c, c.scopeDepth + 1)
    BY <1>1, <1>6 DEF Highs
  <2> DEFINE d == c.scopeDepth + 1
             o == Outside(c, d)
  <2>2. d \in Int
    BY <1>1
  <2>3. /\ o \in 0..Len(c.locals)
        /\ \A k \in Highs(c, d) : k <= o
    <3> HIDE DEF d
    <3> QED
      BY <2>2, OutsideIs
  <2>4. n \in Highs(c, d)
    BY <2>1
  <2> HIDE DEF d, o
  <2>5. o = n
    BY <1>1, <2>3, <2>4
  <2> QED
    BY <2>5 DEF o, d
<1>9. BlocksOf(b) = Append(BlocksOf(c), n)
  <2>1. c.scopeDepth + 1 \in Int
    BY <1>1
  <2>2. Outside(b, c.scopeDepth + 1) = n
    BY <1>7, <1>8, <2>1
  <2>3. \A d \in 0..c.scopeDepth : Outside(b, d) = Outside(c, d)
    BY <1>7
  <2> HIDE DEF b, n
  <2> QED
    BY <1>3, <1>4, <2>2, <2>3, OneBlockMore
<1> QED
  BY <1>3, <1>4, <1>5, <1>9, VariablesAre

\* endScope()
LEMMA KeptAre ==
  ASSUME NEW c \in CompilerType, Len(c.locals) > 0, LocalsInOrder(c), IsReady(c), c.scopeDepth > 0
  PROVE  /\ Kept(c) = Outside(c, c.scopeDepth)
         /\ Kept(c) \in 1..Len(c.locals)
         /\ \A i \in 1..Kept(c) : c.locals[i].depth \in 0..(c.scopeDepth - 1)
<1> DEFINE n == Len(c.locals)
           s == c.scopeDepth
<1>1. n \in Nat /\ s \in Nat /\ DOMAIN c.locals = 1..n
  BY CompilerIs
<1>2. \A i \in 1..n : c.locals[i].depth \in 0..s
  BY <1>1 DEF LocalsInOrder, IsReady, Uninitialized
<1>3. Highs(c, s) = {k \in 0..n : k > 0 => c.locals[k].depth <= s - 1}
  BY <1>1, <1>2 DEF Highs
<1>4. Kept(c) = Outside(c, s)
  BY <1>3 DEF Kept, Outside, Highs
<1>5. /\ Kept(c) \in Highs(c, s) /\ Kept(c) \in 0..n
      /\ \A k \in Highs(c, s) : k <= Kept(c)
  <2>1. s \in Int
    BY <1>1
  <2> QED
    BY <1>4, <2>1, OutsideIs
<1>6. 1 \in Highs(c, s)
  <2>1. c.locals[1].depth = 0
    BY DEF LocalsInOrder
  <2> QED
    BY <1>1, <2>1 DEF Highs
<1>7. Kept(c) \in 1..n
  <2>1. 1 <= Kept(c)
    BY <1>5, <1>6
  <2> HIDE DEF n
  <2> QED
    BY <1>1, <1>5, <2>1
<1>8. ASSUME NEW i \in 1..Kept(c)  PROVE c.locals[i].depth \in 0..(s - 1)
  <2>1. i \in 1..n /\ Kept(c) > 0
    BY <1>1, <1>7
  <2>2. c.locals[Kept(c)].depth \in 0..(s - 1)
    BY <1>5, <2>1 DEF Highs
  <2>3. i < Kept(c) => c.locals[i].depth <= c.locals[Kept(c)].depth
    <3>1. c.locals[Kept(c)].depth # Uninitialized
      BY <1>1, <1>7 DEF IsReady
    <3> QED
      BY <1>1, <1>7, <2>1, <3>1 DEF LocalsInOrder
  <2>4. i = Kept(c) \/ i < Kept(c)
    BY <1>7
  <2>5. c.locals[i].depth \in 0..s
    BY <1>2, <2>1
  <2> QED
    BY <1>1, <2>2, <2>3, <2>4, <2>5
<1> QED
  BY <1>4, <1>7, <1>8

LEMMA ScopeEnded ==
  ASSUME NEW c \in CompilerType, Len(c.locals) > 0, LocalsInOrder(c), IsReady(c), c.scopeDepth > 0
  PROVE  /\ EndScope(c) \in CompilerType
         /\ EndScope(c).locals = SubSeq(c.locals, 1, Kept(c))
         /\ EndScope(c).upvalues = c.upvalues
         /\ EndScope(c).scopeDepth = c.scopeDepth - 1
         /\ Len(EndScope(c).locals) = Kept(c)
         /\ \A i \in 1..Kept(c) : EndScope(c).locals[i] = c.locals[i]
<1> DEFINE m == Kept(c)
           t == SubSeq(c.locals, 1, m)
<1>1. m \in 1..Len(c.locals) /\ m \in 0..Len(c.locals) /\ c.locals \in Seq(Local)
  BY KeptAre, CompilerIs
<1>2. /\ t \in Seq(Local) /\ Len(t) = m /\ \A i \in 1..m : t[i] = c.locals[i]
  <2> HIDE DEF m
  <2> QED
    BY <1>1, PrefixIs
<1>3. c.scopeDepth - 1 \in 0..MaxDepth
  BY CompilerIs, ScopesAssumption
<1> DEFINE d == c.scopeDepth - 1
           e == EndScope(c)
<1>4. e = [c EXCEPT !.scopeDepth = d, !.locals = t]
  BY DEF EndScope
<1> HIDE DEF t, m, d, e
<1>5. e \in CompilerType /\ e.locals = t /\ e.upvalues = c.upvalues /\ e.scopeDepth = d
  BY <1>2, <1>3, <1>4 DEF CompilerType, d
<1> QED
  BY <1>2, <1>5 DEF t, m, d, e

LEMMA ScopeEndedInOrder ==
  ASSUME NEW c \in CompilerType, Len(c.locals) > 0, LocalsInOrder(c), IsReady(c), c.scopeDepth > 0
  PROVE  LocalsInOrder(EndScope(c)) /\ IsReady(EndScope(c))
<1> DEFINE m == Kept(c)
           e == EndScope(c)
           n == Len(c.locals)
           s == c.scopeDepth
<1>1. /\ m \in 1..n /\ n \in Nat /\ s \in Nat
      /\ \A i \in 1..m : c.locals[i].depth \in 0..(s - 1)
      /\ DOMAIN c.locals = 1..n
  BY KeptAre, CompilerIs
<1>2. /\ e \in CompilerType /\ e.scopeDepth = s - 1 /\ Len(e.locals) = m
      /\ \A i \in 1..m : e.locals[i] = c.locals[i]
  BY ScopeEnded
<1>3. DOMAIN e.locals = 1..m
  BY <1>2, CompilerIs
<1>4. /\ c.locals[1].name = NoName /\ c.locals[1].depth = 0
      /\ \A i \in 2..n : c.locals[i].name \in Name
      /\ \A i \in 2..n : c.locals[i].depth # Uninitialized => c.locals[i].depth \in 1..s
      /\ \A i, j \in 1..n :
           i < j => c.locals[i].depth <= c.locals[j].depth \/ c.locals[j].depth = Uninitialized
  BY <1>1 DEF LocalsInOrder
<1>5. 1 \in 1..m /\ 1..m \subseteq 1..n /\ 2..m \subseteq 2..n /\ 2..m \subseteq 1..m
  BY <1>1
<1>6. \A i \in 1..m : c.locals[i].depth # Uninitialized
  BY <1>1 DEF Uninitialized
<1> HIDE DEF e, m, n
<1>7. IsReady(e)
  BY <1>2, <1>3, <1>6 DEF IsReady
<1>8. e.locals[1].name = NoName /\ e.locals[1].depth = 0
  BY <1>2, <1>4, <1>5
<1>9. ASSUME NEW i \in 2..m  PROVE e.locals[i].name \in Name /\ e.locals[i].depth \in 1..e.scopeDepth
  <2>1. i \in 1..m /\ i \in 2..n /\ c.locals[i].depth \in 0..(s - 1)
    BY <1>1, <1>5
  <2>2. c.locals[i].depth \in 1..s /\ c.locals[i].name \in Name
    BY <1>4, <1>6, <2>1
  <2> QED
    BY <1>1, <1>2, <2>1, <2>2
<1>10. \A i, j \in 1..m : i < j => e.locals[i].depth <= e.locals[j].depth
  BY <1>2, <1>4, <1>5, <1>6
<1>11. LocalsInOrder(e)
  BY <1>2, <1>3, <1>8, <1>9, <1>10 DEF LocalsInOrder
<1> QED
  BY <1>7, <1>11 DEF e

\* What the program sees of endScope().
LEMMA BlockEnded ==
  ASSUME NEW c \in CompilerType, Len(c.locals) > 0, LocalsInOrder(c), IsReady(c), c.scopeDepth > 0
  PROVE  /\ Len(BlocksOf(c)) > 1
         /\ BlocksOf(c)[Len(BlocksOf(c))] = Kept(c)
         /\ BlocksOf(EndScope(c)) = SubSeq(BlocksOf(c), 1, Len(BlocksOf(c)) - 1)
         /\ VariablesOf(EndScope(c)) = SubSeq(VariablesOf(c), 1, Kept(c))
         /\ CapturedOf(EndScope(c)) = {p \in CapturedOf(c) : p < Kept(c)}
         /\ ScopeExits(c) =
              [i \in 1..(Len(VariablesOf(c)) - Kept(c)) |-> Len(VariablesOf(c)) - i \in CapturedOf(c)]
<1> DEFINE m == Kept(c)
           e == EndScope(c)
           n == Len(c.locals)
           s == c.scopeDepth
<1>1. /\ m \in 1..n /\ n \in Nat /\ s \in Nat /\ s > 0
      /\ m = Outside(c, s) /\ DOMAIN c.locals = 1..n
      /\ \A i \in 1..n : c.locals[i].isCaptured \in BOOLEAN
  BY KeptAre, CompilerIs
<1>2. /\ e \in CompilerType /\ e.scopeDepth = s - 1 /\ Len(e.locals) = m
      /\ \A i \in 1..m : e.locals[i] = c.locals[i]
  BY ScopeEnded
<1>3. /\ Len(BlocksOf(c)) = s + 1 /\ BlocksOf(c) \in Seq(Nat)
      /\ \A d \in 1..(s + 1) : BlocksOf(c)[d] = Outside(c, d - 1)
  BY BlocksAre
<1>4. BlocksOf(c)[s + 1] = m
  <2> DEFINE d == s + 1
  <2>1. d \in 1..(s + 1) /\ d - 1 = s
    BY <1>1
  <2> HIDE DEF d
  <2>2. BlocksOf(c)[d] = Outside(c, s)
    BY <1>3, <2>1
  <2> QED
    BY <1>1, <2>2 DEF d
<1>5. ASSUME NEW d \in 0..(s - 1)  PROVE Outside(e, d) = Outside(c, d)
  <2>1. \A k \in Highs(c, d) : k <= m
    <3> TAKE k \in Highs(c, d)
    <3>1. k \in Highs(c, s)
      BY <1>1 DEF Highs
    <3>2. s \in Int /\ m = Outside(c, s)
      BY <1>1
    <3> HIDE DEF m, s
    <3> QED
      BY <3>1, <3>2, OutsideIs
  <2> HIDE DEF e, m, n, s
  <2>2. Highs(e, d) = Highs(c, d)
    <3>1. ASSUME NEW k \in Highs(c, d)  PROVE k \in Highs(e, d)
      <4>1. k \in 0..m /\ (k > 0 => c.locals[k].depth \in 0..(d - 1))
        BY <1>1, <2>1 DEF Highs, n
      <4>2. k > 0 => e.locals[k] = c.locals[k]
        BY <1>1, <1>2, <4>1
      <4> QED
        BY <1>2, <4>1, <4>2 DEF Highs
    <3>2. ASSUME NEW k \in Highs(e, d)  PROVE k \in Highs(c, d)
      BY <1>1, <1>2 DEF Highs, n
    <3> QED
      BY <3>1, <3>2
  <2> QED
    BY <2>2, OutsideFollows
<1>6. BlocksOf(e) = SubSeq(BlocksOf(c), 1, Len(BlocksOf(c)) - 1)
  <2> HIDE DEF e, s
  <2>1. /\ Len(BlocksOf(e)) = s /\ BlocksOf(e) \in Seq(Nat)
        /\ \A d \in 1..s : BlocksOf(e)[d] = Outside(e, d - 1)
    <3>1. e.scopeDepth + 1 = s
      BY <1>1, <1>2
    <3> QED
      BY <1>2, <3>1, BlocksAre
  <2>2. \A d \in 1..s : BlocksOf(e)[d] = BlocksOf(c)[d]
    <3> TAKE d \in 1..s
    <3>1. d - 1 \in 0..(s - 1) /\ d \in 1..(s + 1)
      BY <1>1
    <3>2. BlocksOf(e)[d] = Outside(e, d - 1) /\ BlocksOf(c)[d] = Outside(c, d - 1)
      BY <1>3, <2>1, <3>1
    <3> QED
      BY <1>5, <3>1, <3>2
  <2>3. BlocksOf(e) = SubSeq(BlocksOf(c), 1, Len(BlocksOf(e)))
    <3>1. Len(BlocksOf(e)) <= Len(BlocksOf(c))
      BY <1>1, <1>3, <2>1
    <3> QED
      BY <1>3, <2>1, <2>2, <3>1, IsPrefix
  <2> QED
    BY <1>1, <1>3, <2>1, <2>3
<1>7. VariablesOf(e) = SubSeq(VariablesOf(c), 1, m)
  <2>1. /\ VariablesOf(c) \in Seq(Name \cup {NoName}) /\ Len(VariablesOf(c)) = n
        /\ \A i \in 1..n : VariablesOf(c)[i] = c.locals[i].name
    BY VariablesAre
  <2> HIDE DEF e, m, n
  <2>2. /\ VariablesOf(e) \in Seq(Name \cup {NoName}) /\ Len(VariablesOf(e)) = m
        /\ \A i \in 1..m : VariablesOf(e)[i] = e.locals[i].name
    BY <1>2, VariablesAre
  <2>3. \A i \in 1..m : VariablesOf(e)[i] = VariablesOf(c)[i]
    BY <1>1, <1>2, <2>1, <2>2
  <2>4. Len(VariablesOf(e)) <= Len(VariablesOf(c))
    BY <1>1, <2>1, <2>2
  <2> QED
    BY <2>1, <2>2, <2>3, <2>4, IsPrefix
<1>8. CapturedOf(e) = {p \in CapturedOf(c) : p < m}
  <2> HIDE DEF e, m
  <2>1. \A p \in 0..(m - 1) : e.locals[p + 1] = c.locals[p + 1] /\ p \in 0..(n - 1) /\ p < m
    BY <1>1, <1>2
  <2>2. \A p \in 0..(n - 1) : p < m => p \in 0..(m - 1)
    BY <1>1
  <2> HIDE DEF n
  <2> QED
    BY <1>1, <1>2, <2>1, <2>2 DEF CapturedOf, n
<1>9. ScopeExits(c) = [i \in 1..(n - m) |-> n - i \in CapturedOf(c)]
  <2>1. ScopeExits(c) = [i \in 1..(n - m) |-> c.locals[n + 1 - i].isCaptured]
    BY DEF ScopeExits
  <2> HIDE DEF m
  <2>2. ASSUME NEW i \in 1..(n - m)
        PROVE  c.locals[n + 1 - i].isCaptured = (n - i \in CapturedOf(c))
    <3>1. n - i \in 0..(n - 1) /\ n + 1 - i = (n - i) + 1 /\ n + 1 - i \in 1..n
      BY <1>1
    <3>2. c.locals[n + 1 - i].isCaptured \in BOOLEAN
      BY <1>1, <3>1
    <3>3. n - i \in CapturedOf(c) <=> c.locals[n + 1 - i].isCaptured
      BY <3>1 DEF CapturedOf
    <3> QED
      BY <3>2, <3>3
  <2> QED
    BY <2>1, <2>2
<1>10. Len(VariablesOf(c)) = n
  BY VariablesAre
<1> QED
  BY <1>1, <1>3, <1>4, <1>6, <1>7, <1>8, <1>9, <1>10

----------------------------------------------------------------------------
\* addLocal() of a name
Longer(c, name) == [c EXCEPT !.locals = Append(@, NewLocal(name))]

LEMMA LongerIs ==
  ASSUME NEW c \in CompilerType, NEW name \in Name
  PROVE  /\ Longer(c, name) \in CompilerType
         /\ Longer(c, name).upvalues = c.upvalues
         /\ Longer(c, name).scopeDepth = c.scopeDepth
         /\ Len(Longer(c, name).locals) = Len(c.locals) + 1
         /\ \A i \in 1..Len(c.locals) : Longer(c, name).locals[i] = c.locals[i]
         /\ Longer(c, name).locals[Len(c.locals) + 1].name = name
         /\ Longer(c, name).locals[Len(c.locals) + 1].depth = Uninitialized
         /\ Longer(c, name).locals[Len(c.locals) + 1].isCaptured = FALSE
<1> DEFINE t == Append(c.locals, NewLocal(name))
           e == Longer(c, name)
<1>1. NewLocal(name) \in Local
  BY ScopesAssumption DEF NewLocal, Local, Uninitialized
<1>2. /\ t \in Seq(Local) /\ Len(t) = Len(c.locals) + 1
      /\ \A i \in 1..Len(c.locals) : t[i] = c.locals[i]
      /\ t[Len(c.locals) + 1] = NewLocal(name)
  BY <1>1, CompilerIs, AppendProperties
<1>3. e = [c EXCEPT !.locals = t]
  BY DEF Longer
<1> HIDE DEF t, e
<1>4. e \in CompilerType /\ e.locals = t /\ e.upvalues = c.upvalues /\ e.scopeDepth = c.scopeDepth
  BY <1>2, <1>3 DEF CompilerType
<1>5. e.locals[Len(c.locals) + 1] = NewLocal(name)
  BY <1>2, <1>4
<1>6. /\ NewLocal(name).name = name /\ NewLocal(name).depth = Uninitialized
      /\ NewLocal(name).isCaptured = FALSE
  BY DEF NewLocal
<1> QED
  BY <1>2, <1>4, <1>5, <1>6 DEF e

LEMMA LongerInOrder ==
  ASSUME NEW c \in CompilerType, Len(c.locals) > 0, LocalsInOrder(c), IsReady(c),
         c.scopeDepth > 0, NEW name \in Name
  PROVE  LocalsInOrder(Longer(c, name)) /\ ~ IsReady(Longer(c, name))
<1> DEFINE e == Longer(c, name)
           n == Len(c.locals)
<1>1. /\ e \in CompilerType /\ e.scopeDepth = c.scopeDepth /\ Len(e.locals) = n + 1
      /\ \A i \in 1..n : e.locals[i] = c.locals[i]
      /\ e.locals[n + 1].name = name /\ e.locals[n + 1].depth = Uninitialized
  BY LongerIs
<1>2. n \in Nat /\ DOMAIN c.locals = 1..n /\ n > 0 /\ c.scopeDepth > 0
  BY CompilerIs
<1>3. /\ c.locals[1].name = NoName /\ c.locals[1].depth = 0
      /\ \A i \in 2..n : c.locals[i].name \in Name
      /\ \A i \in 2..n : c.locals[i].depth # Uninitialized => c.locals[i].depth \in 1..c.scopeDepth
      /\ \A i, j \in 1..n :
           i < j => c.locals[i].depth <= c.locals[j].depth \/ c.locals[j].depth = Uninitialized
  BY <1>2 DEF LocalsInOrder
<1>4. \A i \in 1..n : c.locals[i].depth # Uninitialized
  BY <1>2 DEF IsReady
<1> HIDE DEF e, n
<1>5. DOMAIN e.locals = 1..(n + 1)
  BY <1>1, CompilerIs
<1>6. \A i \in 1..(n + 1) : i \in 1..n \/ i = n + 1
  BY <1>2
<1>7. e.locals[1].name = NoName /\ e.locals[1].depth = 0
  BY <1>1, <1>2, <1>3
<1>8. ASSUME NEW i \in 2..n
      PROVE  e.locals[i].name \in Name /\ e.locals[i].depth \in 1..e.scopeDepth
  <2>1. i \in 1..n
    BY <1>2
  <2> QED
    BY <1>1, <1>3, <1>4, <2>1
<1>9. \A i, j \in 1..n : i < j => e.locals[i].depth <= e.locals[j].depth
  BY <1>1, <1>3, <1>4
<1>10. LocalsInOrder(e)
  <2>1. \A i \in 2..(n + 1) : i \in 2..n \/ i = n + 1
    BY <1>2
  <2>2. \A i \in 2..Len(e.locals) :
          /\ e.locals[i].name \in Name
          /\ \/ e.locals[i].depth \in 1..e.scopeDepth
             \/ i = Len(e.locals) /\ e.locals[i].depth = Uninitialized /\ e.scopeDepth > 0
    BY <1>1, <1>2, <1>8, <2>1
  <2>3. \A i, j \in DOMAIN e.locals :
          i < j => e.locals[i].depth <= e.locals[j].depth \/ e.locals[j].depth = Uninitialized
    <3> TAKE i, j \in DOMAIN e.locals
    <3>1. CASE j = n + 1
      BY <1>1, <3>1
    <3>2. CASE j \in 1..n
      <4>1. i < j => i \in 1..n
        BY <1>2, <1>5, <3>2
      <4> QED
        BY <1>9, <3>2, <4>1
    <3> QED
      BY <1>5, <1>6, <3>1, <3>2
  <2> QED
    BY <1>7, <2>2, <2>3 DEF LocalsInOrder
<1>11. ~ IsReady(e)
  BY <1>1, <1>2, <1>5 DEF IsReady
<1> QED
  BY <1>10, <1>11 DEF e

\* What the program sees of it.
LEMMA VariableAdded ==
  ASSUME NEW c \in CompilerType, Len(c.locals) > 0, NEW name \in Name
  PROVE  /\ VariablesOf(Longer(c, name)) = Append(VariablesOf(c), name)
         /\ BlocksOf(Longer(c, name)) = BlocksOf(c)
         /\ CapturedOf(Longer(c, name)) = CapturedOf(c)
<1> DEFINE e == Longer(c, name)
           n == Len(c.locals)
<1>1. /\ e \in CompilerType /\ e.scopeDepth = c.scopeDepth /\ Len(e.locals) = n + 1
      /\ \A i \in 1..n : e.locals[i] = c.locals[i]
      /\ e.locals[n + 1].name = name /\ e.locals[n + 1].depth = Uninitialized
      /\ e.locals[n + 1].isCaptured = FALSE
  BY LongerIs
<1>2. n \in Nat /\ c.scopeDepth \in Nat
  BY CompilerIs
<1>3. VariablesOf(e) = Append(VariablesOf(c), name)
  <2>1. /\ VariablesOf(c) \in Seq(Name \cup {NoName}) /\ Len(VariablesOf(c)) = n
        /\ \A i \in 1..n : VariablesOf(c)[i] = c.locals[i].name
    BY VariablesAre
  <2> HIDE DEF e, n
  <2>2. /\ VariablesOf(e) \in Seq(Name \cup {NoName}) /\ Len(VariablesOf(e)) = n + 1
        /\ \A i \in 1..(n + 1) : VariablesOf(e)[i] = e.locals[i].name
    BY <1>1, VariablesAre
  <2>3. \A i \in 1..n : VariablesOf(e)[i] = VariablesOf(c)[i]
    BY <1>1, <1>2, <2>1, <2>2
  <2>4. VariablesOf(e)[n + 1] = name
    BY <1>1, <1>2, <2>2
  <2>5. name \in Name \cup {NoName}
    OBVIOUS
  <2>6. /\ Len(VariablesOf(e)) = Len(VariablesOf(c)) + 1
        /\ \A i \in 1..Len(VariablesOf(c)) : VariablesOf(e)[i] = VariablesOf(c)[i]
        /\ VariablesOf(e)[Len(VariablesOf(c)) + 1] = name
    BY <2>1, <2>2, <2>3, <2>4
  <2> QED
    BY <2>1, <2>2, <2>5, <2>6, IsAppend
<1>4. BlocksOf(e) = BlocksOf(c)
  <2>1. ASSUME NEW d \in 0..c.scopeDepth  PROVE Outside(e, d) = Outside(c, d)
    <3> HIDE DEF e
    <3>1. d - 1 \in Int
      BY <1>2
    <3>2. ASSUME NEW k \in Highs(e, d)  PROVE k \in Highs(c, d)
      <4>1. k \in 0..(n + 1) /\ (k > 0 => e.locals[k].depth \in 0..(d - 1))
        BY <1>1 DEF Highs
      <4>2. k # n + 1
        BY <1>1, <1>2, <4>1 DEF Uninitialized
      <4> QED
        BY <1>1, <1>2, <4>1, <4>2 DEF Highs
    <3>3. ASSUME NEW k \in Highs(c, d)  PROVE k \in Highs(e, d)
      BY <1>1, <1>2 DEF Highs
    <3>4. Highs(e, d) = Highs(c, d)
      BY <3>2, <3>3
    <3> QED
      BY <3>4, OutsideFollows
  <2> HIDE DEF e
  <2> QED
    BY <1>1, <2>1, SameBlocks
<1>5. CapturedOf(e) = CapturedOf(c)
  <2> HIDE DEF e
  <2>1. \A p \in 0..n : p \in 0..(n - 1) \/ p + 1 = n + 1
    BY <1>2
  <2>2. \A p \in 0..(n - 1) : p + 1 \in 1..n /\ p \in 0..n
    BY <1>2
  <2>3. Len(e.locals) - 1 = n
    BY <1>1, <1>2
  <2>4. CapturedOf(e) = {p \in 0..n : e.locals[p + 1].isCaptured}
    BY <2>3 DEF CapturedOf
  <2>5. CapturedOf(c) = {p \in 0..(n - 1) : c.locals[p + 1].isCaptured}
    BY DEF CapturedOf
  <2> HIDE DEF n
  <2> QED
    BY <1>1, <2>1, <2>2, <2>4, <2>5
<1> QED
  BY <1>3, <1>4, <1>5

\* declareVariable() of a local variable: its errors are those of the scoping rules.
LEMMA Declared ==
  ASSUME NEW c \in CompilerType, Len(c.locals) \in 1..MaxLocals, LocalsInOrder(c), IsReady(c),
         c.scopeDepth > 0, NEW name \in Name
  PROVE  LET declared == DeclareVariable(c, name)
             blocks   == BlocksOf(c)
         IN  /\ declared.error \in BOOLEAN
             /\ declared.error <=>
                  \/ \E i \in (blocks[Len(blocks)] + 1)..Len(VariablesOf(c)) : VariablesOf(c)[i] = name
                  \/ Len(VariablesOf(c)) = MaxLocals
             /\ declared.compiler = IF Len(c.locals) = MaxLocals THEN c ELSE Longer(c, name)
<1> DEFINE n == Len(c.locals)
           s == c.scopeDepth
           again == \E i \in DOMAIN c.locals : c.locals[i].name = name /\ InThisScope(c, i)
           full  == n = MaxLocals
           declared == DeclareVariable(c, name)
<1>1. /\ n \in Nat /\ s \in Nat /\ s > 0 /\ DOMAIN c.locals = 1..n
      /\ Kept(c) \in 1..n /\ Kept(c) = Outside(c, s)
      /\ \A i \in 1..Kept(c) : c.locals[i].depth \in 0..(s - 1)
  BY CompilerIs, KeptAre
<1>2. AddLocal(c, name) =
        [compiler |-> IF full THEN c ELSE Longer(c, name), error |-> full]
  BY DEF AddLocal, Longer
<1>3. declared = [AddLocal(c, name) EXCEPT !.error = @ \/ again]
  BY <1>1 DEF DeclareVariable
<1>4. /\ declared.compiler = IF full THEN c ELSE Longer(c, name)
      /\ declared.error = (full \/ again)
  <2> DEFINE x == IF full THEN c ELSE Longer(c, name)
  <2> HIDE DEF x, again, full, declared
  <2>1. AddLocal(c, name) = [compiler |-> x, error |-> full]
    BY <1>2 DEF x
  <2> QED
    BY <1>3, <2>1 DEF x
<1>5. ASSUME NEW i \in 1..n  PROVE InThisScope(c, i) <=> i > Kept(c)
  <2>1. ASSUME InThisScope(c, i), i <= Kept(c)  PROVE FALSE
    <3>1. Kept(c) \in i..n /\ Kept(c) \in 1..Kept(c)
      BY <1>1, <2>1
    <3>2. c.locals[Kept(c)].depth = Uninitialized \/ c.locals[Kept(c)].depth >= s
      BY <2>1, <3>1 DEF InThisScope
    <3>3. c.locals[Kept(c)].depth \in 0..(s - 1)
      BY <1>1, <3>1
    <3> QED
      BY <1>1, <3>2, <3>3 DEF Uninitialized
  <2>2. ASSUME i > Kept(c), NEW j \in i..n
        PROVE  c.locals[j].depth = Uninitialized \/ c.locals[j].depth >= s
    <3>1. j \in 1..n /\ j > Kept(c)
      BY <1>1, <2>2
    <3>2. j \notin Highs(c, s)
      <4>1. s \in Int
        BY <1>1
      <4> HIDE DEF s
      <4> QED
        BY <1>1, <3>1, <4>1, OutsideIs
    <3>3. c.locals[j].depth \notin 0..(s - 1)
      BY <1>1, <3>1, <3>2 DEF Highs
    <3>4. c.locals[j].depth \in 0..s
      BY <1>1, <3>1 DEF LocalsInOrder, IsReady
    <3> QED
      BY <1>1, <3>3, <3>4
  <2> QED
    BY <1>1, <2>1, <2>2 DEF InThisScope
<1>6. again <=> \E i \in (Kept(c) + 1)..n : c.locals[i].name = name
  <2>1. \A i \in (Kept(c) + 1)..n : i \in 1..n /\ i > Kept(c)
    BY <1>1
  <2>2. \A i \in 1..n : i > Kept(c) => i \in (Kept(c) + 1)..n
    BY <1>1
  <2> HIDE DEF n
  <2> QED
    BY <1>1, <1>5, <2>1, <2>2
<1>7. /\ BlocksOf(c)[Len(BlocksOf(c))] = Kept(c) /\ Len(VariablesOf(c)) = n
      /\ \A i \in (Kept(c) + 1)..n : VariablesOf(c)[i] = c.locals[i].name
  <2>1. /\ BlocksOf(c)[Len(BlocksOf(c))] = Kept(c) /\ Len(VariablesOf(c)) = n
        /\ \A i \in 1..n : VariablesOf(c)[i] = c.locals[i].name
    BY BlockEnded, VariablesAre
  <2>2. \A i \in (Kept(c) + 1)..n : i \in 1..n
    BY <1>1
  <2> QED
    BY <2>1, <2>2
<1> HIDE DEF again, full, declared, n
<1>8. declared.error \in BOOLEAN
  BY <1>4 DEF full, again
<1>9. declared.error <=> again \/ full
  BY <1>4 DEF full, again
<1>10. declared.error <=>
         \/ \E i \in (BlocksOf(c)[Len(BlocksOf(c))] + 1)..Len(VariablesOf(c)) : VariablesOf(c)[i] = name
         \/ Len(VariablesOf(c)) = MaxLocals
  BY <1>6, <1>7, <1>9 DEF full
<1> QED
  BY <1>4, <1>8, <1>10 DEF declared, full, n

----------------------------------------------------------------------------
\* markInitialized()
LEMMA MarkedIs ==
  ASSUME NEW c \in CompilerType, Len(c.locals) > 0, c.scopeDepth > 0
  PROVE  LET marked == MarkInitialized(c)
             n      == Len(c.locals)
         IN  /\ marked \in CompilerType
             /\ marked.upvalues = c.upvalues /\ marked.scopeDepth = c.scopeDepth
             /\ Len(marked.locals) = n
             /\ \A i \in 1..n : i # n => marked.locals[i] = c.locals[i]
             /\ \A i \in 1..n : /\ marked.locals[i].name = c.locals[i].name
                                /\ marked.locals[i].isCaptured = c.locals[i].isCaptured
             /\ marked.locals[n].depth = c.scopeDepth
<1> DEFINE n == Len(c.locals)
           l == [c.locals[n] EXCEPT !.depth = c.scopeDepth]
           t == [c.locals EXCEPT ![n] = l]
           e == MarkInitialized(c)
<1>1. /\ n \in Nat /\ n \in 1..n /\ c.locals \in Seq(Local) /\ c.locals[n] \in Local
      /\ c.scopeDepth \in -1..MaxDepth
  BY CompilerIs
<1>2. /\ l \in Local /\ l.depth = c.scopeDepth
      /\ l.name = c.locals[n].name /\ l.isCaptured = c.locals[n].isCaptured
  <2> HIDE DEF n
  <2> QED
    BY <1>1 DEF Local
<1>3. /\ t \in Seq(Local) /\ Len(t) = n
      /\ \A i \in 1..n : t[i] = IF i = n THEN l ELSE c.locals[i]
  <2> HIDE DEF l
  <2> QED
    BY <1>1, <1>2, ExceptSeq
<1>4. e = [c EXCEPT !.locals = t]
  BY DEF MarkInitialized
<1> HIDE DEF e, t, l, n
<1>5. e \in CompilerType /\ e.locals = t /\ e.upvalues = c.upvalues /\ e.scopeDepth = c.scopeDepth
  BY <1>3, <1>4 DEF CompilerType
<1>6. /\ Len(e.locals) = n
      /\ \A i \in 1..n : i # n => e.locals[i] = c.locals[i]
      /\ \A i \in 1..n : /\ e.locals[i].name = c.locals[i].name
                         /\ e.locals[i].isCaptured = c.locals[i].isCaptured
      /\ e.locals[n].depth = c.scopeDepth
  BY <1>1, <1>2, <1>3, <1>5
<1> QED
  BY <1>5, <1>6 DEF e, n

LEMMA MarkedInOrder ==
  ASSUME NEW c \in CompilerType, Len(c.locals) > 0, c.scopeDepth > 0,
         LocalsInOrder(c), ~ IsReady(c)
  PROVE  LocalsInOrder(MarkInitialized(c)) /\ IsReady(MarkInitialized(c))
<1> DEFINE e == MarkInitialized(c)
           n == Len(c.locals)
           s == c.scopeDepth
<1>1. /\ e \in CompilerType /\ e.scopeDepth = s /\ Len(e.locals) = n
      /\ \A i \in 1..n : i # n => e.locals[i] = c.locals[i]
      /\ \A i \in 1..n : e.locals[i].name = c.locals[i].name
      /\ e.locals[n].depth = s
  BY MarkedIs
<1>2. n \in Nat /\ n > 0 /\ DOMAIN c.locals = 1..n /\ s \in Nat /\ s > 0
  BY CompilerIs
<1>3. /\ c.locals[1].name = NoName /\ c.locals[1].depth = 0
      /\ \A i \in 2..n : c.locals[i].name \in Name
      /\ \A i \in 2..n : i # n => c.locals[i].depth \in 1..s
      /\ \A i, j \in 1..n :
           i < j => c.locals[i].depth <= c.locals[j].depth \/ c.locals[j].depth = Uninitialized
  BY <1>2 DEF LocalsInOrder
<1>4. c.locals[n].depth = Uninitialized
  BY <1>2, ReadyIs
<1>5. n # 1
  BY <1>3, <1>4 DEF Uninitialized
<1> HIDE DEF e, n, s
<1>6. DOMAIN e.locals = 1..n
  BY <1>1, CompilerIs
<1>7. ASSUME NEW i \in 1..n  PROVE e.locals[i].depth \in 0..s
  <2>1. CASE i = n
    BY <1>1, <1>2, <2>1
  <2>2. CASE i # n
    <3>1. i = 1 \/ i \in 2..n
      OBVIOUS
    <3> QED
      BY <1>1, <1>2, <1>3, <2>2, <3>1
  <2> QED
    BY <2>1, <2>2
<1>8. IsReady(e)
  BY <1>2, <1>6, <1>7 DEF IsReady, Uninitialized
<1>9. LocalsInOrder(e)
  <2>1. e.locals[1].name = NoName /\ e.locals[1].depth = 0
    BY <1>1, <1>2, <1>3, <1>5
  <2>2. ASSUME NEW i \in 2..n  PROVE e.locals[i].name \in Name /\ e.locals[i].depth \in 1..s
    <3>1. i \in 1..n
      BY <1>2
    <3> QED
      BY <1>1, <1>2, <1>3, <3>1
  <2>3. ASSUME NEW i \in 1..n, NEW j \in 1..n, i < j
        PROVE  e.locals[i].depth <= e.locals[j].depth
    <3>1. i # n /\ e.locals[i] = c.locals[i]
      BY <1>1, <1>2, <2>3
    <3>2. CASE j = n
      BY <1>1, <1>2, <1>7, <3>2
    <3>3. CASE j # n
      <4>1. e.locals[j] = c.locals[j] /\ e.locals[j].depth \in 0..s
        BY <1>1, <1>7, <3>3
      <4> QED
        BY <1>2, <1>3, <2>3, <3>1, <4>1 DEF Uninitialized
    <3> QED
      BY <3>2, <3>3
  <2> QED
    BY <1>1, <1>6, <2>1, <2>2, <2>3 DEF LocalsInOrder
<1> QED
  BY <1>8, <1>9 DEF e

\* What the program sees of it.
LEMMA VariableDefined ==
  ASSUME NEW c \in CompilerType, Len(c.locals) > 0, c.scopeDepth > 0,
         LocalsInOrder(c), ~ IsReady(c)
  PROVE  /\ VariablesOf(MarkInitialized(c)) = VariablesOf(c)
         /\ BlocksOf(MarkInitialized(c)) = BlocksOf(c)
         /\ CapturedOf(MarkInitialized(c)) = CapturedOf(c)
<1> DEFINE e == MarkInitialized(c)
           n == Len(c.locals)
           s == c.scopeDepth
<1>1. /\ e \in CompilerType /\ e.scopeDepth = s /\ Len(e.locals) = n
      /\ \A i \in 1..n : i # n => e.locals[i] = c.locals[i]
      /\ \A i \in 1..n : /\ e.locals[i].name = c.locals[i].name
                         /\ e.locals[i].isCaptured = c.locals[i].isCaptured
      /\ e.locals[n].depth = s
  BY MarkedIs
<1>2. n \in Nat /\ n > 0 /\ DOMAIN c.locals = 1..n /\ s \in Nat /\ s > 0
  BY CompilerIs
<1>3. c.locals[n].depth = Uninitialized
  BY <1>2, ReadyIs
<1> HIDE DEF e
<1>4. DOMAIN e.locals = 1..n
  <2> HIDE DEF n
  <2> QED
    BY <1>1, CompilerIs
<1>5. VariablesOf(e) = VariablesOf(c)
  BY <1>1, <1>2, <1>4 DEF VariablesOf
<1>6. CapturedOf(e) = CapturedOf(c)
  <2>1. \A p \in 0..(n - 1) : e.locals[p + 1].isCaptured = c.locals[p + 1].isCaptured
    BY <1>1, <1>2
  <2>2. Len(e.locals) - 1 = n - 1
    BY <1>1
  <2> QED
    BY <2>1, <2>2 DEF CapturedOf
<1>7. ASSUME NEW d \in 0..s  PROVE Outside(e, d) = Outside(c, d)
  <2> HIDE DEF n, s
  <2>1. ASSUME NEW k \in 0..n
        PROVE  /\ k > 0 => k \in 1..n
               /\ k # n => e.locals[k].depth = c.locals[k].depth \/ k = 0
    BY <1>1, <1>2
  <2>2. s \notin 0..(d - 1) /\ Uninitialized \notin 0..(d - 1)
    BY <1>2 DEF Uninitialized
  <2>3. Highs(c, d) = {k \in 0..n : k > 0 => k # n /\ c.locals[k].depth \in 0..(d - 1)}
    BY <1>2, <1>3, <2>1, <2>2 DEF Highs, n
  <2>4. Highs(e, d) = {k \in 0..n : k > 0 => k # n /\ e.locals[k].depth \in 0..(d - 1)}
    BY <1>1, <1>2, <2>1, <2>2 DEF Highs
  <2>5. Highs(e, d) = Highs(c, d)
    BY <2>1, <2>3, <2>4
  <2> QED
    BY <2>5, OutsideFollows
<1>8. BlocksOf(e) = BlocksOf(c)
  BY <1>1, <1>7, SameBlocks
<1> QED
  BY <1>5, <1>6, <1>8 DEF e

----------------------------------------------------------------------------
\* initCompiler() and the scope of the parameters
LEMMA NewCompilerIs ==
  /\ NewCompiler \in CompilerType /\ BeginScope(NewCompiler) \in CompilerType
  /\ Len(NewCompiler.locals) = 1 /\ NewCompiler.upvalues = <<>> /\ NewCompiler.scopeDepth = 0
  /\ BeginScope(NewCompiler).locals = NewCompiler.locals
  /\ BeginScope(NewCompiler).upvalues = <<>> /\ BeginScope(NewCompiler).scopeDepth = 1
  /\ LocalsInOrder(NewCompiler) /\ LocalsInOrder(BeginScope(NewCompiler))
  /\ IsReady(NewCompiler) /\ IsReady(BeginScope(NewCompiler))
  /\ VariablesOf(NewCompiler) = <<NoName>> /\ VariablesOf(BeginScope(NewCompiler)) = <<NoName>>
  /\ CapturedOf(NewCompiler) = {} /\ CapturedOf(BeginScope(NewCompiler)) = {}
  /\ BlocksOf(NewCompiler) = <<0>> /\ BlocksOf(BeginScope(NewCompiler)) = <<0, 1>>
<1> DEFINE c == NewCompiler
           b == BeginScope(NewCompiler)
           l == [name |-> NoName, depth |-> 0, isCaptured |-> FALSE]
<1>1. /\ c.locals = <<l>> /\ c.upvalues = <<>> /\ c.scopeDepth = 0
      /\ c = [locals |-> <<l>>, upvalues |-> <<>>, scopeDepth |-> 0]
  BY DEF NewCompiler
<1>2. l \in Local /\ l.name = NoName /\ l.depth = 0 /\ l.isCaptured = FALSE
  BY ScopesAssumption DEF Local
<1> HIDE DEF c, l
<1>3. /\ <<l>> \in Seq(Local) /\ <<>> \in Seq(Upvalue) /\ 0 \in 0..MaxDepth
      /\ Len(<<l>>) = 1 /\ DOMAIN <<l>> = 1..1 /\ <<l>>[1] = l
  BY <1>2, ScopesAssumption
<1>4. c \in CompilerType
  BY <1>1, <1>3 DEF CompilerType
<1>5. LocalsInOrder(c) /\ IsReady(c)
  BY <1>1, <1>2, <1>3 DEF LocalsInOrder, IsReady, Uninitialized
<1>6. 0 < MaxDepth /\ Len(c.locals) > 0
  BY <1>1, <1>3, ScopesAssumption
<1>7. /\ b \in CompilerType /\ b.locals = c.locals /\ b.upvalues = <<>> /\ b.scopeDepth = 1
      /\ LocalsInOrder(b) /\ BlocksOf(b) = Append(BlocksOf(c), Len(VariablesOf(c)))
  <2>1. b = BeginScope(c)
    BY DEF c
  <2> HIDE DEF b
  <2> QED
    BY <1>1, <1>4, <1>5, <1>6, <2>1, ScopeBegun
<1> HIDE DEF b
<1>8. IsReady(b)
  BY <1>5, <1>7 DEF IsReady
<1>9. VariablesOf(c) = <<NoName>> /\ VariablesOf(b) = <<NoName>>
  BY <1>1, <1>2, <1>3, <1>7 DEF VariablesOf
<1>10. CapturedOf(c) = {} /\ CapturedOf(b) = {}
  <2>1. \A i \in 0..(Len(<<l>>) - 1) : i + 1 = 1
    BY <1>3
  <2> QED
    BY <1>1, <1>2, <1>3, <1>7, <2>1 DEF CapturedOf
<1>11. BlocksOf(c) = <<0>>
  <2>1. BlocksOf(c) = [d \in 1..1 |-> Outside(c, d - 1)]
    BY <1>1 DEF BlocksOf
  <2>2. Highs(c, 0) = {0}
    BY <1>1, <1>3 DEF Highs
  <2>3. Outside(c, 0) = 0
    BY <1>4, <2>2, OutsideIs
  <2>4. \A d \in 1..1 : Outside(c, d - 1) = 0
    BY <2>3
  <2> QED
    BY <2>1, <2>4
<1>12. BlocksOf(b) = <<0, 1>>
  <2>1. <<0, 1>> = Append(<<0>>, 1)
    BY IsAppend
  <2>2. Len(<<NoName>>) = 1
    OBVIOUS
  <2> QED
    BY <1>7, <1>9, <1>11, <2>1, <2>2
<1> QED
  BY <1>1, <1>3, <1>4, <1>5, <1>7, <1>8, <1>9, <1>10, <1>11, <1>12 DEF b, c

----------------------------------------------------------------------------
\* The chain of compilers

LEMMA ChainIs ==
  ASSUME NEW chain \in Seq(CompilerType)
  PROVE  /\ Len(chain) \in Nat /\ DOMAIN chain = 1..Len(chain)
         /\ \A k \in 1..Len(chain) : chain[k] \in CompilerType
BY LenProperties, ElementOfSeq

LEMMA UpvalueIs ==
  ASSUME NEW c \in CompilerType, NEW i \in DOMAIN c.upvalues
  PROVE  LET u == c.upvalues[i]
         IN  /\ u \in Upvalue
             /\ u.index \in Nat /\ u.isLocal \in BOOLEAN
             /\ u = [index |-> u.index, isLocal |-> u.isLocal]
<1>1. c.upvalues[i] \in Upvalue
  BY CompilerIs, ElementOfSeq
<1>2. ASSUME NEW u \in Upvalue
      PROVE  u.index \in Nat /\ u.isLocal \in BOOLEAN /\ u = [index |-> u.index, isLocal |-> u.isLocal]
  <2>1. u \in [index : Nat, isLocal : BOOLEAN]
    <3>1. 0..(MaxLocals - 1) \subseteq Nat /\ 0..(MaxUpvalues - 1) \subseteq Nat
      BY ResolutionAssumption
    <3> QED
      BY <3>1 DEF Upvalue
  <2> QED
    BY <2>1
<1> QED
  BY <1>1, <1>2

\* v is a captured local of a function around the k-th.
Captured(chain, k, v) ==
  \E h \in 1..(k - 1) : \E l \in 0..(Len(chain[h].locals) - 1) :
    v = <<h, l>> /\ chain[h].locals[l + 1].isCaptured

DenotesOne(chain, k) ==
  \A i \in DOMAIN chain[k].upvalues :
    /\ Captured(chain, k, Denotation(chain)[k][i])
    /\ \A j \in DOMAIN chain[k].upvalues :
         Denotation(chain)[k][i] = Denotation(chain)[k][j] => i = j

\* A function that has no two upvalues alike has no two that denote one variable: the
\* step from one function to the next inner one.
LEMMA DenotesOneInwards ==
  ASSUME NEW chain \in Seq(CompilerType), NEW k \in 1..Len(chain),
         RefersOut(chain, k), NoTwoAlike(chain, k), k > 1 => DenotesOne(chain, k - 1)
  PROVE  DenotesOne(chain, k)
<1> DEFINE up(j) == chain[j].upvalues
           of    == Denotation(chain)
<1>1. Len(chain) \in Nat /\ k \in Nat /\ chain[k] \in CompilerType
  BY ChainIs
<1>2. SUFFICES ASSUME NEW i \in DOMAIN up(k)  PROVE
        /\ Captured(chain, k, of[k][i])
        /\ \A j \in DOMAIN up(k) : of[k][i] = of[k][j] => i = j
  BY DEF DenotesOne
<1>3. /\ k > 1 /\ k - 1 \in 1..Len(chain) /\ chain[k - 1] \in CompilerType
      /\ DOMAIN chain[k - 1].locals = 1..Len(chain[k - 1].locals)
      /\ Len(chain[k - 1].locals) \in Nat
  <2>1. k > 1
    BY <1>2 DEF RefersOut
  <2>2. k - 1 \in 1..Len(chain)
    BY <1>1, <2>1
  <2>3. chain[k - 1] \in CompilerType
    BY <2>2, ChainIs
  <2> QED
    BY <2>1, <2>2, <2>3, CompilerIs
<1>4. DenotesOne(chain, k - 1)
  BY <1>3
<1>5. ASSUME NEW j \in DOMAIN up(k)
      PROVE  /\ up(k)[j].index \in Nat /\ up(k)[j].isLocal \in BOOLEAN
             /\ up(k)[j] = [index |-> up(k)[j].index, isLocal |-> up(k)[j].isLocal]
             /\ up(k)[j].isLocal =>
                  /\ of[k][j] = <<k - 1, up(k)[j].index>>
                  /\ up(k)[j].index + 1 \in DOMAIN chain[k - 1].locals
                  /\ chain[k - 1].locals[up(k)[j].index + 1].isCaptured
             /\ ~ up(k)[j].isLocal =>
                  /\ of[k][j] = of[k - 1][up(k)[j].index + 1]
                  /\ up(k)[j].index + 1 \in DOMAIN up(k - 1)
                  /\ Captured(chain, k - 1, of[k][j])
  <2>1. /\ up(k)[j].index \in Nat /\ up(k)[j].isLocal \in BOOLEAN
        /\ up(k)[j] = [index |-> up(k)[j].index, isLocal |-> up(k)[j].isLocal]
    BY <1>1, UpvalueIs
  <2>2. of[k][j] = IF up(k)[j].isLocal THEN <<k - 1, up(k)[j].index>>
                   ELSE of[k - 1][up(k)[j].index + 1]
    BY <1>1, DenotedBy
  <2>3. /\ up(k)[j].isLocal =>
             /\ up(k)[j].index + 1 \in DOMAIN chain[k - 1].locals
             /\ chain[k - 1].locals[up(k)[j].index + 1].isCaptured
        /\ ~ up(k)[j].isLocal => up(k)[j].index + 1 \in DOMAIN up(k - 1)
    BY DEF RefersOut
  <2>4. ASSUME NEW a \in DOMAIN up(k - 1)  PROVE Captured(chain, k - 1, of[k - 1][a])
    BY <1>4 DEF DenotesOne
  <2> HIDE DEF of, up
  <2> QED
    BY <2>1, <2>2, <2>3, <2>4
<1> HIDE DEF up, of
<1>6. Captured(chain, k, of[k][i])
  <2>1. CASE up(k)[i].isLocal
    <3> DEFINE a == up(k)[i].index
    <3>1. /\ k - 1 \in 1..(k - 1) /\ a \in 0..(Len(chain[k - 1].locals) - 1)
          /\ of[k][i] = <<k - 1, a>> /\ chain[k - 1].locals[a + 1].isCaptured
      BY <1>2, <1>3, <1>5, <2>1
    <3> HIDE DEF a
    <3> QED
      BY <3>1 DEF Captured
  <2>2. CASE ~ up(k)[i].isLocal
    <3>1. Captured(chain, k - 1, of[k][i])
      BY <1>2, <1>5, <2>2
    <3>2. 1..(k - 1 - 1) \subseteq 1..(k - 1)
      BY <1>1
    <3> QED
      BY <3>1, <3>2 DEF Captured
  <2> QED
    BY <1>2, <1>5, <2>1, <2>2
<1>7. ASSUME NEW j \in DOMAIN up(k), of[k][i] = of[k][j]  PROVE i = j
  <2>1. i \in DOMAIN up(k) /\ j \in DOMAIN up(k)
    BY <1>2
  <2>2. ASSUME NEW a \in DOMAIN up(k), NEW b \in DOMAIN up(k), up(k)[a].isLocal,
               ~ up(k)[b].isLocal, of[k][a] = of[k][b]
        PROVE  FALSE
    <3>1. of[k][a] = <<k - 1, up(k)[a].index>> /\ Captured(chain, k - 1, of[k][b])
      BY <1>5, <2>2
    <3>2. PICK h \in 1..(k - 1 - 1) : \E l \in 0..(Len(chain[h].locals) - 1) : of[k][b] = <<h, l>>
      BY <3>1 DEF Captured
    <3>3. PICK l \in 0..(Len(chain[h].locals) - 1) : of[k][b] = <<h, l>>
      BY <3>2
    <3> DEFINE x == up(k)[a].index
               g == k - 1
    <3>4. of[k][a] = <<g, x>>
      BY <3>1
    <3> HIDE DEF x, g
    <3>5. <<h, l>> = <<g, x>>
      BY <2>2, <3>3, <3>4
    <3>6. h = g
      BY <3>5
    <3> QED
      BY <1>1, <3>2, <3>6 DEF g
  <2>3. up(k)[i].isLocal = up(k)[j].isLocal
    BY <1>5, <1>7, <2>1, <2>2
  <2>4. up(k)[i].index = up(k)[j].index
    <3>1. CASE up(k)[i].isLocal
      <4>1. <<k - 1, up(k)[i].index>> = <<k - 1, up(k)[j].index>>
        BY <1>5, <1>7, <2>1, <2>3, <3>1
      <4> QED
        BY <4>1
    <3>2. CASE ~ up(k)[i].isLocal
      <4> DEFINE a == up(k)[i].index + 1
                 b == up(k)[j].index + 1
      <4>1. of[k - 1][a] = of[k - 1][b] /\ a \in DOMAIN up(k - 1) /\ b \in DOMAIN up(k - 1)
        BY <1>5, <1>7, <2>1, <2>3, <3>2
      <4> HIDE DEF a, b
      <4>2. a = b
        BY <1>4, <4>1 DEF DenotesOne, up, of
      <4> QED
        BY <1>5, <2>1, <4>2 DEF a, b
    <3> QED
      BY <3>1, <3>2
  <2>5. up(k)[i] = up(k)[j]
    <3>1. /\ up(k)[i] = [index |-> up(k)[i].index, isLocal |-> up(k)[i].isLocal]
          /\ up(k)[j] = [index |-> up(k)[j].index, isLocal |-> up(k)[j].isLocal]
      BY <1>5, <2>1
    <3> QED
      BY <2>3, <2>4, <3>1
  <2> QED
    BY <2>1, <2>5 DEF NoTwoAlike, up
<1> QED
  BY <1>6, <1>7 DEF up, of

LEMMA AllDenoteOne ==
  ASSUME NEW chain \in Seq(CompilerType), NEW n \in 0..Len(chain),
         \A k \in 1..n : RefersOut(chain, k) /\ NoTwoAlike(chain, k)
  PROVE  \A k \in 1..n : DenotesOne(chain, k)
<1> DEFINE N == {k \in Nat : k \in 1..n => DenotesOne(chain, k)}
<1>1. Len(chain) \in Nat /\ n \in Nat
  BY ChainIs
<1>2. 0 \in N
  OBVIOUS
<1>3. ASSUME NEW k \in Nat, k \in N  PROVE k + 1 \in N
  <2> SUFFICES ASSUME k + 1 \in 1..n  PROVE DenotesOne(chain, k + 1)
    OBVIOUS
  <2> DEFINE j == k + 1
  <2>1. j \in 1..Len(chain) /\ RefersOut(chain, j) /\ NoTwoAlike(chain, j)
    BY <1>1
  <2>2. j > 1 => DenotesOne(chain, j - 1)
    <3>1. j > 1 => k \in 1..n /\ k = j - 1
      BY <1>1
    <3> QED
      BY <1>3, <3>1
  <2> HIDE DEF j
  <2>3. DenotesOne(chain, j)
    BY <2>1, <2>2, DenotesOneInwards
  <2> QED
    BY <2>3 DEF j
<1> QED
  <2> HIDE DEF N
  <2>1. Nat \subseteq N
    BY <1>2, <1>3, Induction
  <2> QED
    BY <2>1 DEF N

\* So a function has as many upvalues as it has variables that are not its own.
LEMMA FreeAreCounted ==
  ASSUME NEW chain \in Seq(CompilerType), NEW k \in 1..Len(chain), DenotesOne(chain, k)
  PROVE  /\ IsFiniteSet(FreeOf(chain, k))
         /\ Cardinality(FreeOf(chain, k)) = Len(chain[k].upvalues)
<1> DEFINE n == Len(chain[k].upvalues)
           f == [i \in 1..n |-> Denotation(chain)[k][i]]
           free == FreeOf(chain, k)
<1>1. n \in Nat /\ DOMAIN chain[k].upvalues = 1..n
  BY ChainIs, CompilerIs
<1>2. free = {Denotation(chain)[k][i] : i \in 1..n}
  BY <1>1 DEF FreeOf
<1>3. \A i, j \in 1..n : Denotation(chain)[k][i] = Denotation(chain)[k][j] => i = j
  BY <1>1 DEF DenotesOne
<1>4. f \in Bijection(1..n, free)
  <2> HIDE DEF n, free
  <2>1. f \in [1..n -> free] /\ \A v \in free : \E i \in 1..n : f[i] = v
    BY <1>2
  <2>2. \A i, j \in 1..n : f[i] = f[j] => i = j
    BY <1>3
  <2> QED
    BY <2>1, <2>2 DEF Bijection, Injection, Surjection, IsInjective
<1> HIDE DEF f, n, free
<1>5. IsFiniteSet(1..n) /\ Cardinality(1..n) = n
  <2>1. IsFiniteSet(1..n) /\ Cardinality(1..n) = (IF 1 > n THEN 0 ELSE n - 1 + 1)
    BY <1>1, FS_Interval
  <2> QED
    BY <1>1, <2>1
<1>6. ExistsBijection(1..n, free)
  BY <1>4 DEF ExistsBijection
<1>7. IsFiniteSet(free) /\ Cardinality(free) = Cardinality(1..n)
  BY <1>5, <1>6, FS_Bijection
<1> QED
  BY <1>5, <1>7 DEF free, n

\* A change of the last compiler that leaves its upvalues alone.
LEMMA LastChanged ==
  ASSUME NEW chain \in Seq(CompilerType), Len(chain) > 0, NEW e \in CompilerType,
         e.upvalues = chain[Len(chain)].upvalues
  PROVE  LET n     == Len(chain)
             after == [chain EXCEPT ![n] = e]
         IN  /\ after \in Seq(CompilerType) /\ Len(after) = n /\ after[n] = e
             /\ \A k \in 1..n : k # n => after[k] = chain[k]
             /\ \A k \in 0..n : Denotation(after)[k] = Denotation(chain)[k]
             /\ \A k \in 1..n : FreeOf(after, k) = FreeOf(chain, k)
             /\ \A k \in 1..n : k # n => FunctionOf(after, k) = FunctionOf(chain, k)
<1> DEFINE n     == Len(chain)
           after == [chain EXCEPT ![n] = e]
<1>1. n \in Nat /\ n \in 1..n
  BY ChainIs
<1>2. /\ after \in Seq(CompilerType) /\ Len(after) = n
      /\ \A k \in 1..n : after[k] = IF k = n THEN e ELSE chain[k]
  <2> HIDE DEF n
  <2> QED
    BY <1>1, ExceptSeq DEF n
<1> HIDE DEF after, n
<1>3. after[n] = e /\ \A k \in 1..n : k # n => after[k] = chain[k]
  BY <1>1, <1>2
<1>4. \A k \in 1..n : chain[k].upvalues = after[k].upvalues
  BY <1>2 DEF n
<1>5. \A k \in 0..n : Denotation(chain)[k] = Denotation(after)[k]
  <2>1. Len(chain) = n
    BY DEF n
  <2>2. /\ n \in Nat /\ Len(chain) \in Nat /\ Len(after) \in Nat
        /\ n <= Len(chain) /\ n <= Len(after)
        /\ \A k \in 1..n : chain[k].upvalues = after[k].upvalues
    BY <1>1, <1>2, <1>4, <2>1
  <2>3. \A k \in 0..n : Denotation(chain)[k] = Denotation(after)[k]
    BY <2>2, DenotationIsLocal
  <2> QED
    BY <2>3
<1>6. ASSUME NEW k \in 1..n  PROVE FreeOf(after, k) = FreeOf(chain, k)
  <2>1. k \in 0..n /\ DOMAIN after[k].upvalues = DOMAIN chain[k].upvalues
    BY <1>1, <1>4
  <2>2. Denotation(chain)[k] = Denotation(after)[k]
    BY <1>5, <2>1
  <2> QED
    BY <2>1, <2>2 DEF FreeOf
<1>7. ASSUME NEW k \in 1..n, k # n  PROVE FunctionOf(after, k) = FunctionOf(chain, k)
  BY <1>3, <1>6, <1>7 DEF FunctionOf
<1> QED
  BY <1>2, <1>3, <1>5, <1>6, <1>7 DEF n, after

AllSound(chain) == \A k \in 1..Len(chain) : Sound(chain, k)

LEMMA StillSound ==
  ASSUME NEW chain \in Seq(CompilerType), Len(chain) > 0, AllSound(chain), NEW e \in CompilerType,
         e.upvalues = chain[Len(chain)].upvalues, LocalsInOrder(e),
         Len(chain) > 1 => e.scopeDepth > 0
  PROVE  AllSound([chain EXCEPT ![Len(chain)] = e])
<1> DEFINE n     == Len(chain)
           after == [chain EXCEPT ![n] = e]
<1>1. n \in Nat /\ n \in 1..n
  BY ChainIs
<1>2. /\ Len(after) = n /\ after[n] = e
      /\ \A k \in 1..n : k # n => after[k] = chain[k]
  BY LastChanged
<1>3. \A k \in 1..n : Sound(chain, k)
  BY DEF AllSound
<1>4. /\ e.upvalues = chain[n].upvalues
      /\ n > 1 => e.scopeDepth > 0
  OBVIOUS
<1> HIDE DEF after, n
<1>5. ASSUME NEW k \in 1..n  PROVE Sound(after, k)
  <2>1. /\ after[k].upvalues = chain[k].upvalues
        /\ k > 1 => k - 1 \in 1..n /\ after[k - 1] = chain[k - 1]
    BY <1>1, <1>2, <1>4
  <2>2. /\ RefersOut(chain, k) /\ NoTwoAlike(chain, k)
        /\ LocalsInOrder(chain[k]) /\ (k < n => IsReady(chain[k]))
        /\ (k > 1 => chain[k].scopeDepth > 0)
    BY <1>3 DEF Sound, n
  <2>3. RefersOut(after, k)
    BY <2>1, <2>2 DEF RefersOut
  <2>4. NoTwoAlike(after, k)
    BY <2>1, <2>2 DEF NoTwoAlike
  <2>5. LocalsInOrder(after[k]) /\ (k < n => IsReady(after[k])) /\ (k > 1 => after[k].scopeDepth > 0)
    BY <1>1, <1>2, <1>4, <2>2
  <2> QED
    BY <1>2, <2>3, <2>4, <2>5 DEF Sound
<1> QED
  BY <1>2, <1>5 DEF AllSound, after, n

\* A function is begun, and ends.
LEMMA FunctionBegun ==
  ASSUME NEW chain \in Seq(CompilerType), Len(chain) > 0, NEW e \in CompilerType, e.upvalues = <<>>
  PROVE  LET n     == Len(chain)
             after == Append(chain, e)
         IN  /\ after \in Seq(CompilerType) /\ Len(after) = n + 1 /\ after[n + 1] = e
             /\ \A k \in 1..n : after[k] = chain[k]
             /\ \A k \in 0..n : Denotation(after)[k] = Denotation(chain)[k]
             /\ \A k \in 1..n : FunctionOf(after, k) = FunctionOf(chain, k)
             /\ FreeOf(after, n + 1) = {}
<1> DEFINE n     == Len(chain)
           after == Append(chain, e)
<1>1. n \in Nat
  BY ChainIs
<1>2. /\ after \in Seq(CompilerType) /\ Len(after) = n + 1 /\ after[n + 1] = e
      /\ \A k \in 1..n : after[k] = chain[k]
  BY AppendProperties
<1> HIDE DEF after, n
<1>3. \A k \in 0..n : Denotation(after)[k] = Denotation(chain)[k]
  <2>1. Len(chain) = n /\ n <= n + 1 /\ n + 1 \in Nat
    BY <1>1 DEF n
  <2>2. /\ n \in Nat /\ Len(chain) \in Nat /\ Len(after) \in Nat
        /\ n <= Len(chain) /\ n <= Len(after)
        /\ \A k \in 1..n : chain[k].upvalues = after[k].upvalues
    BY <1>1, <1>2, <2>1
  <2>3. \A k \in 0..n : Denotation(chain)[k] = Denotation(after)[k]
    BY <2>2, DenotationIsLocal
  <2> QED
    BY <2>3
<1>4. ASSUME NEW k \in 1..n  PROVE FunctionOf(after, k) = FunctionOf(chain, k)
  <2>1. k \in 0..n /\ after[k] = chain[k]
    BY <1>2
  <2>2. Denotation(after)[k] = Denotation(chain)[k]
    BY <1>3, <2>1
  <2> QED
    BY <2>1, <2>2 DEF FunctionOf, FreeOf
<1>5. FreeOf(after, n + 1) = {}
  BY <1>2 DEF FreeOf
<1> QED
  BY <1>2, <1>3, <1>4, <1>5 DEF after, n

LEMMA FunctionBegunSound ==
  ASSUME NEW chain \in Seq(CompilerType), Len(chain) > 0, AllSound(chain),
         IsReady(chain[Len(chain)]), NEW e \in CompilerType, e.upvalues = <<>>,
         LocalsInOrder(e), e.scopeDepth > 0
  PROVE  AllSound(Append(chain, e))
<1> DEFINE n     == Len(chain)
           after == Append(chain, e)
<1>1. n \in Nat
  BY ChainIs
<1>2. /\ Len(after) = n + 1 /\ after[n + 1] = e
      /\ \A k \in 1..n : after[k] = chain[k]
  BY FunctionBegun
<1>3. (\A k \in 1..n : Sound(chain, k)) /\ IsReady(chain[n])
  BY DEF AllSound
<1> HIDE DEF after, n
<1>4. ASSUME NEW k \in 1..n  PROVE Sound(after, k)
  <2>1. /\ after[k] = chain[k]
        /\ k > 1 => k - 1 \in 1..n /\ after[k - 1] = chain[k - 1]
    BY <1>1, <1>2
  <2>2. /\ RefersOut(chain, k) /\ NoTwoAlike(chain, k)
        /\ LocalsInOrder(chain[k]) /\ (k < n => IsReady(chain[k]))
        /\ (k > 1 => chain[k].scopeDepth > 0)
    BY <1>3 DEF Sound, n
  <2>3. RefersOut(after, k)
    BY <2>1, <2>2 DEF RefersOut
  <2>4. NoTwoAlike(after, k)
    BY <2>1, <2>2 DEF NoTwoAlike
  <2>5. IsReady(after[k])
    BY <1>1, <1>3, <2>1, <2>2
  <2> QED
    BY <2>1, <2>2, <2>3, <2>4, <2>5 DEF Sound
<1>5. Sound(after, n + 1)
  <2>1. RefersOut(after, n + 1) /\ NoTwoAlike(after, n + 1)
    BY <1>2 DEF RefersOut, NoTwoAlike
  <2> QED
    BY <1>1, <1>2, <2>1 DEF Sound
<1>6. \A k \in 1..(n + 1) : k \in 1..n \/ k = n + 1
  BY <1>1
<1> QED
  BY <1>2, <1>4, <1>5, <1>6 DEF AllSound, after

LEMMA FunctionEnded ==
  ASSUME NEW chain \in Seq(CompilerType), Len(chain) > 1
  PROVE  LET n     == Len(chain)
             after == SubSeq(chain, 1, n - 1)
         IN  /\ after \in Seq(CompilerType) /\ Len(after) = n - 1
             /\ \A k \in 1..(n - 1) : after[k] = chain[k]
             /\ \A k \in 0..(n - 1) : Denotation(after)[k] = Denotation(chain)[k]
             /\ \A k \in 1..(n - 1) : FunctionOf(after, k) = FunctionOf(chain, k)
             /\ AllSound(chain) => AllSound(after)
<1> DEFINE n     == Len(chain)
           m     == n - 1
           after == SubSeq(chain, 1, m)
<1>1. n \in Nat /\ m \in Nat /\ m \in 0..Len(chain) /\ m = n - 1 /\ m <= n
  BY ChainIs
<1> HIDE DEF m
<1>2. /\ after \in Seq(CompilerType) /\ Len(after) = m
      /\ \A k \in 1..m : after[k] = chain[k]
  BY <1>1, PrefixIs
<1> HIDE DEF after, n
<1>3. \A k \in 0..m : Denotation(after)[k] = Denotation(chain)[k]
  <2>1. Len(chain) = n
    BY DEF n
  <2>2. /\ m \in Nat /\ Len(chain) \in Nat /\ Len(after) \in Nat
        /\ m <= Len(chain) /\ m <= Len(after)
        /\ \A k \in 1..m : chain[k].upvalues = after[k].upvalues
    BY <1>1, <1>2, <2>1
  <2>3. \A k \in 0..m : Denotation(chain)[k] = Denotation(after)[k]
    BY <2>2, DenotationIsLocal
  <2> QED
    BY <2>3
<1>4. ASSUME NEW k \in 1..m  PROVE FunctionOf(after, k) = FunctionOf(chain, k)
  <2>1. k \in 0..m /\ after[k] = chain[k]
    BY <1>2
  <2>2. Denotation(after)[k] = Denotation(chain)[k]
    BY <1>3, <2>1
  <2> QED
    BY <2>1, <2>2 DEF FunctionOf, FreeOf
<1>5. ASSUME AllSound(chain), NEW k \in 1..m  PROVE Sound(after, k)
  <2>1. /\ after[k] = chain[k] /\ k \in 1..n /\ k < n
        /\ k > 1 => k - 1 \in 1..m /\ after[k - 1] = chain[k - 1]
    BY <1>1, <1>2
  <2>2. /\ RefersOut(chain, k) /\ NoTwoAlike(chain, k)
        /\ LocalsInOrder(chain[k]) /\ IsReady(chain[k])
        /\ (k > 1 => chain[k].scopeDepth > 0)
    BY <1>5, <2>1 DEF AllSound, Sound, n
  <2>3. RefersOut(after, k)
    BY <2>1, <2>2 DEF RefersOut
  <2>4. NoTwoAlike(after, k)
    BY <2>1, <2>2 DEF NoTwoAlike
  <2> QED
    BY <2>1, <2>2, <2>3, <2>4 DEF Sound
<1>6. AllSound(chain) => AllSound(after)
  BY <1>2, <1>5 DEF AllSound
<1> QED
  BY <1>2, <1>3, <1>4, <1>6 DEF after, m, n

----------------------------------------------------------------------------
\* Names

LEMMA ResolveLocalIs ==
  ASSUME NEW c \in CompilerType, NEW name
  PROVE  /\ ResolveLocal(c, name) = NotFound <=> Named(c, name) = {}
         /\ ResolveLocal(c, name) # NotFound =>
              /\ ResolveLocal(c, name) \in Named(c, name)
              /\ ResolveLocal(c, name) \in 0..(Len(c.locals) - 1)
              /\ \A i \in Named(c, name) : i <= ResolveLocal(c, name)
<1> DEFINE S == Named(c, name)
           n == Len(c.locals)
<1>1. n \in Nat /\ S \in SUBSET Nat /\ S \subseteq 0..(n - 1) /\ \A i \in S : i <= n
  BY CompilerIs DEF Named
<1>2. ASSUME S # {}
      PROVE  Highest(S) \in S /\ \A i \in S : i <= Highest(S)
  <2> HIDE DEF S, n
  <2> QED
    BY <1>1, <1>2, HighestIs
<1>3. S = {} => ResolveLocal(c, name) = NotFound
  BY DEF ResolveLocal
<1>4. S # {} => ResolveLocal(c, name) = Highest(S)
  BY DEF ResolveLocal
<1> HIDE DEF S, n
<1>5. \A i \in S : i # NotFound
  BY <1>1 DEF NotFound
<1>6. S # {} => Highest(S) \in 0..(n - 1)
  BY <1>1, <1>2
<1> QED
  BY <1>2, <1>3, <1>4, <1>5, <1>6 DEF S, n

\* The local that is captured
LEMMA CaptureIs ==
  ASSUME NEW c \in CompilerType, NEW l \in 0..(Len(c.locals) - 1)
  PROVE  LET captured == Capture(c, l)
             n        == Len(c.locals)
         IN  /\ captured \in CompilerType
             /\ captured.upvalues = c.upvalues /\ captured.scopeDepth = c.scopeDepth
             /\ Len(captured.locals) = n
             /\ \A i \in 1..n : /\ captured.locals[i].name = c.locals[i].name
                                /\ captured.locals[i].depth = c.locals[i].depth
                                /\ i # l + 1 => captured.locals[i] = c.locals[i]
             /\ captured.locals[l + 1].isCaptured = TRUE
<1> DEFINE n == Len(c.locals)
           j == l + 1
           x == [c.locals[j] EXCEPT !.isCaptured = TRUE]
           t == [c.locals EXCEPT ![j] = x]
           e == Capture(c, l)
<1>1. /\ n \in Nat /\ j \in 1..n /\ c.locals \in Seq(Local) /\ c.locals[j] \in Local
  <2>1. n \in Nat /\ j \in 1..n
    BY CompilerIs
  <2> HIDE DEF j
  <2> QED
    BY <2>1, CompilerIs
<1>2. /\ x \in Local /\ x.isCaptured = TRUE
      /\ x.name = c.locals[j].name /\ x.depth = c.locals[j].depth
  <2> HIDE DEF j
  <2> QED
    BY <1>1 DEF Local
<1>3. /\ t \in Seq(Local) /\ Len(t) = n
      /\ \A i \in 1..n : t[i] = IF i = j THEN x ELSE c.locals[i]
  <2> HIDE DEF x, j
  <2> QED
    BY <1>1, <1>2, ExceptSeq
<1>4. e = [c EXCEPT !.locals = t]
  BY DEF Capture
<1> HIDE DEF e, t, x, j, n
<1>5. e \in CompilerType /\ e.locals = t /\ e.upvalues = c.upvalues /\ e.scopeDepth = c.scopeDepth
  BY <1>3, <1>4 DEF CompilerType
<1>6. /\ Len(e.locals) = n
      /\ \A i \in 1..n : /\ e.locals[i].name = c.locals[i].name
                         /\ e.locals[i].depth = c.locals[i].depth
                         /\ i # j => e.locals[i] = c.locals[i]
      /\ e.locals[j].isCaptured = TRUE
  BY <1>1, <1>2, <1>3, <1>5
<1> QED
  BY <1>5, <1>6 DEF e, n, j

LEMMA CaptureKeeps ==
  ASSUME NEW c \in CompilerType, NEW l \in 0..(Len(c.locals) - 1), LocalsInOrder(c)
  PROVE  /\ LocalsInOrder(Capture(c, l))
         /\ IsReady(Capture(c, l)) <=> IsReady(c)
         /\ VariablesOf(Capture(c, l)) = VariablesOf(c)
         /\ BlocksOf(Capture(c, l)) = BlocksOf(c)
         /\ CapturedOf(Capture(c, l)) = CapturedOf(c) \cup {l}
<1> DEFINE e == Capture(c, l)
           n == Len(c.locals)
<1>1. /\ e \in CompilerType /\ e.scopeDepth = c.scopeDepth /\ Len(e.locals) = n
      /\ \A i \in 1..n : /\ e.locals[i].name = c.locals[i].name
                         /\ e.locals[i].depth = c.locals[i].depth
                         /\ i # l + 1 => e.locals[i] = c.locals[i]
      /\ e.locals[l + 1].isCaptured = TRUE
  BY CaptureIs
<1>2. n \in Nat /\ n > 0 /\ DOMAIN c.locals = 1..n /\ l + 1 \in 1..n
  BY CompilerIs
<1> HIDE DEF e
<1>3. DOMAIN e.locals = 1..n
  <2> HIDE DEF n
  <2> QED
    BY <1>1, CompilerIs
<1>4. LocalsInOrder(e)
  <2>1. 1 \in 1..n /\ \A i \in 2..n : i \in 1..n
    BY <1>2
  <2> QED
    BY <1>1, <1>2, <1>3, <2>1 DEF LocalsInOrder
<1>5. IsReady(e) <=> IsReady(c)
  BY <1>1, <1>2, <1>3 DEF IsReady
<1>6. VariablesOf(e) = VariablesOf(c)
  BY <1>1, <1>2, <1>3 DEF VariablesOf
<1>7. BlocksOf(e) = BlocksOf(c)
  <2>1. ASSUME NEW d \in 0..c.scopeDepth  PROVE Outside(e, d) = Outside(c, d)
    <3>1. \A k \in 0..n : k > 0 => k \in 1..n
      OBVIOUS
    <3>2. Highs(e, d) = Highs(c, d)
      BY <1>1, <3>1 DEF Highs
    <3> QED
      BY <3>2, OutsideFollows
  <2> QED
    BY <1>1, <2>1, SameBlocks
<1>8. CapturedOf(e) = CapturedOf(c) \cup {l}
  <2> HIDE DEF n
  <2>1. \A p \in 0..(n - 1) : p + 1 \in 1..n /\ (p + 1 = l + 1 <=> p = l)
    BY <1>2
  <2>2. /\ CapturedOf(e) = {p \in 0..(n - 1) : e.locals[p + 1].isCaptured}
        /\ CapturedOf(c) = {p \in 0..(n - 1) : c.locals[p + 1].isCaptured}
    BY <1>1 DEF CapturedOf, n
  <2>3. \A p \in 0..(n - 1) :
          e.locals[p + 1].isCaptured <=> c.locals[p + 1].isCaptured \/ p = l
    BY <1>1, <2>1
  <2>4. l \in 0..(n - 1)
    BY DEF n
  <2> QED
    BY <2>2, <2>3, <2>4
<1> QED
  BY <1>4, <1>5, <1>6, <1>7, <1>8 DEF e

\* addUpvalue()
Fits(c) == Len(c.locals) \in 1..MaxLocals /\ Len(c.upvalues) \in 0..MaxUpvalues

HasUpvalue(c, u) == \E i \in DOMAIN c.upvalues : c.upvalues[i] = u

LEMMA AddUpvalueIs ==
  ASSUME NEW c \in CompilerType, Fits(c), NEW u \in Upvalue
  PROVE  LET added == AddUpvalue(c, u)
             after == added.compiler
             n     == Len(c.upvalues)
         IN  /\ after \in CompilerType /\ Fits(after)
             /\ after.locals = c.locals /\ after.scopeDepth = c.scopeDepth
             /\ added.index \in 0..(MaxUpvalues - 1)
             /\ added.error = (~ HasUpvalue(c, u) /\ n = MaxUpvalues)
             /\ HasUpvalue(c, u) =>
                  /\ after = c
                  /\ added.index + 1 \in 1..n /\ c.upvalues[added.index + 1] = u
             /\ ~ HasUpvalue(c, u) /\ n # MaxUpvalues =>
                  /\ Len(after.upvalues) = n + 1 /\ added.index = n
                  /\ \A i \in 1..n : after.upvalues[i] = c.upvalues[i]
                  /\ after.upvalues[n + 1] = u
<1> DEFINE n     == Len(c.upvalues)
           same  == {i \in DOMAIN c.upvalues : c.upvalues[i] = u}
           found == (CHOOSE i \in same : TRUE) - 1
           t     == Append(c.upvalues, u)
           e     == [c EXCEPT !.upvalues = t]
           added == AddUpvalue(c, u)
<1>1. /\ n \in 0..MaxUpvalues /\ DOMAIN c.upvalues = 1..n /\ c.upvalues \in Seq(Upvalue)
      /\ MaxUpvalues \in Nat \ {0}
  BY CompilerIs, ResolutionAssumption DEF Fits
<1>2. HasUpvalue(c, u) <=> same # {}
  BY DEF HasUpvalue
<1>3. added = IF same # {}
              THEN [compiler |-> c, index |-> found, error |-> FALSE]
              ELSE IF n = MaxUpvalues
              THEN [compiler |-> c, index |-> 0, error |-> TRUE]
              ELSE [compiler |-> e, index |-> n, error |-> FALSE]
  BY DEF AddUpvalue
<1>4. ASSUME same # {}
      PROVE  found + 1 \in 1..n /\ c.upvalues[found + 1] = u /\ found \in 0..(MaxUpvalues - 1)
  <2> DEFINE i == CHOOSE i \in same : TRUE
  <2>1. i \in same
    BY <1>4
  <2>2. i \in 1..n /\ c.upvalues[i] = u
    BY <1>1, <2>1
  <2> HIDE DEF i
  <2>3. i - 1 + 1 = i /\ i - 1 \in 0..(MaxUpvalues - 1)
    BY <1>1, <2>2
  <2>4. found = i - 1
    BY DEF i
  <2> HIDE DEF found
  <2> QED
    BY <2>2, <2>3, <2>4
<1>5. /\ t \in Seq(Upvalue) /\ Len(t) = n + 1
      /\ \A i \in 1..n : t[i] = c.upvalues[i]
      /\ t[n + 1] = u
  BY <1>1, AppendProperties
<1> HIDE DEF t
<1>6. e \in CompilerType /\ e.locals = c.locals /\ e.upvalues = t /\ e.scopeDepth = c.scopeDepth
  BY <1>5 DEF CompilerType
<1> HIDE DEF n, same, found, e, added
<1>7. CASE same # {}
  <2>1. added.compiler = c /\ added.index = found /\ added.error = FALSE
    BY <1>3, <1>7
  <2> QED
    BY <1>2, <1>4, <1>7, <2>1 DEF added, n
<1>8. CASE same = {} /\ n = MaxUpvalues
  <2>1. added.compiler = c /\ added.index = 0 /\ added.error = TRUE
    BY <1>3, <1>8
  <2>2. 0 \in 0..(MaxUpvalues - 1)
    BY <1>1
  <2> QED
    BY <1>2, <1>8, <2>1, <2>2 DEF added, n
<1>9. CASE same = {} /\ n # MaxUpvalues
  <2>1. added.compiler = e /\ added.index = n /\ added.error = FALSE
    BY <1>3, <1>9
  <2>2. n \in 0..(MaxUpvalues - 1) /\ n + 1 \in 0..MaxUpvalues
    BY <1>1, <1>9
  <2>3. Fits(e)
    BY <1>5, <1>6, <2>2 DEF Fits
  <2>4. Len(e.upvalues) = n + 1 /\ (\A i \in 1..n : e.upvalues[i] = c.upvalues[i])
        /\ e.upvalues[n + 1] = u
    BY <1>5, <1>6
  <2> QED
    BY <1>2, <1>6, <1>9, <2>1, <2>2, <2>3, <2>4 DEF added, n
<1> QED
  BY <1>7, <1>8, <1>9

----------------------------------------------------------------------------
\* resolveUpvalue()

\* What one function does, given what those around it do.
Pass(chain, name, home, at, j) ==
  IF j = home
  THEN [compiler |-> Capture(chain[j], ResolveLocal(chain[home], name)),
        index    |-> ResolveLocal(chain[home], name),
        error    |-> InOwnInitializer(chain[j], name)]
  ELSE AddUpvalue(chain[j], [index |-> at[j - 1].index, isLocal |-> j = home + 1])

LEMMA PassIsLocal ==
  ASSUME NEW chain, NEW name, NEW home, NEW at, NEW other, NEW j,
         j # home => at[j - 1] = other[j - 1]
  PROVE  Pass(chain, name, home, at, j) = Pass(chain, name, home, other, j)
BY DEF Pass

LEMMA PassingExists ==
  ASSUME NEW chain, NEW name, NEW home \in Nat, home > 0, NEW n \in Nat
  PROVE  \E at : at = [j \in home..n |-> Pass(chain, name, home, at, j)]
<1> DEFINE N == {m \in Nat : \E at : at = [j \in home..m |-> Pass(chain, name, home, at, j)]}
<1>1. 0 \in N
  <2> DEFINE f == [j \in home..0 |-> <<>>]
  <2>1. home..0 = {}
    OBVIOUS
  <2>2. f = [j \in home..0 |-> Pass(chain, name, home, f, j)]
    BY <2>1
  <2> QED
    BY <2>2
<1>2. ASSUME NEW m \in Nat, m \in N  PROVE m + 1 \in N
  <2>1. PICK f : f = [j \in home..m |-> Pass(chain, name, home, f, j)]
    BY <1>2
  <2> DEFINE g == [j \in home..(m + 1) |->
                     IF j = m + 1 THEN Pass(chain, name, home, f, j) ELSE f[j]]
  <2>2. ASSUME NEW j \in home..(m + 1), j # home  PROVE g[j - 1] = f[j - 1]
    BY <2>2
  <2>3. ASSUME NEW j \in home..(m + 1)  PROVE g[j] = Pass(chain, name, home, g, j)
    <3>1. g[j] = Pass(chain, name, home, f, j)
      BY <2>1
    <3>2. j # home => f[j - 1] = g[j - 1]
      BY <2>2
    <3> HIDE DEF g
    <3> QED
      BY <3>1, <3>2, PassIsLocal
  <2>4. DOMAIN g = home..(m + 1) /\ g = [j \in DOMAIN g |-> g[j]]
    OBVIOUS
  <2> HIDE DEF g
  <2>5. g = [j \in home..(m + 1) |-> Pass(chain, name, home, g, j)]
    BY <2>3, <2>4
  <2> QED
    BY <2>5
<1> QED
  <2> HIDE DEF N
  <2>1. n \in N
    BY <1>1, <1>2, Induction
  <2> QED
    BY <2>1 DEF N

LEMMA PassingIs ==
  ASSUME NEW chain, Len(chain) \in Nat, NEW name, NEW home \in Nat, home > 0
  PROVE  \A j \in home..Len(chain) :
           Passing(chain, name, home)[j] =
             Pass(chain, name, home, Passing(chain, name, home), j)
<1> DEFINE at == Passing(chain, name, home)
<1>1. at = [j \in home..Len(chain) |-> Pass(chain, name, home, at, j)]
  <2>1. \E f : f = [j \in home..Len(chain) |-> Pass(chain, name, home, f, j)]
    BY PassingExists
  <2> QED
    BY <2>1, Zenon DEF Passing, Pass
<1> HIDE DEF at
<1>2. \A j \in home..Len(chain) : at[j] = Pass(chain, name, home, at, j)
  BY <1>1
<1> QED
  BY <1>2 DEF at

\* The functions from the one at home inwards are those that resolveUpvalue() changes.
Reaches(chain, name, home) ==
  /\ chain \in Seq(CompilerType) /\ AllSound(chain)
  /\ \A k \in 1..Len(chain) : Fits(chain[k])
  /\ home \in 1..(Len(chain) - 1)
  /\ ResolveLocal(chain[home], name) # NotFound

\* The upvalue that the j-th of them asks for.
Wanted(chain, name, home, j) ==
  [index |-> Passing(chain, name, home)[j - 1].index, isLocal |-> j = home + 1]

LEMMA HomeIs ==
  ASSUME NEW chain, NEW name, NEW home, Reaches(chain, name, home)
  PROVE  LET local == ResolveLocal(chain[home], name)
             p     == Passing(chain, name, home)[home]
         IN  /\ Len(chain) \in Nat /\ home \in Nat /\ home > 0 /\ home < Len(chain)
             /\ chain[home] \in CompilerType /\ LocalsInOrder(chain[home])
             /\ IsReady(chain[home]) /\ Fits(chain[home])
             /\ local \in 0..(Len(chain[home].locals) - 1) /\ local \in 0..(MaxLocals - 1)
             /\ p.compiler = Capture(chain[home], local)
             /\ p.index = local /\ p.error = FALSE
<1> DEFINE local == ResolveLocal(chain[home], name)
           c     == chain[home]
           at    == Passing(chain, name, home)
<1>1. Len(chain) \in Nat /\ home \in Nat /\ home > 0 /\ home < Len(chain) /\ home \in 1..Len(chain)
  BY ChainIs DEF Reaches
<1>2. c \in CompilerType /\ LocalsInOrder(c) /\ IsReady(c) /\ Fits(c)
  BY <1>1, ChainIs DEF Reaches, AllSound, Sound
<1>3. local # NotFound
  BY DEF Reaches
<1>4. local \in 0..(Len(c.locals) - 1)
  <2> HIDE DEF c
  <2>1. local = ResolveLocal(c, name)
    BY DEF c
  <2> QED
    BY <1>2, <1>3, <2>1, ResolveLocalIs
<1>5. local \in 0..(MaxLocals - 1)
  BY <1>2, <1>4, ResolutionAssumption DEF Fits
<1>6. ~ InOwnInitializer(c, name)
  <2>1. local + 1 \in DOMAIN c.locals
    BY <1>2, <1>4, CompilerIs
  <2>2. c.locals[local + 1].depth # Uninitialized
    BY <1>2, <2>1 DEF IsReady
  <2> QED
    BY <2>2 DEF InOwnInitializer
<1>7. at[home] = Pass(chain, name, home, at, home)
  <2>1. home \in home..Len(chain)
    BY <1>1
  <2> QED
    BY <1>1, <2>1, PassingIs
<1>8. at[home] = [compiler |-> Capture(c, local), index |-> local, error |-> InOwnInitializer(c, name)]
  BY <1>7 DEF Pass
<1> HIDE DEF local, c, at
<1>9. at[home].compiler = Capture(c, local) /\ at[home].index = local
      /\ at[home].error = InOwnInitializer(c, name)
  BY <1>8
<1>10. InOwnInitializer(c, name) = FALSE
  BY <1>6 DEF InOwnInitializer
<1> QED
  BY <1>1, <1>2, <1>4, <1>5, <1>9, <1>10 DEF local, c, at

LEMMA PassingTyped ==
  ASSUME NEW chain, NEW name, NEW home, Reaches(chain, name, home)
  PROVE  \A j \in (home + 1)..Len(chain) :
           /\ Wanted(chain, name, home, j) \in Upvalue
           /\ Passing(chain, name, home)[j] = AddUpvalue(chain[j], Wanted(chain, name, home, j))
           /\ chain[j] \in CompilerType /\ Fits(chain[j])
           /\ Passing(chain, name, home)[j].index \in 0..(MaxUpvalues - 1)
<1> DEFINE n  == Len(chain)
           at == Passing(chain, name, home)
           want(j) == Wanted(chain, name, home, j)
           P(j) == /\ want(j) \in Upvalue
                   /\ at[j] = AddUpvalue(chain[j], want(j))
                   /\ chain[j] \in CompilerType /\ Fits(chain[j])
                   /\ at[j].index \in 0..(MaxUpvalues - 1)
           N == {j \in Nat : j \in (home + 1)..n => P(j)}
<1>1. /\ n \in Nat /\ home \in Nat /\ home > 0 /\ home < n
      /\ at[home].index \in 0..(MaxLocals - 1)
  <2>1. /\ n \in Nat /\ home \in Nat /\ home > 0 /\ home < n
        /\ at[home].index = ResolveLocal(chain[home], name)
        /\ ResolveLocal(chain[home], name) \in 0..(MaxLocals - 1)
    <3> HIDE DEF P, N, want
    <3> QED
      BY HomeIs
  <2> QED
    BY <2>1
<1>2. ASSUME NEW j \in (home + 1)..n, want(j) \in Upvalue  PROVE P(j)
  <2>1. j \in home..n /\ j # home /\ j \in 1..n
    BY <1>1
  <2>2. at[j] = Pass(chain, name, home, at, j)
    BY <1>1, <2>1, PassingIs
  <2>3. at[j] = AddUpvalue(chain[j], want(j))
    BY <2>1, <2>2 DEF Pass, Wanted
  <2>4. chain[j] \in CompilerType /\ Fits(chain[j])
    BY <2>1, ChainIs DEF Reaches
  <2> DEFINE c == chain[j]
             u == want(j)
  <2> HIDE DEF at, want, c, u
  <2>5. AddUpvalue(c, u).index \in 0..(MaxUpvalues - 1)
    BY <1>2, <2>4, AddUpvalueIs DEF c, u
  <2> QED
    BY <1>2, <2>3, <2>4, <2>5 DEF c, u
<1>3. 0 \in N
  BY <1>1
<1>4. ASSUME NEW m \in Nat, m \in N  PROVE m + 1 \in N
  <2> DEFINE j == m + 1
  <2> SUFFICES ASSUME j \in (home + 1)..n  PROVE P(j)
    OBVIOUS
  <2>1. want(j) = [index |-> at[m].index, isLocal |-> j = home + 1]
    <3>1. j - 1 = m
      OBVIOUS
    <3> HIDE DEF j
    <3> QED
      BY <3>1 DEF Wanted
  <2>2. CASE j = home + 1
    <3>1. m = home
      BY <1>1, <2>2
    <3>2. want(j) = [index |-> at[m].index, isLocal |-> TRUE]
      BY <2>1, <2>2
    <3> HIDE DEF want, at, j
    <3>3. want(j) \in [index : 0..(MaxLocals - 1), isLocal : {TRUE}]
      BY <1>1, <3>1, <3>2
    <3>4. want(j) \in Upvalue
      BY <3>3 DEF Upvalue
    <3> QED
      BY <1>2, <3>4 DEF want, at
  <2>3. CASE j # home + 1
    <3>1. m \in (home + 1)..n
      BY <1>1, <2>3
    <3>2. want(j) = [index |-> at[m].index, isLocal |-> FALSE]
      BY <2>1, <2>3
    <3>3. at[m].index \in 0..(MaxUpvalues - 1)
      BY <1>4, <3>1
    <3> HIDE DEF want, at, j
    <3>4. want(j) \in [index : 0..(MaxUpvalues - 1), isLocal : {FALSE}]
      BY <3>2, <3>3
    <3>5. want(j) \in Upvalue
      BY <3>4 DEF Upvalue
    <3> QED
      BY <1>2, <3>5 DEF want, at
  <2> QED
    BY <2>2, <2>3
<1>5. \A j \in (home + 1)..n : j \in N
  <2> HIDE DEF N
  <2>1. Nat \subseteq N
    BY <1>3, <1>4, Induction
  <2> QED
    BY <1>1, <2>1
<1> QED
  BY <1>5

\* What addUpvalue() leaves in the j-th function.
LEMMA Gotten ==
  ASSUME NEW chain, NEW name, NEW home, Reaches(chain, name, home),
         NEW j \in (home + 1)..Len(chain)
  PROVE  LET p    == Passing(chain, name, home)[j]
             want == Wanted(chain, name, home, j)
             c    == chain[j]
             n    == Len(c.upvalues)
         IN  /\ p.compiler \in CompilerType /\ Fits(p.compiler)
             /\ p.compiler.locals = c.locals /\ p.compiler.scopeDepth = c.scopeDepth
             /\ p.index \in 0..(MaxUpvalues - 1)
             /\ p.error = (~ HasUpvalue(c, want) /\ n = MaxUpvalues)
             /\ HasUpvalue(c, want) =>
                  /\ p.compiler = c
                  /\ p.index + 1 \in 1..n /\ c.upvalues[p.index + 1] = want
             /\ ~ HasUpvalue(c, want) /\ ~ p.error =>
                  /\ Len(p.compiler.upvalues) = n + 1 /\ p.index = n
                  /\ \A i \in 1..n : p.compiler.upvalues[i] = c.upvalues[i]
                  /\ p.compiler.upvalues[n + 1] = want
             /\ n \in Nat /\ DOMAIN c.upvalues = 1..n
             /\ DOMAIN p.compiler.upvalues = 1..Len(p.compiler.upvalues)
<1> DEFINE p    == Passing(chain, name, home)[j]
           want == Wanted(chain, name, home, j)
           c    == chain[j]
           n    == Len(c.upvalues)
<1>1. want \in Upvalue /\ p = AddUpvalue(c, want) /\ c \in CompilerType /\ Fits(c)
  BY PassingTyped
<1> HIDE DEF p, want, c
<1>2. /\ p.compiler \in CompilerType /\ Fits(p.compiler)
      /\ p.compiler.locals = c.locals /\ p.compiler.scopeDepth = c.scopeDepth
      /\ p.index \in 0..(MaxUpvalues - 1)
      /\ p.error = (~ HasUpvalue(c, want) /\ n = MaxUpvalues)
      /\ HasUpvalue(c, want) =>
           /\ p.compiler = c
           /\ p.index + 1 \in 1..n /\ c.upvalues[p.index + 1] = want
      /\ ~ HasUpvalue(c, want) /\ n # MaxUpvalues =>
           /\ Len(p.compiler.upvalues) = n + 1 /\ p.index = n
           /\ \A i \in 1..n : p.compiler.upvalues[i] = c.upvalues[i]
           /\ p.compiler.upvalues[n + 1] = want
  BY <1>1, AddUpvalueIs
<1>3. /\ n \in Nat /\ DOMAIN c.upvalues = 1..n
      /\ DOMAIN p.compiler.upvalues = 1..Len(p.compiler.upvalues)
  BY <1>1, <1>2, CompilerIs
<1>4. ~ HasUpvalue(c, want) /\ ~ p.error => n # MaxUpvalues
  BY <1>2
<1> QED
  BY <1>2, <1>3, <1>4 DEF p, want, c

\* The variable that the name means
Found(chain, name, home) == <<home, ResolveLocal(chain[home], name)>>

\* As long as no function has too many upvalues, the upvalue that the next one asks for is
\* the one of it that denotes the variable, if there is one.
LEMMA WantedDenotes ==
  ASSUME NEW chain, NEW name, NEW home, Reaches(chain, name, home),
         NEW j \in (home + 1)..Len(chain),
         \A i \in (home + 1)..(j - 1) : ~ Passing(chain, name, home)[i].error
  PROVE  \A i \in DOMAIN chain[j].upvalues :
           Denotation(chain)[j][i] = Found(chain, name, home)
             <=> chain[j].upvalues[i] = Wanted(chain, name, home, j)
<1> DEFINE n     == Len(chain)
           at    == Passing(chain, name, home)
           want(k) == Wanted(chain, name, home, k)
           of    == Denotation(chain)
           up(k) == chain[k].upvalues
           v     == Found(chain, name, home)
           local == ResolveLocal(chain[home], name)
           P(k)  == \A i \in DOMAIN up(k) : of[k][i] = v <=> up(k)[i] = want(k)
           N     == {k \in Nat : k \in (home + 1)..j => P(k)}
<1>1. /\ n \in Nat /\ home \in Nat /\ home > 0 /\ home < n /\ local \in Nat
      /\ v = <<home, local>> /\ at[home].index = local
      /\ \A k \in 1..n : RefersOut(chain, k) /\ NoTwoAlike(chain, k)
      /\ chain \in Seq(CompilerType)
  <2>1. /\ n \in Nat /\ home \in Nat /\ home > 0 /\ home < n
        /\ local \in 0..(Len(chain[home].locals) - 1) /\ at[home].index = local
    <3> HIDE DEF P, N, want, up, of, v
    <3> QED
      BY HomeIs
  <2>2. \A k \in 1..n : Sound(chain, k)
    BY DEF Reaches, AllSound
  <2> QED
    BY <2>1, <2>2 DEF Found, Reaches, Sound
<1>2. \A k \in 1..n : DenotesOne(chain, k)
  <2>1. n \in 0..Len(chain)
    BY <1>1
  <2> QED
    BY <1>1, <2>1, AllDenoteOne
<1>3. ASSUME NEW k \in (home + 1)..j, NEW i \in DOMAIN up(k)
      PROVE  /\ k \in 1..n /\ k - 1 \in home..n /\ k - 1 \in 1..n
             /\ up(k)[i].index \in Nat /\ up(k)[i].isLocal \in BOOLEAN
             /\ up(k)[i] = [index |-> up(k)[i].index, isLocal |-> up(k)[i].isLocal]
             /\ up(k)[i].isLocal => of[k][i] = <<k - 1, up(k)[i].index>>
             /\ ~ up(k)[i].isLocal =>
                  /\ of[k][i] = of[k - 1][up(k)[i].index + 1]
                  /\ up(k)[i].index + 1 \in DOMAIN up(k - 1)
             /\ up(k)[i] = want(k) <=>
                  up(k)[i].isLocal = (k = home + 1) /\ up(k)[i].index = at[k - 1].index
  <2>1. k \in 1..n /\ k - 1 \in home..n /\ k - 1 \in 1..n /\ chain[k] \in CompilerType
    <3>1. k \in 1..n /\ k - 1 \in home..n /\ k - 1 \in 1..n
      BY <1>1
    <3> QED
      BY <1>1, <3>1, ChainIs
  <2>2. /\ up(k)[i].index \in Nat /\ up(k)[i].isLocal \in BOOLEAN
        /\ up(k)[i] = [index |-> up(k)[i].index, isLocal |-> up(k)[i].isLocal]
    BY <2>1, UpvalueIs
  <2>3. of[k][i] = IF up(k)[i].isLocal THEN <<k - 1, up(k)[i].index>>
                   ELSE of[k - 1][up(k)[i].index + 1]
    <3>1. Len(chain) \in Nat /\ k \in 1..Len(chain) /\ i \in DOMAIN chain[k].upvalues
      BY <1>1, <2>1
    <3>2. Denotation(chain)[k][i] =
            IF chain[k].upvalues[i].isLocal THEN <<k - 1, chain[k].upvalues[i].index>>
            ELSE Denotation(chain)[k - 1][chain[k].upvalues[i].index + 1]
      BY <3>1, DenotedBy
    <3> QED
      BY <3>2
  <2>4. ~ up(k)[i].isLocal => up(k)[i].index + 1 \in DOMAIN up(k - 1)
    BY <1>1, <2>1 DEF RefersOut
  <2>5. want(k) = [index |-> at[k - 1].index, isLocal |-> k = home + 1]
    BY DEF Wanted
  <2> DEFINE x == up(k)[i]
             y == at[k - 1].index
             z == k = home + 1
  <2>6. x = want(k) <=> x.isLocal = z /\ x.index = y
    <3>1. x = [index |-> x.index, isLocal |-> x.isLocal] /\ want(k) = [index |-> y, isLocal |-> z]
      BY <2>2, <2>5
    <3> HIDE DEF x, y, z, want
    <3> QED
      BY <3>1
  <2> HIDE DEF of, up, want, at
  <2> QED
    BY <2>1, <2>2, <2>3, <2>4, <2>6
<1>4. P(home + 1)
  <2> DEFINE k == home + 1
  <2> SUFFICES ASSUME NEW i \in DOMAIN up(k)  PROVE of[k][i] = v <=> up(k)[i] = want(k)
    OBVIOUS
  <2>1. k \in (home + 1)..j /\ k - 1 = home /\ k = home + 1
    BY <1>1
  <2> HIDE DEF k, of, up, want, at, v, local
  <2>2. CASE up(k)[i].isLocal
    <3>1. of[k][i] = <<home, up(k)[i].index>>
      BY <1>3, <2>1, <2>2
    <3>2. of[k][i] = v <=> up(k)[i].index = local
      BY <1>1, <3>1
    <3>3. up(k)[i] = want(k) <=> up(k)[i].index = local
      BY <1>1, <1>3, <2>1, <2>2
    <3> QED
      BY <3>2, <3>3
  <2>3. CASE ~ up(k)[i].isLocal
    <3>1. up(k)[i] # want(k)
      BY <1>3, <2>1, <2>3
    <3>2. Captured(chain, home, of[k][i])
      <4> DEFINE a == up(k)[i].index + 1
      <4>1. of[k][i] = of[home][a] /\ a \in DOMAIN up(home) /\ home \in 1..n
        BY <1>1, <1>3, <2>1, <2>3
      <4> HIDE DEF a
      <4> QED
        BY <1>2, <4>1 DEF DenotesOne, of, up
    <3>3. PICK h \in 1..(home - 1) : \E l \in 0..(Len(chain[h].locals) - 1) : of[k][i] = <<h, l>>
      BY <3>2 DEF Captured
    <3>4. PICK l \in 0..(Len(chain[h].locals) - 1) : of[k][i] = <<h, l>>
      BY <3>3
    <3>5. <<h, l>> # <<home, local>>
      BY <1>1
    <3> QED
      BY <1>1, <3>1, <3>3, <3>4, <3>5
  <2> QED
    BY <1>3, <2>1, <2>2, <2>3
<1>5. ASSUME NEW m \in (home + 1)..j, m + 1 \in (home + 1)..j, P(m)  PROVE P(m + 1)
  <2> DEFINE k == m + 1
             b == at[m].index + 1
  <2> SUFFICES ASSUME NEW i \in DOMAIN up(k)  PROVE of[k][i] = v <=> up(k)[i] = want(k)
    OBVIOUS
  <2>1. k \in (home + 1)..j /\ k - 1 = m /\ k # home + 1 /\ m # home /\ m \in 1..n /\ m \in Nat
        /\ m \in (home + 1)..n /\ m \in (home + 1)..(j - 1)
    BY <1>1, <1>5
  <2>2. /\ HasUpvalue(chain[m], want(m)) => b \in DOMAIN up(m) /\ up(m)[b] = want(m)
        /\ ~ HasUpvalue(chain[m], want(m)) => b \notin DOMAIN up(m)
        /\ at[m].index \in Nat
    <3>1. ~ at[m].error
      BY <2>1
    <3>2. /\ at[m].index \in 0..(MaxUpvalues - 1)
          /\ HasUpvalue(chain[m], want(m)) =>
               at[m].index + 1 \in 1..Len(up(m)) /\ up(m)[at[m].index + 1] = want(m)
          /\ ~ HasUpvalue(chain[m], want(m)) /\ ~ at[m].error => at[m].index = Len(up(m))
          /\ Len(up(m)) \in Nat /\ DOMAIN up(m) = 1..Len(up(m))
      <4> HIDE DEF P, N, v, local, k, b
      <4> QED
        BY <2>1, Gotten
    <3> HIDE DEF at, want, up
    <3> QED
      BY <3>1, <3>2
  <2>3. P(m)
    BY <1>5
  <2> HIDE DEF k, of, up, want, at, v, local
  <2>4. CASE up(k)[i].isLocal
    <3>1. up(k)[i] # want(k)
      BY <1>3, <2>1, <2>4
    <3>2. of[k][i] = <<m, up(k)[i].index>>
      BY <1>3, <2>1, <2>4
    <3>3. <<m, up(k)[i].index>> # <<home, local>>
      BY <2>1
    <3> QED
      BY <1>1, <3>1, <3>2, <3>3
  <2>5. CASE ~ up(k)[i].isLocal
    <3> DEFINE a == up(k)[i].index + 1
    <3>1. /\ of[k][i] = of[m][a] /\ a \in DOMAIN up(m)
          /\ up(k)[i].index \in Nat
          /\ up(k)[i] = want(k) <=> up(k)[i].index = at[m].index
      BY <1>3, <2>1, <2>5
    <3>2. up(k)[i] = want(k) <=> a = b
      BY <2>2, <3>1
    <3> HIDE DEF a, b
    <3>3. of[m][a] = v <=> up(m)[a] = want(m)
      BY <2>3, <3>1
    <3>4. \A c, d \in DOMAIN up(m) : up(m)[c] = up(m)[d] => c = d
      BY <1>1, <2>1 DEF NoTwoAlike, up
    <3>5. up(m)[a] = want(m) <=> a = b
      <4>1. CASE HasUpvalue(chain[m], want(m))
        BY <2>2, <3>1, <3>4, <4>1
      <4>2. CASE ~ HasUpvalue(chain[m], want(m))
        <5>1. up(m)[a] # want(m)
          BY <3>1, <4>2 DEF HasUpvalue, up
        <5> QED
          BY <2>2, <3>1, <4>2, <5>1
      <4> QED
        BY <4>1, <4>2
    <3> QED
      BY <3>1, <3>2, <3>3, <3>5
  <2> QED
    BY <1>3, <2>1, <2>4, <2>5
<1>6. 0 \in N
  BY <1>1
<1>7. ASSUME NEW m \in Nat, m \in N  PROVE m + 1 \in N
  <2> HIDE DEF P
  <2> SUFFICES ASSUME m + 1 \in (home + 1)..j  PROVE P(m + 1)
    OBVIOUS
  <2>1. CASE m = home
    BY <1>4, <2>1
  <2>2. CASE m # home
    <3>1. m \in (home + 1)..j
      BY <1>1, <2>2
    <3> QED
      BY <1>5, <1>7, <3>1
  <2> QED
    BY <2>1, <2>2
<1>8. P(j)
  <2> HIDE DEF P
  <2>1. j \in Nat /\ j \in (home + 1)..j
    BY <1>1
  <2>2. j \in N
    <3> HIDE DEF N
    <3> QED
      BY <1>6, <1>7, <2>1, Induction
  <2> QED
    BY <2>1, <2>2
<1> QED
  BY <1>8

FreeWith(chain, name, home, k) ==
  IF k > home THEN FreeOf(chain, k) \cup {Found(chain, name, home)} ELSE FreeOf(chain, k)

LEMMA ReachesDenotes ==
  ASSUME NEW chain, NEW name, NEW home, Reaches(chain, name, home)
  PROVE  \A k \in 1..Len(chain) :
           /\ DenotesOne(chain, k) /\ Fits(chain[k])
           /\ IsFiniteSet(FreeOf(chain, k))
           /\ Cardinality(FreeOf(chain, k)) = Len(chain[k].upvalues)
<1> TAKE k \in 1..Len(chain)
<1>1. chain \in Seq(CompilerType) /\ Fits(chain[k])
      /\ \A j \in 1..Len(chain) : RefersOut(chain, j) /\ NoTwoAlike(chain, j)
  BY DEF Reaches, AllSound, Sound
<1>2. DenotesOne(chain, k)
  <2>1. Len(chain) \in 0..Len(chain)
    BY <1>1, ChainIs
  <2> QED
    BY <1>1, <2>1, AllDenoteOne
<1> QED
  BY <1>1, <1>2, FreeAreCounted

LEMMA OneMoreFree ==
  ASSUME NEW chain, NEW name, NEW home, Reaches(chain, name, home),
         NEW j \in (home + 1)..Len(chain),
         \A i \in (home + 1)..(j - 1) : ~ Passing(chain, name, home)[i].error
  PROVE  Passing(chain, name, home)[j].error
           <=> Cardinality(FreeWith(chain, name, home, j)) > MaxUpvalues
<1> DEFINE p    == Passing(chain, name, home)[j]
           want == Wanted(chain, name, home, j)
           c    == chain[j]
           n    == Len(c.upvalues)
           free == FreeOf(chain, j)
           v    == Found(chain, name, home)
<1>1. j \in 1..Len(chain) /\ j > home
  <2>1. Len(chain) \in Nat /\ home \in Nat
    <3> HIDE DEF p, want, c, n, free, v
    <3> QED
      BY HomeIs
  <2> QED
    BY <2>1
<1>2. /\ IsFiniteSet(free) /\ Cardinality(free) = n /\ n \in 0..MaxUpvalues /\ MaxUpvalues \in Nat
  BY <1>1, ReachesDenotes, ResolutionAssumption DEF Fits
<1>3. p.error = (~ HasUpvalue(c, want) /\ n = MaxUpvalues)
  <2> HIDE DEF v, free
  <2> QED
    BY Gotten
<1>4. HasUpvalue(c, want) <=> v \in free
  <2>1. \A i \in DOMAIN c.upvalues : Denotation(chain)[j][i] = v <=> c.upvalues[i] = want
    BY WantedDenotes
  <2> QED
    BY <2>1 DEF HasUpvalue, FreeOf
<1> HIDE DEF free, v, want, p, c, n
<1>5. Cardinality(free \cup {v}) = IF v \in free THEN n ELSE n + 1
  BY <1>2, FS_AddElement
<1>6. p.error <=> Cardinality(free \cup {v}) > MaxUpvalues
  <2>1. p.error <=> v \notin free /\ n = MaxUpvalues
    BY <1>3, <1>4
  <2>2. Cardinality(free \cup {v}) > MaxUpvalues <=> v \notin free /\ n = MaxUpvalues
    BY <1>2, <1>5
  <2> QED
    BY <2>1, <2>2
<1>7. FreeWith(chain, name, home, j) = free \cup {v}
  BY <1>1 DEF FreeWith, free, v
<1> QED
  BY <1>6, <1>7 DEF p

\* addUpvalue() fails in some function when the variable is one too many for some function.
LEMMA TooManyFree ==
  ASSUME NEW chain, NEW name, NEW home, Reaches(chain, name, home)
  PROVE  (\E j \in home..Len(chain) : Passing(chain, name, home)[j].error)
           <=> \E k \in 1..Len(chain) : Cardinality(FreeWith(chain, name, home, k)) > MaxUpvalues
<1> DEFINE n       == Len(chain)
           err(j)  == Passing(chain, name, home)[j].error
           many(k) == Cardinality(FreeWith(chain, name, home, k)) > MaxUpvalues
<1>1. n \in Nat /\ home \in Nat /\ home > 0 /\ home < n /\ ~ err(home)
  <2> HIDE DEF many
  <2> QED
    BY HomeIs
<1>2. ASSUME NEW j \in (home + 1)..n, \A i \in (home + 1)..(j - 1) : ~ err(i)
      PROVE  err(j) <=> many(j)
  BY <1>2, OneMoreFree
<1>3. ASSUME NEW k \in 1..n, k <= home  PROVE ~ many(k)
  <2>1. /\ FreeWith(chain, name, home, k) = FreeOf(chain, k)
        /\ Cardinality(FreeOf(chain, k)) = Len(chain[k].upvalues) /\ Fits(chain[k])
    BY <1>1, <1>3, ReachesDenotes DEF FreeWith
  <2> QED
    BY <2>1, ResolutionAssumption DEF Fits
<1> HIDE DEF err, many
<1>4. ASSUME NEW j \in home..n, err(j)  PROVE \E k \in 1..n : many(k)
  <2> DEFINE S == {i \in (home + 1)..n : err(i)}
  <2>1. j \in S /\ S \in SUBSET Nat
    BY <1>1, <1>4
  <2>2. PICK i \in S : \A m \in S : i <= m
    <3> HIDE DEF S
    <3> QED
      BY <2>1, Least
  <2>3. i \in (home + 1)..n /\ err(i) /\ i \in 1..n
    BY <1>1, <2>2
  <2>4. \A m \in (home + 1)..(i - 1) : ~ err(m)
    <3> TAKE m \in (home + 1)..(i - 1)
    <3>1. m \in (home + 1)..n /\ ~ (i <= m)
      BY <1>1, <2>3
    <3> QED
      BY <2>2, <3>1
  <2>5. many(i)
    BY <1>2, <2>3, <2>4
  <2> QED
    BY <2>3, <2>5
<1>5. ASSUME NEW k \in 1..n, many(k), \A j \in home..n : ~ err(j)  PROVE FALSE
  <2>1. k \in (home + 1)..n
    BY <1>1, <1>3, <1>5
  <2>2. /\ \A i \in (home + 1)..(k - 1) : i \in home..n
        /\ k \in home..n
    BY <1>1, <2>1
  <2>3. \A i \in (home + 1)..(k - 1) : ~ err(i)
    BY <1>5, <2>2
  <2> QED
    BY <1>2, <1>5, <2>1, <2>2, <2>3
<1>6. (\E j \in home..n : err(j)) <=> \E k \in 1..n : many(k)
  BY <1>4, <1>5
<1> QED
  BY <1>6 DEF err, many

\* The chain that resolveUpvalue() leaves
After(chain, name, home) ==
  [j \in DOMAIN chain |-> IF j < home THEN chain[j] ELSE Passing(chain, name, home)[j].compiler]

LEMMA AfterTyped ==
  ASSUME NEW chain, NEW name, NEW home, Reaches(chain, name, home)
  PROVE  LET after == After(chain, name, home)
             at    == Passing(chain, name, home)
             n     == Len(chain)
         IN  /\ after \in Seq(CompilerType) /\ Len(after) = n
             /\ \A k \in 1..n : Fits(after[k])
             /\ \A k \in 1..n : /\ k < home => after[k] = chain[k]
                                /\ k > home => after[k] = at[k].compiler
             /\ after[home] = Capture(chain[home], ResolveLocal(chain[home], name))
             /\ \A j \in home..n : at[j].error \in BOOLEAN
             /\ at[n].index \in Nat
<1> DEFINE after == After(chain, name, home)
           at    == Passing(chain, name, home)
           n     == Len(chain)
           local == ResolveLocal(chain[home], name)
<1>1. /\ n \in Nat /\ home \in Nat /\ home > 0 /\ home < n
      /\ chain[home] \in CompilerType /\ Fits(chain[home])
      /\ local \in 0..(Len(chain[home].locals) - 1)
      /\ at[home].compiler = Capture(chain[home], local) /\ at[home].error = FALSE
  <2> HIDE DEF after
  <2> QED
    BY HomeIs
<1>2. DOMAIN chain = 1..n /\ \A k \in 1..n : chain[k] \in CompilerType /\ Fits(chain[k])
  BY ChainIs DEF Reaches
<1>3. after = [j \in 1..n |-> IF j < home THEN chain[j] ELSE at[j].compiler]
  BY <1>2 DEF After
<1>4. ASSUME NEW j \in (home + 1)..n
      PROVE  /\ at[j].compiler \in CompilerType /\ Fits(at[j].compiler)
             /\ at[j].error \in BOOLEAN /\ at[j].index \in Nat
  <2>1. /\ at[j].compiler \in CompilerType /\ Fits(at[j].compiler)
        /\ at[j].error = (~ HasUpvalue(chain[j], Wanted(chain, name, home, j))
                           /\ Len(chain[j].upvalues) = MaxUpvalues)
        /\ at[j].index \in 0..(MaxUpvalues - 1)
    <3> HIDE DEF after, local
    <3> QED
      BY Gotten
  <2> QED
    BY <2>1
<1>5. at[home].compiler \in CompilerType /\ Fits(at[home].compiler)
  <2> DEFINE c == chain[home]
  <2> HIDE DEF at, local, c
  <2>1. /\ Capture(c, local) \in CompilerType /\ Capture(c, local).upvalues = c.upvalues
        /\ Len(Capture(c, local).locals) = Len(c.locals)
    BY <1>1, CaptureIs DEF c
  <2> QED
    BY <1>1, <2>1 DEF Fits, c
<1> HIDE DEF after, at, local
<1>6. \A j \in home..n : j = home \/ j \in (home + 1)..n
  BY <1>1
<1>7. \A j \in home..n : at[j].compiler \in CompilerType /\ Fits(at[j].compiler) /\ at[j].error \in BOOLEAN
  BY <1>1, <1>4, <1>5, <1>6
<1>8. /\ \A k \in 1..n : k < home \/ k \in home..n
      /\ n \in (home + 1)..n /\ home \in 1..n
      /\ \A k \in 1..n : k > home => ~ (k < home)
      /\ ~ (home < home)
  BY <1>1
<1>9. \A k \in 1..n : after[k] = IF k < home THEN chain[k] ELSE at[k].compiler
  BY <1>3
<1>10. \A k \in 1..n : after[k] \in CompilerType /\ Fits(after[k])
  BY <1>2, <1>7, <1>8, <1>9
<1>11. after \in Seq(CompilerType) /\ Len(after) = n
  BY <1>1, <1>3, <1>10
<1> QED
  BY <1>1, <1>4, <1>7, <1>8, <1>9, <1>10, <1>11 DEF after, at, local

NoneFails(chain, name, home) ==
  \A j \in (home + 1)..Len(chain) : ~ Passing(chain, name, home)[j].error

LEMMA AfterUpvalues ==
  ASSUME NEW chain, NEW name, NEW home, Reaches(chain, name, home), NoneFails(chain, name, home),
         NEW k \in 1..Len(chain)
  PROVE  LET after == After(chain, name, home)
             new   == after[k].upvalues
             old   == chain[k].upvalues
             x     == Passing(chain, name, home)[k].index + 1
             want  == Wanted(chain, name, home, k)
         IN  /\ k <= home => new = old
             /\ \A i \in DOMAIN old : i \in DOMAIN new /\ new[i] = old[i]
             /\ k > home => /\ x \in DOMAIN new /\ new[x] = want
                            /\ \A i \in DOMAIN new :
                                 i \in DOMAIN old \/ (i = x /\ \A j \in DOMAIN old : old[j] # want)
             /\ k # home => after[k].locals = chain[k].locals
             /\ after[k].scopeDepth = chain[k].scopeDepth
<1> DEFINE after == After(chain, name, home)
           at    == Passing(chain, name, home)
           local == ResolveLocal(chain[home], name)
           c     == chain[k]
           p     == at[k]
           want  == Wanted(chain, name, home, k)
           n     == Len(c.upvalues)
<1>1. /\ Len(chain) \in Nat /\ home \in Nat
      /\ chain[home] \in CompilerType /\ local \in 0..(Len(chain[home].locals) - 1)
  <2> HIDE DEF after, at, c, p, want, n
  <2> QED
    BY HomeIs
<1>2. /\ k < home => after[k] = c
      /\ k > home => after[k] = p.compiler
      /\ after[home] = Capture(chain[home], local)
  <2> HIDE DEF want, n
  <2> QED
    BY AfterTyped
<1>3. CASE k < home
  BY <1>1, <1>2, <1>3
<1>4. CASE k = home
  <2> DEFINE d == chain[home]
  <2> HIDE DEF d, local
  <2>1. Capture(d, local).upvalues = d.upvalues /\ Capture(d, local).scopeDepth = d.scopeDepth
    BY <1>1, CaptureIs DEF d
  <2> HIDE DEF after
  <2>2. after[k].upvalues = c.upvalues /\ after[k].scopeDepth = c.scopeDepth
    BY <1>2, <1>4, <2>1 DEF d
  <2> QED
    BY <1>1, <1>4, <2>2 DEF after
<1>5. CASE k > home
  <2>1. k \in (home + 1)..Len(chain) /\ ~ p.error
    BY <1>1, <1>5 DEF NoneFails
  <2>2. /\ p.compiler.locals = c.locals /\ p.compiler.scopeDepth = c.scopeDepth
        /\ HasUpvalue(c, want) =>
             /\ p.compiler = c
             /\ p.index + 1 \in 1..n /\ c.upvalues[p.index + 1] = want
        /\ ~ HasUpvalue(c, want) /\ ~ p.error =>
             /\ Len(p.compiler.upvalues) = n + 1 /\ p.index = n
             /\ \A i \in 1..n : p.compiler.upvalues[i] = c.upvalues[i]
             /\ p.compiler.upvalues[n + 1] = want
        /\ n \in Nat /\ DOMAIN c.upvalues = 1..n
        /\ DOMAIN p.compiler.upvalues = 1..Len(p.compiler.upvalues)
    <3> HIDE DEF after, local
    <3> QED
      BY <2>1, Gotten
  <2> DEFINE new == p.compiler.upvalues
             old == c.upvalues
             x   == p.index + 1
  <2>3. /\ \A i \in DOMAIN old : i \in DOMAIN new /\ new[i] = old[i]
        /\ x \in DOMAIN new /\ new[x] = want
        /\ \A i \in DOMAIN new :
             i \in DOMAIN old \/ (i = x /\ \A j \in DOMAIN old : old[j] # want)
    <3>1. CASE HasUpvalue(c, want)
      <4> HIDE DEF p, c, want, n
      <4> QED
        BY <2>2, <3>1
    <3>2. CASE ~ HasUpvalue(c, want)
      <4> HIDE DEF p, c, want
      <4>1. \A j \in DOMAIN old : old[j] # want
        BY <3>2 DEF HasUpvalue
      <4> HIDE DEF n
      <4>2. /\ Len(new) = n + 1 /\ p.index = n /\ DOMAIN new = 1..(n + 1) /\ DOMAIN old = 1..n
            /\ \A i \in 1..n : new[i] = old[i]
            /\ new[n + 1] = want /\ n \in Nat
        BY <2>1, <2>2, <3>2
      <4> HIDE DEF new, old
      <4> QED
        BY <4>1, <4>2
    <3> QED
      BY <3>1, <3>2
  <2>4. after[k] = p.compiler /\ ~ (k <= home)
    BY <1>1, <1>2, <1>5
  <2> HIDE DEF after, p, c, want
  <2>5. after[k].upvalues = new /\ after[k].locals = c.locals /\ after[k].scopeDepth = c.scopeDepth
    BY <2>2, <2>4
  <2> QED
    BY <2>3, <2>4, <2>5 DEF after, p, c, want
<1> QED
  BY <1>1, <1>3, <1>4, <1>5

LEMMA AfterDenotes ==
  ASSUME NEW chain, NEW name, NEW home, Reaches(chain, name, home), NoneFails(chain, name, home)
  PROVE  LET after == After(chain, name, home)
         IN  \A k \in 1..Len(chain) :
               /\ \A i \in DOMAIN chain[k].upvalues : Denotation(after)[k][i] = Denotation(chain)[k][i]
               /\ k > home => Denotation(after)[k][Passing(chain, name, home)[k].index + 1]
                                = Found(chain, name, home)
<1> DEFINE after  == After(chain, name, home)
           n      == Len(chain)
           at     == Passing(chain, name, home)
           local  == ResolveLocal(chain[home], name)
           want(k) == Wanted(chain, name, home, k)
           of     == Denotation(chain)
           off    == Denotation(after)
           up(k)  == chain[k].upvalues
           upp(k) == after[k].upvalues
           v      == Found(chain, name, home)
           x(k)   == at[k].index + 1
           P(k)   == /\ \A i \in DOMAIN up(k) : off[k][i] = of[k][i]
                     /\ k > home => off[k][x(k)] = v
           N      == {k \in Nat : k \in 1..n => P(k)}
<1>1. /\ n \in Nat /\ home \in Nat /\ home > 0 /\ home < n
      /\ at[home].index = local /\ v = <<home, local>>
  <2>1. n \in Nat /\ home \in Nat /\ home > 0 /\ home < n /\ at[home].index = local
    <3> HIDE DEF after, of, off, up, upp, want, v, x, P, N
    <3> QED
      BY HomeIs
  <2> QED
    BY <2>1 DEF Found
<1>2. Len(after) = n
  <2> HIDE DEF of, off, up, upp, want, v, x, P, N
  <2> QED
    BY AfterTyped
<1>3. ASSUME NEW k \in 1..n
      PROVE  /\ \A i \in DOMAIN up(k) : i \in DOMAIN upp(k) /\ upp(k)[i] = up(k)[i]
             /\ k > home => x(k) \in DOMAIN upp(k) /\ upp(k)[x(k)] = want(k)
  <2> HIDE DEF of, off, v, P, N
  <2> QED
    BY AfterUpvalues
<1>4. ASSUME NEW k \in 1..n, NEW i \in DOMAIN up(k)
      PROVE  of[k][i] = IF up(k)[i].isLocal THEN <<k - 1, up(k)[i].index>>
                        ELSE of[k - 1][up(k)[i].index + 1]
  <2> HIDE DEF after, off, upp, want, v, x, P, N
  <2> QED
    BY <1>1, DenotedBy
<1>5. ASSUME NEW k \in 1..n, NEW i \in DOMAIN upp(k)
      PROVE  off[k][i] = IF upp(k)[i].isLocal THEN <<k - 1, upp(k)[i].index>>
                         ELSE off[k - 1][upp(k)[i].index + 1]
  <2> HIDE DEF after, of, up, want, v, x, P, N
  <2>1. Len(after) \in Nat /\ k \in 1..Len(after)
    BY <1>1, <1>2
  <2> QED
    BY <2>1, DenotedBy
<1>6. ASSUME NEW k \in 1..n, NEW i \in DOMAIN up(k), ~ up(k)[i].isLocal
      PROVE  k > 1 /\ up(k)[i].index + 1 \in DOMAIN up(k - 1)
  <2>1. RefersOut(chain, k)
    BY DEF Reaches, AllSound, Sound
  <2> QED
    BY <1>6, <2>1 DEF RefersOut
<1>7. ASSUME NEW k \in 1..n, k > 1 => P(k - 1)  PROVE P(k)
  <2> HIDE DEF after, of, off, up, upp, want, v, x, at, local
  <2>1. ASSUME NEW i \in DOMAIN up(k)  PROVE off[k][i] = of[k][i]
    <3>1. i \in DOMAIN upp(k) /\ upp(k)[i] = up(k)[i]
      BY <1>3
    <3>2. CASE up(k)[i].isLocal
      <4> DEFINE u == up(k)[i]
      <4>1. of[k][i] = IF u.isLocal THEN <<k - 1, u.index>> ELSE of[k - 1][u.index + 1]
        BY <1>4
      <4>2. off[k][i] = IF u.isLocal THEN <<k - 1, u.index>> ELSE off[k - 1][u.index + 1]
        BY <1>5, <3>1
      <4> HIDE DEF u
      <4>3. u.isLocal
        BY <3>2 DEF u
      <4> QED
        BY <4>1, <4>2, <4>3
    <3>3. CASE ~ up(k)[i].isLocal
      <4> DEFINE a == up(k)[i].index + 1
      <4>1. k > 1 /\ a \in DOMAIN up(k - 1)
        BY <1>6, <3>3
      <4>2. of[k][i] = of[k - 1][a] /\ off[k][i] = off[k - 1][a]
        BY <1>4, <1>5, <3>1, <3>3
      <4> QED
        BY <1>7, <4>1, <4>2
    <3> QED
      BY <3>2, <3>3
  <2>2. ASSUME k > home  PROVE off[k][x(k)] = v
    <3> DEFINE y == x(k)
    <3>1. y \in DOMAIN upp(k) /\ upp(k)[y] = want(k)
      BY <1>3, <2>2
    <3> HIDE DEF y
    <3>2. off[k][y] = IF want(k).isLocal THEN <<k - 1, want(k).index>>
                      ELSE off[k - 1][want(k).index + 1]
      BY <1>5, <3>1
    <3>3. want(k) = [index |-> at[k - 1].index, isLocal |-> k = home + 1]
      BY DEF want, Wanted, at
    <3>4. want(k).index = at[k - 1].index /\ want(k).isLocal = (k = home + 1)
      BY <3>3
    <3>5. CASE k = home + 1
      <4>1. k - 1 = home /\ want(k).index = local
        BY <1>1, <3>4, <3>5
      <4>2. want(k).isLocal
        BY <3>4, <3>5
      <4>3. off[k][y] = <<k - 1, want(k).index>>
        BY <3>2, <4>2
      <4> QED
        BY <1>1, <4>1, <4>3 DEF y
    <3>6. CASE k # home + 1
      <4>1. k - 1 > home /\ k > 1
        BY <1>1, <2>2, <3>6
      <4>2. off[k - 1][x(k - 1)] = v
        BY <1>7, <4>1
      <4>3. off[k][y] = off[k - 1][at[k - 1].index + 1]
        BY <3>2, <3>4, <3>6
      <4> QED
        BY <4>2, <4>3 DEF y, x
    <3> QED
      BY <3>5, <3>6
  <2> QED
    BY <2>1, <2>2
<1>8. 0 \in N
  OBVIOUS
<1>9. ASSUME NEW k \in Nat, k \in N  PROVE k + 1 \in N
  <2> HIDE DEF P
  <2> SUFFICES ASSUME k + 1 \in 1..n  PROVE P(k + 1)
    OBVIOUS
  <2>1. k + 1 > 1 => k \in 1..n /\ k + 1 - 1 = k
    BY <1>1
  <2>2. k + 1 > 1 => P(k + 1 - 1)
    BY <1>9, <2>1
  <2> QED
    BY <1>7, <2>2
<1>10. \A k \in 1..n : P(k)
  <2> HIDE DEF P
  <2>1. \A k \in 1..n : k \in N
    <3> HIDE DEF N
    <3>1. Nat \subseteq N
      BY <1>8, <1>9, Induction
    <3> QED
      BY <3>1
  <2> QED
    BY <2>1
<1> QED
  BY <1>10

LEMMA AfterSound ==
  ASSUME NEW chain, NEW name, NEW home, Reaches(chain, name, home), NoneFails(chain, name, home)
  PROVE  AllSound(After(chain, name, home))
<1> DEFINE after   == After(chain, name, home)
           n       == Len(chain)
           at      == Passing(chain, name, home)
           local   == ResolveLocal(chain[home], name)
           want(k) == Wanted(chain, name, home, k)
           up(k)   == chain[k].upvalues
           upp(k)  == after[k].upvalues
           x(k)    == at[k].index + 1
<1>1. /\ n \in Nat /\ home \in Nat /\ home > 0 /\ home < n /\ home \in 1..n
      /\ at[home].index = local
      /\ chain[home] \in CompilerType /\ LocalsInOrder(chain[home]) /\ IsReady(chain[home])
      /\ local \in 0..(Len(chain[home].locals) - 1)
  <2>1. /\ n \in Nat /\ home \in Nat /\ home > 0 /\ home < n
        /\ at[home].index = local
        /\ chain[home] \in CompilerType /\ LocalsInOrder(chain[home]) /\ IsReady(chain[home])
        /\ local \in 0..(Len(chain[home].locals) - 1)
    <3> HIDE DEF after, up, upp, want, x
    <3> QED
      BY HomeIs
  <2> QED
    BY <2>1
<1>2. Len(after) = n /\ after[home] = Capture(chain[home], local)
  <2> HIDE DEF up, upp, want, x
  <2> QED
    BY AfterTyped
<1>3. ASSUME NEW k \in 1..n
      PROVE  /\ k <= home => upp(k) = up(k)
             /\ \A i \in DOMAIN up(k) : i \in DOMAIN upp(k) /\ upp(k)[i] = up(k)[i]
             /\ k > home => /\ x(k) \in DOMAIN upp(k) /\ upp(k)[x(k)] = want(k)
                            /\ \A i \in DOMAIN upp(k) :
                                 i \in DOMAIN up(k)
                                   \/ (i = x(k) /\ \A j \in DOMAIN up(k) : up(k)[j] # want(k))
             /\ k # home => after[k].locals = chain[k].locals
             /\ after[k].scopeDepth = chain[k].scopeDepth
  <2> HIDE DEF local
  <2> QED
    BY AfterUpvalues
<1>4. ASSUME NEW k \in 1..n  PROVE Sound(chain, k)
  BY DEF Reaches, AllSound
<1>5. /\ LocalsInOrder(after[home]) /\ IsReady(after[home])
      /\ Len(after[home].locals) = Len(chain[home].locals)
      /\ DOMAIN after[home].locals = DOMAIN chain[home].locals
      /\ local + 1 \in DOMAIN after[home].locals
      /\ after[home].locals[local + 1].isCaptured = TRUE
      /\ \A i \in DOMAIN chain[home].locals :
           i # local + 1 => after[home].locals[i] = chain[home].locals[i]
  <2> DEFINE c == chain[home]
             e == Capture(c, local)
  <2> HIDE DEF after, local, c
  <2>1. /\ e \in CompilerType /\ Len(e.locals) = Len(c.locals)
        /\ e.locals[local + 1].isCaptured = TRUE
        /\ \A i \in 1..Len(c.locals) : i # local + 1 => e.locals[i] = c.locals[i]
    BY <1>1, CaptureIs DEF c
  <2>2. LocalsInOrder(e) /\ IsReady(e)
    BY <1>1, CaptureKeeps DEF c
  <2>3. c \in CompilerType
    BY <1>1 DEF c
  <2> HIDE DEF e
  <2>4. DOMAIN e.locals = 1..Len(c.locals) /\ DOMAIN c.locals = 1..Len(c.locals)
        /\ Len(c.locals) \in Nat
    BY <2>1, <2>3, CompilerIs
  <2>5. local + 1 \in 1..Len(c.locals)
    BY <1>1, <2>4 DEF c
  <2>6. e = after[home]
    BY <1>2 DEF e, c
  <2> QED
    BY <2>1, <2>2, <2>4, <2>5, <2>6 DEF c
<1> HIDE DEF after, at, local, want, up, upp, x
<1>6. ASSUME NEW k \in 1..n  PROVE LocalsInOrder(after[k])
  <2>1. CASE k = home
    BY <1>5, <2>1
  <2>2. CASE k # home
    <3>1. after[k].locals = chain[k].locals /\ after[k].scopeDepth = chain[k].scopeDepth
      BY <1>3, <2>2
    <3>2. LocalsInOrder(chain[k])
      BY <1>4 DEF Sound
    <3> QED
      BY <3>1, <3>2 DEF LocalsInOrder
  <2> QED
    BY <2>1, <2>2
<1>7. ASSUME NEW k \in 1..n, k < n  PROVE IsReady(after[k])
  <2>1. CASE k = home
    BY <1>5, <2>1
  <2>2. CASE k # home
    <3>1. after[k].locals = chain[k].locals
      BY <1>3, <2>2
    <3>2. IsReady(chain[k])
      BY <1>4, <1>7 DEF Sound
    <3> QED
      BY <3>1, <3>2 DEF IsReady
  <2> QED
    BY <2>1, <2>2
<1>8. ASSUME NEW k \in 1..n, k > 1  PROVE after[k].scopeDepth > 0
  <2>1. after[k].scopeDepth = chain[k].scopeDepth
    BY <1>3
  <2>2. chain[k].scopeDepth > 0
    BY <1>4, <1>8 DEF Sound
  <2> QED
    BY <2>1, <2>2
<1>9. ASSUME NEW k \in 1..n, NEW i \in DOMAIN chain[k].locals
      PROVE  /\ i \in DOMAIN after[k].locals
             /\ chain[k].locals[i].isCaptured => after[k].locals[i].isCaptured
  <2>1. CASE k = home
    BY <1>5, <1>9, <2>1
  <2>2. CASE k # home
    BY <1>3, <1>9, <2>2
  <2> QED
    BY <2>1, <2>2
<1>10. ASSUME NEW k \in 1..n, NEW i \in DOMAIN upp(k)
       PROVE  /\ k > 1
              /\ IF upp(k)[i].isLocal
                 THEN /\ upp(k)[i].index + 1 \in DOMAIN after[k - 1].locals
                      /\ after[k - 1].locals[upp(k)[i].index + 1].isCaptured
                 ELSE upp(k)[i].index + 1 \in DOMAIN upp(k - 1)
  <2>1. CASE i \in DOMAIN up(k)
    <3> DEFINE u == up(k)[i]
    <3>1. /\ k > 1
          /\ IF u.isLocal
             THEN /\ u.index + 1 \in DOMAIN chain[k - 1].locals
                  /\ chain[k - 1].locals[u.index + 1].isCaptured
             ELSE u.index + 1 \in DOMAIN up(k - 1)
      <4>1. RefersOut(chain, k)
        BY <1>4 DEF Sound
      <4> QED
        BY <2>1, <4>1 DEF RefersOut, up
    <3>2. upp(k)[i] = u
      BY <1>3, <2>1
    <3>3. k - 1 \in 1..n
      BY <1>1, <3>1
    <3> DEFINE a == u.index + 1
    <3> HIDE DEF u
    <3>4. CASE u.isLocal
      <4>1. a \in DOMAIN chain[k - 1].locals /\ chain[k - 1].locals[a].isCaptured
        BY <3>1, <3>4
      <4> HIDE DEF a
      <4>2. a \in DOMAIN after[k - 1].locals /\ after[k - 1].locals[a].isCaptured
        BY <1>9, <3>3, <4>1
      <4> QED
        BY <3>1, <3>2, <3>4, <4>2 DEF a
    <3>5. CASE ~ u.isLocal
      <4>1. a \in DOMAIN up(k - 1)
        BY <3>1, <3>5
      <4> HIDE DEF a
      <4>2. a \in DOMAIN upp(k - 1)
        BY <1>3, <3>3, <4>1
      <4> QED
        BY <3>1, <3>2, <3>5, <4>2 DEF a
    <3> QED
      BY <3>4, <3>5
  <2>2. CASE i \notin DOMAIN up(k)
    <3>1. k > home
      BY <1>1, <1>3, <1>10, <2>2
    <3>2. i = x(k) /\ upp(k)[i] = want(k)
      BY <1>3, <2>2, <3>1
    <3>3. k > 1 /\ k - 1 \in 1..n
      BY <1>1, <3>1
    <3>4. want(k) = [index |-> at[k - 1].index, isLocal |-> k = home + 1]
      BY DEF want, Wanted, at
    <3>5. want(k).index = at[k - 1].index /\ want(k).isLocal = (k = home + 1)
      BY <3>4
    <3>6. CASE k = home + 1
      <4>1. k - 1 = home /\ want(k).index = local
        BY <1>1, <3>5, <3>6
      <4>2. want(k).isLocal
        BY <3>5, <3>6
      <4> QED
        BY <1>5, <3>2, <3>3, <4>1, <4>2
    <3>7. CASE k # home + 1
      <4>1. k - 1 > home
        BY <1>1, <3>1, <3>7
      <4>2. ~ want(k).isLocal
        BY <3>5, <3>7
      <4>3. x(k - 1) \in DOMAIN upp(k - 1)
        BY <1>3, <3>3, <4>1
      <4>4. want(k).index + 1 \in DOMAIN upp(k - 1)
        BY <3>5, <4>3 DEF x
      <4> QED
        BY <3>2, <3>3, <4>2, <4>4
    <3> QED
      BY <3>6, <3>7
  <2> QED
    BY <2>1, <2>2
<1>11. ASSUME NEW k \in 1..n, NEW i \in DOMAIN upp(k), NEW j \in DOMAIN upp(k),
              upp(k)[i] = upp(k)[j]
       PROVE  i = j
  <2>1. ASSUME NEW p \in DOMAIN up(k), NEW q \in DOMAIN up(k), up(k)[p] = up(k)[q]  PROVE p = q
    <3>1. NoTwoAlike(chain, k)
      BY <1>4 DEF Sound
    <3> QED
      BY <2>1, <3>1 DEF NoTwoAlike, up
  <2>2. CASE k <= home
    BY <1>3, <1>11, <2>1, <2>2
  <2>3. CASE k > home
    <3>1. CASE i \in DOMAIN up(k) /\ j \in DOMAIN up(k)
      BY <1>3, <1>11, <2>1, <3>1
    <3>2. CASE i \in DOMAIN up(k) /\ j \notin DOMAIN up(k)
      BY <1>3, <1>11, <2>3, <3>2
    <3>3. CASE i \notin DOMAIN up(k) /\ j \in DOMAIN up(k)
      BY <1>3, <1>11, <2>3, <3>3
    <3>4. CASE i \notin DOMAIN up(k) /\ j \notin DOMAIN up(k)
      BY <1>3, <2>3, <3>4
    <3> QED
      BY <3>1, <3>2, <3>3, <3>4
  <2> QED
    BY <1>1, <2>2, <2>3
<1>12. ASSUME NEW k \in 1..n  PROVE Sound(after, k)
  <2>1. RefersOut(after, k)
    BY <1>10 DEF RefersOut, upp
  <2>2. NoTwoAlike(after, k)
    BY <1>11 DEF NoTwoAlike, upp
  <2>3. k < Len(after) => IsReady(after[k])
    BY <1>2, <1>7
  <2> QED
    BY <1>6, <1>8, <2>1, <2>2, <2>3 DEF Sound
<1> QED
  BY <1>2, <1>12 DEF AllSound, after

\* The variable becomes one that the functions inwards use and that its own one has to close.
LEMMA AfterFunctions ==
  ASSUME NEW chain, NEW name, NEW home, Reaches(chain, name, home), NoneFails(chain, name, home),
         NEW k \in 1..Len(chain)
  PROVE  LET after == After(chain, name, home)
             local == ResolveLocal(chain[home], name)
         IN  /\ VariablesOf(after[k]) = VariablesOf(chain[k])
             /\ BlocksOf(after[k]) = BlocksOf(chain[k])
             /\ IsReady(after[k]) = IsReady(chain[k])
             /\ CapturedOf(after[k]) = IF k = home THEN CapturedOf(chain[k]) \cup {local}
                                       ELSE CapturedOf(chain[k])
             /\ FreeOf(after, k) = FreeWith(chain, name, home, k)
<1> DEFINE after == After(chain, name, home)
           local == ResolveLocal(chain[home], name)
           v     == Found(chain, name, home)
           x     == Passing(chain, name, home)[k].index + 1
           want  == Wanted(chain, name, home, k)
           up    == chain[k].upvalues
           upp   == after[k].upvalues
           of    == Denotation(chain)[k]
           off   == Denotation(after)[k]
<1>1. /\ chain[home] \in CompilerType /\ LocalsInOrder(chain[home])
      /\ local \in 0..(Len(chain[home].locals) - 1)
      /\ Len(chain) \in Nat /\ home \in Nat
  <2> HIDE DEF after, v, x, want, up, upp, of, off
  <2> QED
    BY HomeIs
<1>2. after[home] = Capture(chain[home], local)
  <2> HIDE DEF v, x, want, up, upp, of, off
  <2> QED
    BY AfterTyped
<1>3. /\ k <= home => upp = up
      /\ \A i \in DOMAIN up : i \in DOMAIN upp /\ upp[i] = up[i]
      /\ k > home => /\ x \in DOMAIN upp /\ upp[x] = want
                     /\ \A i \in DOMAIN upp :
                          i \in DOMAIN up \/ (i = x /\ \A j \in DOMAIN up : up[j] # want)
      /\ k # home => after[k].locals = chain[k].locals
      /\ after[k].scopeDepth = chain[k].scopeDepth
  <2> HIDE DEF local, v, of, off
  <2> QED
    BY AfterUpvalues
<1>4. /\ \A i \in DOMAIN up : off[i] = of[i]
      /\ k > home => off[x] = v
  <2> HIDE DEF local, want, upp
  <2> QED
    BY AfterDenotes
<1>5. FreeOf(after, k) = FreeWith(chain, name, home, k)
  <2>1. FreeOf(after, k) = {off[i] : i \in DOMAIN upp} /\ FreeOf(chain, k) = {of[i] : i \in DOMAIN up}
    BY DEF FreeOf
  <2>2. CASE k <= home
    <3>1. FreeWith(chain, name, home, k) = FreeOf(chain, k)
      BY <1>1, <2>2 DEF FreeWith
    <3> HIDE DEF off, of, up, upp
    <3> QED
      BY <1>3, <1>4, <2>1, <2>2, <3>1
  <2>3. CASE k > home
    <3>1. FreeWith(chain, name, home, k) = FreeOf(chain, k) \cup {v}
      BY <2>3 DEF FreeWith
    <3> HIDE DEF off, of, up, upp, x, v, want
    <3>2. {off[i] : i \in DOMAIN upp} = {of[i] : i \in DOMAIN up} \cup {v}
      BY <1>3, <1>4, <2>3
    <3> QED
      BY <2>1, <3>1, <3>2
  <2> QED
    BY <1>1, <2>2, <2>3
<1>6. CASE k = home
  <2> DEFINE c == chain[home]
  <2> HIDE DEF local, c
  <2>1. /\ IsReady(Capture(c, local)) <=> IsReady(c)
        /\ VariablesOf(Capture(c, local)) = VariablesOf(c)
        /\ BlocksOf(Capture(c, local)) = BlocksOf(c)
        /\ CapturedOf(Capture(c, local)) = CapturedOf(c) \cup {local}
    BY <1>1, CaptureKeeps DEF c
  <2>2. IsReady(Capture(c, local)) = IsReady(c)
    BY <2>1 DEF IsReady
  <2> HIDE DEF after
  <2>3. after[k] = Capture(c, local) /\ chain[k] = c
    BY <1>2, <1>6 DEF c
  <2> QED
    BY <1>5, <1>6, <2>1, <2>2, <2>3 DEF local, after
<1>7. CASE k # home
  <2>1. after[k].locals = chain[k].locals /\ after[k].scopeDepth = chain[k].scopeDepth
    BY <1>3, <1>7
  <2> HIDE DEF after
  <2>2. /\ VariablesOf(after[k]) = VariablesOf(chain[k])
        /\ IsReady(after[k]) = IsReady(chain[k])
        /\ CapturedOf(after[k]) = CapturedOf(chain[k])
    BY <2>1 DEF VariablesOf, IsReady, CapturedOf
  <2>3. BlocksOf(after[k]) = BlocksOf(chain[k])
    BY <2>1 DEF BlocksOf, Outside
  <2> QED
    BY <1>5, <1>7, <2>2, <2>3 DEF after
<1> QED
  BY <1>6, <1>7

\* What resolveUpvalue() gives for the innermost function that has a local of this name
LEMMA ResolveUpvalueIs ==
  ASSUME NEW chain \in Seq(CompilerType), AllSound(chain), \A k \in 1..Len(chain) : Fits(chain[k]),
         NEW name
  PROVE  LET n        == Len(chain)
             homes    == {k \in 1..(n - 1) : ResolveLocal(chain[k], name) # NotFound}
             resolved == ResolveUpvalue(chain, name)
         IN  /\ homes = {} => resolved.index = NotFound
             /\ homes # {} =>
                  \E home \in 1..(n - 1) :
                    /\ Reaches(chain, name, home)
                    /\ \A k \in homes : k <= home
                    /\ resolved.chain = After(chain, name, home)
                    /\ resolved.index = Passing(chain, name, home)[n].index
                    /\ resolved.index # NotFound
                    /\ resolved.error =
                         \E j \in home..n : Passing(chain, name, home)[j].error
<1> DEFINE n        == Len(chain)
           homes    == {k \in 1..(n - 1) : ResolveLocal(chain[k], name) # NotFound}
           home     == Highest(homes)
           at       == Passing(chain, name, home)
           resolved == ResolveUpvalue(chain, name)
           after    == [j \in DOMAIN chain |-> IF j < home THEN chain[j] ELSE at[j].compiler]
           fails    == \E j \in home..n : at[j].error
<1>1. resolved = IF homes = {} THEN [chain |-> chain, index |-> NotFound, error |-> FALSE]
                 ELSE [chain |-> after, index |-> at[n].index, error |-> fails]
  BY DEF ResolveUpvalue
<1>2. n \in Nat /\ homes \in SUBSET Nat /\ \A k \in homes : k <= n
  BY ChainIs
<1>3. ASSUME homes # {}
      PROVE  /\ home \in homes
             /\ \A k \in homes : k <= home
  <2> HIDE DEF homes
  <2> QED
    BY <1>2, <1>3, HighestIs
<1>4. ASSUME homes # {}
      PROVE  /\ Reaches(chain, name, home)
             /\ home \in 1..(n - 1)
  BY <1>3, <1>4 DEF Reaches
<1>5. ASSUME homes # {}
      PROVE  at[n].index # NotFound
  <2>1. Reaches(chain, name, home)
    BY <1>4, <1>5
  <2>2. at[n].index \in Nat
    <3> HIDE DEF home, homes, after, resolved, fails
    <3> QED
      BY <2>1, AfterTyped
  <2> QED
    BY <2>2 DEF NotFound
<1>6. after = After(chain, name, home)
  BY DEF After
<1> HIDE DEF n, homes, home, at, resolved, after, fails
<1>7. homes = {} => resolved.index = NotFound
  BY <1>1
<1>8. ASSUME homes # {}
      PROVE  /\ resolved.chain = after /\ resolved.index = at[n].index /\ resolved.error = fails
  BY <1>1, <1>8
<1>9. ASSUME homes # {}
      PROVE  /\ Reaches(chain, name, home)
             /\ \A k \in homes : k <= home
             /\ resolved.chain = After(chain, name, home)
             /\ resolved.index = Passing(chain, name, home)[n].index
             /\ resolved.index # NotFound
             /\ resolved.error = \E j \in home..n : Passing(chain, name, home)[j].error
  BY <1>3, <1>4, <1>5, <1>6, <1>8, <1>9 DEF at, fails
<1> QED
  BY <1>4, <1>7, <1>9 DEF n, homes, resolved

----------------------------------------------------------------------------
\* The functions that lexical scoping sees in a chain

Function(variables, blocks, ready, captured, free) ==
  [variables |-> variables, blocks |-> blocks, ready |-> ready,
   captured |-> captured, free |-> free]

LEMMA FieldsAre ==
  ASSUME NEW variables, NEW blocks, NEW ready, NEW captured, NEW free,
         NEW f, f = Function(variables, blocks, ready, captured, free)
  PROVE  /\ f.variables = variables /\ f.blocks = blocks /\ f.ready = ready
         /\ f.captured = captured /\ f.free = free
BY DEF Function

FunctionsOf(chain) == [k \in 1..Len(chain) |-> FunctionOf(chain, k)]

LEMMA FunctionIs ==
  ASSUME NEW chain, NEW k
  PROVE  FunctionOf(chain, k) =
           Function(VariablesOf(chain[k]), BlocksOf(chain[k]), IsReady(chain[k]),
                    CapturedOf(chain[k]), FreeOf(chain, k))
BY DEF FunctionOf, Function

LEMMA FunctionsAre ==
  ASSUME NEW chain \in Seq(CompilerType)
  PROVE  /\ FunctionsOf(chain) \in Seq({FunctionOf(chain, k) : k \in 1..Len(chain)})
         /\ Len(FunctionsOf(chain)) = Len(chain)
         /\ DOMAIN FunctionsOf(chain) = 1..Len(chain)
         /\ \A k \in 1..Len(chain) : FunctionsOf(chain)[k] = FunctionOf(chain, k)
<1>1. Len(chain) \in Nat
  BY ChainIs
<1> QED
  BY <1>1 DEF FunctionsOf

LEMMA LastFunctionChanged ==
  ASSUME NEW chain \in Seq(CompilerType), Len(chain) > 0, NEW e \in CompilerType,
         e.upvalues = chain[Len(chain)].upvalues
  PROVE  FunctionsOf([chain EXCEPT ![Len(chain)] = e]) =
           [FunctionsOf(chain) EXCEPT ![Len(chain)] =
              Function(VariablesOf(e), BlocksOf(e), IsReady(e), CapturedOf(e),
                       FreeOf(chain, Len(chain)))]
<1> DEFINE n     == Len(chain)
           after == [chain EXCEPT ![n] = e]
           f     == Function(VariablesOf(e), BlocksOf(e), IsReady(e), CapturedOf(e), FreeOf(chain, n))
<1>1. /\ Len(after) = n /\ after[n] = e
      /\ \A k \in 1..n : FreeOf(after, k) = FreeOf(chain, k)
      /\ \A k \in 1..n : k # n => FunctionOf(after, k) = FunctionOf(chain, k)
  <2> HIDE DEF f
  <2> QED
    BY LastChanged
<1>2. n \in Nat /\ n \in 1..n
  BY ChainIs
<1> HIDE DEF after
<1>3. FunctionOf(after, n) = f
  BY <1>1, <1>2, FunctionIs
<1> HIDE DEF f
<1>4. FunctionsOf(after) = [k \in 1..n |-> FunctionOf(after, k)]
      /\ FunctionsOf(chain) = [k \in 1..n |-> FunctionOf(chain, k)]
  BY <1>1 DEF FunctionsOf
<1>5. FunctionsOf(after) = [FunctionsOf(chain) EXCEPT ![n] = f]
  BY <1>1, <1>3, <1>4
<1> QED
  BY <1>5 DEF after, f

LEMMA OneFunctionMore ==
  ASSUME NEW chain \in Seq(CompilerType), Len(chain) > 0, NEW e \in CompilerType,
         e.upvalues = <<>>
  PROVE  FunctionsOf(Append(chain, e)) =
           Append(FunctionsOf(chain),
                  Function(VariablesOf(e), BlocksOf(e), IsReady(e), CapturedOf(e), {}))
<1> DEFINE n     == Len(chain)
           after == Append(chain, e)
           f     == Function(VariablesOf(e), BlocksOf(e), IsReady(e), CapturedOf(e), {})
           s     == FunctionsOf(chain)
           t     == FunctionsOf(after)
           S     == {FunctionOf(chain, k) : k \in 1..n} \cup {f}
<1>1. /\ after \in Seq(CompilerType) /\ Len(after) = n + 1 /\ after[n + 1] = e
      /\ \A k \in 1..n : FunctionOf(after, k) = FunctionOf(chain, k)
      /\ FreeOf(after, n + 1) = {}
  <2> HIDE DEF f, s, t, S
  <2> QED
    BY FunctionBegun
<1>2. n \in Nat
  BY ChainIs
<1> HIDE DEF after
<1>3. FunctionOf(after, n + 1) = f
  BY <1>1, FunctionIs
<1>4. /\ Len(t) = n + 1 /\ DOMAIN t = 1..(n + 1)
      /\ \A k \in 1..(n + 1) : t[k] = FunctionOf(after, k)
      /\ t \in Seq({FunctionOf(after, k) : k \in 1..(n + 1)})
  BY <1>1, FunctionsAre
<1>5. /\ Len(s) = n /\ \A k \in 1..n : s[k] = FunctionOf(chain, k)
      /\ s \in Seq({FunctionOf(chain, k) : k \in 1..n})
  BY FunctionsAre
<1> HIDE DEF f, s, t
<1>6. \A k \in 1..(n + 1) : FunctionOf(after, k) \in S
  BY <1>1, <1>2, <1>3
<1>7. {FunctionOf(after, k) : k \in 1..(n + 1)} \subseteq S /\ {FunctionOf(chain, k) : k \in 1..n} \subseteq S
      /\ f \in S
  BY <1>6
<1> HIDE DEF S
<1>8. t \in Seq(S) /\ s \in Seq(S)
  BY <1>4, <1>5, <1>7
<1>9. /\ \A i \in 1..Len(s) : t[i] = s[i]
      /\ t[Len(s) + 1] = f /\ Len(t) = Len(s) + 1
  BY <1>1, <1>2, <1>3, <1>4, <1>5
<1>10. t = Append(s, f)
  BY <1>7, <1>8, <1>9, IsAppend
<1> QED
  BY <1>10 DEF t, s, f, after

LEMMA OneFunctionLess ==
  ASSUME NEW chain \in Seq(CompilerType), Len(chain) > 1
  PROVE  FunctionsOf(SubSeq(chain, 1, Len(chain) - 1)) =
           SubSeq(FunctionsOf(chain), 1, Len(chain) - 1)
<1> DEFINE n     == Len(chain)
           m     == n - 1
           after == SubSeq(chain, 1, m)
           s     == FunctionsOf(chain)
           t     == FunctionsOf(after)
           S     == {FunctionOf(chain, k) : k \in 1..n}
<1>1. /\ after \in Seq(CompilerType) /\ Len(after) = m
      /\ \A k \in 1..m : FunctionOf(after, k) = FunctionOf(chain, k)
  <2> HIDE DEF s, t, S
  <2> QED
    BY FunctionEnded
<1>2. n \in Nat /\ m \in Nat /\ m <= n
  BY ChainIs
<1> HIDE DEF after
<1>3. /\ Len(t) = m /\ \A k \in 1..m : t[k] = FunctionOf(after, k)
      /\ t \in Seq({FunctionOf(after, k) : k \in 1..m})
  BY <1>1, FunctionsAre
<1>4. /\ Len(s) = n /\ \A k \in 1..n : s[k] = FunctionOf(chain, k)
      /\ s \in Seq(S)
  BY FunctionsAre
<1> HIDE DEF s, t, m
<1>5. \A k \in 1..m : k \in 1..n
  BY <1>2
<1>6. {FunctionOf(after, k) : k \in 1..m} \subseteq S
  BY <1>1, <1>5
<1> HIDE DEF S
<1>7. t \in Seq(S)
  BY <1>3, <1>6
<1>8. Len(t) <= Len(s) /\ \A i \in 1..Len(t) : t[i] = s[i]
  BY <1>1, <1>2, <1>3, <1>4, <1>5
<1>9. t = SubSeq(s, 1, Len(t))
  BY <1>4, <1>7, <1>8, IsPrefix
<1> QED
  BY <1>3, <1>9 DEF t, s, m, after

----------------------------------------------------------------------------
\* What declareVariable() leaves, for a variable and for a function with a name

LEMMA LocalDeclared ==
  ASSUME NEW c \in CompilerType, Fits(c), LocalsInOrder(c), IsReady(c), c.scopeDepth > 0,
         NEW name \in Name
  PROVE  LET d == DeclareVariable(c, name)
             e == d.compiler
         IN  /\ d.error \in BOOLEAN
             /\ e \in CompilerType /\ Fits(e)
             /\ e.upvalues = c.upvalues /\ e.scopeDepth = c.scopeDepth /\ Len(e.locals) > 0
             /\ ~ d.error => /\ LocalsInOrder(e) /\ ~ IsReady(e)
                             /\ VariablesOf(e) = Append(VariablesOf(c), name)
                             /\ BlocksOf(e) = BlocksOf(c) /\ CapturedOf(e) = CapturedOf(c)
<1> DEFINE d      == DeclareVariable(c, name)
           longer == Longer(c, name)
           n      == Len(c.locals)
<1>1. n \in 1..MaxLocals /\ n \in Nat /\ n > 0 /\ MaxLocals \in Nat
  BY CompilerIs, ResolutionAssumption DEF Fits
<1>2. /\ d.error \in BOOLEAN
      /\ d.error <=>
           \/ \E i \in (BlocksOf(c)[Len(BlocksOf(c))] + 1)..Len(VariablesOf(c)) : VariablesOf(c)[i] = name
           \/ Len(VariablesOf(c)) = MaxLocals
      /\ d.compiler = IF n = MaxLocals THEN c ELSE longer
  BY <1>1, Declared
<1>3. Len(VariablesOf(c)) = n
  BY VariablesAre
<1>4. /\ longer \in CompilerType /\ longer.upvalues = c.upvalues
      /\ longer.scopeDepth = c.scopeDepth /\ Len(longer.locals) = n + 1
      /\ LocalsInOrder(longer) /\ ~ IsReady(longer)
      /\ VariablesOf(longer) = Append(VariablesOf(c), name)
      /\ BlocksOf(longer) = BlocksOf(c) /\ CapturedOf(longer) = CapturedOf(c)
  BY <1>1, LongerIs, LongerInOrder, VariableAdded
<1> HIDE DEF d, longer
<1>5. CASE n = MaxLocals
  <2>1. d.error /\ d.compiler = c
    BY <1>2, <1>3, <1>5
  <2> QED
    BY <1>1, <1>2, <2>1 DEF d
<1>6. CASE n # MaxLocals
  <2>1. d.compiler = longer /\ n + 1 \in 1..MaxLocals
    BY <1>1, <1>2, <1>6
  <2>2. Fits(longer)
    BY <1>4, <2>1 DEF Fits
  <2>3. Len(longer.locals) > 0
    BY <1>1, <1>4
  <2> QED
    BY <1>2, <1>4, <2>1, <2>2, <2>3 DEF d
<1> QED
  BY <1>5, <1>6

LEMMA FunctionNamed ==
  ASSUME NEW c \in CompilerType, Fits(c), LocalsInOrder(c), IsReady(c), NEW name \in Name
  PROVE  LET d == DeclareVariable(c, name)
             e == MarkInitialized(d.compiler)
         IN  /\ d.error \in BOOLEAN
             /\ e \in CompilerType /\ Fits(e)
             /\ e.upvalues = c.upvalues /\ e.scopeDepth = c.scopeDepth
             /\ ~ d.error => LocalsInOrder(e) /\ IsReady(e)
             /\ c.scopeDepth = 0 => e = c /\ d.error = FALSE
             /\ c.scopeDepth > 0 /\ ~ d.error =>
                  /\ VariablesOf(e) = Append(VariablesOf(c), name)
                  /\ BlocksOf(e) = BlocksOf(c) /\ CapturedOf(e) = CapturedOf(c)
<1> DEFINE d == DeclareVariable(c, name)
           x == d.compiler
           e == MarkInitialized(x)
           P == /\ d.error \in BOOLEAN
                /\ e \in CompilerType /\ Fits(e)
                /\ e.upvalues = c.upvalues /\ e.scopeDepth = c.scopeDepth
                /\ ~ d.error => LocalsInOrder(e) /\ IsReady(e)
                /\ c.scopeDepth = 0 => e = c /\ d.error = FALSE
                /\ c.scopeDepth > 0 /\ ~ d.error =>
                     /\ VariablesOf(e) = Append(VariablesOf(c), name)
                     /\ BlocksOf(e) = BlocksOf(c) /\ CapturedOf(e) = CapturedOf(c)
<1>1. c.scopeDepth \in Nat
  BY CompilerIs
<1>2. ASSUME c.scopeDepth = 0  PROVE P
  <2>1. d = [compiler |-> c, error |-> FALSE]
    BY <1>2 DEF DeclareVariable
  <2> HIDE DEF d
  <2>2. x = c /\ d.error = FALSE
    BY <2>1
  <2>3. e = c
    BY <1>2, <2>2 DEF MarkInitialized
  <2> HIDE DEF e, x
  <2>4. ~ (c.scopeDepth > 0)
    BY <1>2
  <2> QED
    BY <1>2, <2>2, <2>3, <2>4
<1>3. ASSUME c.scopeDepth > 0  PROVE P
  <2>1. /\ d.error \in BOOLEAN
        /\ x \in CompilerType /\ Fits(x)
        /\ x.upvalues = c.upvalues /\ x.scopeDepth = c.scopeDepth /\ Len(x.locals) > 0
        /\ ~ d.error => /\ LocalsInOrder(x) /\ ~ IsReady(x)
                        /\ VariablesOf(x) = Append(VariablesOf(c), name)
                        /\ BlocksOf(x) = BlocksOf(c) /\ CapturedOf(x) = CapturedOf(c)
    <3> HIDE DEF e
    <3> QED
      BY <1>3, LocalDeclared
  <2> HIDE DEF x
  <2>2. /\ e \in CompilerType /\ e.upvalues = x.upvalues /\ e.scopeDepth = x.scopeDepth
        /\ Len(e.locals) = Len(x.locals)
    BY <1>3, <2>1, MarkedIs
  <2>3. Fits(e)
    BY <2>1, <2>2 DEF Fits
  <2>4. ASSUME ~ d.error
        PROVE  /\ LocalsInOrder(e) /\ IsReady(e)
               /\ VariablesOf(e) = VariablesOf(x) /\ BlocksOf(e) = BlocksOf(x)
               /\ CapturedOf(e) = CapturedOf(x)
    BY <1>3, <2>1, <2>4, MarkedInOrder, VariableDefined
  <2>5. ~ (c.scopeDepth = 0)
    BY <1>3
  <2> HIDE DEF e, d
  <2> QED
    BY <1>3, <2>1, <2>2, <2>3, <2>4, <2>5
<1>4. P
  <2> HIDE DEF P
  <2> QED
    BY <1>1, <1>2, <1>3
<1> QED
  BY <1>4

----------------------------------------------------------------------------
\* The inductive invariant

LEMMA InvGives ==
  ASSUME IInv, ~ hadError
  PROVE  /\ compilers \in Seq(CompilerType) /\ AllSound(compilers)
         /\ \A k \in 1..Len(compilers) : Fits(compilers[k])
         /\ Len(compilers) \in 1..MaxFunctions /\ Len(compilers) \in Nat
         /\ Len(compilers) > 0 /\ Len(compilers) \in 1..Len(compilers)
         /\ DOMAIN compilers = 1..Len(compilers)
         /\ Current = compilers[Len(compilers)]
         /\ Current \in CompilerType /\ Fits(Current) /\ Len(Current.locals) > 0
         /\ LocalsInOrder(Current)
         /\ Len(compilers) > 1 => Current.scopeDepth > 0
         /\ InInitializer <=> ~ IsReady(Current)
         /\ InInitializer => Current.scopeDepth > 0
<1> DEFINE n == Len(compilers)
<1>1. compilers \in Seq(CompilerType) /\ n \in 1..MaxFunctions
  BY DEF IInv, TypeOK, CompilerType
<1>2. n \in Nat /\ n > 0 /\ n \in 1..n /\ DOMAIN compilers = 1..n /\ compilers[n] \in CompilerType
  BY <1>1, ScopesAssumption, ChainIs
<1>3. \A k \in 1..n : Fits(compilers[k])
  BY <1>2 DEF IInv, TypeOK, Fits
<1>4. AllSound(compilers)
  BY <1>2 DEF IInv, AllSound
<1>5. Current = compilers[n]
  BY DEF Current
<1>6. Sound(compilers, n)
  BY <1>2, <1>4 DEF AllSound
<1>7. LocalsInOrder(Current) /\ (n > 1 => Current.scopeDepth > 0)
  BY <1>5, <1>6 DEF Sound
<1>8. Current \in CompilerType /\ Fits(Current) /\ Len(Current.locals) > 0
  <2>1. Current \in CompilerType /\ Fits(Current)
    BY <1>2, <1>3, <1>5
  <2> QED
    BY <2>1, ResolutionAssumption DEF Fits
<1>9. InInitializer <=> ~ IsReady(Current)
  BY <1>7, <1>8, ReadyIs DEF InInitializer
<1>10. InInitializer => Current.scopeDepth > 0
  <2> DEFINE c == Current
             m == Len(c.locals)
  <2>1. c \in CompilerType /\ LocalsInOrder(c) /\ m > 0
    BY <1>7, <1>8
  <2> HIDE DEF c
  <2>2. m \in Nat /\ DOMAIN c.locals = 1..m /\ c.scopeDepth \in Nat
    BY <2>1, CompilerIs
  <2>3. c.locals[m].depth = Uninitialized => c.scopeDepth > 0
    <3>1. c.locals[1].depth = 0
      BY <2>1 DEF LocalsInOrder
    <3>2. ASSUME m # 1, c.locals[m].depth = Uninitialized  PROVE c.scopeDepth > 0
      <4>1. m \in 2..Len(c.locals)
        <5> HIDE DEF m
        <5>1. m \in 2..m
          BY <2>1, <2>2, <3>2
        <5> QED
          BY <5>1 DEF m
      <4>2. \/ c.locals[m].depth \in 1..c.scopeDepth
            \/ c.locals[m].depth = Uninitialized /\ c.scopeDepth > 0
        BY <2>1, <4>1 DEF LocalsInOrder
      <4> QED
        BY <2>2, <3>2, <4>2 DEF Uninitialized
    <3> QED
      BY <3>1, <3>2 DEF Uninitialized
  <2> QED
    BY <2>3 DEF InInitializer, c
<1> QED
  BY <1>1, <1>2, <1>3, <1>4, <1>5, <1>7, <1>8, <1>9, <1>10

LEMMA InvAfter ==
  ASSUME compilers' \in Seq(CompilerType), Len(compilers') \in 1..MaxFunctions,
         \A k \in 1..Len(compilers') : Fits(compilers'[k]), hadError' \in BOOLEAN,
         ~ hadError' => AllSound(compilers')
  PROVE  IInv'
<1>1. DOMAIN compilers' = 1..Len(compilers')
  BY ChainIs
<1>2. TypeOK'
  BY <1>1 DEF TypeOK, CompilerType, Fits
<1>3. ~ hadError' => \A k \in DOMAIN compilers' : Sound(compilers', k)
  BY <1>1 DEF AllSound
<1> QED
  BY <1>2, <1>3 DEF IInv

LEMMA InvAfterLast ==
  ASSUME IInv, ~ hadError, NEW e \in CompilerType, Fits(e), e.upvalues = Current.upvalues,
         compilers' = SetCurrent(e), hadError' \in BOOLEAN,
         ~ hadError' => /\ LocalsInOrder(e)
                        /\ Len(compilers) > 1 => e.scopeDepth > 0
  PROVE  IInv'
<1>1. /\ compilers \in Seq(CompilerType) /\ AllSound(compilers)
      /\ \A k \in 1..Len(compilers) : Fits(compilers[k])
      /\ Len(compilers) \in 1..MaxFunctions /\ Len(compilers) > 0
      /\ Current = compilers[Len(compilers)]
  BY InvGives
<1>2. compilers' = [compilers EXCEPT ![Len(compilers)] = e] /\ e.upvalues = compilers[Len(compilers)].upvalues
  BY <1>1 DEF SetCurrent
<1>3. /\ compilers' \in Seq(CompilerType) /\ Len(compilers') = Len(compilers)
      /\ compilers'[Len(compilers)] = e
      /\ \A k \in 1..Len(compilers) : k # Len(compilers) => compilers'[k] = compilers[k]
  BY <1>1, <1>2, LastChanged
<1>4. \A k \in 1..Len(compilers') : Fits(compilers'[k])
  BY <1>1, <1>3
<1>5. ~ hadError' => AllSound(compilers')
  BY <1>1, <1>2, StillSound
<1> QED
  BY <1>1, <1>3, <1>4, <1>5, InvAfter

LEMMA InvInit ==
  ASSUME Init
  PROVE  IInv
<1>1. compilers = <<NewCompiler>> /\ hadError = FALSE
  BY DEF Init
<1>2. /\ NewCompiler \in CompilerType /\ LocalsInOrder(NewCompiler)
      /\ NewCompiler.upvalues = <<>> /\ Len(NewCompiler.locals) = 1
  BY NewCompilerIs
<1> DEFINE c == NewCompiler
<1> HIDE DEF c
<1>3. /\ <<c>> \in Seq(CompilerType) /\ DOMAIN <<c>> = 1..1 /\ Len(<<c>>) = 1 /\ <<c>>[1] = c
      /\ compilers = <<c>>
  BY <1>1, <1>2 DEF c
<1>4. /\ Len(c.locals) \in 1..MaxLocals /\ Len(c.upvalues) \in 0..MaxUpvalues
      /\ 1 \in 1..MaxFunctions /\ DOMAIN c.upvalues = {}
  BY <1>2, ResolutionAssumption, ScopesAssumption DEF c
<1>5. TypeOK
  <2>1. ASSUME NEW k \in DOMAIN compilers
        PROVE  Len(compilers[k].locals) \in 1..MaxLocals /\ Len(compilers[k].upvalues) \in 0..MaxUpvalues
    <3>1. k = 1
      BY <1>3
    <3> QED
      BY <1>3, <1>4, <3>1
  <2>2. compilers \in Seq(CompilerType) /\ Len(compilers) \in 1..MaxFunctions
    BY <1>3, <1>4
  <2> QED
    BY <1>1, <2>1, <2>2 DEF TypeOK, CompilerType
<1>6. Sound(compilers, 1)
  <2>1. /\ compilers[1] = c /\ Len(compilers) = 1 /\ LocalsInOrder(c)
    BY <1>2, <1>3 DEF c
  <2>2. RefersOut(compilers, 1) /\ NoTwoAlike(compilers, 1)
    BY <1>4, <2>1 DEF RefersOut, NoTwoAlike
  <2> QED
    BY <2>1, <2>2 DEF Sound
<1>7. \A k \in DOMAIN compilers : Sound(compilers, k)
  <2>1. \A k \in DOMAIN compilers : k = 1
    BY <1>3
  <2> QED
    BY <1>6, <2>1
<1> QED
  BY <1>5, <1>7 DEF IInv

\* Init and every step keep the inductive invariant.
LEMMA InvNext ==
  ASSUME IInv, [Next]_vars
  PROVE  IInv'
<1> DEFINE n == Len(compilers)
           c == Current
<1>1. CASE UNCHANGED vars
  <2>1. compilers' = compilers /\ hadError' = hadError
    BY <1>1 DEF vars
  <2> QED
    BY <2>1 DEF IInv, TypeOK
<1>2. CASE Next
  <2>1. ~ hadError
    BY <1>2 DEF Next
  <2>2. /\ compilers \in Seq(CompilerType) /\ AllSound(compilers)
        /\ \A k \in 1..n : Fits(compilers[k])
        /\ n \in 1..MaxFunctions /\ n \in Nat /\ n > 0 /\ n \in 1..n
        /\ c = compilers[n]
        /\ c \in CompilerType /\ Fits(c) /\ Len(c.locals) > 0
        /\ LocalsInOrder(c)
        /\ n > 1 => c.scopeDepth > 0
        /\ InInitializer <=> ~ IsReady(c)
        /\ InInitializer => c.scopeDepth > 0
    BY <2>1, InvGives
  <2>3. c.scopeDepth \in Nat
    BY <2>2, CompilerIs
  <2>4. ASSUME NEW e \in CompilerType, Fits(e), e.upvalues = c.upvalues, compilers' = SetCurrent(e),
               hadError' \in BOOLEAN,
               ~ hadError' => LocalsInOrder(e) /\ (n > 1 => e.scopeDepth > 0)
        PROVE  IInv'
    BY <2>1, <2>4, InvAfterLast
  <2>5. CASE Begin
    <3> DEFINE e == BeginScope(c)
    <3>1. ~ InInitializer /\ c.scopeDepth < MaxDepth /\ compilers' = SetCurrent(e) /\ hadError' = hadError
      BY <2>5 DEF Begin
    <3> HIDE DEF c
    <3>2. /\ e \in CompilerType /\ e.locals = c.locals /\ e.upvalues = c.upvalues
          /\ e.scopeDepth = c.scopeDepth + 1 /\ LocalsInOrder(e)
      BY <2>2, <3>1, ScopeBegun
    <3> HIDE DEF e
    <3>3. Fits(e) /\ e.scopeDepth > 0 /\ hadError' \in BOOLEAN
      BY <2>1, <2>2, <2>3, <3>1, <3>2 DEF Fits, IInv, TypeOK
    <3> QED
      BY <2>4, <3>1, <3>2, <3>3
  <2>6. CASE End
    <3> DEFINE e == EndScope(c)
    <3>1. ~ InInitializer /\ c.scopeDepth > OutermostScope /\ compilers' = SetCurrent(e) /\ hadError' = hadError
      BY <2>6 DEF End
    <3>2. c.scopeDepth > 0 /\ (n > 1 => c.scopeDepth - 1 > 0)
      <4>1. OutermostScope = IF n = 1 THEN 0 ELSE 1
        BY DEF OutermostScope
      <4> HIDE DEF c
      <4> QED
        BY <2>2, <2>3, <3>1, <4>1
    <3> HIDE DEF c
    <3>3. /\ e \in CompilerType /\ e.upvalues = c.upvalues /\ e.scopeDepth = c.scopeDepth - 1
          /\ Len(e.locals) = Kept(c) /\ Kept(c) \in 1..Len(c.locals) /\ LocalsInOrder(e)
      BY <2>2, <3>1, <3>2, ScopeEnded, ScopeEndedInOrder, KeptAre
    <3> HIDE DEF e
    <3>4. Fits(e) /\ hadError' \in BOOLEAN
      <4>1. Len(c.locals) \in 1..MaxLocals /\ MaxLocals \in Nat
        BY <2>2, ResolutionAssumption DEF Fits
      <4>2. Len(e.locals) \in 1..MaxLocals /\ hadError' \in BOOLEAN
        BY <3>1, <3>3, <4>1 DEF IInv, TypeOK
      <4> QED
        BY <2>2, <3>3, <4>2 DEF Fits
    <3> QED
      BY <2>4, <3>1, <3>2, <3>3, <3>4
  <2>7. CASE Define
    <3> DEFINE e == MarkInitialized(c)
    <3>1. InInitializer /\ compilers' = SetCurrent(e) /\ hadError' = hadError
      BY <2>7 DEF Define
    <3> HIDE DEF c
    <3>2. /\ e \in CompilerType /\ e.upvalues = c.upvalues /\ e.scopeDepth = c.scopeDepth
          /\ Len(e.locals) = Len(c.locals) /\ LocalsInOrder(e)
      BY <2>2, <3>1, MarkedIs, MarkedInOrder
    <3> HIDE DEF e
    <3>3. Fits(e) /\ hadError' \in BOOLEAN
      BY <2>2, <3>1, <3>2 DEF Fits, IInv, TypeOK
    <3> QED
      BY <2>2, <2>4, <3>1, <3>2, <3>3
  <2>8. CASE EndFunction
    <3>1. n > 1 /\ compilers' = SubSeq(compilers, 1, n - 1) /\ hadError' = hadError
      BY <2>8 DEF EndFunction
    <3>2. /\ compilers' \in Seq(CompilerType) /\ Len(compilers') = n - 1
          /\ \A k \in 1..(n - 1) : compilers'[k] = compilers[k]
          /\ AllSound(compilers')
      BY <2>2, <3>1, FunctionEnded
    <3>3. Len(compilers') \in 1..MaxFunctions /\ \A k \in 1..(n - 1) : k \in 1..n
      BY <2>2, <3>1, <3>2, ScopesAssumption
    <3>4. \A k \in 1..Len(compilers') : Fits(compilers'[k])
      BY <2>2, <3>2, <3>3
    <3>5. hadError' \in BOOLEAN
      BY <3>1 DEF IInv, TypeOK
    <3> QED
      BY <3>2, <3>3, <3>4, <3>5, InvAfter
  <2>9. ASSUME NEW name \in Name, Declare(name)  PROVE IInv'
    <3> DEFINE d == DeclareVariable(c, name)
               e == d.compiler
    <3>1. ~ InInitializer /\ c.scopeDepth > 0 /\ compilers' = SetCurrent(e) /\ hadError' = d.error
      BY <2>9 DEF Declare
    <3> HIDE DEF c
    <3>2. /\ d.error \in BOOLEAN /\ e \in CompilerType /\ Fits(e)
          /\ e.upvalues = c.upvalues /\ e.scopeDepth = c.scopeDepth
          /\ ~ d.error => LocalsInOrder(e)
      BY <2>2, <3>1, LocalDeclared
    <3> HIDE DEF e, d
    <3> QED
      BY <2>4, <3>1, <3>2
  <2>10. ASSUME NEW name \in Name, BeginFunction(name)  PROVE IInv'
    <3> DEFINE d     == DeclareVariable(c, name)
               e     == MarkInitialized(d.compiler)
               named == [compilers EXCEPT ![n] = e]
               b     == BeginScope(NewCompiler)
    <3>1. /\ ~ InInitializer /\ n < MaxFunctions /\ compilers' = Append(named, b)
          /\ hadError' = d.error
      BY <2>10 DEF BeginFunction, SetCurrent
    <3> HIDE DEF c
    <3>2. /\ d.error \in BOOLEAN /\ e \in CompilerType /\ Fits(e)
          /\ e.upvalues = c.upvalues /\ e.scopeDepth = c.scopeDepth
          /\ ~ d.error => LocalsInOrder(e) /\ IsReady(e)
      BY <2>2, <3>1, FunctionNamed
    <3> HIDE DEF e, d
    <3>3. e.upvalues = compilers[n].upvalues
      BY <2>2, <3>2
    <3>4. /\ named \in Seq(CompilerType) /\ Len(named) = n /\ named[n] = e
          /\ \A k \in 1..n : k # n => named[k] = compilers[k]
      BY <2>2, <3>2, <3>3, LastChanged
    <3>5. ~ d.error => AllSound(named)
      BY <2>2, <3>2, <3>3, StillSound
    <3>6. /\ b \in CompilerType /\ b.upvalues = <<>> /\ b.scopeDepth = 1 /\ LocalsInOrder(b)
          /\ b.locals = NewCompiler.locals /\ Len(NewCompiler.locals) = 1
      BY NewCompilerIs
    <3> HIDE DEF named, b
    <3>7. Fits(b) /\ b.scopeDepth > 0
      BY <3>6, ResolutionAssumption DEF Fits
    <3>8. /\ compilers' \in Seq(CompilerType) /\ Len(compilers') = n + 1 /\ compilers'[n + 1] = b
          /\ \A k \in 1..n : compilers'[k] = named[k]
      BY <2>2, <3>1, <3>4, <3>6, FunctionBegun
    <3>9. ~ d.error => AllSound(compilers')
      <4>1. SUFFICES ASSUME ~ d.error  PROVE AllSound(compilers')
        OBVIOUS
      <4>2. AllSound(named) /\ Len(named) > 0 /\ IsReady(named[Len(named)])
        BY <2>2, <3>2, <3>4, <3>5, <4>1
      <4> QED
        BY <3>1, <3>4, <3>6, <3>7, <4>2, FunctionBegunSound
    <3>10. Len(compilers') \in 1..MaxFunctions
      BY <2>2, <3>1, <3>8, ScopesAssumption
    <3>11. \A k \in 1..n : Fits(named[k])
      BY <2>2, <3>2, <3>4
    <3>12. \A k \in 1..Len(compilers') : k \in 1..n \/ k = n + 1
      BY <2>2, <3>8
    <3>13. \A k \in 1..Len(compilers') : Fits(compilers'[k])
      BY <3>7, <3>8, <3>11, <3>12
    <3>14. hadError' \in BOOLEAN
      BY <3>1, <3>2
    <3> QED
      BY <3>1, <3>8, <3>9, <3>10, <3>13, <3>14, InvAfter
  <2>11. ASSUME NEW name \in Name, NamedVariable(name)  PROVE IInv'
    <3> DEFINE local    == ResolveLocal(c, name)
               resolved == ResolveUpvalue(compilers, name)
               homes    == {k \in 1..(n - 1) : ResolveLocal(compilers[k], name) # NotFound}
    <3>1. CASE local # NotFound
      <4>1. compilers' = compilers /\ hadError' = InOwnInitializer(c, name)
        BY <2>11, <3>1 DEF NamedVariable
      <4>2. hadError' \in BOOLEAN
        BY <4>1 DEF InOwnInitializer
      <4> QED
        BY <2>2, <4>1, <4>2, InvAfter
    <3>2. CASE local = NotFound /\ resolved.index = NotFound
      <4>1. compilers' = compilers /\ hadError' = hadError
        BY <2>11, <3>2 DEF NamedVariable
      <4>2. hadError' \in BOOLEAN
        BY <4>1 DEF IInv, TypeOK
      <4> QED
        BY <2>2, <4>1, <4>2, InvAfter
    <3>3. CASE local = NotFound /\ resolved.index # NotFound
      <4>1. compilers' = resolved.chain /\ hadError' = resolved.error
        BY <2>11, <3>3 DEF NamedVariable
      <4>2. PICK home \in 1..(n - 1) :
              /\ Reaches(compilers, name, home)
              /\ resolved.chain = After(compilers, name, home)
              /\ resolved.error = \E j \in home..n : Passing(compilers, name, home)[j].error
        <5>1. /\ homes = {} => resolved.index = NotFound
              /\ homes # {} =>
                   \E home \in 1..(n - 1) :
                     /\ Reaches(compilers, name, home)
                     /\ \A k \in homes : k <= home
                     /\ resolved.chain = After(compilers, name, home)
                     /\ resolved.index = Passing(compilers, name, home)[n].index
                     /\ resolved.index # NotFound
                     /\ resolved.error = \E j \in home..n : Passing(compilers, name, home)[j].error
          <6> HIDE DEF c, local
          <6> QED
            BY <2>2, ResolveUpvalueIs
        <5> HIDE DEF homes, resolved
        <5> QED
          BY <3>3, <5>1
      <4>3. compilers' = After(compilers, name, home)
        BY <4>1, <4>2
      <4>4. /\ compilers' \in Seq(CompilerType) /\ Len(compilers') = n
            /\ \A k \in 1..n : Fits(compilers'[k])
        <5> HIDE DEF c, local, homes, resolved
        <5> QED
          BY <4>2, <4>3, AfterTyped
      <4>5. hadError' \in BOOLEAN
        BY <4>1, <4>2
      <4>6. ASSUME ~ hadError'  PROVE AllSound(compilers')
        <5>1. \A j \in home..n : ~ Passing(compilers, name, home)[j].error
          BY <4>1, <4>2, <4>6
        <5>2. NoneFails(compilers, name, home)
          BY <2>2, <5>1 DEF NoneFails
        <5> QED
          BY <4>2, <4>3, <5>2, AfterSound
      <4> QED
        BY <2>2, <4>4, <4>5, <4>6, InvAfter
    <3> QED
      BY <3>1, <3>2, <3>3
  <2> QED
    BY <1>2, <2>5, <2>6, <2>7, <2>8, <2>9, <2>10, <2>11 DEF Next
<1> QED
  BY <1>1, <1>2

\* What the compiler keeps of a function stays within its arrays, whatever the program.
THEOREM TypesHold == Spec => []TypeOK
<1>1. Init => IInv
  BY InvInit
<1>2. IInv /\ [Next]_vars => IInv'
  BY InvNext
<1>3. IInv => TypeOK
  BY DEF IInv
<1> QED
  BY <1>1, <1>2, <1>3, PTL DEF Spec

LEMMA InvDenotes ==
  ASSUME IInv
  PROVE  UpvaluesDenote
<1> DEFINE n == Len(compilers)
<1>1. SUFFICES ASSUME ~ hadError
      PROVE  /\ \A k \in 1..(n - 1) : \A i \in DOMAIN compilers[k].locals :
                  compilers[k].locals[i].depth # Uninitialized
             /\ \A k \in DOMAIN compilers : \A i \in DOMAIN compilers[k].upvalues :
                  /\ \A j \in DOMAIN compilers[k].upvalues : Denoted[k][j] = Denoted[k][i] => i = j
                  /\ Denoted[k][i][2] + 1 \in DOMAIN compilers[Denoted[k][i][1]].locals
                  /\ compilers[Denoted[k][i][1]].locals[Denoted[k][i][2] + 1].isCaptured
  BY DEF UpvaluesDenote
<1>2. /\ compilers \in Seq(CompilerType) /\ n \in Nat /\ DOMAIN compilers = 1..n
      /\ \A k \in 1..n : Sound(compilers, k)
  BY <1>1, InvGives DEF AllSound
<1>3. ASSUME NEW k \in 1..(n - 1), NEW i \in DOMAIN compilers[k].locals
      PROVE  compilers[k].locals[i].depth # Uninitialized
  <2>1. k \in 1..n /\ k < n
    BY <1>2
  <2>2. IsReady(compilers[k])
    BY <1>2, <2>1 DEF Sound
  <2> QED
    BY <2>2 DEF IsReady
<1>4. \A k \in 1..n : DenotesOne(compilers, k)
  <2>1. n \in 0..Len(compilers) /\ \A k \in 1..n : RefersOut(compilers, k) /\ NoTwoAlike(compilers, k)
    BY <1>2 DEF Sound
  <2> QED
    BY <1>2, <2>1, AllDenoteOne
<1>5. ASSUME NEW k \in 1..n, NEW i \in DOMAIN compilers[k].upvalues
      PROVE  /\ \A j \in DOMAIN compilers[k].upvalues : Denoted[k][j] = Denoted[k][i] => i = j
             /\ Denoted[k][i][2] + 1 \in DOMAIN compilers[Denoted[k][i][1]].locals
             /\ compilers[Denoted[k][i][1]].locals[Denoted[k][i][2] + 1].isCaptured
  <2>1. /\ Captured(compilers, k, Denoted[k][i])
        /\ \A j \in DOMAIN compilers[k].upvalues : Denoted[k][i] = Denoted[k][j] => i = j
    BY <1>4 DEF DenotesOne, Denoted
  <2>2. PICK h \in 1..(k - 1) : \E l \in 0..(Len(compilers[h].locals) - 1) :
          Denoted[k][i] = <<h, l>> /\ compilers[h].locals[l + 1].isCaptured
    BY <2>1 DEF Captured
  <2>3. PICK l \in 0..(Len(compilers[h].locals) - 1) :
          Denoted[k][i] = <<h, l>> /\ compilers[h].locals[l + 1].isCaptured
    BY <2>2
  <2>4. h \in 1..n
    BY <1>2
  <2>5. Len(compilers[h].locals) \in Nat /\ DOMAIN compilers[h].locals = 1..Len(compilers[h].locals)
    BY <1>2, <2>4, ChainIs, CompilerIs
  <2>6. l + 1 \in DOMAIN compilers[h].locals
    BY <2>5
  <2>7. Denoted[k][i][1] = h /\ Denoted[k][i][2] = l
    BY <2>3
  <2> QED
    BY <2>1, <2>3, <2>6, <2>7
<1> QED
  BY <1>2, <1>3, <1>5

\* In a function that is being compiled, every upvalue denotes a variable of its own that
\* is still there and that the end of its scope will close (resolveUpvalue(), addUpvalue()
\* and endScope()).
THEOREM UpvaluesDenoteHolds == Spec => []UpvaluesDenote
<1>1. Init => IInv
  BY InvInit
<1>2. IInv /\ [Next]_vars => IInv'
  BY InvNext
<1>3. IInv => UpvaluesDenote
  BY InvDenotes
<1> QED
  BY <1>1, <1>2, <1>3, PTL DEF Spec

----------------------------------------------------------------------------
\* The steps of lexical scoping

\* Module Lexical counts as this one does.
LEMMA SameCardinality ==
  ASSUME NEW S
  PROVE  Abstract!Cardinality(S) = Cardinality(S)
BY Zenon DEF Abstract!Cardinality, Cardinality

LEMMA Seen ==
  ASSUME IInv, ~ hadError
  PROVE  /\ Functions = FunctionsOf(compilers)
         /\ Len(Functions) = Len(compilers) /\ DOMAIN Functions = 1..Len(compilers)
         /\ \A k \in 1..Len(compilers) :
              Functions[k] = Function(VariablesOf(compilers[k]), BlocksOf(compilers[k]),
                                      IsReady(compilers[k]), CapturedOf(compilers[k]),
                                      FreeOf(compilers, k))
         /\ Functions[Len(compilers)] =
              Function(VariablesOf(Current), BlocksOf(Current), IsReady(Current),
                       CapturedOf(Current), FreeOf(compilers, Len(compilers)))
         /\ Abstract!Current = Len(compilers)
         /\ \A k \in 1..Len(compilers) : Abstract!Variables(k) = VariablesOf(compilers[k])
         /\ Abstract!Variables(Len(compilers)) = VariablesOf(Current)
         /\ Abstract!Blocks = BlocksOf(Current)
<1> DEFINE n == Len(compilers)
<1>1. /\ compilers \in Seq(CompilerType) /\ DOMAIN compilers = 1..n /\ n \in 1..n
      /\ Current = compilers[n]
  BY InvGives
<1>2. Functions = FunctionsOf(compilers)
  BY <1>1 DEF Functions, FunctionsOf
<1>3. /\ Len(Functions) = n /\ DOMAIN Functions = 1..n
      /\ \A k \in 1..n : Functions[k] = FunctionOf(compilers, k)
  BY <1>1, <1>2, FunctionsAre
<1>4. \A k \in 1..n :
        Functions[k] = Function(VariablesOf(compilers[k]), BlocksOf(compilers[k]),
                                IsReady(compilers[k]), CapturedOf(compilers[k]),
                                FreeOf(compilers, k))
  BY <1>3, FunctionIs
<1>5. \A k \in 1..n : /\ Functions[k].variables = VariablesOf(compilers[k])
                      /\ Functions[k].blocks = BlocksOf(compilers[k])
  BY <1>4, FieldsAre
<1>6. Abstract!Current = n
  BY <1>3 DEF Abstract!Current
<1> QED
  BY <1>1, <1>2, <1>3, <1>4, <1>5, <1>6 DEF Abstract!Variables, Abstract!Blocks

LEMMA SeenAfter ==
  ASSUME compilers' \in Seq(CompilerType), ~ hadError'
  PROVE  Functions' = FunctionsOf(compilers')
<1>1. DOMAIN compilers' = 1..Len(compilers')
  BY ChainIs
<1> QED
  BY <1>1 DEF Functions, FunctionsOf

LEMMA SaidAfter ==
  ASSUME ~ hadError', emitted' # <<>>
  PROVE  Said' = MeantBy(emitted', compilers')
BY DEF Said

\* The first error ends the program for both.
LEMMA Rejects ==
  ASSUME hadError' = TRUE
  PROVE  Abstract!Reject
BY DEF Abstract!Reject, Functions, Said

LEMMA LastSeen ==
  ASSUME IInv, ~ hadError, ~ hadError', NEW e \in CompilerType, e.upvalues = Current.upvalues,
         compilers' = SetCurrent(e)
  PROVE  Functions' = [Functions EXCEPT ![Len(compilers)] =
                         Function(VariablesOf(e), BlocksOf(e), IsReady(e), CapturedOf(e),
                                  FreeOf(compilers, Len(compilers)))]
<1>1. /\ compilers \in Seq(CompilerType) /\ Len(compilers) > 0
      /\ Current = compilers[Len(compilers)]
  BY InvGives
<1>2. compilers' = [compilers EXCEPT ![Len(compilers)] = e] /\ e.upvalues = compilers[Len(compilers)].upvalues
  BY <1>1 DEF SetCurrent
<1>3. compilers' \in Seq(CompilerType)
  BY <1>1, <1>2, LastChanged
<1>4. Functions' = FunctionsOf(compilers') /\ Functions = FunctionsOf(compilers)
  BY <1>3, Seen, SeenAfter
<1>5. FunctionsOf(compilers') =
        [FunctionsOf(compilers) EXCEPT ![Len(compilers)] =
           Function(VariablesOf(e), BlocksOf(e), IsReady(e), CapturedOf(e),
                    FreeOf(compilers, Len(compilers)))]
  BY <1>1, <1>2, LastFunctionChanged
<1> QED
  BY <1>4, <1>5

\* beginScope() is the beginning of a block.
LEMMA BeginIsBeginBlock ==
  ASSUME IInv, ~ hadError, Begin
  PROVE  Abstract!BeginBlock
<1> DEFINE n == Len(compilers)
           c == Current
           e == BeginScope(c)
           x == Append(BlocksOf(c), Len(VariablesOf(c)))
<1>1. /\ ~ InInitializer /\ c.scopeDepth < MaxDepth /\ compilers' = SetCurrent(e)
      /\ emitted' = <<"begin">> /\ hadError' = hadError
  BY DEF Begin
<1>2. /\ c \in CompilerType /\ Len(c.locals) > 0 /\ LocalsInOrder(c) /\ IsReady(c) /\ n \in 1..n
  BY <1>1, InvGives
<1>3. /\ e \in CompilerType /\ e.locals = c.locals /\ e.upvalues = c.upvalues /\ BlocksOf(e) = x
  <2> HIDE DEF c
  <2> QED
    BY <1>1, <1>2, ScopeBegun
<1>4. VariablesOf(e) = VariablesOf(c) /\ IsReady(e) = IsReady(c) /\ CapturedOf(e) = CapturedOf(c)
  <2> HIDE DEF e
  <2> QED
    BY <1>3 DEF VariablesOf, IsReady, CapturedOf
<1>5. Functions' = [Functions EXCEPT ![n] =
                      Function(VariablesOf(c), x, IsReady(c), CapturedOf(c), FreeOf(compilers, n))]
  <2>1. Functions' = [Functions EXCEPT ![n] =
                        Function(VariablesOf(e), BlocksOf(e), IsReady(e), CapturedOf(e),
                                 FreeOf(compilers, n))]
    <3> HIDE DEF e
    <3> QED
      BY <1>1, <1>3, LastSeen
  <2> HIDE DEF c, e, x
  <2> QED
    BY <1>3, <1>4, <2>1
<1>6. /\ Abstract!Current = n /\ Abstract!Variables(n) = VariablesOf(c)
      /\ n \in DOMAIN Functions
      /\ Functions[n] = Function(VariablesOf(c), BlocksOf(c), IsReady(c), CapturedOf(c), FreeOf(compilers, n))
  BY <1>2, Seen
<1> HIDE DEF c, e, x
<1>7. Functions' = [Functions EXCEPT ![n].blocks = x]
  <2>1. [Functions EXCEPT ![n].blocks = x] =
          [Functions EXCEPT ![n] =
             Function(VariablesOf(c), x, IsReady(c), CapturedOf(c), FreeOf(compilers, n))]
    <3>1. [Functions[n] EXCEPT !.blocks = x] =
            Function(VariablesOf(c), x, IsReady(c), CapturedOf(c), FreeOf(compilers, n))
      BY <1>6 DEF Function
    <3>2. [Functions EXCEPT ![n].blocks = x] =
            [Functions EXCEPT ![n] = [Functions[n] EXCEPT !.blocks = x]]
      OBVIOUS
    <3> QED
      BY <3>1, <3>2
  <2> QED
    BY <1>5, <2>1
<1>8. Functions[n].blocks = BlocksOf(c)
  BY <1>6, FieldsAre
<1>9. Functions' = [Functions EXCEPT ![Abstract!Current].blocks =
                      Append(@, Len(Abstract!Variables(Abstract!Current)))]
  BY <1>6, <1>7, <1>8 DEF x
<1>10. Said' = <<"block">>
  <2>1. MeantBy(<<"begin">>, compilers') = <<"block">>
    BY DEF MeantBy
  <2>2. <<"begin">> # <<>>
    OBVIOUS
  <2> QED
    BY <1>1, <2>1, <2>2, SaidAfter
<1> QED
  BY <1>1, <1>9, <1>10 DEF Abstract!BeginBlock

\* defineVariable() makes the variable ready.
LEMMA DefineIsDefine ==
  ASSUME IInv, ~ hadError, Define
  PROVE  Abstract!Define
<1> DEFINE n == Len(compilers)
           c == Current
           e == MarkInitialized(c)
<1>1. /\ InInitializer /\ compilers' = SetCurrent(e)
      /\ emitted' = <<"define">> /\ hadError' = hadError
  BY DEF Define
<1>2. /\ c \in CompilerType /\ Len(c.locals) > 0 /\ LocalsInOrder(c) /\ ~ IsReady(c)
      /\ c.scopeDepth > 0 /\ n \in 1..n
  BY <1>1, InvGives
<1>3. /\ e \in CompilerType /\ e.upvalues = c.upvalues /\ IsReady(e)
      /\ VariablesOf(e) = VariablesOf(c) /\ BlocksOf(e) = BlocksOf(c)
      /\ CapturedOf(e) = CapturedOf(c)
  <2> HIDE DEF c
  <2> QED
    BY <1>2, MarkedIs, MarkedInOrder, VariableDefined
<1>4. IsReady(e) = TRUE /\ IsReady(c) = FALSE
  BY <1>2, <1>3 DEF IsReady
<1>5. Functions' = [Functions EXCEPT ![n] =
                      Function(VariablesOf(c), BlocksOf(c), TRUE, CapturedOf(c), FreeOf(compilers, n))]
  <2>1. Functions' = [Functions EXCEPT ![n] =
                        Function(VariablesOf(e), BlocksOf(e), IsReady(e), CapturedOf(e),
                                 FreeOf(compilers, n))]
    <3> HIDE DEF e
    <3> QED
      BY <1>1, <1>3, LastSeen
  <2> HIDE DEF c, e
  <2> QED
    BY <1>3, <1>4, <2>1
<1>6. /\ Abstract!Current = n
      /\ n \in DOMAIN Functions
      /\ Functions[n] = Function(VariablesOf(c), BlocksOf(c), IsReady(c), CapturedOf(c), FreeOf(compilers, n))
  BY <1>2, Seen
<1> HIDE DEF c, e
<1>7. Functions' = [Functions EXCEPT ![n].ready = TRUE]
  <2>1. [Functions EXCEPT ![n].ready = TRUE] =
          [Functions EXCEPT ![n] =
             Function(VariablesOf(c), BlocksOf(c), TRUE, CapturedOf(c), FreeOf(compilers, n))]
    <3>1. [Functions[n] EXCEPT !.ready = TRUE] =
            Function(VariablesOf(c), BlocksOf(c), TRUE, CapturedOf(c), FreeOf(compilers, n))
      <4> DEFINE y == TRUE
      <4> HIDE DEF y
      <4>1. [Functions[n] EXCEPT !.ready = y] =
              Function(VariablesOf(c), BlocksOf(c), y, CapturedOf(c), FreeOf(compilers, n))
        BY <1>6 DEF Function
      <4> QED
        BY <4>1 DEF y
    <3>2. [Functions EXCEPT ![n].ready = TRUE] =
            [Functions EXCEPT ![n] = [Functions[n] EXCEPT !.ready = TRUE]]
      OBVIOUS
    <3> QED
      BY <3>1, <3>2
  <2> QED
    BY <1>5, <2>1
<1>8. ~ Functions[n].ready
  <2>1. Functions[n].ready = IsReady(c)
    BY <1>6, FieldsAre
  <2> QED
    BY <1>4, <2>1
<1>9. Said' = <<"define">>
  <2>1. MeantBy(<<"define">>, compilers') = <<"define">>
    BY DEF MeantBy
  <2>2. <<"define">> # <<>>
    OBVIOUS
  <2> QED
    BY <1>1, <2>1, <2>2, SaidAfter
<1> QED
  BY <1>1, <1>6, <1>7, <1>8, <1>9 DEF Abstract!Define

\* endScope() is the end of a block: it closes the captured variables and pops the others.
LEMMA EndIsEndBlock ==
  ASSUME IInv, ~ hadError, End
  PROVE  Abstract!EndBlock
<1> DEFINE n == Len(compilers)
           c == Current
           e == EndScope(c)
           m == Kept(c)
           V == VariablesOf(c)
           B == BlocksOf(c)
           C == CapturedOf(c)
           F == FreeOf(compilers, n)
           x == SubSeq(V, 1, m)
           y == SubSeq(B, 1, Len(B) - 1)
           z == {p \in C : p < m}
           exits == [i \in 1..(Len(V) - m) |-> Len(V) - i \in C]
<1>1. /\ ~ InInitializer /\ c.scopeDepth > OutermostScope /\ compilers' = SetCurrent(e)
      /\ emitted' = <<"end", ScopeExits(c)>> /\ hadError' = hadError
  BY DEF End
<1>2. /\ c \in CompilerType /\ Len(c.locals) > 0 /\ LocalsInOrder(c) /\ IsReady(c) /\ n \in 1..n
      /\ n \in Nat
  BY <1>1, InvGives
<1>3. c.scopeDepth > 0
  <2>1. OutermostScope = IF n = 1 THEN 0 ELSE 1
    BY DEF OutermostScope
  <2> HIDE DEF c
  <2>2. c.scopeDepth \in Nat
    BY <1>2, CompilerIs
  <2> QED
    BY <1>1, <2>1, <2>2
<1>4. /\ e \in CompilerType /\ e.upvalues = c.upvalues /\ IsReady(e)
      /\ VariablesOf(e) = x /\ BlocksOf(e) = y /\ CapturedOf(e) = z
      /\ B[Len(B)] = m /\ ScopeExits(c) = exits
  <2> HIDE DEF c
  <2> QED
    BY <1>2, <1>3, ScopeEnded, ScopeEndedInOrder, BlockEnded
<1>5. IsReady(e) = IsReady(c)
  BY <1>2, <1>4 DEF IsReady
<1>6. Functions' = [Functions EXCEPT ![n] = Function(x, y, IsReady(c), z, F)]
  <2>1. Functions' = [Functions EXCEPT ![n] =
                        Function(VariablesOf(e), BlocksOf(e), IsReady(e), CapturedOf(e),
                                 FreeOf(compilers, n))]
    <3> HIDE DEF e, x, y, z
    <3> QED
      BY <1>1, <1>4, LastSeen
  <2> HIDE DEF c, e, x, y, z
  <2> QED
    BY <1>4, <1>5, <2>1
<1>7. /\ Abstract!Current = n /\ Abstract!Variables(n) = V /\ Abstract!Blocks = B
      /\ n \in DOMAIN Functions
      /\ Functions[n] = Function(V, B, IsReady(c), C, F)
  BY <1>2, Seen
<1>8. Functions[n].variables = V /\ Functions[n].blocks = B /\ Functions[n].captured = C
  BY <1>7, FieldsAre
<1> HIDE DEF c, e, x, y, z, V, B, C, F, m
<1>9. Functions' = [Functions EXCEPT ![n].variables = x, ![n].blocks = y, ![n].captured = z]
  <2> DEFINE r == Functions[n]
             R == IsReady(c)
  <2> HIDE DEF R
  <2>1. [r EXCEPT !.variables = x] = Function(x, B, R, C, F)
    BY <1>7 DEF Function, R
  <2>2. [Function(x, B, R, C, F) EXCEPT !.blocks = y] = Function(x, y, R, C, F)
    BY DEF Function
  <2>3. [Function(x, y, R, C, F) EXCEPT !.captured = z] = Function(x, y, R, z, F)
    BY DEF Function
  <2>4. [Functions EXCEPT ![n].variables = x, ![n].blocks = y, ![n].captured = z] =
          [Functions EXCEPT ![n] = [r EXCEPT !.variables = x, !.blocks = y, !.captured = z]]
    OBVIOUS
  <2> HIDE DEF r
  <2>5. [r EXCEPT !.variables = x, !.blocks = y, !.captured = z] =
          [[[r EXCEPT !.variables = x] EXCEPT !.blocks = y] EXCEPT !.captured = z]
    OBVIOUS
  <2>6. [r EXCEPT !.variables = x, !.blocks = y, !.captured = z] = Function(x, y, R, z, F)
    BY <2>1, <2>2, <2>3, <2>5
  <2> QED
    BY <1>6, <2>4, <2>6 DEF R
<1>10. Functions' =
         [Functions EXCEPT ![Abstract!Current].variables = SubSeq(@, 1, Abstract!Blocks[Len(Abstract!Blocks)]),
                           ![Abstract!Current].blocks    = SubSeq(@, 1, Len(@) - 1),
                           ![Abstract!Current].captured  =
                             {p \in @ : p < Abstract!Blocks[Len(Abstract!Blocks)]}]
  <2>1. Functions' = [Functions EXCEPT ![n].variables = SubSeq(@, 1, B[Len(B)]),
                                       ![n].blocks    = SubSeq(@, 1, Len(@) - 1),
                                       ![n].captured  = {p \in @ : p < B[Len(B)]}]
    BY <1>4, <1>8, <1>9 DEF x, y, z
  <2> QED
    BY <1>7, <2>1
<1>11. Said' = <<"leave", exits>>
  <2>1. MeantBy(<<"end", exits>>, compilers') = <<"leave", exits>>
    <3> HIDE DEF exits
    <3> QED
      BY DEF MeantBy
  <2>2. <<"end", exits>> # <<>> /\ emitted' = <<"end", exits>>
    BY <1>1, <1>4
  <2> HIDE DEF exits
  <2> QED
    BY <1>1, <2>1, <2>2, SaidAfter
<1>12. exits = [i \in 1..(Len(Abstract!Variables(Abstract!Current)) - Abstract!Blocks[Len(Abstract!Blocks)]) |->
                  Len(Abstract!Variables(Abstract!Current)) - i \in Functions[Abstract!Current].captured]
  <2>1. /\ Abstract!Variables(Abstract!Current) = V /\ Abstract!Blocks[Len(Abstract!Blocks)] = m
        /\ Functions[Abstract!Current].captured = C
    BY <1>4, <1>7, <1>8
  <2> QED
    BY <2>1
<1> HIDE DEF exits
<1> QED
  BY <1>1, <1>10, <1>11, <1>12 DEF Abstract!EndBlock

LEMMA CannotIs ==
  ASSUME IInv, ~ hadError, IsReady(Current), Current.scopeDepth > 0, NEW name \in Name
  PROVE  DeclareVariable(Current, name).error <=> Abstract!CannotDeclare(name)
<1> DEFINE c == Current
           blocks == BlocksOf(c)
<1>1. c \in CompilerType /\ Fits(c) /\ LocalsInOrder(c)
  BY InvGives
<1>2. DeclareVariable(c, name).error <=>
        \/ \E i \in (blocks[Len(blocks)] + 1)..Len(VariablesOf(c)) : VariablesOf(c)[i] = name
        \/ Len(VariablesOf(c)) = MaxLocals
  BY <1>1, Declared DEF Fits
<1>3. /\ Abstract!Variables(Abstract!Current) = VariablesOf(c)
      /\ Abstract!Blocks = blocks
  BY Seen
<1> QED
  BY <1>2, <1>3 DEF Abstract!CannotDeclare

\* The last function with one variable more, as the abstract specification writes it
LEMMA WithIs ==
  ASSUME IInv, ~ hadError, NEW name, NEW ready
  PROVE  Abstract!With(name, ready) =
           [Functions EXCEPT ![Len(compilers)] =
              Function(Append(VariablesOf(Current), name), BlocksOf(Current), ready,
                       CapturedOf(Current), FreeOf(compilers, Len(compilers)))]
<1> DEFINE n == Len(compilers)
           V == VariablesOf(Current)
           B == BlocksOf(Current)
           R == IsReady(Current)
           C == CapturedOf(Current)
           F == FreeOf(compilers, n)
           x == Append(V, name)
<1>1. /\ Abstract!Current = n /\ n \in DOMAIN Functions
      /\ Functions[n] = Function(V, B, R, C, F)
  BY InvGives, Seen
<1>2. Functions[n].variables = V
  BY <1>1, FieldsAre
<1> HIDE DEF V, B, R, C, F, x
<1>3. [Functions EXCEPT ![n].variables = x, ![n].ready = ready] =
        [Functions EXCEPT ![n] = Function(x, B, ready, C, F)]
  <2> DEFINE r == Functions[n]
  <2>1. [r EXCEPT !.variables = x] = Function(x, B, R, C, F)
    BY <1>1 DEF Function
  <2>2. [Function(x, B, R, C, F) EXCEPT !.ready = ready] = Function(x, B, ready, C, F)
    BY DEF Function
  <2>3. [Functions EXCEPT ![n].variables = x, ![n].ready = ready] =
          [Functions EXCEPT ![n] = [r EXCEPT !.variables = x, !.ready = ready]]
    OBVIOUS
  <2> HIDE DEF r
  <2>4. [r EXCEPT !.variables = x, !.ready = ready] =
          [[r EXCEPT !.variables = x] EXCEPT !.ready = ready]
    OBVIOUS
  <2>5. [r EXCEPT !.variables = x, !.ready = ready] = Function(x, B, ready, C, F)
    BY <2>1, <2>2, <2>4
  <2> QED
    BY <2>3, <2>5
<1>4. Abstract!With(name, ready) = [Functions EXCEPT ![n].variables = x, ![n].ready = ready]
  BY <1>1, <1>2 DEF Abstract!With, x
<1> QED
  BY <1>3, <1>4 DEF x, V, B, C, F

\* declareVariable() declares a variable, or finds what is wrong with it.
LEMMA DeclareIsDeclare ==
  ASSUME IInv, ~ hadError, NEW name \in Name, Declare(name)
  PROVE  Abstract!Declare(name)
<1> DEFINE n == Len(compilers)
           c == Current
           d == DeclareVariable(c, name)
           e == d.compiler
<1>1. /\ ~ InInitializer /\ c.scopeDepth > 0 /\ compilers' = SetCurrent(e)
      /\ emitted' = <<"declare">> /\ hadError' = d.error
  BY DEF Declare
<1>2. /\ c \in CompilerType /\ Fits(c) /\ LocalsInOrder(c) /\ IsReady(c)
  BY <1>1, InvGives
<1>3. d.error <=> Abstract!CannotDeclare(name)
  BY <1>1, <1>2, CannotIs
<1>4. /\ d.error \in BOOLEAN
      /\ e \in CompilerType /\ e.upvalues = c.upvalues
      /\ ~ d.error => /\ ~ IsReady(e)
                      /\ VariablesOf(e) = Append(VariablesOf(c), name)
                      /\ BlocksOf(e) = BlocksOf(c) /\ CapturedOf(e) = CapturedOf(c)
  <2> HIDE DEF c
  <2> QED
    BY <1>1, <1>2, LocalDeclared
<1> HIDE DEF d
<1>5. CASE d.error
  <2>1. hadError' = TRUE
    BY <1>1, <1>4, <1>5
  <2>2. Abstract!Reject
    BY <2>1, Rejects
  <2> QED
    BY <1>3, <1>5, <2>2 DEF Abstract!Declare
<1>6. CASE ~ d.error
  <2> HIDE DEF e
  <2>1. hadError' = FALSE
    BY <1>1, <1>4, <1>6
  <2>2. Functions' = [Functions EXCEPT ![n] =
                        Function(VariablesOf(e), BlocksOf(e), IsReady(e), CapturedOf(e),
                                 FreeOf(compilers, n))]
    BY <1>1, <1>4, <2>1, LastSeen
  <2>3. IsReady(e) = FALSE
    BY <1>4, <1>6 DEF IsReady
  <2>4. Functions' = [Functions EXCEPT ![n] =
                        Function(Append(VariablesOf(c), name), BlocksOf(c), FALSE, CapturedOf(c),
                                 FreeOf(compilers, n))]
    <3> HIDE DEF c
    <3> QED
      BY <1>4, <1>6, <2>2, <2>3
  <2>5. Functions' = Abstract!With(name, FALSE)
    BY <2>4, WithIs
  <2>6. Said' = <<"declare">>
    <3>1. MeantBy(<<"declare">>, compilers') = <<"declare">>
      BY DEF MeantBy
    <3>2. <<"declare">> # <<>>
      OBVIOUS
    <3> QED
      BY <1>1, <2>1, <3>1, <3>2, SaidAfter
  <2>7. hadError' = hadError
    BY <2>1 DEF IInv, TypeOK
  <2> QED
    BY <1>3, <1>6, <2>5, <2>6, <2>7 DEF Abstract!Declare
<1> QED
  BY <1>5, <1>6

\* Up to the parameters function() is the beginning of a function, and in a block the
\* declaration of its name.
LEMMA BeginFunctionIsBeginFunction ==
  ASSUME IInv, ~ hadError, NEW name \in Name, BeginFunction(name)
  PROVE  Abstract!BeginFunction(name)
<1> DEFINE n     == Len(compilers)
           c     == Current
           d     == DeclareVariable(c, name)
           e     == MarkInitialized(d.compiler)
           named == [compilers EXCEPT ![n] = e]
           b     == BeginScope(NewCompiler)
           new   == Abstract!NewFunction(<<0, 1>>)
<1>1. /\ ~ InInitializer /\ compilers' = Append(named, b)
      /\ emitted' = <<"function">> /\ hadError' = d.error
  BY DEF BeginFunction, SetCurrent
<1>2. /\ compilers \in Seq(CompilerType) /\ n \in Nat /\ n > 0 /\ n \in 1..n
      /\ c = compilers[n] /\ c \in CompilerType /\ Fits(c) /\ LocalsInOrder(c) /\ IsReady(c)
  BY <1>1, InvGives
<1>3. c.scopeDepth \in Nat
  BY <1>2, CompilerIs
<1>4. /\ d.error \in BOOLEAN /\ e \in CompilerType /\ e.upvalues = c.upvalues
      /\ ~ d.error => IsReady(e)
      /\ c.scopeDepth = 0 => e = c /\ d.error = FALSE
      /\ c.scopeDepth > 0 /\ ~ d.error =>
           /\ VariablesOf(e) = Append(VariablesOf(c), name)
           /\ BlocksOf(e) = BlocksOf(c) /\ CapturedOf(e) = CapturedOf(c)
  <2> HIDE DEF c
  <2> QED
    BY <1>2, FunctionNamed
<1>5. Abstract!Blocks = BlocksOf(c) /\ Functions = FunctionsOf(compilers)
  BY Seen
<1>6. Len(Abstract!Blocks) = c.scopeDepth + 1
  BY <1>2, <1>5, BlocksAre
<1> HIDE DEF c, d, e
<1>7. e.upvalues = compilers[n].upvalues
  BY <1>2, <1>4
<1>8. named \in Seq(CompilerType) /\ Len(named) = n
  BY <1>2, <1>4, <1>7, LastChanged
<1>9. /\ b \in CompilerType /\ b.upvalues = <<>>
      /\ VariablesOf(b) = <<NoName>> /\ BlocksOf(b) = <<0, 1>> /\ IsReady(b) /\ CapturedOf(b) = {}
  BY NewCompilerIs
<1>10. IsReady(b) = TRUE
  BY <1>9 DEF IsReady
<1>11. Function(VariablesOf(b), BlocksOf(b), IsReady(b), CapturedOf(b), {}) = new
  <2> HIDE DEF b
  <2> QED
    BY <1>9, <1>10 DEF Function, Abstract!NewFunction
<1> HIDE DEF named, b, new
<1>12. compilers' \in Seq(CompilerType) /\ FunctionsOf(compilers') = Append(FunctionsOf(named), new)
  <2>1. compilers' \in Seq(CompilerType)
    BY <1>1, <1>2, <1>8, <1>9, FunctionBegun
  <2>2. FunctionsOf(Append(named, b)) =
          Append(FunctionsOf(named),
                 Function(VariablesOf(b), BlocksOf(b), IsReady(b), CapturedOf(b), {}))
    BY <1>2, <1>8, <1>9, OneFunctionMore
  <2> QED
    BY <1>1, <1>11, <2>1, <2>2
<1>13. ASSUME ~ hadError'
       PROVE  Functions' = Append(FunctionsOf(named), new) /\ Said' = <<"function">>
  <2>1. Functions' = Append(FunctionsOf(named), new)
    BY <1>12, <1>13, SeenAfter
  <2>2. MeantBy(<<"function">>, compilers') = <<"function">>
    BY DEF MeantBy
  <2>3. <<"function">> # <<>>
    OBVIOUS
  <2>4. Said' = <<"function">>
    BY <1>1, <1>13, <2>2, <2>3, SaidAfter
  <2> QED
    BY <2>1, <2>4
<1>14. CASE c.scopeDepth = 0
  <2>1. hadError' = FALSE /\ e = c
    BY <1>1, <1>4, <1>14
  <2>2. named = compilers
    BY <1>2, <2>1 DEF named
  <2>3. Functions' = Append(Functions, new) /\ Said' = <<"function">>
    BY <1>5, <1>13, <2>1, <2>2
  <2>4. Len(Abstract!Blocks) = 1
    BY <1>6, <1>14
  <2>5. hadError' = hadError
    BY <2>1 DEF IInv, TypeOK
  <2> QED
    BY <2>3, <2>4, <2>5 DEF Abstract!BeginFunction, new
<1>15. CASE c.scopeDepth > 0
  <2>1. Len(Abstract!Blocks) > 1
    BY <1>3, <1>6, <1>15
  <2>2. d.error <=> Abstract!CannotDeclare(name)
    BY <1>2, <1>15, CannotIs DEF c, d
  <2>3. CASE d.error
    <3>1. hadError' = TRUE
      BY <1>1, <1>4, <2>3
    <3>2. Abstract!Reject
      BY <3>1, Rejects
    <3> QED
      BY <2>1, <2>2, <2>3, <3>2 DEF Abstract!BeginFunction
  <2>4. CASE ~ d.error
    <3>1. hadError' = FALSE
      BY <1>1, <1>4, <2>4
    <3>2. IsReady(e) = TRUE
      BY <1>4, <2>4 DEF IsReady
    <3>3. FunctionsOf(named) =
            [FunctionsOf(compilers) EXCEPT ![n] =
               Function(VariablesOf(e), BlocksOf(e), IsReady(e), CapturedOf(e), FreeOf(compilers, n))]
      BY <1>2, <1>4, <1>7, LastFunctionChanged DEF named
    <3>4. FunctionsOf(named) =
            [Functions EXCEPT ![n] =
               Function(Append(VariablesOf(c), name), BlocksOf(c), TRUE, CapturedOf(c), FreeOf(compilers, n))]
      BY <1>4, <1>5, <1>15, <2>4, <3>2, <3>3
    <3>5. FunctionsOf(named) = Abstract!With(name, TRUE)
      BY <3>4, WithIs DEF c
    <3>6. Functions' = Append(Abstract!With(name, TRUE), new) /\ Said' = <<"function">>
      BY <1>13, <3>1, <3>5
    <3>7. hadError' = hadError
      BY <3>1 DEF IInv, TypeOK
    <3> QED
      BY <2>1, <2>2, <2>4, <3>6, <3>7 DEF Abstract!BeginFunction, new
  <2> QED
    BY <2>3, <2>4
<1> QED
  BY <1>3, <1>14, <1>15

\* The operands of OP_CLOSURE are the variables that the function uses and does not declare.
LEMMA EndFunctionIsEndFunction ==
  ASSUME IInv, ~ hadError, EndFunction
  PROVE  Abstract!EndFunction
<1> DEFINE n  == Len(compilers)
           m  == n - 1
           u  == Current.upvalues
           F  == FreeOf(compilers, n)
           meant(i) == IF u[i].isLocal THEN <<m, u[i].index>>
                       ELSE Denotation(compilers')[m][u[i].index + 1]
<1>1. /\ n > 1 /\ compilers' = SubSeq(compilers, 1, n - 1)
      /\ emitted' = <<"OP_CLOSURE", u>> /\ hadError' = hadError
  BY DEF EndFunction
<1>2. /\ compilers \in Seq(CompilerType) /\ AllSound(compilers) /\ n \in Nat /\ n \in 1..n
      /\ Current = compilers[n]
  BY InvGives
<1>3. /\ compilers' \in Seq(CompilerType) /\ Len(compilers') = m
      /\ \A k \in 0..m : Denotation(compilers')[k] = Denotation(compilers)[k]
  BY <1>1, <1>2, FunctionEnded
<1>4. Functions' = SubSeq(Functions, 1, m)
  <2>1. FunctionsOf(compilers') = SubSeq(FunctionsOf(compilers), 1, m)
    BY <1>1, <1>2, OneFunctionLess
  <2> QED
    BY <1>1, <1>3, <2>1, Seen, SeenAfter
<1>5. /\ Abstract!Current = n
      /\ Functions[n] = Function(VariablesOf(Current), BlocksOf(Current), IsReady(Current),
                                 CapturedOf(Current), F)
  BY Seen
<1>6. Functions[n].free = F
  BY <1>5, FieldsAre
<1>7. Cardinality(F) = Len(u)
  <2>1. \A k \in 1..n : RefersOut(compilers, k) /\ NoTwoAlike(compilers, k)
    BY <1>2 DEF AllSound, Sound
  <2>2. n \in 0..Len(compilers)
    BY <1>2
  <2>3. DenotesOne(compilers, n)
    BY <1>2, <2>1, <2>2, AllDenoteOne
  <2> QED
    BY <1>2, <2>3, FreeAreCounted
<1>8. F = {meant(i) : i \in DOMAIN u}
  <2>1. ASSUME NEW i \in DOMAIN u  PROVE Denotation(compilers)[n][i] = meant(i)
    <3> DEFINE a == compilers[n].upvalues[i]
    <3>1. Denotation(compilers)[n][i] = IF a.isLocal THEN <<n - 1, a.index>>
                                       ELSE Denotation(compilers)[n - 1][a.index + 1]
      BY <1>2, <2>1, DenotedBy
    <3>2. Denotation(compilers')[m] = Denotation(compilers)[m]
      <4>1. m \in 0..m
        BY <1>1, <1>2
      <4> QED
        BY <1>3, <4>1
    <3>3. u[i] = a
      BY <1>2
    <3> QED
      BY <3>1, <3>2, <3>3
  <2>2. F = {Denotation(compilers)[n][i] : i \in DOMAIN u}
    BY <1>2 DEF FreeOf
  <2> HIDE DEF meant, F
  <2> QED
    BY <2>1, <2>2
<1>9. Said' = <<"closure", Len(u), {meant(i) : i \in DOMAIN u}>>
  <2> HIDE DEF u
  <2>1. MeantBy(<<"OP_CLOSURE", u>>, compilers') =
          <<"closure", Len(u),
            {IF u[i].isLocal THEN <<Len(compilers'), u[i].index>>
             ELSE Denotation(compilers')[Len(compilers')][u[i].index + 1] : i \in DOMAIN u}>>
    BY DEF MeantBy
  <2>2. MeantBy(<<"OP_CLOSURE", u>>, compilers') = <<"closure", Len(u), {meant(i) : i \in DOMAIN u}>>
    BY <1>3, <2>1
  <2>3. <<"OP_CLOSURE", u>> # <<>>
    OBVIOUS
  <2> QED
    BY <1>1, <2>2, <2>3, SaidAfter
<1> HIDE DEF u, F, meant
<1>10. Said' = <<"closure", Cardinality(Functions[n].free), Functions[n].free>>
  BY <1>6, <1>7, <1>8, <1>9
<1> QED
  BY <1>1, <1>4, <1>5, <1>10, SameCardinality DEF Abstract!EndFunction

\* The declarations of a name are the locals that have it.
LEMMA DeclarationsAre ==
  ASSUME IInv, ~ hadError, NEW name
  PROVE  /\ \A k \in 1..Len(compilers) : \A l \in Named(compilers[k], name) :
              <<k, l>> \in Abstract!Declarations(name)
         /\ \A d \in Abstract!Declarations(name) :
              \E k \in 1..Len(compilers) : \E l \in Named(compilers[k], name) : d = <<k, l>>
<1> DEFINE n == Len(compilers)
           V(k) == VariablesOf(compilers[k])
<1>1. /\ DOMAIN Functions = 1..n
      /\ \A k \in 1..n : Abstract!Variables(k) = V(k)
  BY Seen
<1>2. /\ \A k \in 1..n : compilers[k] \in CompilerType
      /\ n \in Nat
  BY InvGives, ChainIs
<1>3. ASSUME NEW k \in 1..n
      PROVE  /\ DOMAIN V(k) = 1..Len(compilers[k].locals)
             /\ Len(compilers[k].locals) \in Nat
             /\ \A i \in 1..Len(compilers[k].locals) : V(k)[i] = compilers[k].locals[i].name
  BY <1>2, VariablesAre, CompilerIs
<1>4. Abstract!Declarations(name) =
        UNION {{<<k, p - 1>> : p \in {q \in DOMAIN V(k) : V(k)[q] = name}} : k \in 1..n}
  BY <1>1 DEF Abstract!Declarations
<1> HIDE DEF V
<1>5. ASSUME NEW k \in 1..n, NEW l \in Named(compilers[k], name)
      PROVE  <<k, l>> \in Abstract!Declarations(name)
  <2> DEFINE p == l + 1
  <2>1. /\ l \in 0..(Len(compilers[k].locals) - 1) /\ compilers[k].locals[l + 1].name = name
    BY DEF Named
  <2>2. p \in 1..Len(compilers[k].locals) /\ p - 1 = l
    BY <1>3, <2>1
  <2>3. p \in DOMAIN V(k) /\ V(k)[p] = name
    BY <1>3, <2>1, <2>2
  <2> HIDE DEF p
  <2>4. <<k, p - 1>> \in {<<k, q - 1>> : q \in {r \in DOMAIN V(k) : V(k)[r] = name}}
    BY <2>3
  <2> QED
    BY <1>4, <2>2, <2>4
<1>6. ASSUME NEW d \in Abstract!Declarations(name)
      PROVE  \E k \in 1..n : \E l \in Named(compilers[k], name) : d = <<k, l>>
  <2>1. PICK k \in 1..n : d \in {<<k, p - 1>> : p \in {q \in DOMAIN V(k) : V(k)[q] = name}}
    BY <1>4
  <2>2. PICK p \in DOMAIN V(k) : V(k)[p] = name /\ d = <<k, p - 1>>
    BY <2>1
  <2>3. p \in 1..Len(compilers[k].locals) /\ compilers[k].locals[p].name = name
    BY <1>3, <2>2
  <2> DEFINE l == p - 1
  <2>4. l \in 0..(Len(compilers[k].locals) - 1) /\ l + 1 = p
    BY <1>3, <2>3
  <2> HIDE DEF l
  <2>5. l \in Named(compilers[k], name)
    BY <2>3, <2>4 DEF Named
  <2>6. d = <<k, l>>
    BY <2>2 DEF l
  <2> QED
    BY <2>5, <2>6
<1> QED
  BY <1>5, <1>6

\* A name means the last local of this name in the innermost function that has one.
LEMMA MeaningIs ==
  ASSUME IInv, ~ hadError, NEW name, NEW h \in 1..Len(compilers),
         ResolveLocal(compilers[h], name) # NotFound,
         \A k \in 1..Len(compilers) : ResolveLocal(compilers[k], name) # NotFound => k <= h
  PROVE  /\ Abstract!Declarations(name) # {}
         /\ Abstract!Meaning(name) = <<h, ResolveLocal(compilers[h], name)>>
<1> DEFINE n == Len(compilers)
           local == ResolveLocal(compilers[h], name)
           D == Abstract!Declarations(name)
           v == <<h, local>>
           Best(d) == \A e \in D : d[1] > e[1] \/ (d[1] = e[1] /\ d[2] >= e[2])
<1>1. /\ \A k \in 1..n : compilers[k] \in CompilerType
      /\ n \in Nat
  BY InvGives, ChainIs
<1>2. /\ local \in Named(compilers[h], name) /\ local \in Nat
      /\ \A i \in Named(compilers[h], name) : i <= local
  <2>1. Len(compilers[h].locals) \in Nat
    BY <1>1, CompilerIs
  <2>2. /\ local \in Named(compilers[h], name)
        /\ local \in 0..(Len(compilers[h].locals) - 1)
        /\ \A i \in Named(compilers[h], name) : i <= local
    BY <1>1, ResolveLocalIs
  <2> QED
    BY <2>1, <2>2
<1>3. v \in D
  BY <1>2, DeclarationsAre
<1>4. ASSUME NEW e \in D
      PROVE  /\ h > e[1] \/ (h = e[1] /\ local >= e[2])
             /\ e[1] \in Nat /\ e[2] \in Nat /\ e = <<e[1], e[2]>>
  <2>1. PICK k \in 1..n : \E l \in Named(compilers[k], name) : e = <<k, l>>
    BY <1>4, DeclarationsAre
  <2>2. PICK l \in Named(compilers[k], name) : e = <<k, l>>
    BY <2>1
  <2>3. ResolveLocal(compilers[k], name) # NotFound
    BY <1>1, <2>2, ResolveLocalIs
  <2>4. k <= h
    BY <2>3
  <2>5. k = h => l <= local
    BY <1>2, <2>2
  <2>6. l \in Nat /\ k \in Nat /\ h \in Nat
    BY <1>1, CompilerIs DEF Named
  <2>7. e[1] = k /\ e[2] = l
    BY <2>2
  <2> HIDE DEF local
  <2>8. k < h \/ k = h
    BY <2>4, <2>6
  <2> QED
    BY <1>2, <2>2, <2>4, <2>5, <2>6, <2>7, <2>8
<1>5. Best(v)
  <2>1. v[1] = h /\ v[2] = local
    OBVIOUS
  <2> HIDE DEF v, D
  <2> QED
    BY <1>4, <2>1
<1>6. ASSUME NEW d \in D, Best(d)  PROVE d = v
  <2>1. v[1] = h /\ v[2] = local
    OBVIOUS
  <2>2. d[1] > h \/ (d[1] = h /\ d[2] >= local)
    BY <1>3, <1>6, <2>1
  <2>3. /\ h > d[1] \/ (h = d[1] /\ local >= d[2])
        /\ d[1] \in Nat /\ d[2] \in Nat /\ d = <<d[1], d[2]>>
    BY <1>4
  <2>4. h \in Nat
    BY <1>1
  <2> HIDE DEF local
  <2>5. d[1] = h /\ d[2] = local
    BY <1>2, <2>2, <2>3, <2>4
  <2> QED
    BY <2>3, <2>5
<1>7. Abstract!Meaning(name) = CHOOSE d \in D : Best(d)
  BY DEF Abstract!Meaning
<1> HIDE DEF D, v, Best
<1>8. (CHOOSE d \in D : Best(d)) = v
  BY <1>3, <1>5, <1>6
<1> QED
  BY <1>3, <1>7, <1>8 DEF v, D

LEMMA NoDeclarations ==
  ASSUME IInv, ~ hadError, NEW name,
         \A k \in 1..Len(compilers) : ResolveLocal(compilers[k], name) = NotFound
  PROVE  Abstract!Declarations(name) = {}
<1>1. \A k \in 1..Len(compilers) : compilers[k] \in CompilerType
  BY InvGives, ChainIs
<1>2. \A k \in 1..Len(compilers) : Named(compilers[k], name) = {}
  BY <1>1, ResolveLocalIs
<1>3. ASSUME NEW d \in Abstract!Declarations(name)  PROVE FALSE
  BY <1>2, DeclarationsAre
<1> QED
  BY <1>3

\* What the use of a variable changes in the record of a function
Used(r, free, captured) == [r EXCEPT !.free = free, !.captured = captured]

LEMMA UseChanges ==
  ASSUME NEW variables, NEW blocks, NEW ready, NEW captured, NEW free,
         NEW r, r = Function(variables, blocks, ready, captured, free), NEW x, NEW y
  PROVE  Used(r, x, y) = Function(variables, blocks, ready, y, x)
<1>1. [r EXCEPT !.free = x] = Function(variables, blocks, ready, captured, x)
  BY DEF Function
<1>2. [Function(variables, blocks, ready, captured, x) EXCEPT !.captured = y] =
        Function(variables, blocks, ready, y, x)
  BY DEF Function
<1>3. [r EXCEPT !.free = x, !.captured = y] = [[r EXCEPT !.free = x] EXCEPT !.captured = y]
  OBVIOUS
<1> QED
  BY <1>1, <1>2, <1>3 DEF Used

\* A name that means a local variable of the current function
LEMMA LocalIsUse ==
  ASSUME IInv, ~ hadError, NEW name \in Name, NamedVariable(name),
         ResolveLocal(Current, name) # NotFound
  PROVE  Abstract!Use(name)
<1> DEFINE n     == Len(compilers)
           c     == Current
           local == ResolveLocal(c, name)
           v     == <<n, local>>
           m     == Len(c.locals)
           D     == Abstract!Declarations(name)
           free(k) == IF k > v[1] THEN Functions[k].free \cup {v} ELSE Functions[k].free
           next  == [k \in DOMAIN Functions |->
                       [Functions[k] EXCEPT
                          !.free     = free(k),
                          !.captured = IF k = v[1] /\ k # Abstract!Current THEN @ \cup {v[2]} ELSE @]]
           wrong == ~ Functions[v[1]].ready /\ v[2] = Len(Abstract!Variables(v[1])) - 1
           many  == \E k \in DOMAIN Functions : Abstract!Cardinality(free(k)) > MaxUpvalues
<1>1. /\ emitted' = <<"OP_GET_LOCAL", local>> /\ hadError' = InOwnInitializer(c, name)
      /\ compilers' = compilers
  BY DEF NamedVariable
<1>2. /\ compilers \in Seq(CompilerType) /\ AllSound(compilers) /\ n \in Nat /\ n \in 1..n
      /\ c = compilers[n] /\ c \in CompilerType /\ LocalsInOrder(c)
      /\ m > 0 /\ \A k \in 1..n : Fits(compilers[k])
  BY InvGives
<1>3. D # {} /\ Abstract!Meaning(name) = v
  <2>1. n \in 1..Len(compilers) /\ ResolveLocal(compilers[n], name) # NotFound
        /\ \A k \in 1..Len(compilers) : ResolveLocal(compilers[k], name) # NotFound => k <= n
    BY <1>2
  <2>2. Abstract!Declarations(name) # {}
        /\ Abstract!Meaning(name) = <<n, ResolveLocal(compilers[n], name)>>
    <3> HIDE DEF c, local, v, m, D, free, next, wrong, many
    <3> QED
      BY <2>1, MeaningIs
  <2> QED
    BY <1>2, <2>2
<1>4. v[1] = n /\ v[2] = local
  OBVIOUS
<1>5. /\ DOMAIN Functions = 1..n /\ Abstract!Current = n
      /\ Abstract!Variables(n) = VariablesOf(c)
      /\ Functions[n] = Function(VariablesOf(c), BlocksOf(c), IsReady(c), CapturedOf(c), FreeOf(compilers, n))
      /\ \A k \in 1..n :
           Functions[k] = Function(VariablesOf(compilers[k]), BlocksOf(compilers[k]),
                                   IsReady(compilers[k]), CapturedOf(compilers[k]),
                                   FreeOf(compilers, k))
  BY Seen
<1>6. /\ Functions[n].ready = IsReady(c)
      /\ Len(VariablesOf(c)) = m
  BY <1>2, <1>5, FieldsAre, VariablesAre
<1>7. ASSUME NEW k \in 1..n
      PROVE  /\ Functions[k].free = FreeOf(compilers, k)
             /\ Functions[k].captured = CapturedOf(compilers[k])
             /\ free(k) = FreeOf(compilers, k)
             /\ Cardinality(FreeOf(compilers, k)) = Len(compilers[k].upvalues)
  <2>1. Functions[k].free = FreeOf(compilers, k) /\ Functions[k].captured = CapturedOf(compilers[k])
    BY <1>5, FieldsAre
  <2>2. free(k) = Functions[k].free
    <3>1. ~ (k > v[1])
      BY <1>2, <1>4
    <3> HIDE DEF v
    <3> QED
      BY <3>1
  <2>3. \A j \in 1..n : RefersOut(compilers, j) /\ NoTwoAlike(compilers, j)
    BY <1>2 DEF AllSound, Sound
  <2>4. n \in 0..Len(compilers)
    BY <1>2
  <2>5. DenotesOne(compilers, k)
    BY <1>2, <2>3, <2>4, AllDenoteOne
  <2>6. Cardinality(FreeOf(compilers, k)) = Len(compilers[k].upvalues)
    BY <1>2, <2>5, FreeAreCounted
  <2> QED
    BY <2>1, <2>2, <2>6
<1>8. ~ many
  <2>1. ASSUME NEW k \in 1..n  PROVE ~ (Abstract!Cardinality(free(k)) > MaxUpvalues)
    <3>1. Abstract!Cardinality(free(k)) = Len(compilers[k].upvalues)
      BY <1>7, SameCardinality
    <3>2. Len(compilers[k].upvalues) \in 0..MaxUpvalues /\ MaxUpvalues \in Nat
      BY <1>2, ResolutionAssumption DEF Fits
    <3> HIDE DEF free
    <3> QED
      BY <3>1, <3>2
  <2> HIDE DEF free
  <2> QED
    BY <1>5, <2>1
<1>9. InOwnInitializer(c, name) <=> wrong
  <2>1. wrong <=> ~ IsReady(c) /\ local = m - 1
    BY <1>4, <1>5, <1>6
  <2>2. InOwnInitializer(c, name) <=> c.locals[local + 1].depth = Uninitialized
    BY DEF InOwnInitializer
  <2> HIDE DEF c, wrong
  <2>3. m \in Nat /\ DOMAIN c.locals = 1..m
    BY <1>2, CompilerIs
  <2>4. local \in 0..(m - 1)
    BY <1>2, ResolveLocalIs DEF c
  <2>5. IsReady(c) <=> c.locals[m].depth # Uninitialized
    BY <1>2, ReadyIs
  <2>6. ASSUME local # m - 1  PROVE c.locals[local + 1].depth # Uninitialized
    <3> DEFINE i == local + 1
    <3>1. i \in 1..m /\ i # m
      BY <2>3, <2>4, <2>6
    <3> HIDE DEF i
    <3>2. c.locals[1].depth = 0
      BY <1>2 DEF LocalsInOrder
    <3>3. ASSUME i # 1  PROVE c.locals[i].depth \in 1..c.scopeDepth
      <4>1. i \in 2..Len(c.locals)
        <5> HIDE DEF m
        <5>1. i \in 2..m
          BY <2>3, <3>1, <3>3
        <5> QED
          BY <5>1 DEF m
      <4> QED
        BY <1>2, <3>1, <4>1 DEF LocalsInOrder
    <3>4. c.locals[i].depth # Uninitialized
      <4>1. c.scopeDepth \in Nat
        BY <1>2, CompilerIs
      <4> QED
        BY <3>2, <3>3, <4>1 DEF Uninitialized
    <3> QED
      BY <3>4 DEF i
  <2>7. local = m - 1 => local + 1 = m
    BY <2>3
  <2> HIDE DEF local, m
  <2> QED
    BY <2>1, <2>2, <2>5, <2>6, <2>7
<1>10. next = Functions
  <2>1. ASSUME NEW k \in 1..n
        PROVE  [Functions[k] EXCEPT
                  !.free     = free(k),
                  !.captured = IF k = v[1] /\ k # Abstract!Current
                               THEN Functions[k].captured \cup {v[2]} ELSE Functions[k].captured]
                 = Functions[k]
    <3> DEFINE x == free(k)
               y == IF k = v[1] /\ k # Abstract!Current
                    THEN Functions[k].captured \cup {v[2]} ELSE Functions[k].captured
               r == Functions[k]
    <3>1. x = FreeOf(compilers, k) /\ y = CapturedOf(compilers[k])
      BY <1>4, <1>5, <1>7
    <3>2. r = Function(VariablesOf(compilers[k]), BlocksOf(compilers[k]),
                       IsReady(compilers[k]), CapturedOf(compilers[k]), FreeOf(compilers, k))
      BY <1>5
    <3> HIDE DEF x, y, r
    <3>3. Used(r, x, y) =
            Function(VariablesOf(compilers[k]), BlocksOf(compilers[k]),
                     IsReady(compilers[k]), y, x)
      BY <3>2, UseChanges
    <3>4. Used(r, x, y) = r
      BY <3>1, <3>2, <3>3
    <3> QED
      BY <3>4 DEF Used, r, x, y
  <2>2. Functions = [k \in 1..n |-> Functions[k]]
    <3>1. Functions = FunctionsOf(compilers)
      BY Seen
    <3> QED
      BY <1>5, <3>1 DEF FunctionsOf
  <2>3. DOMAIN next = 1..n /\ \A k \in 1..n : next[k] = Functions[k]
    <3> HIDE DEF free, v
    <3> QED
      BY <1>5, <2>1
  <2>4. next = [k \in 1..n |-> next[k]]
    <3> HIDE DEF free, v
    <3> QED
      BY <1>5
  <2> HIDE DEF next
  <2> QED
    BY <2>2, <2>3, <2>4
<1> HIDE DEF D, next, wrong, many
<1>11. Abstract!Use(name) <=>
         IF D = {} THEN Said' = <<"global", name>> /\ UNCHANGED <<Functions, hadError>>
         ELSE IF wrong \/ many THEN Abstract!Reject
         ELSE Functions' = next /\ Said' = <<"variable", v>> /\ hadError' = hadError
  BY <1>3 DEF Abstract!Use, D, next, wrong, many
<1>12. CASE wrong
  <2>1. hadError' = TRUE
    BY <1>1, <1>9, <1>12 DEF InOwnInitializer
  <2>2. Abstract!Reject
    BY <2>1, Rejects
  <2> QED
    BY <1>3, <1>11, <1>12, <2>2
<1>13. CASE ~ wrong
  <2>1. hadError' = FALSE /\ hadError' = hadError
    BY <1>1, <1>9, <1>13 DEF InOwnInitializer, IInv, TypeOK
  <2>2. Functions' = Functions
    BY <1>1, <1>2, <2>1, Seen, SeenAfter
  <2>3. Said' = <<"variable", v>>
    <3>1. MeantBy(<<"OP_GET_LOCAL", local>>, compilers') = <<"variable", <<Len(compilers'), local>>>>
      BY DEF MeantBy
    <3>2. <<"OP_GET_LOCAL", local>> # <<>>
      OBVIOUS
    <3> QED
      BY <1>1, <2>1, <3>1, <3>2, SaidAfter
  <2> QED
    BY <1>3, <1>8, <1>10, <1>11, <1>13, <2>1, <2>2, <2>3
<1> QED
  BY <1>12, <1>13

\* A name that means a global variable, or one that nobody has declared
LEMMA GlobalIsUse ==
  ASSUME IInv, ~ hadError, NEW name \in Name, NamedVariable(name),
         ResolveLocal(Current, name) = NotFound, ResolveUpvalue(compilers, name).index = NotFound
  PROVE  Abstract!Use(name)
<1> DEFINE n     == Len(compilers)
           homes == {k \in 1..(n - 1) : ResolveLocal(compilers[k], name) # NotFound}
           resolved == ResolveUpvalue(compilers, name)
<1>1. emitted' = <<"OP_GET_GLOBAL", name>> /\ hadError' = hadError /\ compilers' = compilers
  BY DEF NamedVariable
<1>2. /\ compilers \in Seq(CompilerType) /\ AllSound(compilers) /\ n \in Nat
      /\ Current = compilers[n] /\ \A k \in 1..n : Fits(compilers[k])
  BY InvGives
<1>3. /\ homes # {} =>
           \E home \in 1..(n - 1) :
             /\ Reaches(compilers, name, home)
             /\ \A k \in homes : k <= home
             /\ resolved.chain = After(compilers, name, home)
             /\ resolved.index = Passing(compilers, name, home)[n].index
             /\ resolved.index # NotFound
             /\ resolved.error = \E j \in home..n : Passing(compilers, name, home)[j].error
  BY <1>2, ResolveUpvalueIs
<1>4. homes = {}
  <2> HIDE DEF homes
  <2> QED
    BY <1>3
<1>5. \A k \in 1..n : ResolveLocal(compilers[k], name) = NotFound
  <2>1. \A k \in 1..n : k = n \/ k \in 1..(n - 1)
    BY <1>2
  <2> QED
    BY <1>2, <1>4, <2>1
<1>6. Abstract!Declarations(name) = {}
  BY <1>5, NoDeclarations
<1>7. Functions' = Functions
  BY <1>1, <1>2, Seen, SeenAfter
<1>8. Said' = <<"global", name>>
  <2>1. MeantBy(<<"OP_GET_GLOBAL", name>>, compilers') = <<"global", name>>
    BY DEF MeantBy
  <2>2. <<"OP_GET_GLOBAL", name>> # <<>>
    OBVIOUS
  <2> QED
    BY <1>1, <2>1, <2>2, SaidAfter
<1> QED
  BY <1>1, <1>6, <1>7, <1>8 DEF Abstract!Use

\* A name that means a variable of a function around
LEMMA UpvalueIsUse ==
  ASSUME IInv, ~ hadError, NEW name \in Name, NamedVariable(name),
         ResolveLocal(Current, name) = NotFound, ResolveUpvalue(compilers, name).index # NotFound
  PROVE  Abstract!Use(name)
<1> DEFINE n        == Len(compilers)
           resolved == ResolveUpvalue(compilers, name)
           homes    == {k \in 1..(n - 1) : ResolveLocal(compilers[k], name) # NotFound}
           at(h)    == Passing(compilers, name, h)
<1>1. /\ emitted' = <<"OP_GET_UPVALUE", resolved.index>> /\ hadError' = resolved.error
      /\ compilers' = resolved.chain
  BY DEF NamedVariable
<1>2. /\ compilers \in Seq(CompilerType) /\ AllSound(compilers) /\ n \in Nat /\ n \in 1..n
      /\ Current = compilers[n] /\ \A k \in 1..n : Fits(compilers[k])
  BY InvGives
<1>3. PICK home \in 1..(n - 1) :
        /\ Reaches(compilers, name, home)
        /\ \A k \in homes : k <= home
        /\ resolved.chain = After(compilers, name, home)
        /\ resolved.index = at(home)[n].index
        /\ resolved.error = \E j \in home..n : at(home)[j].error
  <2>1. /\ homes = {} => resolved.index = NotFound
        /\ homes # {} =>
             \E home \in 1..(n - 1) :
               /\ Reaches(compilers, name, home)
               /\ \A k \in homes : k <= home
               /\ resolved.chain = After(compilers, name, home)
               /\ resolved.index = at(home)[n].index
               /\ resolved.index # NotFound
               /\ resolved.error = \E j \in home..n : at(home)[j].error
    BY <1>2, ResolveUpvalueIs
  <2> HIDE DEF homes, resolved, at
  <2>2. homes # {}
    BY <2>1 DEF resolved
  <2> QED
    BY <2>1, <2>2
<1> DEFINE local == ResolveLocal(compilers[home], name)
           v     == <<home, local>>
           D     == Abstract!Declarations(name)
           free(k) == IF k > v[1] THEN Functions[k].free \cup {v} ELSE Functions[k].free
           next  == [k \in DOMAIN Functions |->
                       [Functions[k] EXCEPT
                          !.free     = free(k),
                          !.captured = IF k = v[1] /\ k # Abstract!Current THEN @ \cup {v[2]} ELSE @]]
           wrong == ~ Functions[v[1]].ready /\ v[2] = Len(Abstract!Variables(v[1])) - 1
           many  == \E k \in DOMAIN Functions : Abstract!Cardinality(free(k)) > MaxUpvalues
           after == After(compilers, name, home)
           FW(k) == FreeWith(compilers, name, home, k)
<1> HIDE DEF resolved, homes, at
<1>4. home \in 1..n /\ home < n /\ home \in Nat /\ local # NotFound
  <2>1. home \in 1..n /\ home < n /\ home \in Nat
    BY <1>2
  <2>2. local # NotFound
    BY <1>3 DEF Reaches
  <2> QED
    BY <2>1, <2>2
<1>5. D # {} /\ Abstract!Meaning(name) = v
  <2>1. ASSUME NEW k \in 1..n, ResolveLocal(compilers[k], name) # NotFound  PROVE k <= home
    <3>1. k # n
      BY <1>2, <2>1
    <3>2. k \in 1..(n - 1)
      BY <1>2, <3>1
    <3>3. k \in homes
      BY <2>1, <3>2 DEF homes
    <3> QED
      BY <1>3, <3>3
  <2> HIDE DEF D, free, next, wrong, many, after, FW
  <2>2. \A k \in 1..Len(compilers) : ResolveLocal(compilers[k], name) # NotFound => k <= home
    BY <2>1
  <2> QED
    BY <1>4, <2>2, MeaningIs DEF D
<1>6. v[1] = home /\ v[2] = local /\ v = Found(compilers, name, home)
  BY DEF Found
<1>7. /\ DOMAIN Functions = 1..n /\ Abstract!Current = n
      /\ \A k \in 1..n :
           Functions[k] = Function(VariablesOf(compilers[k]), BlocksOf(compilers[k]),
                                   IsReady(compilers[k]), CapturedOf(compilers[k]),
                                   FreeOf(compilers, k))
  BY Seen
<1>8. ASSUME NEW k \in 1..n
      PROVE  /\ Functions[k].captured = CapturedOf(compilers[k])
             /\ Functions[k].ready = IsReady(compilers[k])
             /\ free(k) = FW(k)
  <2>1. /\ Functions[k].free = FreeOf(compilers, k)
        /\ Functions[k].captured = CapturedOf(compilers[k])
        /\ Functions[k].ready = IsReady(compilers[k])
    BY <1>7, FieldsAre
  <2> HIDE DEF v
  <2>2. free(k) = FW(k)
    BY <1>6, <2>1 DEF FreeWith
  <2> QED
    BY <2>1, <2>2
<1>9. ~ wrong
  <2>1. IsReady(compilers[home])
    BY <1>2, <1>4 DEF AllSound, Sound
  <2>2. Functions[home].ready
    BY <1>4, <1>8, <2>1
  <2> HIDE DEF v
  <2> QED
    BY <1>6, <2>2
<1>10. many <=> \E j \in home..n : at(home)[j].error
  <2>1. (\E j \in home..n : at(home)[j].error) <=> \E k \in 1..n : Cardinality(FW(k)) > MaxUpvalues
    <3> HIDE DEF v, free, next, wrong, many, D, after, local
    <3> QED
      BY <1>3, TooManyFree DEF at
  <2>2. \A k \in 1..n : Abstract!Cardinality(free(k)) = Cardinality(FW(k))
    <3> HIDE DEF free, FW
    <3> QED
      BY <1>8, SameCardinality
  <2> HIDE DEF free, FW
  <2> QED
    BY <1>7, <2>1, <2>2
<1>11. ASSUME NoneFails(compilers, name, home)
       PROVE  FunctionsOf(after) = next
  <2>1. ASSUME NEW k \in 1..n
        PROVE  [Functions[k] EXCEPT
                  !.free     = free(k),
                  !.captured = IF k = v[1] /\ k # Abstract!Current
                               THEN Functions[k].captured \cup {v[2]} ELSE Functions[k].captured]
                 = FunctionOf(after, k)
    <3> DEFINE x == free(k)
               y == IF k = v[1] /\ k # Abstract!Current
                    THEN Functions[k].captured \cup {v[2]} ELSE Functions[k].captured
               r == Functions[k]
               V == VariablesOf(compilers[k])
               B == BlocksOf(compilers[k])
               R == IsReady(compilers[k])
    <3>1. /\ VariablesOf(after[k]) = V /\ BlocksOf(after[k]) = B /\ IsReady(after[k]) = R
          /\ CapturedOf(after[k]) = IF k = home THEN CapturedOf(compilers[k]) \cup {local}
                                    ELSE CapturedOf(compilers[k])
          /\ FreeOf(after, k) = FW(k)
      <4> HIDE DEF v, free, next, wrong, many, D, x, y, r
      <4>1. /\ Reaches(compilers, name, home) /\ NoneFails(compilers, name, home)
            /\ k \in 1..Len(compilers)
        BY <1>3, <1>11
      <4>2. /\ VariablesOf(After(compilers, name, home)[k]) = VariablesOf(compilers[k])
            /\ BlocksOf(After(compilers, name, home)[k]) = BlocksOf(compilers[k])
            /\ IsReady(After(compilers, name, home)[k]) = IsReady(compilers[k])
            /\ CapturedOf(After(compilers, name, home)[k]) =
                 IF k = home
                 THEN CapturedOf(compilers[k]) \cup {ResolveLocal(compilers[home], name)}
                 ELSE CapturedOf(compilers[k])
            /\ FreeOf(After(compilers, name, home), k) = FreeWith(compilers, name, home, k)
        BY <4>1, AfterFunctions
      <4> QED
        BY <4>2
    <3>2. FunctionOf(after, k) =
            Function(VariablesOf(after[k]), BlocksOf(after[k]), IsReady(after[k]),
                     CapturedOf(after[k]), FreeOf(after, k))
      BY FunctionIs
    <3>3. y = CapturedOf(after[k])
      <4>1. k = home => k # n
        BY <1>4
      <4>2. Functions[k].captured = CapturedOf(compilers[k])
        BY <1>8
      <4> HIDE DEF v, after
      <4> QED
        BY <1>6, <1>7, <3>1, <4>1, <4>2
    <3>4. x = FreeOf(after, k)
      BY <1>8, <3>1
    <3>5. r = Function(V, B, R, CapturedOf(compilers[k]), FreeOf(compilers, k))
      BY <1>7
    <3> HIDE DEF x, y, r, V, B, R, after
    <3>6. Used(r, x, y) = Function(V, B, R, y, x)
      BY <3>5, UseChanges
    <3>7. Used(r, x, y) = FunctionOf(after, k)
      BY <3>1, <3>2, <3>3, <3>4, <3>6
    <3> QED
      BY <3>7 DEF Used, r, x, y
  <2>2. Len(after) = n
    <3> HIDE DEF v, free, next, wrong, many, D, FW, local
    <3> QED
      BY <1>3, AfterTyped
  <2>3. FunctionsOf(after) = [k \in 1..n |-> FunctionOf(after, k)]
    <3> HIDE DEF after
    <3> QED
      BY <2>2 DEF FunctionsOf
  <2> HIDE DEF after, free, v
  <2>4. next = [k \in 1..n |-> FunctionOf(after, k)]
    BY <1>7, <2>1
  <2> QED
    BY <2>3, <2>4
<1>12. ASSUME NoneFails(compilers, name, home)
       PROVE  Denotation(after)[n][resolved.index + 1] = v
  <2>1. \A k \in 1..n : k > home => Denotation(after)[k][at(home)[k].index + 1] = Found(compilers, name, home)
    <3> HIDE DEF v, free, next, wrong, many, D, FW, local
    <3> QED
      BY <1>3, <1>12, AfterDenotes DEF at
  <2> HIDE DEF after, v
  <2> QED
    BY <1>2, <1>3, <1>4, <1>6, <2>1
<1>13. compilers' = after /\ after \in Seq(CompilerType) /\ Len(after) = n
  <2>1. after \in Seq(CompilerType) /\ Len(after) = n
    <3> HIDE DEF v, free, next, wrong, many, D, FW, local
    <3> QED
      BY <1>3, AfterTyped
  <2> QED
    BY <1>1, <1>3, <2>1
<1>14. Abstract!Use(name) <=>
         IF D = {} THEN Said' = <<"global", name>> /\ UNCHANGED <<Functions, hadError>>
         ELSE IF wrong \/ many THEN Abstract!Reject
         ELSE Functions' = next /\ Said' = <<"variable", v>> /\ hadError' = hadError
  <2> HIDE DEF D, next, wrong, many, v, after, FW
  <2> QED
    BY <1>5 DEF Abstract!Use, D, next, wrong, many
<1> HIDE DEF D, next, wrong, many, v, after, FW, free, local
<1>15. CASE many
  <2>1. hadError' = TRUE
    BY <1>1, <1>3, <1>10, <1>15
  <2>2. Abstract!Reject
    BY <2>1, Rejects
  <2> QED
    BY <1>5, <1>14, <1>15, <2>2
<1>16. CASE ~ many
  <2>1. hadError' = FALSE
    BY <1>1, <1>3, <1>10, <1>16
  <2>2. NoneFails(compilers, name, home)
    <3>1. \A j \in (home + 1)..n : j \in home..n
      BY <1>2, <1>4
    <3> QED
      BY <1>10, <1>16, <3>1 DEF NoneFails, at
  <2>3. Functions' = next
    BY <1>11, <1>13, <2>1, <2>2, SeenAfter
  <2>4. Said' = <<"variable", v>>
    <3> DEFINE i == resolved.index
    <3> HIDE DEF i
    <3>1. MeantBy(<<"OP_GET_UPVALUE", i>>, compilers') =
            <<"variable", Denotation(compilers')[Len(compilers')][i + 1]>>
      BY DEF MeantBy
    <3>2. <<"OP_GET_UPVALUE", i>> # <<>>
      OBVIOUS
    <3>3. Said' = MeantBy(<<"OP_GET_UPVALUE", i>>, compilers')
      BY <1>1, <2>1, <3>2, SaidAfter DEF i
    <3>4. Denotation(after)[n][i + 1] = v
      BY <1>12, <2>2 DEF i
    <3> QED
      BY <1>13, <3>1, <3>3, <3>4
  <2>5. hadError' = hadError
    BY <2>1 DEF IInv, TypeOK
  <2> QED
    BY <1>5, <1>9, <1>14, <1>16, <2>3, <2>4, <2>5
<1> QED
  BY <1>15, <1>16

----------------------------------------------------------------------------
\* The refinement

LEMMA RefinesInit ==
  ASSUME Init
  PROVE  Abstract!Init
<1> DEFINE c == NewCompiler
<1>1. compilers = <<c>> /\ hadError = FALSE /\ emitted = <<>>
  BY DEF Init
<1>2. IInv
  BY InvInit
<1>3. /\ Functions = FunctionsOf(compilers)
      /\ Functions[Len(compilers)] =
           Function(VariablesOf(Current), BlocksOf(Current), IsReady(Current),
                    CapturedOf(Current), FreeOf(compilers, Len(compilers)))
  BY <1>1, <1>2, Seen
<1>4. /\ VariablesOf(c) = <<NoName>> /\ BlocksOf(c) = <<0>> /\ IsReady(c) /\ CapturedOf(c) = {}
      /\ c.upvalues = <<>>
  BY NewCompilerIs
<1> HIDE DEF c
<1>5. Len(compilers) = 1 /\ compilers[1] = c /\ Current = c
  BY <1>1 DEF Current
<1>6. FreeOf(compilers, 1) = {}
  <2>1. DOMAIN c.upvalues = {}
    BY <1>4
  <2> QED
    BY <1>5, <2>1 DEF FreeOf
<1>7. IsReady(c) = TRUE
  BY <1>4 DEF IsReady
<1>8. Function(VariablesOf(c), BlocksOf(c), IsReady(c), CapturedOf(c), {}) = Abstract!NewFunction(<<0>>)
  BY <1>4, <1>7 DEF Function, Abstract!NewFunction
<1>9. Functions[1] = Abstract!NewFunction(<<0>>)
  BY <1>3, <1>5, <1>6, <1>8
<1>10. Functions = [k \in 1..1 |-> FunctionOf(compilers, k)]
  BY <1>3, <1>5 DEF FunctionsOf
<1> DEFINE f == Abstract!NewFunction(<<0>>)
<1> HIDE DEF f
<1>11. Functions = <<f>>
  <2>1. DOMAIN Functions = 1..1 /\ Functions[1] = f /\ Functions = [k \in 1..1 |-> Functions[k]]
    BY <1>9, <1>10 DEF f
  <2>2. <<f>> = [k \in 1..1 |-> f]
    OBVIOUS
  <2>3. \A k \in 1..1 : Functions[k] = f
    BY <2>1
  <2> QED
    BY <2>1, <2>2, <2>3
<1>12. Said = <<>>
  BY <1>1 DEF Said
<1> QED
  BY <1>1, <1>11, <1>12 DEF Abstract!Init, f

LEMMA RefinesNext ==
  ASSUME IInv, [Next]_vars
  PROVE  [Abstract!Next]_(Abstract!vars)
<1>1. CASE UNCHANGED vars
  BY <1>1 DEF vars, Abstract!vars, Functions, Said
<1>2. CASE Next
  <2>1. ~ hadError
    BY <1>2 DEF Next
  <2>2. CASE Begin
    BY <2>1, <2>2, BeginIsBeginBlock DEF Abstract!Next
  <2>3. CASE End
    BY <2>1, <2>3, EndIsEndBlock DEF Abstract!Next
  <2>4. CASE Define
    BY <2>1, <2>4, DefineIsDefine DEF Abstract!Next
  <2>5. CASE EndFunction
    BY <2>1, <2>5, EndFunctionIsEndFunction DEF Abstract!Next
  <2>6. ASSUME NEW name \in Name, Declare(name)  PROVE Abstract!Next
    BY <2>1, <2>6, DeclareIsDeclare DEF Abstract!Next
  <2>7. ASSUME NEW name \in Name, BeginFunction(name)  PROVE Abstract!Next
    BY <2>1, <2>7, BeginFunctionIsBeginFunction DEF Abstract!Next
  <2>8. ASSUME NEW name \in Name, NamedVariable(name)  PROVE Abstract!Next
    <3>1. Abstract!Use(name)
      BY <2>1, <2>8, LocalIsUse, UpvalueIsUse, GlobalIsUse
    <3> QED
      BY <2>1, <3>1 DEF Abstract!Next
  <2> QED
    BY <1>2, <2>2, <2>3, <2>4, <2>5, <2>6, <2>7, <2>8 DEF Next
<1> QED
  BY <1>1, <1>2

\* The compiler finds for every name the variable that lexical scoping finds, and rejects
\* the programs that break a rule of it or a limit: every step of compilers is one of
\* lexical scoping.
THEOREM Refinement == Spec => Implements
<1>1. Init => IInv
  BY InvInit
<1>2. IInv /\ [Next]_vars => IInv'
  BY InvNext
<1>3. Init => Abstract!Init
  BY RefinesInit
<1>4. IInv /\ [Next]_vars => [Abstract!Next]_(Abstract!vars)
  BY RefinesNext
<1> QED
  BY <1>1, <1>2, <1>3, <1>4, PTL DEF Spec, Implements, Abstract!Spec
=============================================================================
