-------------------------- MODULE CollectorProofs --------------------------
(***************************************************************************)
(* Proofs about the collector, for every number of objects, every size of  *)
(* object and every threshold.                                             *)
(***************************************************************************)
EXTENDS Collector, ObjectHeapProofs, Functions, FiniteSetTheorems, LeastNumber, TLAPS

----------------------------------------------------------------------------
(***************************************************************************)
(* Sums of a function over its domain, as the community modules define     *)
(* them: a fold that takes the members of the domain one by one, in an     *)
(* order nothing is known about.  What it adds up to is known all the      *)
(* same.                                                                   *)
(***************************************************************************)

\* The member that the fold takes from a set.
First(s) == CHOOSE x \in s : TRUE

Rest(s) == s \ {First(s)}

\* One step of the fold.
Added(f, sum, s) == IF s = {} THEN 0 ELSE f[First(s)] + sum[Rest(s)]

Adds(f, sum, S) == \A s \in SUBSET S : sum[s] = Added(f, sum, s)

LEMMA RestIsSmaller ==
  ASSUME NEW S, IsFiniteSet(S), NEW s \in SUBSET S
  PROVE  /\ Cardinality(s) \in Nat
         /\ s # {} => /\ First(s) \in s
                      /\ Rest(s) \in SUBSET S
                      /\ Cardinality(Rest(s)) = Cardinality(s) - 1
                      /\ Cardinality(Rest(s)) \in Nat
<1>1. IsFiniteSet(s)
  BY FS_Subset
<1>2. Cardinality(s) \in Nat
  BY <1>1, FS_CardinalityType
<1>3. ASSUME s # {}  PROVE First(s) \in s
  BY <1>3 DEF First
<1>4. ASSUME s # {}
      PROVE  /\ Rest(s) \in SUBSET S
             /\ Cardinality(Rest(s)) = Cardinality(s) - 1
             /\ Cardinality(Rest(s)) \in Nat
  <2>1. First(s) \in s
    BY <1>3, <1>4
  <2>2. IsFiniteSet(Rest(s)) /\ Cardinality(Rest(s)) = Cardinality(s) - 1
    BY <1>1, <2>1, FS_RemoveElement DEF Rest
  <2> QED
    BY <2>2, FS_CardinalityType DEF Rest
<1> QED
  BY <1>2, <1>3, <1>4

\* Induction along the fold.
LEMMA AlongTheFold ==
  ASSUME NEW S, IsFiniteSet(S), NEW P, {} \in P,
         \A s \in SUBSET S : s # {} /\ Rest(s) \in P => s \in P
  PROVE  SUBSET S \subseteq P
<1> DEFINE N == {n \in Nat : \A s \in SUBSET S : Cardinality(s) = n => s \in P}
<1>1. 0 \in N
  BY FS_Subset, FS_EmptySet
<1>2. ASSUME NEW n \in Nat, n \in N  PROVE n + 1 \in N
  <2> SUFFICES ASSUME NEW s \in SUBSET S, Cardinality(s) = n + 1  PROVE s \in P
    OBVIOUS
  <2>1. s # {}
    BY FS_EmptySet
  <2>2. Rest(s) \in SUBSET S /\ Cardinality(Rest(s)) = n
    BY <2>1, RestIsSmaller
  <2>3. Rest(s) \in P
    BY <1>2, <2>2
  <2> QED
    BY <2>1, <2>3
<1>3. Nat \subseteq N
  <2> HIDE DEF N
  <2> QED
    BY <1>1, <1>2, Induction
<1> QED
  BY <1>3, RestIsSmaller

\* The fold has a result: a function that adds up every subset.
LEMMA FoldExists ==
  ASSUME NEW S, IsFiniteSet(S), NEW f \in [S -> Int]
  PROVE  \E sum \in [SUBSET S -> Int] : Adds(f, sum, S)
<1> DEFINE Small(n) == {s \in SUBSET S : Cardinality(s) <= n}
           N == {n \in Nat : \E sum \in [SUBSET S -> Int] :
                               \A s \in Small(n) : sum[s] = Added(f, sum, s)}
<1>1. 0 \in N
  <2> DEFINE sum == [s \in SUBSET S |-> 0]
  <2>1. ASSUME NEW s \in Small(0)  PROVE s = {}
    BY RestIsSmaller
  <2>2. \A s \in Small(0) : sum[s] = Added(f, sum, s)
    BY <2>1 DEF Added
  <2>3. sum \in [SUBSET S -> Int]
    OBVIOUS
  <2> HIDE DEF sum
  <2> QED
    BY <2>2, <2>3
<1>2. ASSUME NEW n \in Nat, n \in N  PROVE n + 1 \in N
  <2>1. PICK sum \in [SUBSET S -> Int] : \A s \in Small(n) : sum[s] = Added(f, sum, s)
    BY <1>2
  <2> DEFINE more == [s \in SUBSET S |-> Added(f, sum, s)]
  <2>2. ASSUME NEW s \in SUBSET S  PROVE Added(f, sum, s) \in Int
    BY RestIsSmaller DEF Added
  <2>3. more \in [SUBSET S -> Int]
    BY <2>2
  <2>4. \A s \in SUBSET S : more[s] = Added(f, sum, s)
    OBVIOUS
  <2> HIDE DEF more
  <2>5. ASSUME NEW s \in Small(n + 1), s # {}  PROVE more[s] = Added(f, more, s)
    <3>1. Rest(s) \in SUBSET S /\ Rest(s) \in Small(n)
      BY <2>5, RestIsSmaller
    <3>2. more[Rest(s)] = sum[Rest(s)]
      BY <2>1, <2>4, <3>1
    <3> QED
      BY <2>4, <3>2 DEF Added
  <2>6. ASSUME NEW s \in Small(n + 1), s = {}  PROVE more[s] = Added(f, more, s)
    BY <2>4, <2>6 DEF Added
  <2> QED
    BY <2>3, <2>5, <2>6
<1>3. Cardinality(S) \in N
  <2>1. Nat \subseteq N
    <3> HIDE DEF N
    <3> QED
      BY <1>1, <1>2, Induction
  <2> QED
    BY <2>1, FS_CardinalityType
<1>4. SUBSET S \subseteq Small(Cardinality(S))
  BY FS_Subset
<1> QED
  BY <1>3, <1>4 DEF Adds

\* SumFunction is such a fold.
LEMMA SumIsFold ==
  ASSUME NEW S, IsFiniteSet(S), NEW f \in [S -> Int]
  PROVE  \E sum \in [SUBSET S -> Int] : Adds(f, sum, S) /\ SumFunction(f) = sum[S]
<1> DEFINE Eq(sum) == sum = [s \in SUBSET S |->
              IF s = {} THEN 0
              ELSE f[CHOOSE x \in s : TRUE] + sum[s \ {CHOOSE x \in s : TRUE}]]
<1>1. SumFunction(f) = (CHOOSE sum : Eq(sum))[DOMAIN f]
  BY Zenon DEF SumFunction, SumFunctionOnSet, FoldFunctionOnSet, MapThenFoldSet
<1>2. PICK g \in [SUBSET S -> Int] : Adds(f, g, S)
  BY FoldExists
<1>3. Eq(g)
  BY <1>2 DEF Adds, Added, First, Rest
<1>4. Eq(CHOOSE sum : Eq(sum))
  BY <1>3, Zenon
<1> DEFINE total == CHOOSE sum : Eq(sum)
<1>5. Eq(total) /\ SumFunction(f) = total[S]
  BY <1>1, <1>4
<1> HIDE DEF total
<1>6. total = [s \in SUBSET S |-> Added(f, total, s)]
  BY <1>5 DEF Added, First, Rest
<1>7. Adds(f, total, S)
  BY <1>6 DEF Adds
<1>8. \A s \in SUBSET S : total[s] \in Int
  <2> DEFINE P == {s \in SUBSET S : total[s] \in Int}
  <2>1. {} \in P
    <3>1. total[{}] = 0
      BY <1>7 DEF Adds, Added
    <3> QED
      BY <3>1
  <2>2. ASSUME NEW s \in SUBSET S, s # {}, Rest(s) \in P  PROVE s \in P
    BY <1>7, <2>2, RestIsSmaller DEF Adds, Added
  <2> HIDE DEF P
  <2>3. SUBSET S \subseteq P
    BY <2>1, <2>2, AlongTheFold
  <2> QED
    BY <2>3 DEF P
<1>9. total \in [SUBSET S -> Int]
  BY <1>6, <1>8
<1> QED
  BY <1>5, <1>7, <1>9

LEMMA SumIsInteger ==
  ASSUME NEW S, IsFiniteSet(S), NEW f \in [S -> Int]
  PROVE  SumFunction(f) \in Int
<1>1. PICK sum \in [SUBSET S -> Int] : Adds(f, sum, S) /\ SumFunction(f) = sum[S]
  BY SumIsFold
<1>2. S \in SUBSET S
  OBVIOUS
<1> QED
  BY <1>1, <1>2

\* A sum of natural numbers is one, and no more than 0 if they are all 0.
LEMMA SumIsNatural ==
  ASSUME NEW S, IsFiniteSet(S), NEW f \in [S -> Nat]
  PROVE  /\ SumFunction(f) \in Nat
         /\ (\A x \in S : f[x] = 0) => SumFunction(f) = 0
<1>1. f \in [S -> Int]
  OBVIOUS
<1>2. PICK sum \in [SUBSET S -> Int] : Adds(f, sum, S) /\ SumFunction(f) = sum[S]
  BY <1>1, SumIsFold
<1> DEFINE P == {s \in SUBSET S : /\ sum[s] \in Nat
                                  /\ (\A x \in S : f[x] = 0) => sum[s] = 0}
<1>3. {} \in P
  BY <1>2 DEF Adds, Added
<1>4. ASSUME NEW s \in SUBSET S, s # {}, Rest(s) \in P  PROVE s \in P
  <2>1. First(s) \in S /\ sum[s] = f[First(s)] + sum[Rest(s)]
    BY <1>2, <1>4, RestIsSmaller DEF Adds, Added
  <2> QED
    BY <1>4, <2>1
<1> HIDE DEF P
<1>5. SUBSET S \subseteq P
  BY <1>3, <1>4, AlongTheFold
<1> QED
  BY <1>2, <1>5 DEF P

\* What is added at one point is added to the sum.
LEMMA SumChanges ==
  ASSUME NEW S, IsFiniteSet(S), NEW f \in [S -> Int], NEW g \in [S -> Int],
         NEW x \in S, \A y \in S \ {x} : g[y] = f[y]
  PROVE  SumFunction(g) = SumFunction(f) + (g[x] - f[x])
<1>1. PICK sum \in [SUBSET S -> Int] : Adds(f, sum, S) /\ SumFunction(f) = sum[S]
  BY SumIsFold
<1>2. PICK new \in [SUBSET S -> Int] : Adds(g, new, S) /\ SumFunction(g) = new[S]
  BY SumIsFold
<1> DEFINE P == {s \in SUBSET S : new[s] = sum[s] + (IF x \in s THEN g[x] - f[x] ELSE 0)}
<1>3. {} \in P
  <2>1. sum[{}] = 0 /\ new[{}] = 0
    BY <1>1, <1>2 DEF Adds, Added
  <2> QED
    BY <2>1
<1>4. ASSUME NEW s \in SUBSET S, s # {}, Rest(s) \in P  PROVE s \in P
  <2>1. /\ sum[s] = f[First(s)] + sum[Rest(s)]
        /\ new[s] = g[First(s)] + new[Rest(s)]
        /\ First(s) \in s
        /\ Rest(s) \in SUBSET S
    BY <1>1, <1>2, <1>4, RestIsSmaller DEF Adds, Added
  <2>2. new[Rest(s)] = sum[Rest(s)] + (IF x \in Rest(s) THEN g[x] - f[x] ELSE 0)
    BY <1>4
  <2>3. CASE First(s) = x
    <3>1. x \in s /\ x \notin Rest(s)
      BY <2>1, <2>3 DEF Rest
    <3> QED
      BY <2>1, <2>2, <2>3, <3>1
  <2>4. CASE First(s) # x
    <3>1. x \in s <=> x \in Rest(s)
      BY <2>4 DEF Rest
    <3>2. g[First(s)] = f[First(s)]
      BY <2>1, <2>4
    <3>3. CASE x \in s
      BY <2>1, <2>2, <3>1, <3>2, <3>3
    <3>4. CASE x \notin s
      BY <2>1, <2>2, <3>1, <3>2, <3>4
    <3> QED
      BY <3>3, <3>4
  <2> QED
    BY <2>3, <2>4
<1> HIDE DEF P
<1>5. SUBSET S \subseteq P
  BY <1>3, <1>4, AlongTheFold
<1> QED
  BY <1>1, <1>2, <1>5 DEF P

----------------------------------------------------------------------------
(***************************************************************************)
(* What is marked from an object, and the kinds of roots.                  *)
(***************************************************************************)

\* blackenObject() marks everything that an object of any type points to.
LEMMA BlackenedIsPointers ==
  ASSUME NEW obj \in Object, WellFormed(obj)
  PROVE  Blackened(obj) = Pointers(obj)
BY DEF Object, ObjType, WellFormed, Blackened, Pointers

LEMMA RootOrderInKind ==
  /\ Len(RootOrder) = 5
  /\ \A i \in 1..5 : RootOrder[i] \in RootKind
  /\ \A kind \in RootKind : \E i \in 1..5 : RootOrder[i] = kind
<1>1. Len(RootOrder) = 5
  BY DEF RootOrder
<1>2. /\ RootOrder[1] = "stack" /\ RootOrder[2] = "frames" /\ RootOrder[3] = "openUpvalues"
      /\ RootOrder[4] = "globals" /\ RootOrder[5] = "compilers"
  BY DEF RootOrder
<1>3. \A i \in 1..5 : i = 1 \/ i = 2 \/ i = 3 \/ i = 4 \/ i = 5
  OBVIOUS
<1> QED
  BY <1>1, <1>2, <1>3 DEF RootKind

----------------------------------------------------------------------------
(***************************************************************************)
(* Types.                                                                  *)
(***************************************************************************)

\* An object that is asked for gets the next address.
RequestOK ==
  request.type # "free" => request.object = serial + 1 /\ request.object \in Obj

RootsDoneOK ==
  /\ phase = "markRoots" => rootsDone < Len(RootOrder)
  /\ phase \in {"trace", "removeWhite"} => rootsDone = Len(RootOrder)

Types == TypeOK /\ RequestOK /\ RootsDoneOK

LEMMA InitTypes == Init => Types
<1> SUFFICES ASSUME Init PROVE Types
  OBVIOUS
<1>1. Freed \in Object /\ WellFormed(Freed)
  BY BlankIsObject DEF Freed
<1>2. request \in Request
  BY CollectorAssumption DEF Init, NoRequest, Request, Ref
<1> QED
  BY <1>1, <1>2, CollectorAssumption, RootOrderInKind
  DEF Init, Types, TypeOK, RequestOK, RootsDoneOK, Phase, NoRequest, Ref

\* References to live objects are references to objects.
LEMMA LiveIsClosed ==
  ASSUME TypeOK
  PROVE  /\ AllRoots \subseteq Live
         /\ Live \subseteq Obj
         /\ Held \subseteq Obj
         /\ Functions \subseteq Live
         /\ IsClosed(heap, Live)
<1>1. AllRoots \subseteq Obj
  BY DEF TypeOK, AllRoots
<1> QED
  BY <1>1, ReachableIsClosed DEF TypeOK, Live, Held, Functions

LEMMA LinkedIsObject ==
  ASSUME NEW o \in Obj, NEW p \in Obj, TypeOK, NEW linked \in Linked(o, p)
  PROVE  /\ linked \in Object
         /\ WellFormed(linked)
         /\ linked.type = heap[o].type
         /\ Pointers(linked) \subseteq Pointers(heap[o]) \cup {p}
<1> DEFINE object0 == heap[o]
<1>1. /\ object0 \in Object
      /\ WellFormed(object0)
      /\ heap[p].type \in ObjType \cup {"free"}
  BY DEF TypeOK, Object
<1>2. \/ /\ object0.type = "function"
         /\ \/ linked = [object0 EXCEPT !.constants = @ \cup {p}]
            \/ linked = [object0 EXCEPT !.name = p]
      \/ object0.type = "closure" /\ linked = [object0 EXCEPT !.upvalues = @ \cup {p}]
      \/ object0.type = "upvalue" /\ linked = [object0 EXCEPT !.closed = p]
  BY DEF Linked
<1> HIDE DEF object0
<1>3. /\ linked \in Object
      /\ linked.type = object0.type
  BY <1>1, <1>2 DEF Object, Ref, ObjType
<1>4. WellFormed(linked)
  BY <1>1, <1>2 DEF WellFormed, Object, ObjType
<1>5. Pointers(linked) \subseteq Pointers(object0) \cup {p}
  BY <1>1, <1>2 DEF Pointers, Object
<1> QED
  BY <1>3, <1>4, <1>5 DEF object0

LEMMA ConstructedIsObject ==
  ASSUME TypeOK, NEW type \in ObjType, NEW new \in Constructed(type)
  PROVE  /\ new \in Object
         /\ WellFormed(new)
         /\ new.type = type
         /\ Pointers(new) \subseteq Functions
<1>1. CASE type = "closure"
  <2>1. PICK f \in Functions : new = [Blank(type) EXCEPT !.function = f]
    BY <1>1 DEF Constructed
  <2>2. f \in Obj
    BY LiveIsClosed
  <2>3. /\ new \in Object
        /\ new.type = type
    BY <2>1, <2>2, BlankIsObject DEF Object, Ref, ObjType
  <2>4. WellFormed(new) /\ Pointers(new) \subseteq {f}
    BY <1>1, <2>1 DEF Blank, WellFormed, Pointers
  <2> QED
    BY <2>3, <2>4
<1>2. CASE type # "closure"
  BY <1>2, BlankIsObject DEF Constructed
<1> QED
  BY <1>1, <1>2

LEMMA NextTypes == Types /\ [Next]_vars => Types'
<1> SUFFICES ASSUME Types, [Next]_vars PROVE Types'
  OBVIOUS
<1> USE CollectorAssumption DEF Types, RequestOK, RootsDoneOK
<1>1. ASSUME NEW o \in Held, NEW kind \in RootKind, Root(kind, o)
      PROVE  Types'
  <2>1. o \in Obj
    BY LiveIsClosed
  <2> QED
    BY <1>1, <2>1 DEF Root, TypeOK, memory, list, collection, marking, sweeping, accounting
<1>2. ASSUME NEW kind \in RootKind, NEW o \in roots[kind], Unroot(kind, o)
      PROVE  Types'
  BY <1>2 DEF Unroot, TypeOK, memory, list, collection, marking, sweeping, accounting
<1>3. ASSUME NEW o \in Live, NEW p \in Held, Link(o, p)
      PROVE  Types'
  <2>1. o \in Obj /\ p \in Obj
    BY LiveIsClosed
  <2>2. PICK linked \in Linked(o, p) : heap' = [heap EXCEPT ![o] = linked]
    BY <1>3 DEF Link
  <2>3. linked \in Object /\ WellFormed(linked)
    BY <2>1, LinkedIsObject
  <2> QED
    BY <1>3, <2>1, <2>2, <2>3
    DEF Link, TypeOK, list, references, collection, marking, sweeping, accounting
<1>4. ASSUME NEW type \in ObjType, RequestObject(type)
      PROVE  Types'
  BY <1>4, RootOrderInKind
  DEF RequestObject, Reallocate, TypeOK, Request, Phase, Ref,
      memory, list, references, sweeping
<1>5. ASSUME NEW o \in Functions \cup {None}, RequestGrowth(o)
      PROVE  Types'
  <2>1. o \in Ref
    BY LiveIsClosed DEF Ref
  <2> QED
    BY <1>5, <2>1, RootOrderInKind
    DEF RequestGrowth, Reallocate, TypeOK, Request, Phase, memory, list, references, sweeping
<1>6. CASE FreeVM
  <2>1. roots' \in [RootKind -> SUBSET Obj]
    BY <1>6 DEF FreeVM, TypeOK
  <2>2. size[None] \in Nat
    BY DEF TypeOK, Ref
  <2>3. size' \in [Ref -> Nat]
    BY <1>6 DEF FreeVM, TypeOK
  <2>4. bytesAllocated' \in Int
    BY <1>6, <2>2 DEF FreeVM, TypeOK
  <2> QED
    BY <1>6, <2>1, <2>3, <2>4 DEF FreeVM, TypeOK, Phase, Ref, memory, list, marking
<1>7. CASE MarkRoots
  <2>1. roots[RootOrder[rootsDone + 1]] \subseteq Obj
    BY <1>7, RootOrderInKind DEF MarkRoots, TypeOK
  <2>2. rootsDone + 1 \in 0..Len(RootOrder)
    BY <1>7, RootOrderInKind DEF MarkRoots, TypeOK
  <2>3. phase' \in Phase /\ RootsDoneOK'
    BY <1>7, <2>2, RootOrderInKind DEF MarkRoots, TypeOK, Phase
  <2> QED
    BY <1>7, <2>1, <2>2, <2>3
    DEF MarkRoots, Mark, TypeOK, Phase, memory, list, references, sweeping, accounting
<1>8. CASE BlackenObject
  <2>1. PICK o \in gray : /\ marked' = marked \cup Blackened(heap[o])
                          /\ gray' = (gray \ {o}) \cup (Blackened(heap[o]) \ marked)
    BY <1>8 DEF BlackenObject
  <2>2. Blackened(heap[o]) \subseteq Obj
    BY BlackenedIsPointers, PointersAreObjects DEF TypeOK
  <2> QED
    BY <1>8, <2>1, <2>2
    DEF BlackenObject, TypeOK, memory, list, references, sweeping, accounting
<1>9. CASE TraceDone
  BY <1>9 DEF TraceDone, TypeOK, Phase, memory, list, references, marking, sweeping, accounting
<1>10. CASE TableRemoveWhite
  BY <1>10 DEF TableRemoveWhite, TypeOK, Phase, Ref, memory, list, marking, accounting
<1>11. CASE SweepKeep
  BY <1>11 DEF SweepKeep, TypeOK, Ref, memory, list, references, accounting
<1>12. CASE SweepFree
  <2>1. object \in Obj
    BY <1>12 DEF SweepFree, TypeOK, Ref
  <2>2. Freed \in Object /\ WellFormed(Freed)
    BY BlankIsObject DEF Freed
  <2>3. next' \in [Obj -> Ref] /\ objects' \in Ref /\ object' \in Ref
    BY <1>12, <2>1 DEF SweepFree, TypeOK, Ref
  <2>4. size' \in [Ref -> Nat] /\ bytesAllocated' \in Int
    BY <1>12 DEF SweepFree, FreeObject, TypeOK
  <2> QED
    BY <1>12, <2>1, <2>2, <2>3, <2>4 DEF SweepFree, FreeObject, TypeOK, references, marking
<1>13. CASE SweepDone
  BY <1>13 DEF SweepDone, TypeOK, Phase, Growth, memory, list, references, marking, sweeping
<1>14. CASE AllocateObject
  <2>1. PICK new \in Constructed(request.type) : heap' = [heap EXCEPT ![request.object] = new]
    BY <1>14 DEF AllocateObject
  <2>2. request.type \in ObjType /\ request.object \in Obj /\ request.bytes \in Nat
    BY <1>14 DEF AllocateObject, TypeOK, Request
  <2>3. new \in Object /\ WellFormed(new)
    BY <2>2, ConstructedIsObject
  <2>4. FirstRoot(request.type) \in RootKind
    BY DEF FirstRoot, RootKind
  <2>5. size' \in [Ref -> Nat]
    BY <1>14, <2>2 DEF AllocateObject, TypeOK
  <2>6. next' \in [Obj -> Ref] /\ objects' \in Ref /\ serial' \in Nat
    BY <1>14, <2>2 DEF AllocateObject, TypeOK, Ref
  <2>7. roots' \in [RootKind -> SUBSET Obj] /\ strings' \subseteq Obj
    BY <1>14, <2>2, <2>4 DEF AllocateObject, TypeOK
  <2>8. request' \in Request /\ request'.type = "free"
    BY <1>14 DEF AllocateObject, NoRequest, Request, Ref
  <2>9. heap' \in [Obj -> Object] /\ \A o \in Obj : WellFormed(heap'[o])
    BY <2>1, <2>2, <2>3 DEF TypeOK
  <2> QED
    BY <1>14, <2>5, <2>6, <2>7, <2>8, <2>9
    DEF AllocateObject, TypeOK, Phase, marking, sweeping, accounting
<1>15. CASE GrowArray
  <2>1. request.object \in Ref /\ request.bytes \in Nat
    BY DEF TypeOK, Request
  <2>2. size[request.object] + request.bytes \in Nat
    BY <2>1 DEF TypeOK
  <2>3. size' \in [Ref -> Nat]
    BY <1>15, <2>2 DEF GrowArray, TypeOK
  <2>4. request' \in Request /\ request'.type = "free"
    BY <1>15 DEF GrowArray, NoRequest, Request, Ref
  <2> QED
    BY <1>15, <2>3, <2>4
    DEF GrowArray, TypeOK, Phase, list, references, marking, sweeping, accounting
<1>16. CASE FreeNext
  <2>1. object \in Obj
    BY <1>16 DEF FreeNext, TypeOK, Ref
  <2>2. Freed \in Object /\ WellFormed(Freed)
    BY BlankIsObject DEF Freed
  <2>3. size' \in [Ref -> Nat] /\ bytesAllocated' \in Int /\ object' \in Ref
    BY <1>16, <2>1 DEF FreeNext, FreeObject, TypeOK
  <2> QED
    BY <1>16, <2>1, <2>2, <2>3 DEF FreeNext, FreeObject, TypeOK, list, references, marking
<1>17. CASE FreeDone
  BY <1>17 DEF FreeDone, TypeOK, Phase, memory, list, references, marking, sweeping, accounting
<1>18. CASE UNCHANGED vars
  BY <1>18 DEF vars, TypeOK
<1> QED
  BY <1>1, <1>2, <1>3, <1>4, <1>5, <1>6, <1>7, <1>8, <1>9, <1>10, <1>11, <1>12, <1>13,
     <1>14, <1>15, <1>16, <1>17, <1>18
  DEF Next, Program, Memory

\* Every field has its type in every reachable state, and freed memory, like the
\* fields that an object's own struct does not have, holds nothing.
THEOREM TypesHold == Spec => []TypeOK
<1>1. Spec => []Types
  BY InitTypes, NextTypes, PTL DEF Spec
<1>2. Types => TypeOK
  BY DEF Types
<1> QED
  BY <1>1, <1>2, PTL

----------------------------------------------------------------------------
(***************************************************************************)
(* What is allocated, and the list that goes through it.                   *)
(***************************************************************************)

\* Addresses are handed out in order.
SerialOK == \A o \in Allocated(heap) : o <= serial

LEMMA FreeObjectFrees ==
  ASSUME TypeOK, NEW o \in Obj, FreeObject(o)
  PROVE  /\ Allocated(heap)' = Allocated(heap) \ {o}
         /\ \A p \in Obj \ {o} : heap'[p] = heap[p]
BY DEF TypeOK, FreeObject, Allocated, Freed, Blank

LEMMA LinkKeepsAllocated ==
  ASSUME TypeOK, NEW o \in Live, NEW p \in Held, Link(o, p)
  PROVE  Allocated(heap)' = Allocated(heap)
<1>1. o \in Obj /\ p \in Obj
  BY LiveIsClosed
<1>2. PICK linked \in Linked(o, p) : heap' = [heap EXCEPT ![o] = linked]
  BY DEF Link
<1>3. linked.type = heap[o].type
  BY <1>1, LinkedIsObject
<1> QED
  BY <1>1, <1>2, <1>3 DEF TypeOK, Allocated

LEMMA AllocateObjectAllocates ==
  ASSUME Types, AllocateObject
  PROVE  /\ request.object = serial + 1
         /\ request.object \in Obj
         /\ Allocated(heap)' = Allocated(heap) \cup {request.object}
         /\ \A p \in Obj \ {request.object} : heap'[p] = heap[p]
         /\ Pointers(heap'[request.object]) \subseteq Functions
<1>1. request.type \in ObjType /\ request.object = serial + 1 /\ request.object \in Obj
  BY DEF AllocateObject, Types, RequestOK, TypeOK, Request
<1>2. PICK new \in Constructed(request.type) : heap' = [heap EXCEPT ![request.object] = new]
  BY DEF AllocateObject
<1>3. new.type = request.type /\ Pointers(new) \subseteq Functions
  BY <1>1, ConstructedIsObject DEF Types
<1> QED
  BY <1>1, <1>2, <1>3 DEF Types, TypeOK, Allocated, ObjType

LEMMA AddressesAreNumbers ==
  /\ Ref \subseteq Nat
  /\ Obj \subseteq Nat \ {0}
  /\ None = 0
BY CollectorAssumption DEF Ref

\* The actions that change what is allocated or how it is chained.
LEMMA HeapChanges ==
  ASSUME [Next]_vars
  PROVE  \/ UNCHANGED memory
         \/ UNCHANGED <<heap, serial, list>>
         \/ \E o \in Live, p \in Held : Link(o, p)
         \/ AllocateObject
         \/ SweepFree
         \/ FreeNext
<1> USE DEF memory, list
<1>1. CASE UNCHANGED vars
  BY <1>1 DEF vars
<1>2. CASE Program
  BY <1>2 DEF Program, Root, Unroot, RequestObject, RequestGrowth, Reallocate, FreeVM
<1>3. CASE Memory
  BY <1>3 DEF Memory, MarkRoots, BlackenObject, TraceDone, TableRemoveWhite, SweepKeep, SweepDone,
              GrowArray, FreeDone
<1> QED
  BY <1>1, <1>2, <1>3 DEF Next

LEMMA NextSerialOK == Types /\ SerialOK /\ [Next]_vars => SerialOK'
<1> SUFFICES ASSUME Types, SerialOK, [Next]_vars PROVE SerialOK'
  OBVIOUS
<1>1. CASE UNCHANGED memory \/ UNCHANGED <<heap, serial, list>>
  BY <1>1 DEF SerialOK, memory, list
<1>2. ASSUME NEW o \in Live, NEW p \in Held, Link(o, p) PROVE SerialOK'
  BY <1>2, LinkKeepsAllocated DEF Types, SerialOK, Link, list
<1>3. CASE AllocateObject
  <2>1. serial' = serial + 1 /\ serial \in Nat
    BY <1>3, AllocateObjectAllocates DEF AllocateObject, Types, TypeOK
  <2>2. Allocated(heap) \subseteq Nat
    BY CollectorAssumption DEF Allocated
  <2> QED
    BY <1>3, <2>1, <2>2, AllocateObjectAllocates DEF SerialOK
<1>4. CASE SweepFree \/ FreeNext
  <2>1. object \in Obj /\ FreeObject(object) /\ serial' = serial
    BY <1>4 DEF SweepFree, FreeNext, list, Types, TypeOK, Ref
  <2> QED
    BY <2>1, FreeObjectFrees DEF Types, SerialOK
<1> QED
  BY <1>1, <1>2, <1>3, <1>4, HeapChanges

\* Where sweep() stands: between the last survivor and the rest of the list.
SweepOK ==
  phase = "sweep" =>
    /\ object \in Allocated(heap) \cup {None}
    /\ previous \in Allocated(heap) \cup {None}
    /\ object = IF previous = None THEN objects ELSE next[previous]
    /\ \A o \in marked : o \in Allocated(heap) /\ o <= object

Structure == Types /\ SerialOK /\ ListThreadsHeap /\ SweepOK

LEMMA NextListThreadsHeap == Structure /\ [Next]_vars => ListThreadsHeap'
<1> SUFFICES ASSUME Structure, [Next]_vars, phase' \notin {"freeObjects", "exited"}
             PROVE  /\ Below(serial + 1, objects)'
                    /\ \A o \in Allocated(heap)' : Below(o, next[o])'
  BY DEF ListThreadsHeap
<1> USE DEF Structure
<1>1. /\ Below(serial + 1, objects)
      /\ \A o \in Allocated(heap) : Below(o, next[o])
  <2>1. phase \notin {"freeObjects", "exited"}
    <3>1. CASE UNCHANGED vars
      BY <3>1 DEF vars
    <3>2. CASE Program
      BY <3>2 DEF Program, Root, Unroot, Link, RequestObject, RequestGrowth, Reallocate, FreeVM
    <3>3. CASE Memory
      BY <3>3 DEF Memory, MarkRoots, BlackenObject, TraceDone, TableRemoveWhite, SweepKeep,
                  SweepFree, SweepDone, AllocateObject, GrowArray, FreeNext, FreeDone
    <3> QED
      BY <3>1, <3>2, <3>3 DEF Next
  <2> QED
    BY <2>1 DEF ListThreadsHeap
<1>2. Allocated(heap) \subseteq Nat \ {0} /\ None = 0 /\ serial \in Nat /\ objects \in Nat
  BY CollectorAssumption DEF Allocated, Types, TypeOK, Ref
<1>3. CASE UNCHANGED memory \/ UNCHANGED <<heap, serial, list>>
  BY <1>1, <1>3 DEF Below, memory, list
<1>4. ASSUME NEW o \in Live, NEW p \in Held, Link(o, p)
      PROVE  /\ Below(serial + 1, objects)'
             /\ \A q \in Allocated(heap)' : Below(q, next[q])'
  BY <1>1, <1>4, LinkKeepsAllocated DEF Types, Below, Link, list
<1>5. CASE AllocateObject
  <2>1. PICK new \in Obj :
          /\ new = serial + 1
          /\ Allocated(heap)' = Allocated(heap) \cup {new}
          /\ serial' = new
          /\ objects' = new
          /\ next' = [next EXCEPT ![new] = objects]
    BY <1>5, AllocateObjectAllocates DEF AllocateObject
  <2>2. Below(serial + 1, objects)'
    BY <1>2, <2>1 DEF Below, SerialOK
  <2>3. Below(new, next[new])'
    BY <1>1, <1>2, <2>1 DEF Below, Types, TypeOK
  <2>4. ASSUME NEW o \in Allocated(heap) PROVE Below(o, next[o])'
    <3>1. o < new /\ next'[o] = next[o]
      BY <1>2, <2>1 DEF SerialOK, Types, TypeOK, Allocated
    <3>2. Below(o, next[o])
      BY <1>1
    <3> QED
      BY <1>2, <2>1, <3>1, <3>2 DEF Below
  <2> QED
    BY <2>1, <2>2, <2>3, <2>4
<1>6. CASE SweepFree
  <2>1. PICK freed \in Obj, after \in Nat :
          /\ freed = object
          /\ after = next[object]
          /\ freed \in Allocated(heap)
          /\ previous \in Allocated(heap) \cup {None}
          /\ freed = IF previous = None THEN objects ELSE next[previous]
    <3>1. /\ object \in Allocated(heap)
          /\ previous \in Allocated(heap) \cup {None}
          /\ object = IF previous = None THEN objects ELSE next[previous]
      BY <1>6 DEF SweepFree, SweepOK
    <3>2. object \in Obj
      BY <3>1 DEF Allocated
    <3>3. next[object] \in Ref
      BY <3>2 DEF Types, TypeOK
    <3>4. next[object] \in Nat
      BY <3>3, AddressesAreNumbers
    <3> QED
      BY <3>1, <3>2, <3>4
  <2>2. /\ Allocated(heap)' = Allocated(heap) \ {freed}
        /\ serial' = serial
    BY <1>6, <2>1, FreeObjectFrees DEF SweepFree, Types
  <2>3. Below(freed, after)
    BY <1>1, <2>1
  \* What was just above the freed object is now just above its successor.
  <2>4. ASSUME NEW a \in Nat, Below(a, freed) PROVE Below(a, after)'
    BY <1>2, <2>1, <2>2, <2>3, <2>4 DEF Below
  <2>5. ASSUME NEW a \in Nat, NEW p, Below(a, p), p # freed PROVE Below(a, p)'
    BY <1>2, <2>2, <2>5 DEF Below
  <2>6. Below(serial + 1, objects)'
    <3>1. PICK top \in Nat : top = serial + 1 /\ serial' + 1 = top
      BY <1>2, <2>2
    <3>2. CASE previous = None
      <4>1. objects' = after /\ Below(top, freed)
        BY <1>1, <1>6, <2>1, <3>1, <3>2 DEF SweepFree
      <4>2. Below(top, after)'
        BY <2>4, <4>1
      <4> QED
        BY <3>1, <4>1, <4>2
    <3>3. CASE previous # None
      <4>1. PICK head : head = objects /\ objects' = head
        BY <1>6, <3>3 DEF SweepFree
      <4>2. head # freed
        BY <1>1, <1>2, <2>1, <3>3, <4>1 DEF Below, SerialOK
      <4>3. Below(top, head)'
        BY <1>1, <2>5, <3>1, <4>1, <4>2
      <4> QED
        BY <3>1, <4>1, <4>3
    <3> QED
      BY <3>2, <3>3
  <2>7. ASSUME NEW o \in Allocated(heap)' PROVE Below(o, next[o])'
    <3>1. o \in Allocated(heap) \ {freed} /\ o \in Nat /\ Below(o, next[o])
      BY <1>1, <1>2, <2>2
    <3>2. CASE previous # None /\ o = previous
      <4>1. next'[o] = after /\ Below(o, freed)
        BY <1>6, <2>1, <3>1, <3>2 DEF SweepFree, Types, TypeOK, Allocated
      <4>2. Below(o, after)'
        BY <2>4, <3>1, <4>1
      <4> QED
        BY <4>1, <4>2
    <3>3. CASE previous = None \/ o # previous
      <4>1. PICK n : n = next[o] /\ next'[o] = n
        BY <1>6, <3>1, <3>3 DEF SweepFree, Types, TypeOK, Allocated
      <4>2. n # freed
        BY <1>1, <1>2, <2>1, <3>1, <3>3, <4>1 DEF Below, SerialOK
      <4>3. Below(o, n)'
        BY <2>5, <3>1, <4>1, <4>2
      <4> QED
        BY <4>1, <4>3
    <3> QED
      BY <3>2, <3>3
  <2> QED
    BY <2>6, <2>7
<1>7. CASE FreeNext
  BY <1>7 DEF FreeNext
<1> QED
  BY <1>3, <1>4, <1>5, <1>6, <1>7, HeapChanges

----------------------------------------------------------------------------
(***************************************************************************)
(* What is marked, and what is kept.                                       *)
(***************************************************************************)

\* The gray stack is empty from the end of the trace on.
GrayOK == phase \in {"removeWhite", "sweep"} => gray = {}

Marking == MarksCleared /\ GrayOK /\ Tricolor

IInv == Structure /\ Marking /\ NoDangling

LEMMA LiveIsAllocated ==
  ASSUME TypeOK, NoDangling, phase \notin {"sweep", "freeObjects", "exited"}
  PROVE  /\ Kept = Allocated(heap)
         /\ AllRoots \cup strings \subseteq Allocated(heap)
         /\ IsClosed(heap, Allocated(heap))
         /\ Live \subseteq Allocated(heap)
         /\ Held \subseteq Allocated(heap)
         /\ Functions \subseteq Allocated(heap)
<1>1. Kept = Allocated(heap)
  BY DEF Kept, Doomed
<1>2. AllRoots \cup strings \subseteq Allocated(heap) /\ IsClosed(heap, Allocated(heap))
  BY <1>1 DEF NoDangling
<1>3. Allocated(heap) \in SUBSET Obj
  BY DEF Allocated
<1>4. Live \subseteq Allocated(heap)
  BY <1>2, <1>3, ReachableIsLeast DEF Live
<1> QED
  BY <1>1, <1>2, <1>4 DEF Held, Functions

LEMMA NextMarking == IInv /\ [Next]_vars => Marking'
<1> SUFFICES ASSUME IInv, [Next]_vars PROVE Marking'
  OBVIOUS
<1> USE DEF IInv, Structure, Types, Marking, MarksCleared, GrayOK
<1>1. CASE UNCHANGED vars
  BY <1>1 DEF vars, Tricolor, Live, AllRoots
<1>2. CASE Program
  <2>1. /\ phase = "idle" /\ UNCHANGED <<marked, gray>>
        /\ phase' \in {"idle", "markRoots", "allocate", "freeObjects"}
        /\ phase' = "markRoots" => rootsDone' = 0
    BY <1>2 DEF Program, Root, Unroot, Link, RequestObject, RequestGrowth, Reallocate, FreeVM,
                collection, marking
  <2> QED
    BY <2>1 DEF Tricolor
<1>3. CASE MarkRoots
  <2> DEFINE S == roots[RootOrder[rootsDone + 1]]
  <2>1. /\ phase = "markRoots" /\ phase' \in {"markRoots", "trace"}
        /\ rootsDone \in 0..4 /\ rootsDone' = rootsDone + 1
        /\ marked' = marked \cup S
        /\ gray' = gray \cup (S \ marked)
        /\ UNCHANGED <<heap, roots>>
    BY <1>3, RootOrderInKind DEF MarkRoots, Mark, TypeOK, RootsDoneOK, memory, references
  <2>2. RootOrder[rootsDone + 1] \in RootKind
    BY <2>1, RootOrderInKind
  <2>3. S \subseteq Live
    BY <2>2, LiveIsClosed DEF AllRoots
  <2>4. Live' = Live
    BY <2>1 DEF Live, AllRoots
  <2>5. \A i \in 1..rootsDone' : roots'[RootOrder[i]] \subseteq marked'
    <3> SUFFICES ASSUME NEW i \in 1..rootsDone' PROVE roots[RootOrder[i]] \subseteq marked'
      BY <2>1
    <3>1. CASE i = rootsDone + 1
      BY <2>1, <3>1
    <3>2. CASE i \in 1..rootsDone
      BY <2>1, <3>2 DEF Tricolor
    <3> QED
      BY <2>1, <3>1, <3>2
  <2> QED
    BY <2>1, <2>3, <2>4, <2>5 DEF Tricolor
<1>4. CASE BlackenObject
  <2>1. PICK o \in gray : /\ marked' = marked \cup Blackened(heap[o])
                          /\ gray' = (gray \ {o}) \cup (Blackened(heap[o]) \ marked)
    BY <1>4 DEF BlackenObject
  <2>2. phase = "trace" /\ UNCHANGED <<phase, rootsDone, heap, roots>>
    BY <1>4 DEF BlackenObject, memory, references
  <2>3. o \in Obj /\ o \in marked /\ o \in Live
    BY <2>2 DEF TypeOK, Tricolor
  <2>4. Blackened(heap[o]) = Pointers(heap[o])
    BY <2>3, BlackenedIsPointers DEF TypeOK
  <2>5. Pointers(heap[o]) \subseteq Live
    BY <2>3, LiveIsClosed DEF IsClosed
  <2>6. Live' = Live
    BY <2>2 DEF Live, AllRoots
  <2>7. \A x \in marked' \ gray' : Pointers(heap'[x]) \subseteq marked'
    BY <2>1, <2>2, <2>4 DEF Tricolor
  <2> QED
    BY <2>1, <2>2, <2>4, <2>5, <2>6, <2>7 DEF Tricolor
<1>5. CASE TraceDone
  BY <1>5 DEF TraceDone, Tricolor, Live, AllRoots, memory, references, marking
<1>6. CASE TableRemoveWhite \/ SweepKeep \/ SweepFree
  BY <1>6 DEF TableRemoveWhite, SweepKeep, SweepFree, Tricolor, marking
<1>7. CASE SweepDone
  <2>1. marked = {}
    <3> SUFFICES ASSUME NEW o \in marked PROVE FALSE
      OBVIOUS
    <3>1. o \in Obj /\ o <= None
      BY <1>7 DEF SweepDone, SweepOK, Allocated
    <3> QED
      BY <3>1, AddressesAreNumbers
  <2> QED
    BY <1>7, <2>1 DEF SweepDone, Tricolor, marking
<1>8. CASE AllocateObject \/ GrowArray \/ FreeNext \/ FreeDone
  BY <1>8 DEF AllocateObject, GrowArray, FreeNext, FreeDone, Tricolor, marking
<1> QED
  BY <1>1, <1>2, <1>3, <1>4, <1>5, <1>6, <1>7, <1>8 DEF Next, Memory

\* When the trace is done, what is marked is what is reachable.
LEMMA MarkedIsLive ==
  ASSUME IInv, phase = "removeWhite"
  PROVE  /\ marked = Live
         /\ AllRoots \subseteq marked
         /\ marked \subseteq Allocated(heap)
         /\ IsClosed(heap, marked)
<1> USE DEF IInv, Structure, Types, Marking
<1>1. IsClosed(heap, marked)
  BY DEF GrayOK, Tricolor, IsClosed
<1>2. AllRoots \subseteq marked
  <2> SUFFICES ASSUME NEW kind \in RootKind PROVE roots[kind] \subseteq marked
    BY DEF AllRoots
  <2>1. PICK i \in 1..5 : RootOrder[i] = kind
    BY RootOrderInKind
  <2> QED
    BY <2>1, RootOrderInKind DEF RootsDoneOK, Tricolor
<1>3. marked \in SUBSET Obj
  BY DEF TypeOK
<1>4. Live \subseteq marked
  BY <1>1, <1>2, <1>3, ReachableIsLeast DEF Live
<1>5. marked \subseteq Live
  BY DEF Tricolor
<1> QED
  BY <1>1, <1>2, <1>4, <1>5, LiveIsAllocated

LEMMA NextSweepOK == IInv /\ [Next]_vars => SweepOK'
<1> SUFFICES ASSUME IInv, [Next]_vars, phase' = "sweep"
             PROVE  SweepOK'
  BY DEF SweepOK
<1> USE DEF IInv, Structure, Types
<1>1. CASE UNCHANGED vars
  BY <1>1 DEF vars, SweepOK
<1>2. CASE TableRemoveWhite
  <2>1. /\ phase = "removeWhite" /\ object' = objects /\ previous' = None
        /\ UNCHANGED <<heap, objects, marked>>
    BY <1>2 DEF TableRemoveWhite, memory, list, marking
  <2>2. objects \in Allocated(heap) \cup {None}
        /\ \A o \in Allocated(heap) : ~ (objects < o /\ o < serial + 1)
    BY <2>1 DEF ListThreadsHeap, Below
  <2>3. ASSUME NEW o \in marked PROVE o \in Allocated(heap) /\ o <= objects
    <3>1. o \in Allocated(heap) /\ o <= serial
      BY <2>1, MarkedIsLive DEF SerialOK
    <3>2. o \in Nat /\ objects \in Nat /\ serial \in Nat
      BY <3>1, AddressesAreNumbers DEF Allocated, TypeOK
    <3> QED
      BY <2>2, <3>1, <3>2
  <2> QED
    BY <2>1, <2>2, <2>3 DEF SweepOK
<1>3. ASSUME phase = "sweep", object \in Obj, object' = next[object]
      PROVE  /\ object' \in Allocated(heap) \cup {None}
             /\ object' # object
             /\ object \in Allocated(heap)
             /\ \A o \in marked \ {object} : o \in Allocated(heap) /\ o <= object'
  <2>1. object \in Allocated(heap) /\ Below(object, object')
    BY <1>3, AddressesAreNumbers DEF SweepOK, ListThreadsHeap
  <2>2. ASSUME NEW o \in marked \ {object} PROVE o \in Allocated(heap) /\ o <= object'
    <3>1. o \in Allocated(heap) /\ o <= object
      BY <1>3 DEF SweepOK
    <3>2. o \in Obj /\ object \in Obj /\ object' \in Ref
      BY <1>3, <2>1, <3>1 DEF Allocated, Below, Ref
    <3>3. o \in Nat /\ object \in Nat /\ object' \in Nat
      BY <3>2, AddressesAreNumbers
    <3> QED
      BY <2>1, <3>1, <3>3 DEF Below
  <2>3. object' # object
    BY <2>1, AddressesAreNumbers DEF Below, Allocated
  <2> QED
    BY <2>1, <2>2, <2>3 DEF Below
<1>4. CASE SweepKeep
  <2>1. /\ phase = "sweep" /\ object \in Obj /\ object' = next[object]
        /\ previous' = object /\ marked' = marked \ {object}
        /\ UNCHANGED <<heap, next, objects>>
    BY <1>4 DEF SweepKeep, TypeOK, memory, list
  <2>2. previous' # None
    BY <2>1, NoneAssumption
  <2> QED
    BY <1>3, <2>1, <2>2 DEF SweepOK
<1>5. CASE SweepFree
  <2>1. /\ phase = "sweep" /\ object \in Obj /\ object' = next[object]
        /\ object \notin marked /\ FreeObject(object)
        /\ UNCHANGED <<previous, marked>>
    BY <1>5 DEF SweepFree, TypeOK, Ref, marking
  <2>2. Allocated(heap)' = Allocated(heap) \ {object}
    BY <2>1, FreeObjectFrees
  <2>3. previous \in Allocated(heap) \cup {None} /\ previous # object
    <3>1. previous \in Allocated(heap) \cup {None}
      BY <2>1 DEF SweepOK
    <3>2. CASE previous # None
      <4>1. Below(previous, object) /\ previous \in Nat
        BY <2>1, <3>1, <3>2, AddressesAreNumbers DEF SweepOK, ListThreadsHeap, Allocated
      <4> QED
        BY <3>1, <4>1 DEF Below
    <3> QED
      BY <2>1, <3>1, <3>2, NoneAssumption
  <2>4. object' = IF previous' = None THEN objects' ELSE next'[previous']
    BY <1>5, <2>1, <2>3 DEF SweepFree, TypeOK, Allocated
  <2> QED
    BY <1>3, <2>1, <2>2, <2>3, <2>4 DEF SweepOK
<1>6. CASE Program
  BY <1>6 DEF Program, Root, Unroot, Link, RequestObject, RequestGrowth, Reallocate, FreeVM,
              collection
<1>7. CASE MarkRoots \/ BlackenObject \/ TraceDone \/ SweepDone \/ AllocateObject \/ GrowArray
           \/ FreeNext \/ FreeDone
  BY <1>7 DEF MarkRoots, BlackenObject, TraceDone, SweepDone, AllocateObject, GrowArray, FreeNext,
              FreeDone
<1> QED
  BY <1>1, <1>2, <1>4, <1>5, <1>6, <1>7 DEF Next, Memory

\* A step of the sweep takes away nothing that is kept, and changes nothing in it.
LEMMA SweepKeepsKept ==
  ASSUME IInv, SweepKeep \/ SweepFree \/ SweepDone
  PROVE  /\ Kept' = Kept
         /\ Kept \subseteq Obj
         /\ \A o \in Kept : heap'[o] = heap[o]
         /\ UNCHANGED <<roots, strings>>
<1> USE DEF IInv, Structure, Types
<1>1. Kept \subseteq Obj
  BY DEF Kept, Allocated
<1>2. ASSUME phase = "sweep", object \in Obj, object' = next[object],
             NEW o \in Allocated(heap), o # object
      PROVE  o <= object <=> o <= object'
  <2>1. Below(object, object')
    BY <1>2, AddressesAreNumbers DEF SweepOK, ListThreadsHeap
  <2>2. object' \in Ref
    BY <2>1 DEF Below, Ref, Allocated
  <2>3. o \in Nat /\ object \in Nat /\ object' \in Nat
    BY <1>2, <2>2, AddressesAreNumbers DEF Allocated
  <2> QED
    BY <1>2, <2>1, <2>3 DEF Below
<1>3. CASE SweepKeep
  <2>1. /\ phase = "sweep" /\ phase' = "sweep" /\ object \in Obj /\ object' = next[object]
        /\ object \in marked /\ marked' = marked \ {object}
        /\ UNCHANGED <<heap, roots, strings>>
    BY <1>3 DEF SweepKeep, TypeOK, memory, references
  <2>2. Below(object, object') /\ object \in Nat
    BY <2>1, AddressesAreNumbers DEF SweepOK, ListThreadsHeap
  <2>3. ~ (object <= object')
    BY <2>2, AddressesAreNumbers DEF Below, Allocated
  <2>4. Kept' = Kept
    BY <1>2, <2>1, <2>3 DEF Kept, Doomed
  <2> QED
    BY <1>1, <2>1, <2>4
<1>4. CASE SweepFree
  <2>1. /\ phase = "sweep" /\ phase' = "sweep" /\ object \in Obj /\ object' = next[object]
        /\ object \notin marked /\ FreeObject(object)
        /\ UNCHANGED <<roots, strings, marked>>
    BY <1>4 DEF SweepFree, TypeOK, Ref, references, marking
  <2>2. /\ Allocated(heap)' = Allocated(heap) \ {object}
        /\ \A o \in Obj \ {object} : heap'[o] = heap[o]
    BY <2>1, FreeObjectFrees
  <2>3. object \in Nat
    BY <2>1, AddressesAreNumbers
  <2>4. object \notin Kept
    BY <2>1, <2>3 DEF Kept, Doomed
  <2>5. Kept' = Kept
    BY <1>2, <2>1, <2>2, <2>4 DEF Kept, Doomed
  <2> QED
    BY <1>1, <2>1, <2>2, <2>4, <2>5
<1>5. CASE SweepDone
  <2>1. ASSUME NEW o \in Allocated(heap) PROVE ~ (o <= object)
    <3>1. o \in Obj /\ object = None
      BY <1>5 DEF SweepDone, Allocated
    <3> QED
      BY <3>1, AddressesAreNumbers
  <2>2. /\ phase = "sweep" /\ phase' = "allocate"
        /\ UNCHANGED <<heap, roots, strings>>
    BY <1>5 DEF SweepDone, memory, references
  <2>3. Doomed = {} /\ Doomed' = {}
    BY <2>1, <2>2 DEF Doomed
  <2> QED
    BY <1>1, <2>2, <2>3 DEF Kept
<1> QED
  BY <1>3, <1>4, <1>5

LEMMA TableRemoveWhiteKeepsMarked ==
  ASSUME IInv, TableRemoveWhite
  PROVE  Kept' = marked
<1> USE DEF IInv, Structure, Types
<1>1. /\ phase = "removeWhite" /\ phase' = "sweep" /\ object' = objects
      /\ UNCHANGED <<heap, objects, marked>>
  BY DEF TableRemoveWhite, memory, list, marking
<1>2. ASSUME NEW o \in Allocated(heap) PROVE o <= objects
  <2>1. ~ (objects < o /\ o < serial + 1) /\ o <= serial
    BY <1>1 DEF ListThreadsHeap, Below, SerialOK
  <2>2. o \in Nat /\ objects \in Nat /\ serial \in Nat
    BY AddressesAreNumbers DEF Allocated, TypeOK
  <2> QED
    BY <2>1, <2>2
<1> QED
  BY <1>1, <1>2, MarkedIsLive DEF Kept, Doomed

LEMMA NextNoDangling == IInv /\ [Next]_vars => NoDangling'
<1> SUFFICES ASSUME IInv, [Next]_vars, phase' \notin {"freeObjects", "exited"}
             PROVE  AllRoots' \cup strings' \subseteq Kept' /\ IsClosed(heap', Kept')
  BY DEF NoDangling
<1> DEFINE Goal == AllRoots' \cup strings' \subseteq Kept' /\ IsClosed(heap', Kept')
<1> USE DEF IInv, Structure, Types
\* No sweep: everything that is allocated is kept.
<1>1. ASSUME phase' # "sweep", phase \notin {"sweep", "freeObjects", "exited"},
             AllRoots' \cup strings' \subseteq Allocated(heap)',
             \A o \in Allocated(heap)' : Pointers(heap'[o]) \subseteq Allocated(heap)'
      PROVE  Goal
  <2>1. Kept' = Allocated(heap)'
    BY <1>1 DEF Kept, Doomed
  <2> QED
    BY <1>1, <2>1 DEF IsClosed
<1>2. ASSUME phase' # "sweep", phase \notin {"sweep", "freeObjects", "exited"},
             UNCHANGED <<heap, roots, strings>>
      PROVE  Goal
  BY <1>1, <1>2, LiveIsAllocated DEF AllRoots, IsClosed
<1>3. ASSUME NEW o \in Held, NEW kind \in RootKind, Root(kind, o) PROVE Goal
  <2>1. /\ phase = "idle" /\ phase' = "idle" /\ UNCHANGED <<heap, strings>>
        /\ roots' = [roots EXCEPT ![kind] = @ \cup {o}]
    BY <1>3 DEF Root, collection, memory
  <2>2. AllRoots' \subseteq AllRoots \cup {o}
    BY <2>1 DEF AllRoots, TypeOK
  <2> QED
    BY <1>1, <2>1, <2>2, LiveIsAllocated DEF IsClosed
<1>4. ASSUME NEW kind \in RootKind, NEW o \in roots[kind], Unroot(kind, o) PROVE Goal
  <2>1. /\ phase = "idle" /\ phase' = "idle" /\ UNCHANGED <<heap, strings>>
        /\ roots' = [roots EXCEPT ![kind] = @ \ {o}]
    BY <1>4 DEF Unroot, collection, memory
  <2>2. AllRoots' \subseteq AllRoots
    BY <2>1 DEF AllRoots, TypeOK
  <2> QED
    BY <1>1, <2>1, <2>2, LiveIsAllocated DEF IsClosed
<1>5. ASSUME NEW o \in Live, NEW p \in Held, Link(o, p) PROVE Goal
  <2>1. phase = "idle" /\ phase' = "idle" /\ UNCHANGED <<roots, strings>>
    BY <1>5 DEF Link, collection, references
  <2>2. PICK linked \in Linked(o, p) : heap' = [heap EXCEPT ![o] = linked]
    BY <1>5 DEF Link
  <2>3. o \in Obj /\ p \in Allocated(heap) /\ o \in Allocated(heap)
    BY <2>1, LiveIsClosed, LiveIsAllocated
  <2>4. Pointers(linked) \subseteq Pointers(heap[o]) \cup {p}
    BY <2>3, LinkedIsObject DEF Allocated
  <2>5. Allocated(heap)' = Allocated(heap)
    BY <1>5, LinkKeepsAllocated
  <2>6. \A q \in Allocated(heap)' : Pointers(heap'[q]) \subseteq Allocated(heap)'
    BY <2>1, <2>2, <2>3, <2>4, <2>5, LiveIsAllocated DEF IsClosed, TypeOK, Allocated
  <2> QED
    BY <1>1, <2>1, <2>5, <2>6, LiveIsAllocated DEF AllRoots
<1>6. ASSUME NEW type \in ObjType, RequestObject(type) PROVE Goal
  BY <1>2, <1>6 DEF RequestObject, Reallocate, memory, references
<1>7. ASSUME NEW o \in Functions \cup {None}, RequestGrowth(o) PROVE Goal
  BY <1>2, <1>7 DEF RequestGrowth, Reallocate, memory, references
<1>8. CASE FreeVM
  BY <1>8 DEF FreeVM
<1>9. CASE MarkRoots
  BY <1>2, <1>9 DEF MarkRoots, memory, references
<1>10. CASE BlackenObject
  BY <1>2, <1>10 DEF BlackenObject, memory, references
<1>11. CASE TraceDone
  BY <1>2, <1>11 DEF TraceDone, memory, references
<1>12. CASE TableRemoveWhite
  <2>1. /\ phase = "removeWhite" /\ phase' = "sweep" /\ object' = objects
        /\ strings' = strings \cap marked
        /\ UNCHANGED <<heap, objects, marked, roots>>
    BY <1>12 DEF TableRemoveWhite, memory, list, marking
  <2> QED
    BY <1>12, <2>1, TableRemoveWhiteKeepsMarked, MarkedIsLive DEF AllRoots
<1>13. CASE SweepKeep \/ SweepFree \/ SweepDone
  BY <1>13, SweepKeepsKept DEF SweepKeep, SweepFree, SweepDone, NoDangling, AllRoots, IsClosed
<1>14. CASE AllocateObject
  <2>1. PICK new \in Obj :
          /\ new = request.object
          /\ Allocated(heap)' = Allocated(heap) \cup {new}
          /\ \A p \in Obj \ {new} : heap'[p] = heap[p]
          /\ Pointers(heap'[new]) \subseteq Functions
    BY <1>14, AllocateObjectAllocates
  <2>2. /\ phase = "allocate" /\ phase' = "idle"
        /\ strings' \subseteq strings \cup {new}
        /\ AllRoots' \subseteq AllRoots \cup {new}
    BY <1>14, <2>1 DEF AllocateObject, AllRoots, TypeOK
  <2>3. \A q \in Allocated(heap)' : Pointers(heap'[q]) \subseteq Allocated(heap)'
    BY <2>1, <2>2, LiveIsAllocated DEF IsClosed, Allocated
  <2> QED
    BY <1>1, <2>1, <2>2, <2>3, LiveIsAllocated
<1>15. CASE GrowArray
  BY <1>2, <1>15 DEF GrowArray, list, references
<1>16. CASE FreeNext \/ FreeDone
  BY <1>16 DEF FreeNext, FreeDone
<1>17. CASE UNCHANGED vars
  BY <1>17 DEF vars, NoDangling, Kept, Doomed, AllRoots
<1> QED
  BY <1>3, <1>4, <1>5, <1>6, <1>7, <1>8, <1>9, <1>10, <1>11, <1>12, <1>13, <1>14,
     <1>15, <1>16, <1>17
  DEF Next, Program, Memory

LEMMA InitIInv == Init => IInv
<1> SUFFICES ASSUME Init PROVE IInv
  OBVIOUS
<1>1. Types
  BY InitTypes
<1>2. Allocated(heap) = {} /\ AllRoots = {}
  BY DEF Init, Allocated, Freed, Blank, AllRoots
<1>3. ListThreadsHeap
  <2>1. objects = None /\ serial = 0 /\ None < serial + 1
    BY AddressesAreNumbers DEF Init
  <2> QED
    BY <1>2, <2>1 DEF ListThreadsHeap, Below
<1>4. NoDangling
  BY <1>2 DEF Init, NoDangling, Kept, Doomed, IsClosed
<1>5. SerialOK /\ SweepOK /\ Marking
  BY <1>2 DEF Init, SerialOK, SweepOK, Marking, MarksCleared, GrayOK, Tricolor
<1> QED
  BY <1>1, <1>3, <1>4, <1>5 DEF IInv, Structure

LEMMA NextIInv == IInv /\ [Next]_vars => IInv'
BY NextTypes, NextSerialOK, NextListThreadsHeap, NextSweepOK, NextMarking, NextNoDangling
DEF IInv, Structure

\* The inductive invariant holds in every reachable state.
THEOREM Inductive == Spec => []IInv
BY InitIInv, NextIInv, PTL DEF Spec

\* At no point of any collection is there a reference to memory that has been
\* freed or is about to be.
THEOREM NothingDangles == Spec => []NoDangling
<1>1. IInv => NoDangling
  BY DEF IInv
<1> QED
  BY <1>1, Inductive, PTL

\* Marking goes no further than what is reachable and leaves no black object
\* pointing to a white one.
THEOREM MarkingIsTricolor == Spec => []Tricolor
<1>1. IInv => Tricolor
  BY DEF IInv, Marking
<1> QED
  BY <1>1, Inductive, PTL

\* The list of all objects never loses one, also while sweep() unlinks from it.
THEOREM ListIsComplete == Spec => []ListThreadsHeap
<1>1. IInv => ListThreadsHeap
  BY DEF IInv, Structure
<1> QED
  BY <1>1, Inductive, PTL

\* Every collection starts with all marks clear.
THEOREM MarksAreCleared == Spec => []MarksCleared
<1>1. IInv => MarksCleared
  BY DEF IInv, Marking
<1> QED
  BY <1>1, Inductive, PTL

----------------------------------------------------------------------------
(***************************************************************************)
(* The count of bytes, and what freeVM() has still to free.                *)
(***************************************************************************)

\* There is a request only while reallocate() serves it.
RequestServed == phase \in {"idle", "freeObjects", "exited"} => request = NoRequest

\* Memory that holds no object takes no bytes.
FreedTakesNone == \A o \in Obj \ Allocated(heap) : size[o] = 0

\* The function whose array is about to grow survives the collection that the growth
\* brings about.
GrowingSurvives ==
  request.type = "free" /\ request.object # None =>
    /\ phase \in {"markRoots", "trace", "removeWhite"} => request.object \in Live
    /\ phase \in {"sweep", "allocate"} => request.object \in Kept

\* freeObjects() has every object before it that is still allocated.
FreeingOK ==
  /\ phase = "freeObjects" =>
       /\ object \in Allocated(heap) \cup {None}
       /\ \A o \in Allocated(heap) : o <= object /\ Below(o, next[o])
  /\ phase = "exited" => Allocated(heap) = {}
  /\ phase \in {"freeObjects", "exited"} => size[None] = 0

Ledger ==
  RequestServed /\ FreedTakesNone /\ GrowingSurvives /\ FreeingOK /\ Accounting /\ HeapBound

\* The steps that neither allocate nor free.
LEMMA QuietSteps ==
  ASSUME [Next]_vars
  PROVE  \/ UNCHANGED <<heap, size, serial, list, request, accounting>>
         \/ \E o \in Live, p \in Held : Link(o, p)
         \/ \E type \in ObjType : RequestObject(type)
         \/ \E o \in Functions \cup {None} : RequestGrowth(o)
         \/ FreeVM
         \/ SweepFree
         \/ SweepDone
         \/ AllocateObject
         \/ GrowArray
         \/ FreeNext
<1> USE DEF memory, list, collection, accounting
<1>1. CASE UNCHANGED vars
  BY <1>1 DEF vars
<1>2. CASE Program
  BY <1>2 DEF Program, Root, Unroot
<1>3. CASE Memory
  BY <1>3 DEF Memory, MarkRoots, BlackenObject, TraceDone, TableRemoveWhite, SweepKeep, FreeDone
<1> QED
  BY <1>1, <1>2, <1>3 DEF Next

\* What every request looks like.
LEMMA Requested ==
  ASSUME Types, RequestServed, [Next]_vars, request' # request, phase # "allocate"
  PROVE  /\ phase = "idle"
         /\ request = NoRequest
         /\ bytesAllocated' = bytesAllocated + request'.bytes
         /\ phase' = IF StressGC \/ bytesAllocated' > nextGC THEN "markRoots" ELSE "allocate"
         /\ UNCHANGED <<heap, size, serial, list, roots, nextGC>>
         /\ \/ request'.type # "free"
            \/ request'.object \in Functions \cup {None}
<1>1. \/ \E type \in ObjType : RequestObject(type)
      \/ \E o \in Functions \cup {None} : RequestGrowth(o)
  BY QuietSteps
  DEF Link, collection, FreeVM, SweepFree, SweepDone, AllocateObject, GrowArray, FreeNext
<1>2. PICK r : Reallocate(r) /\ (r.type # "free" \/ r.object \in Functions \cup {None})
  <2>1. ASSUME NEW type \in ObjType, RequestObject(type)
        PROVE  \E r : Reallocate(r) /\ r.type # "free"
    BY <2>1 DEF RequestObject, ObjType
  <2>2. ASSUME NEW o \in Functions \cup {None}, RequestGrowth(o)
        PROVE  \E r : Reallocate(r) /\ r.object \in Functions \cup {None}
    BY <2>2 DEF RequestGrowth
  <2> QED
    BY <1>1, <2>1, <2>2
<1> QED
  BY <1>2 DEF Reallocate, RequestServed, memory, references, list

LEMMA NextRequestServed == Types /\ RequestServed /\ [Next]_vars => RequestServed'
<1> SUFFICES ASSUME Types, RequestServed, [Next]_vars, phase' \in {"idle", "freeObjects", "exited"}
             PROVE  request' = NoRequest
  BY DEF RequestServed
<1>1. CASE UNCHANGED vars
  BY <1>1 DEF vars, RequestServed
<1>2. CASE Program
  BY <1>2 DEF Program, Root, Unroot, Link, RequestObject, RequestGrowth, Reallocate, FreeVM,
              collection, RequestServed
<1>3. CASE Memory
  BY <1>3 DEF Memory, MarkRoots, BlackenObject, TraceDone, TableRemoveWhite, SweepKeep,
              SweepFree, SweepDone, AllocateObject, GrowArray, FreeNext, FreeDone, RequestServed
<1> QED
  BY <1>1, <1>2, <1>3 DEF Next

\* One entry of the sizes changes.
LEMMA SizeChanges ==
  ASSUME TypeOK, TypeOK', NEW x \in Ref, \A y \in Ref \ {x} : size'[y] = size[y]
  PROVE  /\ SumFunction(size) \in Nat
         /\ SumFunction(size)' = SumFunction(size) + (size'[x] - size[x])
         /\ size[x] \in Nat
         /\ size'[x] \in Nat
<1>1. IsFiniteSet(Ref)
  BY AddressesAreFinite, FS_AddElement DEF Ref
<1>2. size \in [Ref -> Nat] /\ size' \in [Ref -> Nat]
  BY DEF TypeOK
<1>3. size \in [Ref -> Int] /\ size' \in [Ref -> Int]
  BY <1>2
<1>4. SumFunction(size) \in Nat
  BY <1>1, <1>2, SumIsNatural
<1>5. SumFunction(size') = SumFunction(size) + (size'[x] - size[x])
  BY <1>1, <1>3, SumChanges
<1> QED
  BY <1>2, <1>4, <1>5

LEMMA FreeingIsCounted ==
  ASSUME TypeOK, TypeOK', Accounting, NEW o \in Obj, FreeObject(o), UNCHANGED request
  PROVE  Accounting'
<1>1. o \in Ref /\ size'[o] = 0 /\ \A y \in Ref \ {o} : size'[y] = size[y]
  BY DEF Ref, FreeObject, TypeOK
<1>2. SumFunction(size)' = SumFunction(size) + (size'[o] - size[o])
      /\ SumFunction(size) \in Nat /\ size[o] \in Nat
  BY <1>1, SizeChanges
<1>3. request.bytes \in Nat
  BY DEF TypeOK, Request
<1> QED
  BY <1>1, <1>2, <1>3 DEF Accounting, FreeObject

LEMMA NextAccounting ==
  IInv /\ IInv' /\ Ledger /\ [Next]_vars => Accounting'
<1> SUFFICES ASSUME IInv, IInv', Ledger, [Next]_vars  PROVE Accounting'
  OBVIOUS
<1>1. Types /\ Types' /\ TypeOK /\ TypeOK' /\ RequestServed /\ Accounting /\ FreedTakesNone
  BY DEF IInv, Structure, Types, Ledger
<1>2. request.bytes \in Nat /\ request'.bytes \in Nat /\ bytesAllocated \in Int
  BY <1>1 DEF TypeOK, Request
<1>3. SumFunction(size) \in Nat
  <2>1. None \in Ref
    BY DEF Ref
  <2>2. IsFiniteSet(Ref)
    BY AddressesAreFinite, FS_AddElement DEF Ref
  <2> QED
    BY <1>1, <2>2, SumIsNatural DEF TypeOK
<1>4. ASSUME UNCHANGED <<size, request, bytesAllocated>>  PROVE Accounting'
  BY <1>1, <1>4 DEF Accounting
<1>5. ASSUME NEW r, Reallocate(r)  PROVE Accounting'
  <2>1. request = NoRequest /\ request' = r /\ bytesAllocated' = bytesAllocated + r.bytes
        /\ size' = size
    BY <1>1, <1>5 DEF Reallocate, RequestServed, memory
  <2> QED
    BY <1>1, <1>2, <1>3, <2>1 DEF Accounting, NoRequest
<1>6. CASE AllocateObject
  <2> DEFINE o == request.object
  <2>1. o \in Obj /\ o \notin Allocated(heap)
    <3>1. o = serial + 1 /\ o \in Obj /\ serial \in Nat
      BY <1>1, <1>6, AllocateObjectAllocates DEF TypeOK
    <3>2. \A q \in Allocated(heap) : q <= serial
      BY DEF IInv, Structure, SerialOK
    <3> QED
      BY <3>1, <3>2
  <2>2. o \in Ref /\ size[o] = 0
    BY <1>1, <2>1 DEF FreedTakesNone, Ref
  <2>3. size'[o] = request.bytes /\ \A y \in Ref \ {o} : size'[y] = size[y]
    BY <1>1, <1>6, <2>2 DEF AllocateObject, TypeOK
  <2>4. SumFunction(size)' = SumFunction(size) + (size'[o] - size[o])
    BY <1>1, <2>2, <2>3, SizeChanges
  <2>5. bytesAllocated' = bytesAllocated /\ request'.bytes = 0
    BY <1>6 DEF AllocateObject, NoRequest, accounting
  <2> QED
    BY <1>1, <1>2, <1>3, <2>2, <2>3, <2>4, <2>5 DEF Accounting
<1>7. CASE GrowArray
  <2> DEFINE o == request.object
  <2>1. o \in Ref
    BY <1>1 DEF TypeOK, Request
  <2>2. size'[o] = size[o] + request.bytes /\ \A y \in Ref \ {o} : size'[y] = size[y]
    BY <1>1, <1>7, <2>1 DEF GrowArray, TypeOK
  <2>3. SumFunction(size)' = SumFunction(size) + (size'[o] - size[o]) /\ size[o] \in Nat
    BY <1>1, <2>1, <2>2, SizeChanges
  <2>4. bytesAllocated' = bytesAllocated /\ request'.bytes = 0
    BY <1>7 DEF GrowArray, NoRequest, accounting
  <2> QED
    BY <1>1, <1>2, <1>3, <2>2, <2>3, <2>4 DEF Accounting
<1>8. CASE FreeVM
  <2>1. None \in Ref /\ size'[None] = 0 /\ \A y \in Ref \ {None} : size'[y] = size[y]
    BY <1>1, <1>8 DEF FreeVM, TypeOK, Ref
  <2>2. SumFunction(size)' = SumFunction(size) + (size'[None] - size[None]) /\ size[None] \in Nat
    BY <1>1, <2>1, SizeChanges
  <2>3. bytesAllocated' = bytesAllocated - size[None] /\ request' = request
    BY <1>8 DEF FreeVM
  <2> QED
    BY <1>1, <1>2, <1>3, <2>1, <2>2, <2>3 DEF Accounting
<1>9. CASE SweepFree \/ FreeNext
  <2>1. object \in Obj /\ FreeObject(object) /\ request' = request
    BY <1>1, <1>9 DEF SweepFree, FreeNext, TypeOK, Ref
  <2> QED
    BY <1>1, <2>1, FreeingIsCounted
<1>10. CASE SweepDone
  BY <1>4, <1>10 DEF SweepDone, memory
<1>11. CASE \E o \in Live, p \in Held : Link(o, p)
  BY <1>4, <1>11 DEF Link, collection, accounting
<1>12. CASE UNCHANGED <<heap, size, serial, list, request, accounting>>
  BY <1>4, <1>12 DEF accounting
<1> QED
  BY <1>5, <1>6, <1>7, <1>8, <1>9, <1>10, <1>11, <1>12, QuietSteps DEF RequestObject, RequestGrowth

LEMMA NextFreedTakesNone ==
  IInv /\ IInv' /\ Ledger /\ [Next]_vars => FreedTakesNone'
<1> SUFFICES ASSUME IInv, IInv', Ledger, [Next]_vars, NEW o \in Obj, o \notin Allocated(heap)'
             PROVE  size'[o] = 0
  BY DEF FreedTakesNone
<1>1. Types /\ TypeOK /\ TypeOK' /\ \A q \in Obj \ Allocated(heap) : size[q] = 0
  BY DEF IInv, Structure, Types, Ledger, FreedTakesNone
<1>2. Obj \subseteq Ref /\ None \notin Obj
  BY NoneAssumption DEF Ref
<1>3. ASSUME UNCHANGED <<heap, size>>  PROVE size'[o] = 0
  BY <1>1, <1>3 DEF Allocated
<1>4. ASSUME NEW r, Reallocate(r)  PROVE size'[o] = 0
  BY <1>3, <1>4 DEF Reallocate, memory
<1>5. CASE AllocateObject
  <2>1. Allocated(heap)' = Allocated(heap) \cup {request.object} /\ request.object \in Obj
    BY <1>1, <1>5, AllocateObjectAllocates
  <2>2. size'[o] = size[o]
    BY <1>1, <1>2, <1>5, <2>1 DEF AllocateObject, TypeOK
  <2> QED
    BY <1>1, <2>1, <2>2
<1>6. CASE GrowArray
  <2>1. request.object = None \/ request.object \in Allocated(heap)
    BY <1>6 DEF GrowArray, Ledger, GrowingSurvives, Kept
  <2>2. Allocated(heap)' = Allocated(heap)
    BY <1>6 DEF GrowArray
  <2>3. o # request.object /\ size'[o] = size[o]
    BY <1>1, <1>2, <1>6, <2>1, <2>2 DEF GrowArray, TypeOK
  <2> QED
    BY <1>1, <2>2, <2>3
<1>7. CASE FreeVM
  <2>1. Allocated(heap)' = Allocated(heap) /\ size'[o] = size[o]
    BY <1>1, <1>2, <1>7 DEF FreeVM, TypeOK
  <2> QED
    BY <1>1, <2>1
<1>8. CASE SweepFree \/ FreeNext
  <2>1. object \in Obj /\ FreeObject(object)
    BY <1>1, <1>8 DEF SweepFree, FreeNext, TypeOK, Ref
  <2>2. Allocated(heap)' = Allocated(heap) \ {object}
    BY <1>1, <2>1, FreeObjectFrees
  <2>3. size'[o] = IF o = object THEN 0 ELSE size[o]
    BY <1>1, <1>2, <2>1 DEF FreeObject, TypeOK
  <2> QED
    BY <1>1, <2>2, <2>3
<1>9. CASE SweepDone
  BY <1>3, <1>9 DEF SweepDone, memory
<1>10. ASSUME NEW q \in Live, NEW p \in Held, Link(q, p)  PROVE size'[o] = 0
  <2>1. Allocated(heap)' = Allocated(heap) /\ size' = size
    BY <1>1, <1>10, LinkKeepsAllocated DEF Link
  <2> QED
    BY <1>1, <2>1
<1>11. CASE UNCHANGED <<heap, size, serial, list, request, accounting>>
  BY <1>3, <1>11
<1> QED
  BY <1>4, <1>5, <1>6, <1>7, <1>8, <1>9, <1>10, <1>11, QuietSteps
  DEF RequestObject, RequestGrowth

LEMMA NextGrowingSurvives ==
  IInv /\ IInv' /\ Ledger /\ [Next]_vars => GrowingSurvives'
<1> SUFFICES ASSUME IInv, IInv', Ledger, [Next]_vars,
                    request'.type = "free", request'.object # None
             PROVE  /\ phase' \in {"markRoots", "trace", "removeWhite"} => request'.object \in Live'
                    /\ phase' \in {"sweep", "allocate"} => request'.object \in Kept'
  BY DEF GrowingSurvives
<1>1. Types /\ TypeOK /\ NoDangling /\ RequestServed /\ GrowingSurvives
  BY DEF IInv, Structure, Types, Ledger
<1>2. CASE request' # request /\ phase # "allocate"
  <2>1. /\ phase = "idle" /\ phase' \in {"markRoots", "allocate"}
        /\ UNCHANGED <<heap, roots>>
        /\ request'.object \in Functions
    BY <1>1, <1>2, Requested
  <2>2. Live' = Live /\ request'.object \in Live
    BY <2>1 DEF Live, AllRoots, Functions
  <2>3. Allocated(heap)' = Allocated(heap) /\ request'.object \in Allocated(heap)
    BY <1>1, <2>1, LiveIsAllocated DEF Allocated
  <2>4. phase' = "allocate" => Kept' = Allocated(heap)'
    BY DEF Kept, Doomed
  <2> QED
    BY <2>1, <2>2, <2>3, <2>4
<1>3. CASE request' = request \/ phase = "allocate"
  <2>1. request' # NoRequest
    BY DEF NoRequest
  <2>2. CASE UNCHANGED vars
    BY <1>1, <2>2
    DEF vars, GrowingSurvives, Live, AllRoots, Kept, Doomed
  <2>3. CASE Program
    <3>1. phase = "idle"
      BY <2>3 DEF Program, Root, Unroot, Link, RequestObject, RequestGrowth, Reallocate, FreeVM
    <3>2. request = NoRequest
      BY <1>1, <3>1 DEF RequestServed
    <3> QED
      BY <1>3, <2>1, <3>1, <3>2
  <2>4. CASE MarkRoots \/ BlackenObject \/ TraceDone
    <3>1. /\ phase \in {"markRoots", "trace"} /\ phase' \in {"markRoots", "trace", "removeWhite"}
          /\ UNCHANGED <<heap, roots, request>>
      BY <2>4 DEF MarkRoots, BlackenObject, TraceDone, memory, references
    <3>2. Live' = Live
      BY <3>1 DEF Live, AllRoots
    <3> QED
      BY <1>1, <3>1, <3>2 DEF GrowingSurvives
  <2>5. CASE TableRemoveWhite
    <3>1. phase = "removeWhite" /\ phase' = "sweep" /\ request' = request
      BY <2>5 DEF TableRemoveWhite
    <3>2. Kept' = Live
      BY <2>5, <3>1, TableRemoveWhiteKeepsMarked, MarkedIsLive
    <3> QED
      BY <1>1, <3>1, <3>2 DEF GrowingSurvives
  <2>6. CASE SweepKeep \/ SweepFree \/ SweepDone
    <3>1. phase = "sweep" /\ phase' \in {"sweep", "allocate"} /\ request' = request
      BY <2>6 DEF SweepKeep, SweepFree, SweepDone
    <3>2. Kept' = Kept
      BY <2>6, SweepKeepsKept
    <3> QED
      BY <1>1, <3>1, <3>2 DEF GrowingSurvives
  <2>7. CASE AllocateObject \/ GrowArray
    BY <2>1, <2>7 DEF AllocateObject, GrowArray
  <2>8. CASE FreeNext \/ FreeDone
    BY <1>1, <2>1, <2>8 DEF FreeNext, FreeDone, RequestServed
  <2> QED
    BY <2>2, <2>3, <2>4, <2>5, <2>6, <2>7, <2>8 DEF Next, Memory
<1> QED
  BY <1>2, <1>3

LEMMA NextFreeingOK ==
  IInv /\ Ledger /\ [Next]_vars => FreeingOK'
<1> SUFFICES ASSUME IInv, Ledger, [Next]_vars, phase' \in {"freeObjects", "exited"}
             PROVE  FreeingOK'
  BY DEF FreeingOK
<1>1. /\ Types /\ TypeOK /\ SerialOK /\ ListThreadsHeap
      /\ FreeingOK
  BY DEF IInv, Structure, Types, Ledger
<1>2. Allocated(heap) \subseteq Nat \ {0} /\ None = 0 /\ Ref \subseteq Nat
  BY AddressesAreNumbers DEF Allocated
<1>3. CASE UNCHANGED vars
  BY <1>1, <1>3 DEF vars, FreeingOK, Below
<1>4. CASE FreeVM
  <2>1. /\ phase = "idle" /\ phase' = "freeObjects" /\ object' = objects
        /\ UNCHANGED <<heap, next, objects>>
        /\ size'[None] = 0
    BY <1>1, <1>4 DEF FreeVM, list, TypeOK, Ref
  <2>2. objects \in Allocated(heap) \cup {None}
        /\ \A q \in Allocated(heap) : ~ (objects < q /\ q < serial + 1)
        /\ \A o \in Allocated(heap) : Below(o, next[o])
    BY <1>1, <2>1 DEF ListThreadsHeap, Below
  <2>3. ASSUME NEW o \in Allocated(heap)  PROVE o <= objects
    <3>1. o \in Nat /\ objects \in Nat /\ serial \in Nat /\ o <= serial
      BY <1>1, <1>2 DEF TypeOK, SerialOK
    <3> QED
      BY <2>2, <3>1
  <2> QED
    BY <2>1, <2>2, <2>3 DEF FreeingOK, Below
<1>5. CASE FreeNext
  <2>1. /\ phase = "freeObjects" /\ phase' = "freeObjects"
        /\ object \in Obj /\ object' = next[object] /\ FreeObject(object)
        /\ next' = next
    BY <1>1, <1>5 DEF FreeNext, list, TypeOK, Ref
  <2>2. object \in Allocated(heap) /\ Below(object, next[object])
        /\ \A o \in Allocated(heap) : o <= object /\ Below(o, next[o])
    BY <1>1, <2>1, NoneAssumption DEF FreeingOK
  <2>3. Allocated(heap)' = Allocated(heap) \ {object}
    BY <1>1, <2>1, FreeObjectFrees
  <2>4. object' \in Allocated(heap)' \cup {None}
    <3>1. object' \in Allocated(heap) \cup {None} /\ object' < object
      BY <2>1, <2>2 DEF Below
    <3>2. object' # object
      BY <1>2, <2>2, <3>1
    <3> QED
      BY <2>3, <3>1, <3>2
  <2>5. ASSUME NEW o \in Allocated(heap)'  PROVE o <= object' /\ Below(o, next[o])'
    <3>1. o \in Allocated(heap) /\ o # object /\ o <= object /\ Below(o, next[o])
      BY <2>2, <2>3
    <3>2. o \in Nat /\ object \in Nat /\ object' \in Nat
      BY <1>2, <2>2, <2>3, <2>4, <3>1
    <3>3. o < object
      BY <3>1, <3>2
    <3>4. ~ (object' < o)
      BY <2>1, <2>2, <3>1, <3>3 DEF Below
    <3>5. next[o] \in Allocated(heap) \cup {None} /\ next[o] < o
      BY <3>1 DEF Below
    <3>6. next[o] \in Nat /\ next[o] # object
      BY <1>2, <3>2, <3>3, <3>5
    <3>7. Below(o, next[o])'
      BY <2>1, <2>3, <3>1, <3>5, <3>6 DEF Below
    <3> QED
      BY <3>2, <3>4, <3>7
  <2>6. size'[None] = 0
    <3>1. object # None /\ None \in Ref /\ size[None] = 0
      BY <1>1, <2>1, NoneAssumption DEF FreeingOK, Ref
    <3> QED
      BY <1>1, <2>1, <3>1 DEF FreeObject, TypeOK
  <2> QED
    BY <2>1, <2>4, <2>5, <2>6 DEF FreeingOK
<1>6. CASE FreeDone
  <2>1. phase = "freeObjects" /\ phase' = "exited" /\ object = None /\ UNCHANGED <<heap, size>>
    BY <1>6 DEF FreeDone, memory
  <2>2. ASSUME NEW o \in Allocated(heap)  PROVE FALSE
    BY <1>1, <1>2, <2>1 DEF FreeingOK
  <2>3. Allocated(heap)' = {}
    BY <2>1, <2>2
  <2> QED
    BY <1>1, <2>1, <2>3 DEF FreeingOK
<1>7. CASE Program /\ ~ FreeVM
  BY <1>7 DEF Program, Root, Unroot, Link, RequestObject, RequestGrowth, Reallocate, collection
<1>8. CASE Memory /\ ~ FreeNext /\ ~ FreeDone
  BY <1>8 DEF Memory, MarkRoots, BlackenObject, TraceDone, TableRemoveWhite, SweepKeep, SweepFree,
              SweepDone, AllocateObject, GrowArray
<1> QED
  BY <1>3, <1>4, <1>5, <1>6, <1>7, <1>8 DEF Next

LEMMA NextHeapBound ==
  IInv /\ Ledger /\ [Next]_vars => HeapBound'
<1> SUFFICES ASSUME IInv, Ledger, [Next]_vars, phase' \in {"idle", "allocate"}
             PROVE  bytesAllocated' <= nextGC'
  BY DEF HeapBound
<1>1. TypeOK /\ TypeOK' /\ HeapBound /\ Accounting
  <2>1. Types'
    BY NextTypes DEF IInv, Structure
  <2> QED
    BY <2>1 DEF IInv, Structure, Types, Ledger
<1>2. ASSUME phase \in {"idle", "allocate"}, UNCHANGED accounting
      PROVE  bytesAllocated' <= nextGC'
  BY <1>1, <1>2 DEF HeapBound, accounting
<1>3. CASE UNCHANGED vars
  BY <1>2, <1>3 DEF vars, accounting
<1>4. CASE Program
  <2>1. ASSUME NEW r, Reallocate(r)  PROVE bytesAllocated' <= nextGC'
    <3>1. ~ (bytesAllocated' > nextGC) /\ nextGC' = nextGC
      BY <2>1 DEF Reallocate
    <3>2. bytesAllocated' \in Int /\ nextGC \in Int
      BY <1>1 DEF TypeOK
    <3> QED
      BY <3>1, <3>2
  <2> QED
    BY <1>2, <1>4, <2>1 DEF Program, Root, Unroot, Link, RequestObject, RequestGrowth, FreeVM
<1>5. CASE SweepDone
  <2>1. bytesAllocated' = bytesAllocated /\ nextGC' = bytesAllocated * 2
    BY <1>5 DEF SweepDone, Growth
  <2>2. IsFiniteSet(Ref) /\ size \in [Ref -> Nat] /\ request.bytes \in Nat
    BY <1>1, AddressesAreFinite, FS_AddElement DEF Ref, TypeOK, Request
  <2>3. bytesAllocated \in Nat
    BY <1>1, <2>2, SumIsNatural DEF Accounting
  <2> QED
    BY <2>1, <2>3
<1>6. CASE AllocateObject \/ GrowArray
  BY <1>2, <1>6 DEF AllocateObject, GrowArray
<1>7. CASE Memory /\ ~ SweepDone /\ ~ AllocateObject /\ ~ GrowArray
  BY <1>7 DEF Memory, MarkRoots, BlackenObject, TraceDone, TableRemoveWhite, SweepKeep, SweepFree,
              FreeNext, FreeDone
<1> QED
  BY <1>3, <1>4, <1>5, <1>6, <1>7 DEF Next

LEMMA InitLedger == Init => Ledger
<1> SUFFICES ASSUME Init  PROVE Ledger
  OBVIOUS
<1>1. IsFiniteSet(Ref) /\ None \in Ref /\ Obj \subseteq Ref
  BY AddressesAreFinite, FS_AddElement DEF Ref
<1>2. size \in [Ref -> Nat] /\ \A x \in Ref : size[x] = 0
  BY DEF Init
<1>3. SumFunction(size) = 0
  BY <1>1, <1>2, SumIsNatural
<1>4. Accounting /\ HeapBound
  BY <1>3, CollectorAssumption DEF Init, Accounting, HeapBound, NoRequest
<1> QED
  BY <1>1, <1>2, <1>4
  DEF Init, Ledger, RequestServed, FreedTakesNone, GrowingSurvives, FreeingOK, NoRequest

LEMMA NextLedger == IInv /\ IInv' /\ Ledger /\ [Next]_vars => Ledger'
<1> SUFFICES ASSUME IInv, IInv', Ledger, [Next]_vars  PROVE Ledger'
  OBVIOUS
<1>1. Types /\ RequestServed
  BY DEF IInv, Structure, Ledger
<1> QED
  BY <1>1, NextRequestServed, NextFreedTakesNone, NextGrowingSurvives, NextFreeingOK,
     NextAccounting, NextHeapBound
  DEF Ledger

\* In every reachable state the ledger is right: what the count of bytes and the
\* release of the heap rely on, next to the inductive invariant of the collections.
THEOREM LedgerHolds == Spec => []Ledger
<1>1. Spec => []IInv
  BY Inductive
<1>2. IInv /\ IInv' /\ Ledger /\ [Next]_vars => Ledger'
  BY NextLedger
<1> QED
  BY <1>1, <1>2, InitLedger, PTL DEF Spec

\* vm.bytesAllocated is at all times what freeing everything would give back, plus
\* the request that reallocate() is serving.
THEOREM EveryByteIsCounted == Spec => []Accounting
<1>1. Ledger => Accounting
  BY DEF Ledger
<1> QED
  BY <1>1, LedgerHolds, PTL

\* The heap is over vm.nextGC only within a collection.
THEOREM HeapIsBounded == Spec => []HeapBound
<1>1. Ledger => HeapBound
  BY DEF Ledger
<1> QED
  BY <1>1, LedgerHolds, PTL

\* When freeVM() has returned, no object is left, and vm.bytesAllocated is 0.
THEOREM NothingIsLeaked == Spec => []NothingLeaks
<1>1. TypeOK /\ Ledger => NothingLeaks
  <2> SUFFICES ASSUME TypeOK, Ledger, phase = "exited"
               PROVE  Allocated(heap) = {} /\ bytesAllocated = 0
    BY DEF NothingLeaks
  <2>1. Allocated(heap) = {} /\ size[None] = 0 /\ request.bytes = 0
    BY DEF Ledger, FreeingOK, RequestServed, NoRequest
  <2>2. \A x \in Ref : size[x] = 0
    BY <2>1 DEF Ledger, FreedTakesNone, Ref
  <2>3. IsFiniteSet(Ref) /\ size \in [Ref -> Nat]
    BY AddressesAreFinite, FS_AddElement DEF Ref, TypeOK
  <2>4. SumFunction(size) = 0
    BY <2>2, <2>3, SumIsNatural
  <2> QED
    BY <2>1, <2>4 DEF Ledger, Accounting
<1> QED
  BY <1>1, LedgerHolds, TypesHold, PTL

----------------------------------------------------------------------------
(***************************************************************************)
(* The collector implements the abstract collection.                       *)
(***************************************************************************)

\* The abstract specification speaks of objects in the same words.
LEMMA SameWords ==
  /\ Abstract!Object = Object
  /\ Abstract!Freed = Freed
  /\ \A h : Abstract!Allocated(h) = Allocated(h)
  /\ \A obj : Abstract!Pointers(obj) = Pointers(obj)
  /\ Abstract!AllRoots = AllRoots
  /\ Abstract!Live = Reachable(VisibleHeap, AllRoots)
<1>1. \A h, R : Abstract!Reachable(h, R) = Reachable(h, R)
  BY DEF Abstract!Reachable, Abstract!IsClosed, Abstract!Pointers, Reachable, IsClosed, Pointers
<1>2. Abstract!AllRoots = AllRoots
  BY DEF Abstract!AllRoots, AllRoots
<1> QED
  BY <1>1, <1>2
  DEF Abstract!Object, Abstract!ObjType, Abstract!Ref, Abstract!Freed, Abstract!Blank,
      Abstract!Allocated, Abstract!Pointers, Abstract!Live, Object, ObjType, Ref, Freed, Blank,
      Allocated, Pointers

\* What is visible is what is kept, until freeVM() lets everything go.
VisibleOK ==
  /\ VisibleHeap \in [Obj -> Object]
  /\ phase \notin {"freeObjects", "exited"} =>
       VisibleHeap = [o \in Obj |-> IF o \in Kept THEN heap[o] ELSE Freed]
  /\ phase \in {"freeObjects", "exited"} => VisibleHeap = [o \in Obj |-> Freed]
  /\ phase \notin {"sweep", "freeObjects", "exited"} => VisibleHeap = heap

LEMMA VisibleIsKept == TypeOK => VisibleOK
<1> SUFFICES ASSUME TypeOK PROVE VisibleOK
  OBVIOUS
<1> USE DEF VisibleOK
<1>1. Freed \in Object
  BY BlankIsObject DEF Freed
<1>2. CASE phase \in {"freeObjects", "exited"}
  BY <1>1, <1>2 DEF VisibleHeap
<1>3. CASE phase = "sweep"
  BY <1>1, <1>3 DEF VisibleHeap, TypeOK
<1>4. CASE phase \notin {"sweep", "freeObjects", "exited"}
  <2>1. VisibleHeap = heap
    BY <1>4 DEF VisibleHeap
  <2>2. Kept = Allocated(heap)
    BY <1>4 DEF Kept, Doomed
  <2>3. \A o \in Obj \ Kept : heap[o] = Freed
    BY <2>2, FreeIsFreed DEF TypeOK, Allocated
  <2> QED
    BY <1>4, <2>1, <2>3 DEF TypeOK
<1> QED
  BY <1>2, <1>3, <1>4

LEMMA InitRefines == Init => Abstract!Init
BY SameWords DEF Init, Abstract!Init, VisibleHeap

LEMMA StepRefines == IInv /\ IInv' /\ [Next]_vars => [Abstract!Next]_(Abstract!vars)
<1> SUFFICES ASSUME IInv, IInv', [Next]_vars
             PROVE  Abstract!Next \/ UNCHANGED <<VisibleHeap, roots, strings>>
  BY DEF Abstract!vars
<1> USE DEF IInv, Structure, Types
<1>0. VisibleOK /\ VisibleOK'
  <2>1. VisibleOK
    BY VisibleIsKept
  <2>2. TypeOK' => VisibleOK'
    BY VisibleIsKept, PTL
  <2> QED
    BY <2>1, <2>2
<1>1. CASE UNCHANGED vars
  BY <1>1 DEF vars, VisibleHeap, Kept, Doomed
<1>2. ASSUME phase \notin {"sweep", "freeObjects", "exited"},
             phase' \notin {"sweep", "freeObjects", "exited"},
             UNCHANGED <<heap, roots, strings>>
      PROVE  UNCHANGED <<VisibleHeap, roots, strings>>
  BY <1>2, <1>0 DEF VisibleOK
<1>3. CASE (\E type \in ObjType : RequestObject(type))
             \/ (\E o \in Functions \cup {None} : RequestGrowth(o))
  BY <1>2, <1>3 DEF RequestObject, RequestGrowth, Reallocate, memory, references
<1>4. CASE MarkRoots \/ BlackenObject \/ TraceDone \/ GrowArray
  BY <1>2, <1>4 DEF MarkRoots, BlackenObject, TraceDone, GrowArray, memory, list, references
<1>5. CASE SweepKeep \/ SweepFree \/ SweepDone
  <2>1. /\ Kept' = Kept
        /\ \A o \in Kept : heap'[o] = heap[o]
        /\ UNCHANGED <<roots, strings>>
    BY <1>5, SweepKeepsKept
  <2>2. /\ VisibleHeap = [o \in Obj |-> IF o \in Kept THEN heap[o] ELSE Freed]
        /\ VisibleHeap' = [o \in Obj |-> IF o \in Kept' THEN heap'[o] ELSE Freed]
    BY <1>5, <1>0 DEF VisibleOK, SweepKeep, SweepFree, SweepDone
  <2> QED
    BY <2>1, <2>2
<1>6. CASE FreeNext \/ FreeDone
  BY <1>6, <1>0 DEF VisibleOK, FreeNext, FreeDone, references
<1>7. CASE TableRemoveWhite
  <2>1. /\ phase = "removeWhite" /\ phase' = "sweep"
        /\ strings' = strings \cap marked
        /\ UNCHANGED <<heap, marked, roots>>
    BY <1>7 DEF TableRemoveWhite, memory, marking
  <2>2. VisibleHeap = heap /\ marked = Live
    BY <2>1, <1>0, MarkedIsLive DEF VisibleOK
  <2>3. Kept' = marked
    BY <1>7, TableRemoveWhiteKeepsMarked
  <2>4. VisibleHeap' = [o \in Obj |-> IF o \in marked THEN heap[o] ELSE Freed]
    BY <2>1, <2>3, <1>0 DEF VisibleOK
  <2>5. Abstract!Live = Live
    BY <2>2, SameWords DEF Live
  <2> QED
    BY <2>1, <2>2, <2>4, <2>5, SameWords DEF Abstract!Next, Abstract!Collect
<1>8. CASE FreeVM
  <2>1. roots' = [kind \in RootKind |-> {}]
    BY <1>8 DEF FreeVM, TypeOK
  <2> QED
    BY <1>8, <2>1, <1>0, SameWords DEF VisibleOK, FreeVM, Abstract!Next, Abstract!Release
\* The program's own steps.
<1>9. ASSUME phase \in {"idle", "allocate"}, phase' = "idle",
             NEW fresh, fresh = Allocated(heap)' \ Allocated(heap),
             \A o \in Allocated(heap) : heap'[o].type = heap[o].type,
             \A o \in Obj : heap'[o] # heap[o] =>
               o \in Held \cup fresh /\ Pointers(heap'[o]) \subseteq Held \cup fresh,
             roots' \in [RootKind -> SUBSET (Held \cup fresh)],
             strings \subseteq strings', strings' \subseteq strings \cup fresh
      PROVE  Abstract!Next
  <2>1. VisibleHeap = heap /\ VisibleHeap' = heap' /\ heap' \in [Obj -> Object]
    BY <1>0, <1>9 DEF VisibleOK
  <2>2. Abstract!Live = Live
    BY <2>1, SameWords DEF Live
  <2>3. Abstract!Mutate
    BY <1>9, <2>1, <2>2, SameWords DEF Abstract!Mutate, Held
  <2> QED
    BY <2>3 DEF Abstract!Next
<1>10. roots \in [RootKind -> SUBSET Held]
  BY LiveIsClosed DEF AllRoots, Held, TypeOK
<1>11. ASSUME NEW o \in Held, NEW kind \in RootKind, Root(kind, o) PROVE Abstract!Next
  <2>1. /\ phase = "idle" /\ phase' = "idle" /\ UNCHANGED <<heap, strings>>
        /\ roots' = [roots EXCEPT ![kind] = @ \cup {o}]
    BY <1>11 DEF Root, collection, memory
  <2>2. roots' \in [RootKind -> SUBSET (Held \cup {})]
    BY <1>10, <2>1
  <2> QED
    BY <1>9, <2>1, <2>2
<1>12. ASSUME NEW kind \in RootKind, NEW o \in roots[kind], Unroot(kind, o) PROVE Abstract!Next
  <2>1. /\ phase = "idle" /\ phase' = "idle" /\ UNCHANGED <<heap, strings>>
        /\ roots' = [roots EXCEPT ![kind] = @ \ {o}]
    BY <1>12 DEF Unroot, collection, memory
  <2>2. roots' \in [RootKind -> SUBSET (Held \cup {})]
    BY <1>10, <2>1
  <2> QED
    BY <1>9, <2>1, <2>2
<1>13. ASSUME NEW o \in Live, NEW p \in Held, Link(o, p) PROVE Abstract!Next
  <2>1. phase = "idle" /\ phase' = "idle" /\ UNCHANGED <<roots, strings>>
    BY <1>13 DEF Link, collection, references
  <2>2. PICK linked \in Linked(o, p) : heap' = [heap EXCEPT ![o] = linked]
    BY <1>13 DEF Link
  <2>3. o \in Obj /\ p \in Obj /\ o \in Held /\ Pointers(heap[o]) \subseteq Held
    BY LiveIsClosed DEF IsClosed, Held
  <2>4. linked.type = heap[o].type /\ Pointers(linked) \subseteq Held
    BY <2>3, LinkedIsObject
  <2>5. Allocated(heap)' \ Allocated(heap) = {}
    BY <1>13, LinkKeepsAllocated
  <2>6. /\ \A q \in Obj : heap'[q].type = heap[q].type
        /\ \A q \in Obj : heap'[q] # heap[q] => q \in Held /\ Pointers(heap'[q]) \subseteq Held
    BY <2>2, <2>3, <2>4 DEF TypeOK
  <2> QED
    BY <1>9, <1>10, <2>1, <2>5, <2>6 DEF Allocated
<1>14. CASE AllocateObject
  <2>1. PICK new \in Obj :
          /\ new = request.object
          /\ Allocated(heap)' = Allocated(heap) \cup {new}
          /\ \A p \in Obj \ {new} : heap'[p] = heap[p]
          /\ Pointers(heap'[new]) \subseteq Functions
          /\ new = serial + 1
    BY <1>14, AllocateObjectAllocates
  <2>2. /\ phase = "allocate" /\ phase' = "idle"
        /\ roots' = [roots EXCEPT ![FirstRoot(request.type)] = @ \cup {new}]
        /\ strings' = IF request.type = "string" THEN strings \cup {new} ELSE strings
    BY <1>14, <2>1 DEF AllocateObject
  <2>3. new \notin Allocated(heap)
    <3>1. ~ (serial + 1 <= serial)
      BY DEF TypeOK
    <3> QED
      BY <2>1, <3>1 DEF SerialOK
  <2>4. Allocated(heap)' \ Allocated(heap) = {new}
    BY <2>1, <2>3
  <2>5. roots' \in [RootKind -> SUBSET (Held \cup {new})]
    BY <1>10, <2>2
  <2>6. /\ \A o \in Allocated(heap) : heap'[o].type = heap[o].type
        /\ \A o \in Obj : heap'[o] # heap[o] =>
             o \in Held \cup {new} /\ Pointers(heap'[o]) \subseteq Held \cup {new}
    BY <2>1, <2>3, LiveIsClosed DEF Allocated, Held
  <2> QED
    BY <1>9, <2>2, <2>4, <2>5, <2>6
<1> QED
  BY <1>1, <1>3, <1>4, <1>5, <1>6, <1>7, <1>8, <1>11, <1>12, <1>13, <1>14
  DEF Next, Program, Memory

\* The collection, which takes many steps and frees one object after the other,
\* is for the program a single disappearance of exactly what is unreachable.
THEOREM Refinement == Spec => Implements
<1>1. Init /\ [][Next]_vars /\ []IInv => Abstract!Init /\ [][Abstract!Next]_(Abstract!vars)
  BY InitRefines, StepRefines, PTL
<1> QED
  BY <1>1, Inductive, PTL DEF Spec, Implements, Abstract!Spec
=============================================================================
