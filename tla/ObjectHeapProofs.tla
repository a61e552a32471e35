-------------------------- MODULE ObjectHeapProofs --------------------------
(***************************************************************************)
(* What the proofs about the collector and those about its callers both    *)
(* need to know of objects and of what is reachable.                       *)
(***************************************************************************)
EXTENDS ObjectHeap, TLAPS

\* Nothing a reachable object points to is unreachable.
LEMMA ReachableIsClosed ==
  ASSUME NEW h \in [Obj -> Object], NEW R \in SUBSET Obj
  PROVE  /\ R \subseteq Reachable(h, R)
         /\ Reachable(h, R) \subseteq Obj
         /\ IsClosed(h, Reachable(h, R))
<1>1. ASSUME NEW o \in Obj  PROVE Pointers(h[o]) \subseteq Obj
  BY <1>1, NoneAssumption DEF Pointers, Object, Ref
<1>2. \A o \in Obj :
        o \in Reachable(h, R) <=> \A S \in SUBSET Obj : R \subseteq S /\ IsClosed(h, S) => o \in S
  BY DEF Reachable
<1>3. Reachable(h, R) \subseteq Obj
  BY DEF Reachable
<1>4. IsClosed(h, Reachable(h, R))
  <2> SUFFICES ASSUME NEW o \in Reachable(h, R), NEW p \in Pointers(h[o]),
                      NEW S \in SUBSET Obj, R \subseteq S, IsClosed(h, S)
               PROVE  p \in Obj /\ p \in S
    BY <1>1, <1>2, <1>3 DEF IsClosed
  <2>1. o \in Obj /\ o \in S
    BY <1>2, <1>3
  <2> QED
    BY <1>1, <2>1 DEF IsClosed
<1> QED
  BY <1>2, <1>3, <1>4

\* Reachability is the least closed set around the roots.
LEMMA ReachableIsLeast ==
  ASSUME NEW h, NEW R, NEW S \in SUBSET Obj, R \subseteq S, IsClosed(h, S)
  PROVE  Reachable(h, R) \subseteq S
BY DEF Reachable

\* Pointers refer to addresses.
LEMMA PointersAreObjects ==
  ASSUME NEW obj \in Object
  PROVE  Pointers(obj) \subseteq Obj
BY NoneAssumption DEF Pointers, Object, Ref

\* A new object of any type, and freed memory, has no pointers.
LEMMA BlankIsObject ==
  ASSUME NEW type \in ObjType \cup {"free"}
  PROVE  /\ Blank(type) \in Object
         /\ WellFormed(Blank(type))
         /\ Pointers(Blank(type)) = {}
         /\ Blank(type).type = type /\ Blank(type).function = None /\ Blank(type).name = None
         /\ Blank(type).closed = None /\ Blank(type).constants = {} /\ Blank(type).upvalues = {}
BY DEF Blank, Object, WellFormed, Pointers, Ref

\* Memory that holds no object holds nothing else.
LEMMA FreeIsFreed ==
  ASSUME NEW obj \in Object, WellFormed(obj), obj.type = "free"
  PROVE  obj = Freed
BY DEF Object, WellFormed, Freed, Blank

\* A heap from which everything outside a closed set has been freed.
LEMMA FreedOutside ==
  ASSUME NEW h \in [Obj -> Object], \A o \in Obj : WellFormed(h[o]),
         NEW L \in SUBSET Obj, L \subseteq Allocated(h), IsClosed(h, L),
         NEW g, g = [o \in Obj |-> IF o \in L THEN h[o] ELSE Freed]
  PROVE  /\ g \in [Obj -> Object]
         /\ \A o \in Obj : WellFormed(g[o])
         /\ \A o \in L : g[o] = h[o]
         /\ \A o \in Obj \ L : g[o] = Freed /\ g[o].type = "free"
         /\ Allocated(g) = L
         /\ IsClosed(g, Allocated(g))
<1>1. Freed \in Object /\ WellFormed(Freed) /\ Freed.type = "free"
  BY BlankIsObject DEF Freed
<1>2. /\ g \in [Obj -> Object]
      /\ \A o \in Obj : WellFormed(g[o])
      /\ \A o \in L : g[o] = h[o]
      /\ \A o \in Obj \ L : g[o] = Freed
  BY <1>1
<1>3. Allocated(g) = L
  BY <1>1, <1>2 DEF Allocated
<1> QED
  BY <1>1, <1>2, <1>3 DEF IsClosed
=============================================================================
