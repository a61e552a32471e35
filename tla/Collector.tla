----------------------------- MODULE Collector -----------------------------
(***************************************************************************)
(* The mark-sweep collector of memory.c, step by step, run by the          *)
(* allocations of a program that links and drops objects as it likes.      *)
(*                                                                         *)
(* An address is the serial number of its allocation, so a freed address   *)
(* is never handed out again: a stale reference stays visible as a         *)
(* reference to freed memory.  The gray stack is a set, since the order in *)
(* which gray objects are blackened decides nothing.                       *)
(***************************************************************************)
EXTENDS ObjectHeap, Integers, FiniteSets, Sequences, Functions

CONSTANTS
  ObjectBytes,       \* [ObjType -> Nat]: what a new object of a type takes
  InitialThreshold,  \* vm.nextGC as initVM() sets it
  StressGC,          \* whether the build defines DEBUG_STRESS_GC
  MaxBytes,          \* bound: no array grows in a heap of this size
  MaxRoots           \* bound: with this many references no root is added

ASSUME CollectorAssumption ==
  /\ Obj \subseteq Nat \ {0}
  /\ None = 0
  /\ ObjectBytes \in [ObjType -> Nat]
  /\ InitialThreshold \in Nat
  /\ StressGC \in BOOLEAN
  /\ MaxBytes \in Nat
  /\ MaxRoots \in Nat

\* An address has a fixed number of bits.
ASSUME AddressesAreFinite == IsFiniteSet(Obj)

VARIABLES
  heap,            \* address -> object
  size,            \* address -> bytes that freeing the object gives back;
                   \* size[None] is what the arrays of the tables take
  serial,          \* the last address handed out
  next,            \* Obj.next: the intrusive list of all objects
  objects,         \* vm.objects, the head of that list
  roots,           \* what markRoots() goes over, by kind
  strings,         \* the keys of vm.strings
  marked,          \* the objects whose isMarked is set
  gray,            \* vm.grayStack
  phase,           \* what memory.c is doing
  rootsDone,       \* how many kinds of roots markRoots() has gone over
  object,          \* the cursor of sweep() and of freeObjects()
  previous,        \* the last survivor before the cursor of sweep()
  request,         \* the allocation that reallocate() is serving
  bytesAllocated,  \* vm.bytesAllocated
  nextGC           \* vm.nextGC

vars == <<heap, size, serial, next, objects, roots, strings, marked, gray, phase,
          rootsDone, object, previous, request, bytesAllocated, nextGC>>

list       == <<next, objects>>
memory     == <<heap, size, serial, list>>
references == <<roots, strings>>
marking    == <<marked, gray, rootsDone>>
sweeping   == <<object, previous>>
collection == <<marking, sweeping, phase, request>>
accounting == <<bytesAllocated, nextGC>>

Phase == {"idle", "markRoots", "trace", "removeWhite", "sweep", "allocate",
          "freeObjects", "exited"}

\* Mutation: markRoots() without the loop over the open upvalues.
ForgetOpenUpvalues == <<"stack", "frames", "globals", "compilers">>

\* The order of the loops and calls of markRoots().
RootOrder == <<"stack", "frames", "openUpvalues", "globals", "compilers">>

RootKind == {"stack", "frames", "openUpvalues", "globals", "compilers"}

AllRoots == UNION {roots[k] : k \in RootKind}

Live == Reachable(heap, AllRoots)

\* What the program can get hold of: copyString() and takeString() find an
\* interned string that nothing else references.
Held == Live \cup strings

Functions == {f \in Live : heap[f].type = "function"}

Request == [object : Ref, type : ObjType \cup {"free"}, bytes : Nat]

\* No allocation in progress.
NoRequest == [object |-> None, type |-> "free", bytes |-> 0]

Growth == 2   \* GC_HEAP_GROW_FACTOR

\* initVM(), before defineNative() allocates.
Init ==
  /\ heap = [o \in Obj |-> Freed]
  /\ size = [o \in Ref |-> 0]
  /\ serial = 0
  /\ next = [o \in Obj |-> None]
  /\ objects = None
  /\ roots = [k \in RootKind |-> {}]
  /\ strings = {}
  /\ marked = {}
  /\ gray = {}
  /\ phase = "idle"
  /\ rootsDone = 0
  /\ object = None
  /\ previous = None
  /\ request = NoRequest
  /\ bytesAllocated = 0
  /\ nextGC = InitialThreshold

----------------------------------------------------------------------------
(***************************************************************************)
(* The program: the VM and the compiler between two allocations.           *)
(***************************************************************************)

\* Types of the objects that each kind of root refers to.
RootTypes ==
  [stack        |-> {"closure", "function", "native", "string"},
   frames       |-> {"closure"},
   openUpvalues |-> {"upvalue"},
   globals      |-> {"closure", "native", "string"},
   compilers    |-> {"function"}]

\* Where the caller of an allocator puts the new object before it allocates again.
FirstRoot(type) ==
  CASE type = "function" -> "compilers"
    [] type = "upvalue"  -> "openUpvalues"
    [] OTHER             -> "stack"

Root(kind, o) ==
  /\ phase = "idle"
  /\ o \notin roots[kind]
  /\ Cardinality({r \in RootKind \X Obj : r[2] \in roots[r[1]]}) < MaxRoots
  /\ heap[o].type \in RootTypes[kind]
  /\ roots' = [roots EXCEPT ![kind] = @ \cup {o}]
  /\ UNCHANGED <<memory, strings, collection, accounting>>

Unroot(kind, o) ==
  /\ phase = "idle"
  /\ roots' = [roots EXCEPT ![kind] = @ \ {o}]
  /\ UNCHANGED <<memory, strings, collection, accounting>>

\* Object o after function->name = p, addConstant(p), closure->upvalues[i] = p
\* or upvalue->closed = p.
Linked(o, p) ==
  LET constant == {[heap[o] EXCEPT !.constants = @ \cup {p}]}
      name     == {[heap[o] EXCEPT !.name = p]}
      upvalue  == {[heap[o] EXCEPT !.upvalues = @ \cup {p}]}
      closed   == {[heap[o] EXCEPT !.closed = p]}
  IN  CASE <<heap[o].type, heap[p].type>> = <<"function", "string">>   -> constant \cup name
        [] <<heap[o].type, heap[p].type>> = <<"function", "function">> -> constant
        [] <<heap[o].type, heap[p].type>> = <<"closure", "upvalue">>   -> upvalue
        [] heap[o].type = "upvalue" /\ heap[p].type \in {"closure", "native", "string"} -> closed
        [] OTHER -> {}

Link(o, p) ==
  /\ phase = "idle"
  /\ \E linked \in Linked(o, p) \ {heap[o]} : heap' = [heap EXCEPT ![o] = linked]
  /\ UNCHANGED <<size, serial, list, references, collection, accounting>>

----------------------------------------------------------------------------
\* Mutation: the threshold is compared before the request is counted.
CollectTooLate(r) ==
  /\ phase = "idle"
  /\ request' = r
  /\ bytesAllocated' = bytesAllocated + r.bytes
  /\ phase' = IF StressGC \/ bytesAllocated > nextGC THEN "markRoots" ELSE "allocate"
  /\ rootsDone' = 0
  /\ UNCHANGED <<memory, references, marked, gray, sweeping, nextGC>>

(***************************************************************************)
(* reallocate(): counts the bytes, collects if there are too many, then    *)
(* takes the memory.                                                       *)
(***************************************************************************)
Reallocate(r) ==
  /\ phase = "idle"
  /\ request' = r
  /\ bytesAllocated' = bytesAllocated + r.bytes
  /\ phase' = IF StressGC \/ bytesAllocated' > nextGC THEN "markRoots" ELSE "allocate"
  /\ rootsDone' = 0
  /\ UNCHANGED <<memory, references, marked, gray, sweeping, nextGC>>

\* A closure is only made of a function that is there already.
RequestObject(type) ==
  /\ serial + 1 \in Obj
  /\ type = "closure" => Functions # {}
  /\ Reallocate([object |-> serial + 1, type |-> type, bytes |-> ObjectBytes[type]])

\* The code, the lines or the constants of a function grow, or those of a table.
RequestGrowth(o) ==
  /\ bytesAllocated < MaxBytes
  /\ Reallocate([object |-> o, type |-> "free", bytes |-> 1])

\* What the constructor of a type leaves in a new object.
Constructed(type) ==
  IF type = "closure"
  THEN {[Blank(type) EXCEPT !.function = f] : f \in Functions}
  ELSE {Blank(type)}

\* allocateObject(): the new object becomes the head of the list of all objects.
AllocateObject ==
  LET o == request.object
  IN  /\ phase = "allocate"
      /\ request.type # "free"
      /\ \E new \in Constructed(request.type) : heap' = [heap EXCEPT ![o] = new]
      /\ size' = [size EXCEPT ![o] = request.bytes]
      /\ serial' = o
      /\ next' = [next EXCEPT ![o] = objects]
      /\ objects' = o
      /\ roots' = [roots EXCEPT ![FirstRoot(request.type)] = @ \cup {o}]
      /\ strings' = IF request.type = "string" THEN strings \cup {o} ELSE strings
      /\ phase' = "idle"
      /\ request' = NoRequest
      /\ UNCHANGED <<marking, sweeping, accounting>>

\* Mutation: the owner of the array does not learn of its new capacity.
GrowArrayOnly ==
  /\ phase = "allocate"
  /\ request.type = "free"
  /\ phase' = "idle"
  /\ request' = NoRequest
  /\ UNCHANGED <<memory, references, marking, sweeping, accounting>>

GrowArray ==
  /\ phase = "allocate"
  /\ request.type = "free"
  /\ size' = [size EXCEPT ![request.object] = @ + request.bytes]
  /\ phase' = "idle"
  /\ request' = NoRequest
  /\ UNCHANGED <<heap, serial, list, references, marking, sweeping, accounting>>

----------------------------------------------------------------------------
(***************************************************************************)
(* collectGarbage(): markRoots(), traceReferences(), tableRemoveWhite()    *)
(* and sweep().                                                            *)
(***************************************************************************)

\* Mutation: the object is not pushed on the gray stack.
MarkOnly(S) ==
  /\ marked' = marked \cup S
  /\ gray' = gray

\* markObject() on every member of S: what is marked already is left alone.
Mark(S) ==
  /\ marked' = marked \cup S
  /\ gray' = gray \cup (S \ marked)

\* The loop of markRoots() over one kind of roots.
MarkRoots ==
  /\ phase = "markRoots"
  /\ Mark(roots[RootOrder[rootsDone + 1]])
  /\ rootsDone' = rootsDone + 1
  /\ phase' = IF rootsDone' = Len(RootOrder) THEN "trace" ELSE "markRoots"
  /\ UNCHANGED <<memory, references, sweeping, request, accounting>>

\* Mutation: the constants of a function are not marked.
BlackenWithoutConstants(obj) ==
  CASE obj.type = "closure"  -> ({obj.function} \cup obj.upvalues) \ {None}
    [] obj.type = "function" -> {obj.name} \ {None}
    [] obj.type = "upvalue"  -> {obj.closed} \ {None}
    [] OTHER                 -> {}

\* What blackenObject() marks, by the type of the object.
Blackened(obj) ==
  CASE obj.type = "closure"  -> ({obj.function} \cup obj.upvalues) \ {None}
    [] obj.type = "function" -> ({obj.name} \cup obj.constants) \ {None}
    [] obj.type = "upvalue"  -> {obj.closed} \ {None}
    [] OTHER                 -> {}

\* Mutation: the object that was blackened stays on the gray stack.
BlackenWithoutPop ==
  /\ phase = "trace"
  /\ \E o \in gray : Mark(Blackened(heap[o]))
  /\ UNCHANGED <<memory, references, phase, rootsDone, sweeping, request, accounting>>

BlackenObject ==
  /\ phase = "trace"
  /\ \E o \in gray :
       LET found == Blackened(heap[o])
       IN  /\ marked' = marked \cup found
           /\ gray' = (gray \ {o}) \cup (found \ marked)
  /\ UNCHANGED <<memory, references, phase, rootsDone, sweeping, request, accounting>>

TraceDone ==
  /\ phase = "trace"
  /\ gray = {}
  /\ phase' = "removeWhite"
  /\ UNCHANGED <<memory, references, marking, sweeping, request, accounting>>

TableRemoveWhite ==
  /\ phase = "removeWhite"
  /\ strings' = strings \cap marked
  /\ phase' = "sweep"
  /\ object' = objects
  /\ previous' = None
  /\ UNCHANGED <<memory, roots, marking, request, accounting>>

\* Mutation: a survivor stays marked.
SweepKeepMarked ==
  /\ phase = "sweep"
  /\ object \in marked
  /\ previous' = object
  /\ object' = next[object]
  /\ UNCHANGED <<memory, references, marking, phase, request, accounting>>

SweepKeep ==
  /\ phase = "sweep"
  /\ object \in marked
  /\ marked' = marked \ {object}
  /\ previous' = object
  /\ object' = next[object]
  /\ UNCHANGED <<memory, references, gray, phase, rootsDone, request, accounting>>

\* Mutation: what a freed object pointed to is still there.
FreeHeaderOnly(o) ==
  /\ heap' = [heap EXCEPT ![o].type = "free"]
  /\ size' = [size EXCEPT ![o] = 0]
  /\ bytesAllocated' = bytesAllocated - size[o]

FreeObject(o) ==
  /\ heap' = [heap EXCEPT ![o] = Freed]
  /\ size' = [size EXCEPT ![o] = 0]
  /\ bytesAllocated' = bytesAllocated - size[o]

\* Mutation: every object is unlinked as if it were the head of the list.
SweepFreeAtHead ==
  /\ phase = "sweep"
  /\ object \notin marked \cup {None}
  /\ object' = next[object]
  /\ objects' = object'
  /\ FreeObject(object)
  /\ UNCHANGED <<serial, next, references, marking, phase, previous, request, nextGC>>

SweepFree ==
  /\ phase = "sweep"
  /\ object \notin marked \cup {None}
  /\ object' = next[object]
  /\ IF previous # None
     THEN next' = [next EXCEPT ![previous] = object'] /\ UNCHANGED objects
     ELSE objects' = object' /\ UNCHANGED next
  /\ FreeObject(object)
  /\ UNCHANGED <<serial, references, marking, phase, previous, request, nextGC>>

SweepDone ==
  /\ phase = "sweep"
  /\ object = None
  /\ nextGC' = bytesAllocated * Growth
  /\ phase' = "allocate"
  /\ UNCHANGED <<memory, references, marking, sweeping, request, bytesAllocated>>

----------------------------------------------------------------------------
(***************************************************************************)
(* freeVM(), which main() calls when no program is running: the two tables *)
(* first, then freeObjects() along the list.                               *)
(***************************************************************************)
\* Mutation: the arrays of the tables are not given back.
FreeVMKeepsTables ==
  /\ phase = "idle"
  /\ \A kind \in RootKind \ {"globals"} : roots[kind] = {}
  /\ roots' = [roots EXCEPT !["globals"] = {}]
  /\ strings' = {}
  /\ phase' = "freeObjects"
  /\ object' = objects
  /\ UNCHANGED <<memory, marking, previous, request, accounting>>

FreeVM ==
  /\ phase = "idle"
  /\ \A kind \in RootKind \ {"globals"} : roots[kind] = {}
  /\ roots' = [roots EXCEPT !["globals"] = {}]
  /\ strings' = {}
  /\ size' = [size EXCEPT ![None] = 0]
  /\ bytesAllocated' = bytesAllocated - size[None]
  /\ phase' = "freeObjects"
  /\ object' = objects
  /\ UNCHANGED <<heap, serial, list, marking, previous, request, nextGC>>

FreeNext ==
  /\ phase = "freeObjects"
  /\ object # None
  /\ FreeObject(object)
  /\ object' = next[object]
  /\ UNCHANGED <<serial, list, references, marking, phase, previous, request, nextGC>>

FreeDone ==
  /\ phase = "freeObjects"
  /\ object = None
  /\ phase' = "exited"
  /\ UNCHANGED <<memory, references, marking, sweeping, request, accounting>>

----------------------------------------------------------------------------
Program ==
  \/ \E o \in Held, kind \in RootKind : Root(kind, o)
  \/ \E kind \in RootKind : \E o \in roots[kind] : Unroot(kind, o)
  \/ \E o \in Live, p \in Held : Link(o, p)
  \/ \E type \in ObjType : RequestObject(type)
  \/ \E o \in Functions \cup {None} : RequestGrowth(o)
  \/ FreeVM

Memory ==
  \/ MarkRoots
  \/ BlackenObject
  \/ TraceDone
  \/ TableRemoveWhite
  \/ SweepKeep
  \/ SweepFree
  \/ SweepDone
  \/ AllocateObject
  \/ GrowArray
  \/ FreeNext
  \/ FreeDone

Next == Program \/ Memory

\* A call into memory.c runs to its end: nothing can keep it from its next step.
Spec == Init /\ [][Next]_vars /\ WF_vars(Memory)

----------------------------------------------------------------------------
TypeOK ==
  /\ heap \in [Obj -> Object]
  /\ \A o \in Obj : WellFormed(heap[o])
  /\ size \in [Ref -> Nat]
  /\ serial \in Nat
  /\ next \in [Obj -> Ref]
  /\ objects \in Ref
  /\ roots \in [RootKind -> SUBSET Obj]
  /\ strings \subseteq Obj
  /\ marked \subseteq Obj
  /\ gray \subseteq Obj
  /\ phase \in Phase
  /\ rootsDone \in 0..Len(RootOrder)
  /\ object \in Ref
  /\ previous \in Ref
  /\ request \in Request
  /\ bytesAllocated \in Int
  /\ nextGC \in Int

\* The garbage that the sweep has still to come to: it runs down the list from
\* the newest object, and unmarks what it keeps.
Doomed ==
  IF phase = "sweep"
  THEN {o \in Allocated(heap) : o <= object /\ o \notin marked}
  ELSE {}

Kept == Allocated(heap) \ Doomed

\* At no point of a collection is there a reference to freed memory, or to
\* memory that is about to be freed: not in a root, not in the weak table of
\* strings, not in an object that stays.
NoDangling ==
  phase \notin {"freeObjects", "exited"} =>
    /\ AllRoots \cup strings \subseteq Kept
    /\ IsClosed(heap, Kept)

\* While objects are being marked, an object that is marked and no longer gray
\* points only to marked objects, and only reachable objects are ever marked.
Tricolor ==
  phase \in {"markRoots", "trace", "removeWhite"} =>
    /\ gray \subseteq marked
    /\ marked \subseteq Live
    /\ \A o \in marked \ gray : Pointers(heap[o]) \subseteq marked
    /\ \A i \in 1..rootsDone : roots[RootOrder[i]] \subseteq marked

\* p is the newest allocated object older than o.
Below(o, p) ==
  /\ p \in Allocated(heap) \cup {None}
  /\ p < o
  /\ \A q \in Allocated(heap) : ~ (p < q /\ q < o)

\* The list from vm.objects goes through every allocated object once, newest
\* first, also halfway a sweep that unlinks from it.
ListThreadsHeap ==
  phase \notin {"freeObjects", "exited"} =>
    /\ Below(serial + 1, objects)
    /\ \A o \in Allocated(heap) : Below(o, next[o])

\* No mark outlives its collection: a stale mark would keep an object, but not
\* what it points to, through the next one.
MarksCleared ==
  phase \in {"idle", "allocate"} => marked = {} /\ gray = {}

\* vm.bytesAllocated is what freeing everything would give back, plus the
\* request that is being served.
Accounting ==
  bytesAllocated = SumFunction(size) + request.bytes

\* The heap is over its threshold only within a collection.
HeapBound ==
  phase \in {"idle", "allocate"} => bytesAllocated <= nextGC

\* When freeVM() is done nothing is left, by the allocator's own count.
NothingLeaks ==
  phase = "exited" => Allocated(heap) = {} /\ bytesAllocated = 0

\* Whoever asked for memory gets it, and freeVM() comes to an end.
MemoryReturns == phase # "idle" ~> phase \in {"idle", "exited"}

\* What the program can see of the heap: what a sweep is going to free went
\* with the white strings.
VisibleHeap ==
  CASE phase = "sweep" -> [o \in Obj |-> IF o \in Kept THEN heap[o] ELSE Freed]
    [] phase \in {"freeObjects", "exited"} -> [o \in Obj |-> Freed]
    [] OTHER -> heap

Abstract == INSTANCE Collection WITH heap <- VisibleHeap

\* The collection, in all its steps, is one atomic disappearance of exactly
\* what was not reachable.
Implements == Abstract!Spec
============================================================================
