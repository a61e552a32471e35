---------------------------- MODULE MutatorProofs ----------------------------
(***************************************************************************)
(* Proofs about the roots: for every set of addresses, every number of     *)
(* frames, any size of the stack and every program, whatever the moments   *)
(* at which the collector runs.                                            *)
(***************************************************************************)
EXTENDS Mutator, ObjectHeapProofs, SequenceTheorems, TLAPS

----------------------------------------------------------------------------
(***************************************************************************)
(* The inductive invariant.                                                *)
(***************************************************************************)

\* A runtime error forgets the open upvalues.  That does no harm where the program ends
\* with it, where there are no closures, and where there are no errors.
NoErrors == {"global", "runtimeError"} \cap Instructions = {}

ErrorsAreHarmless == ~ Interactive \/ "fun" \notin Instructions \/ NoErrors

\* Where interpret() is.
NotRunning == frames = <<>> /\ openUpvalues = {}

Resting == NotRunning /\ compilers = <<>>

Compiling == NotRunning /\ compilers # <<>>

Running == frames # <<>> /\ frames[1].slots = 1 /\ compilers = <<>>

\* initVM(), and between two calls of interpret()
BetweenCallsOK ==
  /\ pc \in {"initVM", "idle", "done"} => Resting /\ stack.top = 0
  /\ pc = "native" => Resting /\ stack.top = 1 /\ Is(stack.slots[1], "string")
  /\ pc = "define" /\ c.then = "idle" =>
       /\ Resting
       /\ stack.top = 2
       /\ c.object = stack.slots[1]
       /\ Is(c.object, "string")

CompilingOK ==
  /\ pc = "function" =>
       /\ NotRunning
       /\ stack.top = 0
       /\ c.then \in {"compile", "name"}
       /\ c.then = "compile" <=> compilers = <<>>
  /\ pc \in {"compile", "name"} => Compiling /\ stack.top = 0
  /\ pc = "constant" =>
       /\ Compiling
       /\ stack.top = 1
       /\ Is(stack.slots[1], "string") \/ Is(stack.slots[1], "function")
  /\ pc = "closure" /\ c.then = "execute" =>
       /\ Resting
       /\ stack.top = 1
       /\ c.object = stack.slots[1]
       /\ Is(c.object, "function")

\* The slots from n on are nobody's variables.
FreeFrom(n) == \A u \in openUpvalues : location[u] < n

\* A caller whose operands end at slot n has a string made.
MakingFor(then, n) ==
  /\ then \in {"native", "name", "constant", "concatenate"}
  /\ then = "native" => Resting /\ n = 0
  /\ then \in {"name", "constant"} => Compiling /\ n = 0
  /\ then = "concatenate" => Running /\ n >= 2 /\ FreeFrom(n - 1)

MakingOK(n) == MakingFor(c.then, n)

StringsOK ==
  /\ pc = "string" => c.text \in Text /\ MakingOK(stack.top)
  /\ pc = "intern" =>
       /\ stack.top > 0
       /\ c.object = stack.slots[stack.top]
       /\ Is(c.object, "string")
       /\ MakingOK(stack.top - 1)
       /\ FreeFrom(stack.top)

RunningOK ==
  /\ pc = "execute" => Running
  /\ pc = "capture" =>
       /\ Running
       /\ stack.top > 0
       /\ c.object = stack.slots[stack.top]
       /\ Is(c.object, "closure")
  /\ pc = "chars" =>
       /\ Running
       /\ stack.top >= 2
       /\ FreeFrom(stack.top - 1)
       /\ c.operands \subseteq {stack.slots[stack.top], stack.slots[stack.top - 1]}
  /\ pc = "assign" =>
       /\ Running
       /\ stack.top > 0
       /\ c.object \in Constants("string")
       /\ "global" \in Instructions
  /\ pc = "define" => c.then \in {"idle", "execute"}
  /\ pc = "define" /\ c.then = "execute" =>
       /\ Running
       /\ stack.top > 0
       /\ FreeFrom(stack.top)
       /\ c.object \in Constants("string")
  /\ pc = "closure" => c.then \in {"capture", "execute"}
  /\ pc = "closure" /\ c.then = "capture" => Running /\ c.object \in Constants("function")

\* What the C functions hold nothing in.
UnusedLocals ==
  /\ pc \notin {"intern", "capture", "assign", "define", "closure"} => c.object = None
  /\ pc # "chars" => c.operands = {}

Control == BetweenCallsOK /\ CompilingOK /\ StringsOK /\ RunningOK /\ UnusedLocals

\* Pointers refer to objects of the types that the code takes them for.
PointersOK ==
  /\ \A o \in Obj : heap[o].type = "closure" =>
       Is(heap[o].function, "function") /\ \A u \in heap[o].upvalues : Is(u, "upvalue")
  /\ \A u \in openUpvalues : Is(u, "upvalue")

OpenOK ==
  /\ \A u \in openUpvalues : location[u] \in 1..stack.top
  /\ \A u, v \in openUpvalues : location[u] = location[v] => u = v

\* An upvalue that is not in the list is closed.
ClosedOK ==
  pc # "done" \/ NoErrors =>
    \A u \in Obj : heap[u].type = "upvalue" /\ location[u] # 0 => u \in openUpvalues

\* Every string is in vm.strings once allocateString() is through, and never twice.
InternedOK ==
  /\ \A s \in Obj : heap[s].type = "string" => s \in strings \/ (pc = "intern" /\ s = c.object)
  /\ \A s, t \in strings : text[s] = text[t] => s = t
  /\ pc = "string" => \A s \in strings : text[s] # c.text
  /\ pc = "intern" => \A s \in strings : text[s] # text[c.object]

\* Without functions there are no upvalues.
FunctionsOK ==
  "fun" \notin Instructions =>
    /\ Len(compilers) <= 1
    /\ \A o \in Obj : heap[o].type # "upvalue"
    /\ \A o \in Obj : \A k \in heap[o].constants : heap[k].type # "function"
    /\ pc # "capture" /\ pc # "name"
    /\ pc = "closure" => c.then = "execute"
    /\ pc = "function" => c.then = "compile"
    /\ pc = "constant" => heap[stack.slots[1]].type # "function"

\* Everything in use is allocated.
HeapOK ==
  /\ Roots \cup strings \subseteq Allocated(heap)
  /\ IsClosed(heap, Allocated(heap))

IInv ==
  /\ TypeOK
  /\ Control
  /\ PointersOK
  /\ HeapOK
  /\ OpenOK
  /\ ClosedOK
  /\ InternedOK
  /\ FunctionsOK

----------------------------------------------------------------------------
(***************************************************************************)
(* The stack.                                                              *)
(***************************************************************************)

Stack == [slots : [Slot -> Ref], top : Slot \cup {0}]

LEMMA TopIsNatural ==
  ASSUME NEW st \in Stack
  PROVE  /\ st.top \in Nat
         /\ st.top <= MaxStack
         /\ \A i \in 1..st.top : i \in Slot /\ st.slots[i] \in Ref
BY MutatorAssumption DEF Stack, Slot

\* push()
LEMMA PushedIs ==
  ASSUME NEW st \in Stack, NEW v \in Ref, st.top < MaxStack
  PROVE  /\ Pushed(st, v) \in Stack
         /\ Pushed(st, v).top = st.top + 1
         /\ Pushed(st, v).slots[st.top + 1] = v
         /\ \A i \in 1..st.top : Pushed(st, v).slots[i] = st.slots[i]
<1>1. st.top \in Nat /\ MaxStack \in Nat
  BY TopIsNatural, MutatorAssumption
<1>2. st.top + 1 \in Slot
  BY <1>1 DEF Slot
<1>3. st.slots \in [Slot -> Ref]
  BY DEF Stack
<1>4. [st.slots EXCEPT ![st.top + 1] = v] \in [Slot -> Ref]
  BY <1>3
<1>5. Pushed(st, v).slots = [st.slots EXCEPT ![st.top + 1] = v] /\ Pushed(st, v).top = st.top + 1
  BY DEF Pushed
<1>6. Pushed(st, v) \in Stack
  BY <1>2, <1>4 DEF Pushed, Stack
<1>7. \A i \in 1..st.top : i # st.top + 1 /\ i \in Slot
  BY <1>1 DEF Slot
<1> QED
  BY <1>2, <1>3, <1>5, <1>6, <1>7

\* vm.stackTop -= n
LEMMA PoppedIs ==
  ASSUME NEW st \in Stack, NEW n \in 0..st.top
  PROVE  /\ Popped(st, n) \in Stack
         /\ Popped(st, n).top = st.top - n
         /\ Popped(st, n).slots = st.slots
<1>1. st.top \in Nat /\ st.top <= MaxStack /\ MaxStack \in Nat
  BY TopIsNatural, MutatorAssumption
<1>2. st.top - n \in Slot \cup {0}
  BY <1>1 DEF Slot
<1>3. Popped(st, n).top = st.top - n /\ Popped(st, n).slots = st.slots
  BY DEF Popped, Stack
<1>4. Popped(st, n) \in Stack
  BY <1>2 DEF Popped, Stack
<1> QED
  BY <1>3, <1>4

----------------------------------------------------------------------------
(***************************************************************************)
(* Roots, and what can be reached from them.                               *)
(***************************************************************************)

\* TypeOK, for one entry at a time.
LEMMA Typed ==
  ASSUME TypeOK
  PROVE  /\ stack \in Stack
         /\ \A i \in 1..stack.top : stack.slots[i] \in Ref
         /\ DOMAIN frames = 1..Len(frames) /\ Len(frames) \in Nat
         /\ \A i \in 1..Len(frames) :
              frames[i].closure \in Obj /\ frames[i].slots \in Slot /\ Is(frames[i].closure, "closure")
         /\ DOMAIN compilers = 1..Len(compilers) /\ Len(compilers) \in Nat
         /\ \A i \in 1..Len(compilers) : compilers[i] \in Obj /\ Is(compilers[i], "function")
         /\ openUpvalues \subseteq Obj
         /\ \A name \in DOMAIN globals : name \in Obj /\ globals[name] \in Ref
<1>1. stack \in Stack
  BY DEF TypeOK, Stack
<1>2. \A i \in 1..stack.top : stack.slots[i] \in Ref
  BY <1>1, TopIsNatural
<1>3. frames \in Seq([closure : Obj, slots : Slot]) /\ compilers \in Seq(Obj)
  BY DEF TypeOK
<1>4. /\ DOMAIN frames = 1..Len(frames) /\ Len(frames) \in Nat
      /\ DOMAIN compilers = 1..Len(compilers) /\ Len(compilers) \in Nat
  BY <1>3, LenProperties
<1>5. ASSUME NEW i \in 1..Len(frames)
      PROVE  frames[i].closure \in Obj /\ frames[i].slots \in Slot /\ Is(frames[i].closure, "closure")
  <2>1. frames[i] \in [closure : Obj, slots : Slot]
    BY <1>3, <1>5, ElementOfSeq
  <2> QED
    BY <1>4, <2>1 DEF TypeOK
<1>6. ASSUME NEW i \in 1..Len(compilers)
      PROVE  compilers[i] \in Obj /\ Is(compilers[i], "function")
  BY <1>3, <1>4, <1>6, ElementOfSeq DEF TypeOK
<1> QED
  BY <1>1, <1>2, <1>4, <1>5, <1>6 DEF TypeOK

LEMMA RootsAreRefs ==
  ASSUME TypeOK
  PROVE  /\ Roots \subseteq Obj
         /\ \A i \in 1..stack.top : stack.slots[i] \in Roots \cup {None}
         /\ \A i \in DOMAIN frames : frames[i].closure \in Roots
         /\ openUpvalues \subseteq Roots
         /\ \A name \in DOMAIN globals : name \in Roots /\ globals[name] \in Roots \cup {None}
         /\ \A i \in DOMAIN compilers : compilers[i] \in Roots
<1> QED
  BY Typed, NoneAssumption DEF Roots, Ref

\* All the places a root can be in.
LEMMA RootsAreIn ==
  ASSUME NEW R,
         \A i \in 1..stack.top : stack.slots[i] \in R \cup {None},
         \A i \in DOMAIN frames : frames[i].closure \in R,
         openUpvalues \subseteq R,
         \A name \in DOMAIN globals : name \in R /\ globals[name] \in R \cup {None},
         \A i \in DOMAIN compilers : compilers[i] \in R
  PROVE  Roots \subseteq R
BY DEF Roots

LEMMA RootsAreIn2 ==
  ASSUME NEW R,
         \A i \in 1..stack'.top : stack'.slots[i] \in R \cup {None},
         \A i \in DOMAIN frames' : frames'[i].closure \in R,
         openUpvalues' \subseteq R,
         \A name \in DOMAIN globals' : name \in R /\ globals'[name] \in R \cup {None},
         \A i \in DOMAIN compilers' : compilers'[i] \in R
  PROVE  Roots' \subseteq R
BY DEF Roots

LEMMA LiveIsAllocated ==
  ASSUME TypeOK, HeapOK
  PROVE  /\ Roots \subseteq Live
         /\ Live \subseteq Obj
         /\ Live \subseteq Allocated(heap)
         /\ IsClosed(heap, Live)
         /\ Held \subseteq Allocated(heap)
         /\ Allocated(heap) \subseteq Obj
<1>1. Roots \subseteq Obj /\ Allocated(heap) \in SUBSET Obj /\ heap \in [Obj -> Object]
  BY RootsAreRefs DEF TypeOK, Allocated
<1>2. Roots \subseteq Live /\ Live \subseteq Obj /\ IsClosed(heap, Live)
  BY <1>1, ReachableIsClosed DEF Live
<1>3. Live \subseteq Allocated(heap)
  BY <1>1, ReachableIsLeast DEF Live, HeapOK
<1> QED
  BY <1>1, <1>2, <1>3 DEF Held, HeapOK


----------------------------------------------------------------------------
(***************************************************************************)
(* What a step of the program may do to the heap.                          *)
(***************************************************************************)

Fresh == Allocated(heap') \ Allocated(heap)

\* It keeps the types of objects, it writes what it holds or has just been given, and
\* references that it holds.
Writes ==
  /\ heap' \in [Obj -> Object]
  /\ \A o \in Allocated(heap) : heap'[o].type = heap[o].type
  /\ \A o \in Obj : heap'[o] # heap[o] =>
       o \in Held \cup Fresh /\ Pointers(heap'[o]) \subseteq Held \cup Fresh
  /\ Roots' \subseteq Held \cup Fresh
  /\ strings \subseteq strings' /\ strings' \subseteq Held \cup Fresh

LEMMA WritesKeepHeap ==
  ASSUME TypeOK, HeapOK, Writes
  PROVE  /\ HeapOK'
         /\ Allocated(heap) \subseteq Allocated(heap)'
         /\ \A o \in Obj, type \in ObjType : Is(o, type) => Is(o, type)'
<1>1. Allocated(heap) \subseteq Allocated(heap)'
  BY DEF Writes, Allocated
<1>2. Held \cup Fresh \subseteq Allocated(heap)'
  BY <1>1, LiveIsAllocated DEF Fresh
<1>3. ASSUME NEW o \in Allocated(heap)'  PROVE Pointers(heap'[o]) \subseteq Allocated(heap)'
  <2>1. o \in Obj
    BY DEF Allocated
  <2>2. CASE heap'[o] # heap[o]
    BY <1>2, <2>1, <2>2 DEF Writes
  <2>3. CASE heap'[o] = heap[o]
    <3>1. o \in Allocated(heap)
      BY <2>1, <2>3 DEF Allocated
    <3> QED
      BY <1>1, <2>3, <3>1 DEF HeapOK, IsClosed
  <2> QED
    BY <2>2, <2>3
<1>4. HeapOK'
  BY <1>2, <1>3 DEF HeapOK, IsClosed, Writes
<1>5. ASSUME NEW o \in Obj, NEW type \in ObjType, Is(o, type)  PROVE Is(o, type)'
  <2>1. o \in Allocated(heap)
    BY <1>5 DEF Is, Allocated, ObjType
  <2> QED
    BY <1>5, <2>1 DEF Is, Writes
<1> QED
  BY <1>1, <1>4, <1>5

\* Nothing is written.
LEMMA NothingWritten ==
  ASSUME TypeOK, HeapOK, UNCHANGED heap, Roots' \subseteq Held, strings' = strings
  PROVE  Writes
BY DEF Writes, TypeOK, Held

\* An object is made.
LEMMA ObjectMade ==
  ASSUME TypeOK, HeapOK, NEW o \in Unused, NEW obj \in Object, obj.type # "free",
         heap' = [heap EXCEPT ![o] = obj],
         Pointers(obj) \subseteq Held, Roots' \subseteq Held \cup {o},
         strings \subseteq strings', strings' \subseteq strings \cup {o}
  PROVE  Writes /\ Fresh = {o} /\ Allocated(heap)' = Allocated(heap) \cup {o}
<1>1. o \in Obj /\ o \notin Allocated(heap)
  BY DEF Unused
<1>2. heap' \in [Obj -> Object] /\ heap'[o] = obj /\ \A p \in Obj \ {o} : heap'[p] = heap[p]
  BY <1>1 DEF TypeOK
<1>3. Allocated(heap)' = Allocated(heap) \cup {o}
  BY <1>1, <1>2 DEF Allocated
<1>4. Fresh = {o}
  BY <1>1, <1>3 DEF Fresh
<1>5. \A p \in Allocated(heap) : p # o /\ p \in Obj
  BY <1>1 DEF Allocated
<1> QED
  BY <1>2, <1>3, <1>4, <1>5 DEF Writes, Held

\* A field is set.
LEMMA FieldSet ==
  ASSUME TypeOK, HeapOK, NEW o \in Live, NEW obj \in Object, obj.type = heap[o].type,
         heap' = [heap EXCEPT ![o] = obj],
         Pointers(obj) \subseteq Pointers(heap[o]) \cup Held, Roots' \subseteq Held,
         strings \subseteq strings', strings' \subseteq Held
  PROVE  Writes /\ Allocated(heap)' = Allocated(heap)
<1>1. o \in Obj /\ Pointers(heap[o]) \subseteq Live
  BY LiveIsAllocated DEF IsClosed
<1>2. heap' \in [Obj -> Object] /\ heap'[o] = obj /\ \A p \in Obj \ {o} : heap'[p] = heap[p]
  BY <1>1 DEF TypeOK
<1>3. Allocated(heap)' = Allocated(heap)
  BY <1>1, <1>2 DEF Allocated
<1>4. \A p \in Allocated(heap) : p \in Obj
  BY DEF Allocated
<1> QED
  BY <1>1, <1>2, <1>3, <1>4 DEF Writes, Held

----------------------------------------------------------------------------
(***************************************************************************)
(* Steps that leave the objects alone.                                     *)
(***************************************************************************)

LEMMA QuietKeeps ==
  ASSUME IInv, UNCHANGED <<objects, strings, openUpvalues>>,
         pc \notin {"done", "intern"}, pc' \notin {"string", "intern"},
         Roots' \subseteq Held, FreeFrom(stack'.top + 1), stack'.top \in Nat,
         TypeOK', Control', FunctionsOK'
  PROVE  Writes /\ IInv'
<1>1. TypeOK /\ HeapOK /\ PointersOK /\ OpenOK /\ ClosedOK /\ InternedOK
  BY DEF IInv
<1>2. UNCHANGED <<heap, text, location, strings, openUpvalues>>
  BY DEF objects
<1>3. Writes
  BY <1>1, <1>2, NothingWritten
<1>4. HeapOK'
  BY <1>1, <1>3, WritesKeepHeap
<1>5. PointersOK'
  BY <1>1, <1>2 DEF PointersOK, Is
<1>6. OpenOK'
  <2>1. ASSUME NEW u \in openUpvalues  PROVE location[u] \in 1..stack'.top
    <3>1. location[u] \in 1..stack.top /\ stack.top \in Nat
      BY <1>1, Typed, TopIsNatural DEF OpenOK
    <3>2. location[u] < stack'.top + 1
      BY DEF FreeFrom
    <3> QED
      BY <3>1, <3>2
  <2> QED
    BY <1>1, <1>2, <2>1 DEF OpenOK
<1>7. ClosedOK'
  BY <1>1, <1>2 DEF ClosedOK
<1>8. InternedOK'
  BY <1>1, <1>2 DEF InternedOK
<1> QED
  BY <1>3, <1>4, <1>5, <1>6, <1>7, <1>8 DEF IInv

\* Between two instructions.
LEMMA ControlExecuting ==
  ASSUME pc' = "execute", Running', c'.object = None, c'.operands = {}
  PROVE  Control'
BY DEF Control, BetweenCallsOK, CompilingOK, StringsOK, RunningOK, UnusedLocals

\* An instruction that moves values between slots.
LEMMA MoveKeeps ==
  ASSUME IInv, pc = "execute", UNCHANGED <<heap, globals, moves>>,
         stack' \in Stack,
         \A i \in 1..stack'.top : stack'.slots[i] \in Held \cup {None},
         FreeFrom(stack'.top + 1)
  PROVE  Writes /\ IInv'
<1>1. TypeOK /\ HeapOK /\ Control /\ FunctionsOK
  BY DEF IInv
<1>2. UNCHANGED <<heap, text, location, strings, globals, frames, openUpvalues, compilers, pc, c>>
  BY DEF moves, running
<1>3. TypeOK'
  BY <1>1, <1>2 DEF TypeOK, Stack, Is
<1>4. Control'
  <2>1. Running /\ c.object = None /\ c.operands = {}
    BY <1>1 DEF Control, RunningOK, UnusedLocals
  <2> QED
    BY <1>2, <2>1, ControlExecuting DEF Running
<1>5. Roots' \subseteq Held
  <2>1. Roots \subseteq Held
    BY <1>1, LiveIsAllocated DEF Held
  <2>2. /\ \A i \in DOMAIN frames : frames[i].closure \in Held
        /\ openUpvalues \subseteq Held
        /\ \A name \in DOMAIN globals : name \in Held /\ globals[name] \in Held \cup {None}
        /\ \A i \in DOMAIN compilers : compilers[i] \in Held
    BY <1>1, <2>1, RootsAreRefs
  <2> QED
    BY <1>2, <2>2, RootsAreIn2
<1>6. FunctionsOK'
  BY <1>1, <1>2 DEF FunctionsOK
<1>7. stack'.top \in Nat
  BY TopIsNatural
<1> QED
  BY <1>2, <1>3, <1>4, <1>5, <1>6, <1>7, QuietKeeps DEF objects


----------------------------------------------------------------------------
(***************************************************************************)
(* What a running function has.                                            *)
(***************************************************************************)

LEMMA SlotIsLive ==
  ASSUME TypeOK, HeapOK, NEW i \in 1..stack.top
  PROVE  stack.slots[i] \in Live \cup {None} /\ stack.slots[i] \in Ref
BY RootsAreRefs, LiveIsAllocated, Typed

LEMMA RunningHas ==
  ASSUME TypeOK, HeapOK, PointersOK, Running
  PROVE  /\ Len(frames) \in Nat /\ Len(frames) > 0
         /\ Frame.closure \in Live /\ Frame.slots \in Slot
         /\ heap[Frame.closure].type = "closure"
         /\ heap[Frame.closure].upvalues \subseteq Live
         /\ \A u \in heap[Frame.closure].upvalues : Is(u, "upvalue")
         /\ heap[Frame.closure].function \in Live
         /\ heap[heap[Frame.closure].function].type = "function"
         /\ \A type : Constants(type) \subseteq Live
         /\ Locals \subseteq 2..stack.top
<1>1. Len(frames) \in Nat /\ Len(frames) > 0
  <2>1. frames # <<>> /\ frames \in Seq([closure : Obj, slots : Slot])
    BY DEF Running, TypeOK
  <2> QED
    BY <2>1, EmptySeq, LenProperties
<1>2. Len(frames) \in 1..Len(frames)
  BY <1>1
<1>3. Frame.closure \in Obj /\ Frame.slots \in Slot /\ Is(Frame.closure, "closure")
  BY <1>2, Typed DEF Frame
<1>4. Frame.closure \in Live
  BY <1>2, Typed, RootsAreRefs, LiveIsAllocated DEF Frame
<1>5. heap[Frame.closure].type = "closure" /\ heap[Frame.closure] \in Object
  BY <1>3 DEF Is, TypeOK
<1>6. /\ Is(heap[Frame.closure].function, "function")
      /\ \A u \in heap[Frame.closure].upvalues : Is(u, "upvalue")
  BY <1>3, <1>5 DEF PointersOK
<1>7. Pointers(heap[Frame.closure]) \subseteq Live
  BY <1>4, LiveIsAllocated DEF IsClosed
<1>8. heap[Frame.closure].upvalues \subseteq Live
  <2>1. ASSUME NEW u \in heap[Frame.closure].upvalues  PROVE u \in Live
    BY <1>6, <1>7, <2>1 DEF Pointers, Is
  <2> QED
    BY <2>1
<1>9. heap[Frame.closure].function \in Live
  BY <1>6, <1>7 DEF Pointers, Is
<1>10. heap[heap[Frame.closure].function].type = "function"
  BY <1>6 DEF Is
<1>11. ASSUME NEW type  PROVE Constants(type) \subseteq Live
  <2>1. Pointers(heap[heap[Frame.closure].function]) \subseteq Live
    BY <1>9, LiveIsAllocated DEF IsClosed
  <2> QED
    BY <2>1 DEF Constants, Pointers, Is
<1>12. Locals \subseteq 2..stack.top
  <2>1. stack.top \in Nat /\ Frame.slots \in Nat /\ Frame.slots >= 1
    BY <1>3, Typed, TopIsNatural, MutatorAssumption DEF Slot
  <2> QED
    BY <2>1 DEF Locals
<1> QED
  BY <1>1, <1>3, <1>4, <1>5, <1>6, <1>8, <1>9, <1>10, <1>11, <1>12

\* What is popped is nobody's variable, and the function itself is not popped.
LEMMA TemporariesAreFree ==
  ASSUME TypeOK, HeapOK, PointersOK, OpenOK, Running, NEW n \in Nat \ {0}, Temporaries(n)
  PROVE  /\ stack.top \in Nat /\ stack.top > n
         /\ FreeFrom(stack.top - n + 1)
         /\ stack.top - n + 1 \in Locals
<1>1. stack.top \in Nat
  BY Typed, TopIsNatural
<1>2. stack.top - n + 1 \in Locals
  BY <1>1 DEF Temporaries
<1>3. stack.top > n
  BY <1>1, <1>2, RunningHas
<1>4. ASSUME NEW u \in openUpvalues  PROVE location[u] < stack.top - n + 1
  <2>1. location[u] \in 1..stack.top
    BY DEF OpenOK
  <2>2. location[u] \notin (stack.top - n + 1)..stack.top
    BY DEF Temporaries, Captured
  <2> QED
    BY <1>1, <2>1, <2>2
<1> QED
  BY <1>1, <1>2, <1>3, <1>4 DEF FreeFrom

\* *upvalue->location
LEMMA ValueIsLive ==
  ASSUME TypeOK, HeapOK, OpenOK, ClosedOK, pc # "done", NEW u \in Live, Is(u, "upvalue")
  PROVE  ValueOf(u) \in Live \cup {None}
<1>1. u \in Obj /\ heap[u] \in Object
  BY LiveIsAllocated DEF TypeOK
<1>2. CASE location[u] = 0
  <2>1. heap[u].closed \in Pointers(heap[u]) \cup {None}
    BY DEF Pointers
  <2> QED
    BY <1>2, <2>1, LiveIsAllocated DEF ValueOf, IsClosed
<1>3. CASE location[u] # 0
  <2>1. u \in openUpvalues
    BY <1>1, <1>3 DEF ClosedOK, Is
  <2>2. location[u] \in 1..stack.top
    BY <2>1 DEF OpenOK
  <2> QED
    BY <1>3, <2>2, SlotIsLive DEF ValueOf
<1> QED
  BY <1>2, <1>3

\* Where a value is pushed or popped.
LEMMA PushedIsLive ==
  ASSUME TypeOK, HeapOK, NEW n \in 0..stack.top, NEW v \in Ref, NEW R, Live \subseteq R,
         v \in R \cup {None}, stack.top - n < MaxStack
  PROVE  LET st == Pushed(Popped(stack, n), v)
         IN  /\ st \in Stack
             /\ st.top = stack.top - n + 1
             /\ st.slots[st.top] = v
             /\ \A i \in 1..st.top : st.slots[i] \in R \cup {None}
             /\ \A i \in 1..(stack.top - n) : st.slots[i] = stack.slots[i]
<1> DEFINE lower == Popped(stack, n)
           st    == Pushed(lower, v)
<1>1. stack \in Stack /\ stack.top \in Nat
  BY Typed, TopIsNatural
<1>2. lower \in Stack /\ lower.top = stack.top - n /\ lower.slots = stack.slots
  BY <1>1, PoppedIs
<1> HIDE DEF lower
<1>3. /\ st \in Stack
      /\ st.top = lower.top + 1
      /\ st.slots[lower.top + 1] = v
      /\ \A i \in 1..lower.top : st.slots[i] = lower.slots[i]
  BY <1>2, PushedIs
<1> HIDE DEF st
<1>4. ASSUME NEW i \in 1..st.top  PROVE st.slots[i] \in R \cup {None}
  <2>1. CASE i = st.top
    BY <1>2, <1>3, <2>1
  <2>2. CASE i # st.top
    <3>1. i \in 1..lower.top /\ i \in 1..stack.top
      BY <1>1, <1>2, <1>3, <2>2
    <3> QED
      BY <1>2, <1>3, <3>1, SlotIsLive
  <2> QED
    BY <2>1, <2>2
<1> QED
  BY <1>1, <1>2, <1>3, <1>4 DEF st, lower

LEMMA PoppedIsLive ==
  ASSUME TypeOK, HeapOK, NEW n \in 0..stack.top
  PROVE  /\ Popped(stack, n) \in Stack
         /\ Popped(stack, n).top = stack.top - n
         /\ Popped(stack, n).slots = stack.slots
         /\ \A i \in 1..(stack.top - n) : stack.slots[i] \in Live \cup {None}
<1>1. stack \in Stack /\ stack.top \in Nat
  BY Typed, TopIsNatural
<1>2. \A i \in 1..(stack.top - n) : i \in 1..stack.top
  BY <1>1
<1> QED
  BY <1>1, <1>2, PoppedIs, SlotIsLive


----------------------------------------------------------------------------
(***************************************************************************)
(* What the proofs about the steps have in common.                         *)
(***************************************************************************)

FrameRecord == [closure : Obj, slots : Slot]

CLocals == [then : PC \cup {"", "concatenate"}, text : Text \cup {None}, object : Ref,
            operands : SUBSET Obj]

LEMMA NoLocalsAre ==
  /\ NoLocals \in CLocals
  /\ NoLocals.then = "" /\ NoLocals.text = None /\ NoLocals.object = None /\ NoLocals.operands = {}
BY DEF NoLocals, CLocals, Ref

LEMMA TypeKept ==
  ASSUME TypeOK, HeapOK, Writes,
         \A o \in Obj : heap'[o] # heap[o] => WellFormed(heap'[o]),
         text' \in [Obj -> Text \cup {None}], location' \in [Obj -> Slot \cup {0}],
         strings' \subseteq Obj, \A s \in strings' : s \notin strings => Is(s, "string")',
         UNCHANGED globals \/ (/\ DOMAIN globals' \subseteq Obj
                               /\ \A name \in DOMAIN globals' :
                                    globals'[name] \in Ref /\ Is(name, "string")),
         stack' \in Stack,
         UNCHANGED frames \/ (/\ frames' \in Seq(FrameRecord)
                              /\ \A i \in DOMAIN frames' : Is(frames[i].closure, "closure")'),
         openUpvalues' \subseteq Obj,
         UNCHANGED compilers \/ (/\ compilers' \in Seq(Obj)
                                 /\ \A i \in DOMAIN compilers' : Is(compilers[i], "function")'),
         pc' \in PC, c' \in CLocals
  PROVE  TypeOK'
<1>1. \A o \in Obj, type \in ObjType : Is(o, type) => Is(o, type)'
  BY WritesKeepHeap
<1>2. "string" \in ObjType /\ "closure" \in ObjType /\ "function" \in ObjType
  BY DEF ObjType
<1>3. heap' \in [Obj -> Object]
  BY DEF Writes
<1>4. \A o \in Obj : WellFormed(heap'[o])
  BY DEF TypeOK
<1>5. DOMAIN globals' \subseteq Obj /\ \A name \in DOMAIN globals' : globals'[name] \in Ref /\ Is(name, "string")'
  <2>1. CASE UNCHANGED globals
    BY <1>1, <1>2, <2>1 DEF TypeOK
  <2>2. CASE /\ DOMAIN globals' \subseteq Obj
             /\ \A name \in DOMAIN globals' : globals'[name] \in Ref /\ Is(name, "string")
    BY <1>1, <1>2, <2>2
  <2> QED
    BY <2>1, <2>2
<1>6. \A key \in strings' \cup DOMAIN globals' : Is(key, "string")'
  <2>1. \A key \in strings' : Is(key, "string")'
    BY <1>1, <1>2 DEF TypeOK
  <2> QED
    BY <1>5, <2>1
<1>7. frames' \in Seq(FrameRecord) /\ \A i \in DOMAIN frames' : Is(frames[i].closure, "closure")'
  <2>1. CASE UNCHANGED frames
    <3>1. frames \in Seq(FrameRecord) /\ \A i \in DOMAIN frames : Is(frames[i].closure, "closure")
      BY DEF TypeOK, FrameRecord
    <3>2. \A i \in DOMAIN frames : frames[i].closure \in Obj
      BY Typed
    <3> QED
      BY <1>1, <1>2, <2>1, <3>1, <3>2
  <2> QED
    BY <2>1
<1>8. compilers' \in Seq(Obj) /\ \A i \in DOMAIN compilers' : Is(compilers[i], "function")'
  <2>1. CASE UNCHANGED compilers
    <3>1. compilers \in Seq(Obj) /\ \A i \in DOMAIN compilers : Is(compilers[i], "function")
      BY DEF TypeOK
    <3>2. \A i \in DOMAIN compilers : compilers[i] \in Obj
      BY Typed
    <3> QED
      BY <1>1, <1>2, <2>1, <3>1, <3>2
  <2> QED
    BY <2>1
<1> QED
  BY <1>3, <1>4, <1>5, <1>6, <1>7, <1>8 DEF TypeOK, Stack, FrameRecord, CLocals

\* Steps that make or change objects other than strings, and open or close nothing.
LEMMA WritingKeeps ==
  ASSUME IInv, Writes, UNCHANGED <<text, location, strings, openUpvalues>>,
         pc \notin {"done", "intern"}, pc' \notin {"string", "intern"},
         \A o \in Fresh : heap'[o].type \notin {"string", "upvalue"},
         \A o \in Obj : heap'[o] # heap[o] /\ heap'[o].type = "closure" =>
            Is(heap'[o].function, "function") /\ \A u \in heap'[o].upvalues : Is(u, "upvalue"),
         FreeFrom(stack'.top + 1), stack'.top \in Nat,
         TypeOK', Control', FunctionsOK'
  PROVE  IInv'
<1>1. TypeOK /\ HeapOK /\ PointersOK /\ OpenOK /\ ClosedOK /\ InternedOK
  BY DEF IInv
<1>2. HeapOK'
  BY <1>1, WritesKeepHeap
<1>3. \A o \in Obj, type \in ObjType : Is(o, type) => Is(o, type)'
  BY <1>1, WritesKeepHeap
<1>4. \A o \in Obj : heap'[o].type \in {"string", "upvalue"} => heap[o].type = heap'[o].type
  <2>1. ASSUME NEW o \in Obj, heap'[o].type \in {"string", "upvalue"}  PROVE heap[o].type = heap'[o].type
    <3>1. o \notin Fresh /\ o \in Allocated(heap')
      BY <2>1 DEF Allocated
    <3>2. o \in Allocated(heap)
      BY <3>1 DEF Fresh
    <3> QED
      BY <3>2 DEF Writes
  <2> QED
    BY <2>1
<1>5. PointersOK'
  <2>1. "function" \in ObjType /\ "upvalue" \in ObjType
    BY DEF ObjType
  <2>2. ASSUME NEW o \in Obj, heap'[o].type = "closure"
        PROVE  Is(heap'[o].function, "function") /\ \A u \in heap'[o].upvalues : Is(u, "upvalue")
    BY <1>1, <2>2 DEF PointersOK
  <2>3. \A o \in Obj : heap'[o] \in Object
    BY DEF Writes
  <2>4. ASSUME NEW o \in Obj, heap'[o].type = "closure"
        PROVE  Is(heap[o].function, "function")' /\ \A u \in heap'[o].upvalues : Is(u, "upvalue")'
    <3>1. heap'[o].function \in Ref /\ heap'[o].upvalues \subseteq Obj
      BY <2>3 DEF Object
    <3>2. heap'[o].function \in Obj
      BY <2>2, <2>4, <3>1 DEF Ref, Is
    <3> QED
      BY <1>3, <2>1, <2>2, <2>4, <3>1, <3>2
  <2>5. \A u \in openUpvalues' : Is(u, "upvalue")'
    BY <1>1, <1>3, <2>1 DEF PointersOK, TypeOK
  <2> QED
    BY <2>4, <2>5 DEF PointersOK
<1>6. OpenOK'
  <2>1. ASSUME NEW u \in openUpvalues  PROVE location[u] \in 1..stack'.top
    <3>1. location[u] \in 1..stack.top /\ stack.top \in Nat
      BY <1>1, Typed, TopIsNatural DEF OpenOK
    <3>2. location[u] < stack'.top + 1
      BY DEF FreeFrom
    <3> QED
      BY <3>1, <3>2
  <2> QED
    BY <1>1, <2>1 DEF OpenOK
<1>7. ClosedOK'
  BY <1>1, <1>4 DEF ClosedOK
<1>8. InternedOK'
  BY <1>1, <1>4 DEF InternedOK
<1> QED
  BY <1>2, <1>5, <1>6, <1>7, <1>8 DEF IInv

\* Steps that change only the stack, and what comes next.
LEMMA StackStepKeeps ==
  ASSUME IInv, UNCHANGED <<objects, strings, globals, running, compilers>>,
         pc \notin {"done", "intern"}, pc' \notin {"string", "intern"}, pc' \in PC, c' \in CLocals,
         stack' \in Stack,
         \A i \in 1..stack'.top : stack'.slots[i] \in Held \cup {None},
         FreeFrom(stack'.top + 1), Control', FunctionsOK'
  PROVE  Writes /\ IInv'
<1>1. TypeOK /\ HeapOK
  BY DEF IInv
<1>2. UNCHANGED <<heap, text, location, strings, globals, frames, openUpvalues, compilers>>
  BY DEF objects, running
<1>3. Roots' \subseteq Held
  <2>1. Roots \subseteq Held
    BY <1>1, LiveIsAllocated DEF Held
  <2>2. /\ \A i \in DOMAIN frames : frames[i].closure \in Held
        /\ openUpvalues \subseteq Held
        /\ \A name \in DOMAIN globals : name \in Held /\ globals[name] \in Held \cup {None}
        /\ \A i \in DOMAIN compilers : compilers[i] \in Held
    BY <1>1, <2>1, RootsAreRefs
  <2> QED
    BY <1>2, <2>2, RootsAreIn2
<1>4. TypeOK'
  BY <1>1, <1>2 DEF TypeOK, Stack, CLocals, Is
<1>5. stack'.top \in Nat
  BY TopIsNatural
<1> QED
  BY <1>2, <1>3, <1>4, <1>5, QuietKeeps DEF objects


LEMMA PushedOnIsLive ==
  ASSUME TypeOK, HeapOK, NEW v \in Ref, NEW R, Live \subseteq R, v \in R \cup {None}, Room
  PROVE  LET st == Pushed(stack, v)
         IN  /\ st \in Stack
             /\ st.top = stack.top + 1
             /\ st.slots[st.top] = v
             /\ \A i \in 1..st.top : st.slots[i] \in R \cup {None}
             /\ \A i \in 1..stack.top : st.slots[i] = stack.slots[i]
<1> DEFINE st == Pushed(stack, v)
<1>1. stack \in Stack /\ stack.top \in Nat
  BY Typed, TopIsNatural
<1>2. /\ st \in Stack
      /\ st.top = stack.top + 1
      /\ st.slots[stack.top + 1] = v
      /\ \A i \in 1..stack.top : st.slots[i] = stack.slots[i]
  BY <1>1, PushedIs DEF Room
<1> HIDE DEF st
<1>3. ASSUME NEW i \in 1..st.top  PROVE st.slots[i] \in R \cup {None}
  <2>1. CASE i = st.top
    BY <1>2, <2>1
  <2>2. CASE i # st.top
    <3>1. i \in 1..stack.top
      BY <1>1, <1>2, <2>2
    <3> QED
      BY <1>2, <3>1, SlotIsLive
  <2> QED
    BY <2>1, <2>2
<1> QED
  BY <1>1, <1>2, <1>3 DEF st

\* peek()
LEMMA PeekIsLive ==
  ASSUME TypeOK, HeapOK, NEW n \in Nat, stack.top > n
  PROVE  Peek(n) \in Live \cup {None} /\ Peek(n) \in Ref
<1>1. stack.top \in Nat
  BY Typed, TopIsNatural
<1>2. stack.top - n \in 1..stack.top
  BY <1>1
<1> QED
  BY <1>2, SlotIsLive DEF Peek

LEMMA OpenAreBelow ==
  ASSUME TypeOK, OpenOK
  PROVE  FreeFrom(stack.top + 1) /\ stack.top \in Nat
<1>1. stack.top \in Nat
  BY Typed, TopIsNatural
<1>2. ASSUME NEW u \in openUpvalues  PROVE location[u] < stack.top + 1
  BY <1>1 DEF OpenOK
<1> QED
  BY <1>1, <1>2 DEF FreeFrom

\* The variables stay below a higher top.
LEMMA FreeFromMore ==
  ASSUME TypeOK, OpenOK, NEW m \in Int, NEW n \in Int, m <= n, FreeFrom(m)
  PROVE  FreeFrom(n)
<1>1. \A u \in openUpvalues : location[u] \in Int
  BY Typed, TopIsNatural DEF OpenOK
<1> QED
  BY <1>1 DEF FreeFrom

----------------------------------------------------------------------------
(***************************************************************************)
(* The instructions that move values.                                      *)
(***************************************************************************)

LEMMA PushKeeps ==
  ASSUME IInv, Push  PROVE Writes /\ IInv'
<1>1. TypeOK /\ HeapOK /\ PointersOK /\ OpenOK /\ ClosedOK /\ Control
  BY DEF IInv
<1>2. pc = "execute" /\ Room /\ Running
  BY <1>1 DEF Push, Control, RunningOK
<1>3. PICK v : stack' = Pushed(stack, v) /\
        \/ v \in Constants("string")
        \/ v = None
        \/ \E slot \in Locals : v = stack.slots[slot]
        \/ \E name \in Constants("string") \cap DOMAIN globals : v = globals[name]
        \/ \E u \in heap[Frame.closure].upvalues : v = ValueOf(u)
  BY DEF Push
<1>4. v \in Live \cup {None}
  <2>1. CASE v \in Constants("string")
    BY <1>1, <1>2, <2>1, RunningHas
  <2>2. CASE \E slot \in Locals : v = stack.slots[slot]
    <3>1. stack.top \in Nat
      BY <1>1, Typed, TopIsNatural
    <3>2. \A slot \in Locals : slot \in 1..stack.top
      BY <1>1, <1>2, <3>1, RunningHas
    <3> QED
      BY <1>1, <2>2, <3>2, SlotIsLive
  <2>3. CASE \E name \in DOMAIN globals : v = globals[name]
    BY <1>1, <2>3, RootsAreRefs, LiveIsAllocated
  <2>4. CASE \E u \in heap[Frame.closure].upvalues : v = ValueOf(u)
    <3>1. PICK u \in heap[Frame.closure].upvalues : v = ValueOf(u)
      BY <2>4
    <3>2. u \in Live /\ Is(u, "upvalue") /\ pc # "done"
      BY <1>1, <1>2, RunningHas
    <3> QED
      BY <1>1, <3>1, <3>2, ValueIsLive
  <2> QED
    BY <1>3, <2>1, <2>2, <2>3, <2>4
<1>5. v \in Ref
  BY <1>1, <1>4, LiveIsAllocated DEF Ref
<1>6. /\ stack' \in Stack
      /\ stack'.top = stack.top + 1
      /\ \A i \in 1..stack'.top : stack'.slots[i] \in Live \cup {None}
  BY <1>1, <1>2, <1>3, <1>4, <1>5, PushedOnIsLive
<1>7. FreeFrom(stack'.top + 1)
  <2>1. FreeFrom(stack.top + 1) /\ stack.top \in Nat
    BY <1>1, OpenAreBelow
  <2> QED
    BY <1>1, <1>6, <2>1, FreeFromMore
<1> QED
  BY <1>2, <1>6, <1>7, MoveKeeps DEF Push, Held

LEMMA PopKeeps ==
  ASSUME IInv, Pop  PROVE Writes /\ IInv'
<1>1. TypeOK /\ HeapOK /\ PointersOK /\ OpenOK /\ Control
  BY DEF IInv
<1>2. pc = "execute" /\ Temporaries(1) /\ Running /\ stack' = Popped(stack, 1)
  BY <1>1 DEF Pop, Control, RunningOK
<1>3. stack.top \in Nat /\ stack.top > 1 /\ FreeFrom(stack.top - 1 + 1)
  BY <1>1, <1>2, TemporariesAreFree
<1>4. 1 \in 0..stack.top
  BY <1>3
<1>5. /\ stack' \in Stack
      /\ stack'.top = stack.top - 1
      /\ \A i \in 1..stack'.top : stack'.slots[i] \in Live \cup {None}
  BY <1>1, <1>2, <1>4, PoppedIsLive
<1> QED
  BY <1>2, <1>3, <1>5, MoveKeeps DEF Pop, Held

\* n operands are replaced by a value.
LEMMA ReplaceKeeps ==
  ASSUME IInv, pc = "execute", NEW n \in Nat \ {0}, Temporaries(n), UNCHANGED <<heap, globals, moves>>,
         stack' = Pushed(Popped(stack, n), None)
  PROVE  Writes /\ IInv'
<1>1. TypeOK /\ HeapOK /\ PointersOK /\ OpenOK /\ Control
  BY DEF IInv
<1>2. Running
  BY <1>1 DEF Control, RunningOK
<1>3. stack.top \in Nat /\ stack.top > n /\ FreeFrom(stack.top - n + 1)
  BY <1>1, <1>2, TemporariesAreFree
<1>4. n \in 0..stack.top /\ stack.top - n < MaxStack
  BY <1>1, <1>3, Typed, TopIsNatural, MutatorAssumption
<1>5. None \in Ref /\ None \in Live \cup {None}
  BY DEF Ref
<1>6. /\ stack' \in Stack
      /\ stack'.top = stack.top - n + 1
      /\ \A i \in 1..stack'.top : stack'.slots[i] \in Live \cup {None}
  BY <1>1, <1>4, <1>5, PushedIsLive
<1>7. FreeFrom(stack'.top + 1)
  BY <1>1, <1>3, <1>6, FreeFromMore
<1> QED
  BY <1>6, <1>7, MoveKeeps DEF Held

LEMMA OperateKeeps ==
  ASSUME IInv, Operate  PROVE Writes /\ IInv'
BY ReplaceKeeps DEF Operate, Executes

\* Slot i gets the value v.
LEMMA SlotSetKeeps ==
  ASSUME IInv, pc = "execute", NEW i \in 1..stack.top, NEW v \in Live \cup {None},
         UNCHANGED <<heap, globals, moves>>, stack' = [stack EXCEPT !.slots[i] = v]
  PROVE  Writes /\ IInv'
<1>1. TypeOK /\ HeapOK /\ OpenOK
  BY DEF IInv
<1>2. stack \in Stack /\ i \in Slot /\ v \in Ref
  BY <1>1, Typed, TopIsNatural, LiveIsAllocated DEF Ref
<1>3. /\ stack' \in Stack
      /\ stack'.top = stack.top
      /\ stack'.slots[i] = v
      /\ \A k \in Slot \ {i} : stack'.slots[k] = stack.slots[k]
  BY <1>2 DEF Stack
<1>4. ASSUME NEW k \in 1..stack'.top  PROVE stack'.slots[k] \in Live \cup {None}
  BY <1>1, <1>2, <1>3, SlotIsLive, TopIsNatural
<1>5. FreeFrom(stack'.top + 1)
  BY <1>1, <1>3, OpenAreBelow
<1> QED
  BY <1>3, <1>4, <1>5, MoveKeeps DEF Held

LEMMA SetLocalKeeps ==
  ASSUME IInv, SetLocal  PROVE Writes /\ IInv'
<1>1. TypeOK /\ HeapOK /\ PointersOK /\ Control
  BY DEF IInv
<1>2. pc = "execute" /\ Running /\ UNCHANGED <<heap, globals, moves>>
  BY <1>1 DEF SetLocal, Executes, Control, RunningOK
<1>3. PICK slot \in Locals : stack' = [stack EXCEPT !.slots[slot] = Peek(0)]
  BY DEF SetLocal
<1>4. slot \in 1..stack.top /\ stack.top > 0
  <2>1. stack.top \in Nat
    BY <1>1, Typed, TopIsNatural
  <2>2. slot \in 2..stack.top
    BY <1>1, <1>2, RunningHas
  <2> QED
    BY <2>1, <2>2
<1>5. Peek(0) \in Live \cup {None}
  BY <1>1, <1>4, PeekIsLive
<1> QED
  BY <1>2, <1>3, <1>4, <1>5, SlotSetKeeps


\* A field is set, and nothing else but the stack changes.
LEMMA FieldStepKeeps ==
  ASSUME IInv, NEW o \in Live, NEW obj \in Object, obj.type = heap[o].type,
         heap' = [heap EXCEPT ![o] = obj], WellFormed(obj),
         Pointers(obj) \subseteq Pointers(heap[o]) \cup Held,
         obj.type = "closure" =>
            Is(obj.function, "function") /\ \A u \in obj.upvalues : Is(u, "upvalue"),
         UNCHANGED <<text, location, strings, globals, running, compilers>>,
         pc \notin {"done", "intern"}, pc' \notin {"string", "intern"}, pc' \in PC, c' \in CLocals,
         stack' \in Stack,
         \A i \in 1..stack'.top : stack'.slots[i] \in Held \cup {None},
         FreeFrom(stack'.top + 1), Control', FunctionsOK'
  PROVE  Writes /\ IInv'
<1>1. TypeOK /\ HeapOK
  BY DEF IInv
<1>2. UNCHANGED <<text, location, strings, globals, frames, openUpvalues, compilers>>
  BY DEF running
<1>3. Roots' \subseteq Held
  <2>1. Roots \subseteq Held
    BY <1>1, LiveIsAllocated DEF Held
  <2>2. /\ \A i \in DOMAIN frames : frames[i].closure \in Held
        /\ openUpvalues \subseteq Held
        /\ \A name \in DOMAIN globals : name \in Held /\ globals[name] \in Held \cup {None}
        /\ \A i \in DOMAIN compilers : compilers[i] \in Held
    BY <1>1, <2>1, RootsAreRefs
  <2> QED
    BY <1>2, <2>2, RootsAreIn2
<1>4. Writes /\ Allocated(heap)' = Allocated(heap)
  BY <1>1, <1>2, <1>3, FieldSet DEF Held
<1>5. o \in Obj /\ \A p \in Obj : heap'[p] # heap[p] => p = o /\ heap'[p] = obj
  BY <1>1, LiveIsAllocated DEF TypeOK
<1>6. TypeOK'
  <2>1. text' \in [Obj -> Text \cup {None}] /\ location' \in [Obj -> Slot \cup {0}] /\ strings' \subseteq Obj
    BY <1>1, <1>2 DEF TypeOK
  <2>2. openUpvalues' \subseteq Obj
    BY <1>1, <1>2 DEF TypeOK
  <2> QED
    BY <1>1, <1>2, <1>4, <1>5, <2>1, <2>2, TypeKept
<1>7. Fresh = {}
  BY <1>4 DEF Fresh
<1>8. stack'.top \in Nat
  BY TopIsNatural
<1> QED
  BY <1>2, <1>4, <1>5, <1>6, <1>7, <1>8, WritingKeeps

\* Where a field of a running closure or of what it refers to is set.
LEMMA ExecutingFunctions ==
  ASSUME IInv, pc = "execute", pc' = "execute", UNCHANGED compilers,
         \A o \in Obj : heap'[o].type = heap[o].type /\ heap'[o].constants = heap[o].constants
  PROVE  FunctionsOK'
<1>1. FunctionsOK /\ \A o \in Obj : heap[o].constants \subseteq Obj
  BY DEF IInv, TypeOK, Object
<1> QED
  BY <1>1 DEF FunctionsOK

LEMMA SetUpvalueKeeps ==
  ASSUME IInv, SetUpvalue  PROVE Writes /\ IInv'
<1>1. TypeOK /\ HeapOK /\ PointersOK /\ OpenOK /\ ClosedOK /\ Control
  BY DEF IInv
<1>2. pc = "execute" /\ Running /\ stack.top \in Locals /\ UNCHANGED <<globals, moves>>
  BY <1>1 DEF SetUpvalue, Executes, Control, RunningOK
<1>3. stack.top \in Nat /\ stack.top > 0
  BY <1>1, <1>2, RunningHas, Typed, TopIsNatural
<1>4. Peek(0) \in Live \cup {None} /\ Peek(0) \in Ref
  BY <1>1, <1>3, PeekIsLive
<1>5. PICK u \in heap[Frame.closure].upvalues :
        IF location[u] = 0
        THEN New(u, [heap[u] EXCEPT !.closed = Peek(0)]) /\ UNCHANGED stack
        ELSE stack' = [stack EXCEPT !.slots[location[u]] = Peek(0)] /\ UNCHANGED heap
  BY DEF SetUpvalue
<1>6. u \in Live /\ Is(u, "upvalue") /\ u \in Obj
  BY <1>1, <1>2, RunningHas, LiveIsAllocated
<1>7. CASE location[u] # 0
  <2>1. u \in openUpvalues
    BY <1>1, <1>2, <1>6, <1>7 DEF ClosedOK, Is
  <2>2. location[u] \in 1..stack.top
    BY <1>1, <2>1 DEF OpenOK
  <2> QED
    BY <1>2, <1>4, <1>5, <1>7, <2>2, SlotSetKeeps
<1>8. CASE location[u] = 0
  <2> DEFINE obj == [heap[u] EXCEPT !.closed = Peek(0)]
  <2>1. heap' = [heap EXCEPT ![u] = obj] /\ UNCHANGED stack
    BY <1>5, <1>8 DEF New
  <2>2. heap[u] \in Object /\ heap[u].type = "upvalue" /\ WellFormed(heap[u])
    BY <1>1, <1>6 DEF TypeOK, Is
  <2>3. /\ obj \in Object
        /\ obj.type = "upvalue" /\ obj.closed = Peek(0) /\ obj.constants = heap[u].constants
        /\ obj.function = heap[u].function /\ obj.name = heap[u].name /\ obj.upvalues = heap[u].upvalues
    BY <1>4, <2>2 DEF Object
  <2> HIDE DEF obj
  <2>4. WellFormed(obj)
    BY <2>2, <2>3 DEF WellFormed
  <2>5. Pointers(obj) \subseteq Pointers(heap[u]) \cup Held
    BY <1>4, <2>3 DEF Pointers, Held
  <2>6. UNCHANGED <<text, location, strings, frames, openUpvalues, running, compilers, pc, c>>
    BY <1>2 DEF moves, running
  <2>7. Control'
    <3>1. c.object = None /\ c.operands = {}
      BY <1>1, <1>2 DEF Control, UnusedLocals
    <3> QED
      BY <1>2, <2>6, <3>1, ControlExecuting DEF Running
  <2>8. \A p \in Obj : heap'[p].type = heap[p].type /\ heap'[p].constants = heap[p].constants
    BY <1>1, <1>6, <2>1, <2>2, <2>3 DEF TypeOK
  <2>9. FunctionsOK'
    BY <1>2, <2>6, <2>8, ExecutingFunctions
  <2>10. stack' \in Stack /\ \A i \in 1..stack'.top : stack'.slots[i] \in Held \cup {None}
    BY <1>1, <2>1, SlotIsLive, Typed DEF Held
  <2>11. FreeFrom(stack'.top + 1)
    BY <1>1, <2>1, OpenAreBelow
  <2>12. pc' \in PC /\ c' \in CLocals
    BY <1>1, <2>6 DEF TypeOK, CLocals
  <2> QED
    BY <1>2, <1>6, <2>1, <2>2, <2>3, <2>4, <2>5, <2>6, <2>7, <2>9, <2>10, <2>11, <2>12, FieldStepKeeps
<1> QED
  BY <1>7, <1>8

----------------------------------------------------------------------------
(***************************************************************************)
(* Steps up to the next allocation that change no object.                  *)
(***************************************************************************)

\* Steps that leave the stack alone as well.
LEMMA WaitKeeps ==
  ASSUME IInv, UNCHANGED <<objects, strings, globals, stack, running, compilers>>,
         pc \notin {"done", "intern"}, pc' \notin {"string", "intern"}, pc' \in PC, c' \in CLocals,
         Control', FunctionsOK'
  PROVE  Writes /\ IInv'
<1>1. TypeOK /\ HeapOK /\ OpenOK
  BY DEF IInv
<1>2. stack' \in Stack /\ \A i \in 1..stack'.top : stack'.slots[i] \in Held \cup {None}
  BY <1>1, SlotIsLive, Typed DEF Held
<1>3. FreeFrom(stack'.top + 1)
  BY <1>1, OpenAreBelow
<1> QED
  BY <1>2, <1>3, StackStepKeeps

\* Where the registers of C are those of a call with nothing to keep, but for these.
LEMMA LocalsAre ==
  ASSUME NEW then \in PC \cup {"", "concatenate"}, NEW object \in Ref, NEW operands \in SUBSET Obj
  PROVE  /\ [NoLocals EXCEPT !.then = then, !.object = object] \in CLocals
         /\ [NoLocals EXCEPT !.then = then, !.object = object].then = then
         /\ [NoLocals EXCEPT !.then = then, !.object = object].object = object
         /\ [NoLocals EXCEPT !.then = then, !.object = object].operands = {}
         /\ [NoLocals EXCEPT !.then = then] \in CLocals
         /\ [NoLocals EXCEPT !.then = then].then = then
         /\ [NoLocals EXCEPT !.then = then].object = None
         /\ [NoLocals EXCEPT !.then = then].operands = {}
         /\ [NoLocals EXCEPT !.object = object] \in CLocals
         /\ [NoLocals EXCEPT !.object = object].object = object
         /\ [NoLocals EXCEPT !.object = object].operands = {}
         /\ [NoLocals EXCEPT !.operands = operands] \in CLocals
         /\ [NoLocals EXCEPT !.operands = operands].object = None
         /\ [NoLocals EXCEPT !.operands = operands].operands = operands
BY DEF NoLocals, CLocals, Ref

LEMMA InterpretKeeps ==
  ASSUME IInv, Interpret  PROVE Writes /\ IInv'
<1>1. Control /\ FunctionsOK
  BY DEF IInv
<1>2. /\ pc = "idle" /\ pc' = "function" /\ c' = [NoLocals EXCEPT !.then = "compile"]
      /\ UNCHANGED <<objects, strings, globals, stack, running, compilers>>
  BY DEF Interpret
<1>3. "compile" \in PC \cup {"", "concatenate"} /\ None \in Ref /\ {} \in SUBSET Obj
  BY DEF PC, Allocations, Ref
<1>4. c' \in CLocals /\ c'.then = "compile" /\ c'.object = None /\ c'.operands = {}
  BY <1>2, <1>3, LocalsAre
<1>5. NotRunning' /\ compilers' = <<>> /\ stack'.top = 0
  BY <1>1, <1>2 DEF Control, BetweenCallsOK, Resting, NotRunning, running
<1>6. Control'
  BY <1>2, <1>4, <1>5 DEF Control, BetweenCallsOK, CompilingOK, StringsOK, RunningOK, UnusedLocals
<1>7. FunctionsOK'
  BY <1>1, <1>2, <1>4 DEF FunctionsOK, objects
<1> QED
  BY <1>2, <1>4, <1>6, <1>7, WaitKeeps DEF PC, Allocations

LEMMA BeginFunctionKeeps ==
  ASSUME IInv, BeginFunction  PROVE Writes /\ IInv'
<1>1. Control /\ FunctionsOK
  BY DEF IInv
<1>2. /\ pc = "compile" /\ pc' = "function" /\ c' = [NoLocals EXCEPT !.then = "name"]
      /\ UNCHANGED <<objects, strings, globals, stack, running, compilers>>
      /\ "fun" \in Instructions
  BY DEF BeginFunction
<1>3. "name" \in PC \cup {"", "concatenate"} /\ None \in Ref /\ {} \in SUBSET Obj
  BY DEF PC, Allocations, Ref
<1>4. c' \in CLocals /\ c'.then = "name" /\ c'.object = None /\ c'.operands = {}
  BY <1>2, <1>3, LocalsAre
<1>5. NotRunning' /\ compilers' # <<>> /\ stack'.top = 0
  BY <1>1, <1>2 DEF Control, CompilingOK, Compiling, NotRunning, running
<1>6. Control'
  BY <1>2, <1>4, <1>5 DEF Control, BetweenCallsOK, CompilingOK, StringsOK, RunningOK, UnusedLocals
<1>7. FunctionsOK'
  BY <1>2 DEF FunctionsOK
<1> QED
  BY <1>2, <1>4, <1>6, <1>7, WaitKeeps DEF PC, Allocations

LEMMA CaptureDoneKeeps ==
  ASSUME IInv, CaptureDone  PROVE Writes /\ IInv'
<1>1. Control /\ FunctionsOK
  BY DEF IInv
<1>2. /\ pc = "capture" /\ pc' = "execute" /\ c' = NoLocals
      /\ UNCHANGED <<objects, strings, globals, stack, running, compilers>>
  BY DEF CaptureDone
<1>3. Running'
  BY <1>1, <1>2 DEF Control, RunningOK, Running, running
<1>4. Control'
  BY <1>2, <1>3, NoLocalsAre, ControlExecuting
<1>5. FunctionsOK'
  BY <1>1, <1>2 DEF FunctionsOK, objects
<1> QED
  BY <1>2, <1>4, <1>5, NoLocalsAre, WaitKeeps DEF PC, Allocations

LEMMA ClosureKeeps ==
  ASSUME IInv, Closure  PROVE Writes /\ IInv'
<1>1. TypeOK /\ HeapOK /\ PointersOK /\ Control /\ FunctionsOK
  BY DEF IInv
<1>2. /\ pc = "execute" /\ pc' = "closure" /\ Running
      /\ UNCHANGED <<objects, strings, globals, stack, running, compilers>>
  BY <1>1 DEF Closure, Control, RunningOK
<1>3. PICK f \in Constants("function") : c' = [NoLocals EXCEPT !.then = "capture", !.object = f]
  BY DEF Closure
<1>4. f \in Obj /\ Constants("function")' = Constants("function") /\ Running'
  <2>1. f \in Obj
    BY <1>1, <1>2, RunningHas, LiveIsAllocated
  <2> QED
    BY <1>2, <2>1 DEF Constants, Frame, Is, Running, objects, running
<1>5. "capture" \in PC \cup {"", "concatenate"} /\ f \in Ref /\ {} \in SUBSET Obj
  BY <1>4 DEF PC, Allocations, Ref
<1>6. c' \in CLocals /\ c'.then = "capture" /\ c'.object = f /\ c'.operands = {}
  BY <1>3, <1>5 DEF NoLocals, CLocals
<1>7. Control'
  BY <1>2, <1>4, <1>6 DEF Control, BetweenCallsOK, CompilingOK, StringsOK, RunningOK, UnusedLocals
<1>8. FunctionsOK'
  <2>1. CASE "fun" \notin Instructions
    <3>1. heap[Frame.closure].function \in Obj /\ heap[f].type = "function"
      BY <1>1, <1>2, RunningHas, LiveIsAllocated DEF Constants, Is
    <3>2. f \in heap[heap[Frame.closure].function].constants
      BY DEF Constants
    <3> QED
      BY <1>1, <2>1, <3>1, <3>2 DEF FunctionsOK
  <2> QED
    BY <2>1 DEF FunctionsOK
<1> QED
  BY <1>2, <1>6, <1>7, <1>8, WaitKeeps DEF PC, Allocations


LEMMA NameGlobalKeeps ==
  ASSUME IInv, NameGlobal  PROVE Writes /\ IInv'
<1>1. TypeOK /\ HeapOK /\ PointersOK /\ OpenOK /\ Control /\ FunctionsOK
  BY DEF IInv
<1>2. /\ pc = "execute" /\ Running /\ "global" \in Instructions
      /\ UNCHANGED <<objects, strings, globals, stack, running, compilers>>
  BY <1>1 DEF NameGlobal, Executes, Control, RunningOK
<1>3. PICK name \in Constants("string") :
        \/ /\ Temporaries(1)
           /\ pc' = "define"
           /\ c' = [NoLocals EXCEPT !.then = "execute", !.object = name]
        \/ /\ stack.top \in Locals
           /\ pc' = "assign"
           /\ c' = [NoLocals EXCEPT !.object = name]
  BY DEF NameGlobal
<1>4. name \in Obj /\ Constants("string")' = Constants("string") /\ Running'
  <2>1. name \in Obj
    BY <1>1, <1>2, RunningHas, LiveIsAllocated
  <2> QED
    BY <1>2, <2>1 DEF Constants, Frame, Is, Running, objects, running
<1>5. name \in Ref /\ "execute" \in PC /\ pc' \in PC
  BY <1>3, <1>4 DEF Ref, PC, Allocations
<1>6. FunctionsOK'
  BY <1>1, <1>2, <1>3 DEF FunctionsOK, objects
<1>7. CASE /\ Temporaries(1)
           /\ pc' = "define"
           /\ c' = [NoLocals EXCEPT !.then = "execute", !.object = name]
  <2>1. c' \in CLocals /\ c'.then = "execute" /\ c'.object = name /\ c'.operands = {}
    BY <1>5, <1>7 DEF NoLocals, CLocals
  <2>2. stack.top \in Nat /\ stack.top > 1 /\ FreeFrom(stack.top - 1 + 1)
    BY <1>1, <1>2, <1>7, TemporariesAreFree
  <2>3. FreeFrom(stack.top)' /\ stack'.top > 0
    BY <1>2, <2>2 DEF FreeFrom, objects, running
  <2>4. Control'
    BY <1>3, <1>4, <1>7, <2>1, <2>3 DEF Control, BetweenCallsOK, CompilingOK, StringsOK, RunningOK, UnusedLocals
  <2> QED
    BY <1>2, <1>5, <1>6, <1>7, <2>1, <2>4, WaitKeeps
<1>8. CASE /\ stack.top \in Locals
           /\ pc' = "assign"
           /\ c' = [NoLocals EXCEPT !.object = name]
  <2>1. c' \in CLocals /\ c'.object = name /\ c'.operands = {}
    BY <1>5, <1>8 DEF NoLocals, CLocals
  <2>2. stack'.top > 0
    BY <1>1, <1>2, <1>8, RunningHas, Typed, TopIsNatural
  <2>3. Control'
    BY <1>2, <1>3, <1>4, <1>8, <2>1, <2>2 DEF Control, BetweenCallsOK, CompilingOK, StringsOK, RunningOK, UnusedLocals
  <2> QED
    BY <1>2, <1>5, <1>6, <1>8, <2>1, <2>3, WaitKeeps
<1> QED
  BY <1>3, <1>7, <1>8

LEMMA ConcatenateKeeps ==
  ASSUME IInv, Concatenate  PROVE Writes /\ IInv'
<1>1. TypeOK /\ HeapOK /\ PointersOK /\ OpenOK /\ Control /\ FunctionsOK
  BY DEF IInv
<1>2. /\ pc = "execute" /\ Running /\ pc' = "chars" /\ Temporaries(2)
      /\ Is(Peek(0), "string") /\ Is(Peek(1), "string")
      /\ c' = [NoLocals EXCEPT !.operands = {Peek(0), Peek(1)}]
      /\ UNCHANGED <<objects, strings, globals, stack, running, compilers>>
  BY <1>1 DEF Concatenate, Executes, Control, RunningOK
<1>3. stack.top \in Nat /\ stack.top > 2 /\ FreeFrom(stack.top - 2 + 1)
  BY <1>1, <1>2, TemporariesAreFree
<1>4. Peek(0) \in Obj /\ Peek(1) \in Obj
  BY <1>1, <1>2, <1>3, PeekIsLive DEF Ref, Is
<1>5. {Peek(0), Peek(1)} = {stack.slots[stack.top], stack.slots[stack.top - 1]}
  BY <1>3 DEF Peek
<1>6. c' \in CLocals /\ c'.object = None /\ c'.operands = {Peek(0), Peek(1)}
  BY <1>2, <1>4 DEF NoLocals, CLocals, Ref
<1>7. Running' /\ stack'.top >= 2 /\ FreeFrom(stack.top - 1)'
      /\ c'.operands \subseteq {stack'.slots[stack'.top], stack'.slots[stack'.top - 1]}
  <2>1. stack.top - 2 + 1 = stack.top - 1 /\ stack.top >= 2
    BY <1>3
  <2> QED
    BY <1>2, <1>3, <1>5, <1>6, <2>1 DEF Running, FreeFrom, objects, running
<1>8. Control'
  BY <1>2, <1>6, <1>7 DEF Control, BetweenCallsOK, CompilingOK, StringsOK, RunningOK, UnusedLocals
<1>9. FunctionsOK'
  BY <1>1, <1>2 DEF FunctionsOK, objects
<1> QED
  BY <1>2, <1>6, <1>8, <1>9, WaitKeeps DEF PC, Allocations

----------------------------------------------------------------------------
(***************************************************************************)
(* Steps that change the roots and no object.                              *)
(***************************************************************************)

\* The last of a sequence leaves it.
LEMMA AllButLast ==
  ASSUME NEW S, NEW s \in Seq(S), s # <<>>
  PROVE  /\ Len(s) \in Nat /\ Len(s) > 0
         /\ SubSeq(s, 1, Len(s) - 1) \in Seq(S)
         /\ Len(SubSeq(s, 1, Len(s) - 1)) = Len(s) - 1
         /\ \A i \in DOMAIN SubSeq(s, 1, Len(s) - 1) :
              i \in DOMAIN s /\ i < Len(s) /\ SubSeq(s, 1, Len(s) - 1)[i] = s[i]
<1> DEFINE last == Len(s) - 1
           t    == SubSeq(s, 1, last)
<1>1. Len(s) \in Nat /\ Len(s) > 0 /\ DOMAIN s = 1..Len(s)
  BY EmptySeq, LenProperties
<1>2. last \in Nat /\ Len(s) = last + 1
  BY <1>1
<1>3. \A i \in 1..last : s[i] \in S
  BY <1>1, ElementOfSeq
<1> HIDE DEF last
<1>4. last \in Int /\ 1 \in Int
  BY <1>2
<1>5. /\ t \in Seq(S)
      /\ Len(t) = IF 1 <= last THEN last - 1 + 1 ELSE 0
      /\ \A i \in 1..(last - 1 + 1) : t[i] = s[1 + i - 1]
  BY <1>3, <1>4, SubSeqProperties
<1> HIDE DEF t
<1>6. last - 1 + 1 = last /\ \A i \in 1..last : 1 + i - 1 = i
  BY <1>2
<1>7. Len(t) = last /\ \A i \in 1..last : t[i] = s[i]
  BY <1>2, <1>5, <1>6
<1>8. DOMAIN t = 1..last
  BY <1>5, <1>7, LenProperties
<1>9. \A i \in DOMAIN t : i \in DOMAIN s /\ i < Len(s) /\ t[i] = s[i]
  BY <1>1, <1>2, <1>7, <1>8
<1> QED
  BY <1>1, <1>5, <1>7, <1>9 DEF t, last

\* One more joins it.
LEMMA OneMore ==
  ASSUME NEW S, NEW s \in Seq(S), NEW e \in S
  PROVE  /\ Append(s, e) \in Seq(S)
         /\ Append(s, e) # <<>>
         /\ Len(s) \in Nat /\ Len(Append(s, e)) = Len(s) + 1
         /\ Append(s, e)[Len(s) + 1] = e
         /\ \A i \in DOMAIN Append(s, e) :
              i = Len(s) + 1 \/ (i \in DOMAIN s /\ Append(s, e)[i] = s[i])
<1>1. Len(s) \in Nat /\ DOMAIN s = 1..Len(s)
  BY LenProperties
<1>2. /\ Append(s, e) \in Seq(S)
      /\ Append(s, e) # <<>>
      /\ Len(Append(s, e)) = Len(s) + 1
      /\ \A i \in 1..Len(s) : Append(s, e)[i] = s[i]
      /\ Append(s, e)[Len(s) + 1] = e
  BY AppendProperties
<1>3. DOMAIN Append(s, e) = 1..(Len(s) + 1)
  BY <1>2, LenProperties
<1> QED
  BY <1>1, <1>2, <1>3

\* The last of the chain of compilers leaves it.
LEMMA CompilersLeft ==
  ASSUME TypeOK, compilers # <<>>, LeaveCompiler
  PROVE  /\ compilers' \in Seq(Obj)
         /\ Len(compilers') = Len(compilers) - 1
         /\ Len(compilers) \in Nat /\ Len(compilers) > 0
         /\ \A i \in DOMAIN compilers' : i \in DOMAIN compilers /\ compilers'[i] = compilers[i]
         /\ Current \in Obj /\ Is(Current, "function") /\ Current \in Roots
<1>1. compilers \in Seq(Obj)
  BY DEF TypeOK
<1>2. /\ Len(compilers) \in Nat /\ Len(compilers) > 0
      /\ compilers' \in Seq(Obj)
      /\ Len(compilers') = Len(compilers) - 1
      /\ \A i \in DOMAIN compilers' : i \in DOMAIN compilers /\ compilers'[i] = compilers[i]
  BY <1>1, AllButLast DEF LeaveCompiler
<1>3. Len(compilers) \in 1..Len(compilers)
  BY <1>2
<1>4. Current \in Obj /\ Is(Current, "function") /\ Current \in Roots
  BY <1>3, Typed, RootsAreRefs DEF Current
<1> QED
  BY <1>2, <1>4

\* A function is complete: its caller has it on the stack, or nothing goes on.
LEMMA LeaveKeeps ==
  ASSUME IInv, compilers # <<>>, LeaveCompiler, NotRunning,
         UNCHANGED <<objects, strings, globals, running>>,
         pc = "compile", pc' \notin {"string", "intern"}, pc' \in PC, c' \in CLocals,
         stack' \in Stack, \A i \in 1..stack'.top : stack'.slots[i] \in Live \cup {None},
         Control', FunctionsOK'
  PROVE  Writes /\ IInv'
<1>1. TypeOK /\ HeapOK
  BY DEF IInv
<1>2. UNCHANGED <<heap, text, location, strings, globals, frames, openUpvalues>>
  BY DEF objects, running
<1>3. /\ compilers' \in Seq(Obj)
      /\ \A i \in DOMAIN compilers' : i \in DOMAIN compilers /\ compilers'[i] = compilers[i]
  BY <1>1, CompilersLeft
<1>4. Roots' \subseteq Held
  <2>1. Roots \subseteq Held
    BY <1>1, LiveIsAllocated DEF Held
  <2>2. /\ \A i \in DOMAIN frames : frames[i].closure \in Held
        /\ openUpvalues \subseteq Held
        /\ \A name \in DOMAIN globals : name \in Held /\ globals[name] \in Held \cup {None}
        /\ \A i \in DOMAIN compilers : compilers[i] \in Held
    BY <1>1, <2>1, RootsAreRefs
  <2>3. \A i \in 1..stack'.top : stack'.slots[i] \in Held \cup {None}
    BY DEF Held
  <2> QED
    BY <1>2, <1>3, <2>2, <2>3, RootsAreIn2
<1>5. Writes
  BY <1>1, <1>2, <1>4, NothingWritten
<1>6. TypeOK'
  <2>1. \A i \in DOMAIN compilers' : Is(compilers[i], "function")'
    BY <1>1, <1>2, <1>3, Typed DEF Is
  <2>2. text' \in [Obj -> Text \cup {None}] /\ location' \in [Obj -> Slot \cup {0}] /\ strings' \subseteq Obj
    BY <1>1, <1>2 DEF TypeOK
  <2>3. openUpvalues' \subseteq Obj
    BY <1>1, <1>2 DEF TypeOK
  <2> QED
    BY <1>1, <1>2, <1>3, <1>5, <2>1, <2>2, <2>3, TypeKept
<1>7. FreeFrom(stack'.top + 1) /\ stack'.top \in Nat
  BY TopIsNatural DEF FreeFrom, NotRunning
<1> QED
  BY <1>2, <1>4, <1>6, <1>7, QuietKeeps

LEMMA EndFunctionKeeps ==
  ASSUME IInv, EndFunction  PROVE Writes /\ IInv'
<1>1. TypeOK /\ HeapOK /\ Control /\ FunctionsOK
  BY DEF IInv
<1>2. /\ pc = "compile" /\ pc' = "constant" /\ Room /\ LeaveCompiler /\ Len(compilers) > 1
      /\ stack' = Pushed(stack, Current)
      /\ UNCHANGED <<objects, strings, globals, running, c>>
  BY DEF EndFunction
<1>3. NotRunning /\ compilers # <<>> /\ stack.top = 0 /\ c.object = None /\ c.operands = {}
  BY <1>1, <1>2 DEF Control, CompilingOK, Compiling, UnusedLocals
<1>4. /\ Len(compilers') = Len(compilers) - 1 /\ Len(compilers) \in Nat /\ compilers' \in Seq(Obj)
      /\ Current \in Obj /\ Is(Current, "function") /\ Current \in Roots
  BY <1>1, <1>2, <1>3, CompilersLeft
<1>5. Current \in Live \cup {None} /\ Current \in Ref
  BY <1>1, <1>4, LiveIsAllocated DEF Ref
<1>6. /\ stack' \in Stack
      /\ stack'.top = stack.top + 1
      /\ stack'.slots[stack'.top] = Current
      /\ \A i \in 1..stack'.top : stack'.slots[i] \in Live \cup {None}
  BY <1>1, <1>2, <1>5, PushedOnIsLive
<1>7. stack'.top = 1 /\ stack'.slots[1] = Current
  BY <1>3, <1>6
<1>8. compilers' # <<>>
  BY <1>2, <1>4, EmptySeq
<1>9. Is(stack.slots[1], "function")'
  BY <1>2, <1>4, <1>7 DEF Is, objects
<1>10. Control'
  <2>1. Compiling'
    BY <1>2, <1>3, <1>8 DEF Compiling, NotRunning, running
  <2>2. c'.object = None /\ c'.operands = {}
    BY <1>2, <1>3
  <2> QED
    BY <1>2, <1>7, <1>9, <2>1, <2>2 DEF Control, BetweenCallsOK, CompilingOK, StringsOK, RunningOK, UnusedLocals
<1>11. FunctionsOK'
  BY <1>1, <1>2, <1>4 DEF FunctionsOK
<1>12. pc' \in PC /\ c' \in CLocals
  BY <1>1, <1>2 DEF TypeOK, CLocals, PC, Allocations
<1> QED
  BY <1>2, <1>3, <1>6, <1>10, <1>11, <1>12, LeaveKeeps

LEMMA EndCompileKeeps ==
  ASSUME IInv, EndCompile  PROVE Writes /\ IInv'
<1>1. TypeOK /\ HeapOK /\ Control /\ FunctionsOK
  BY DEF IInv
<1>2. /\ pc = "compile" /\ LeaveCompiler /\ Len(compilers) = 1
      /\ UNCHANGED <<objects, strings, globals, running>>
  BY DEF EndCompile
<1>3. NotRunning /\ compilers # <<>> /\ stack.top = 0 /\ c.object = None /\ c.operands = {}
  BY <1>1, <1>2 DEF Control, CompilingOK, Compiling, UnusedLocals
<1>4. /\ Len(compilers') = 0 /\ compilers' \in Seq(Obj)
      /\ Current \in Obj /\ Is(Current, "function") /\ Current \in Roots
  BY <1>1, <1>2, <1>3, CompilersLeft
<1>5. Resting'
  BY <1>2, <1>3, <1>4, EmptySeq DEF Resting, NotRunning, running
<1>6. CASE pc' = Interpreted /\ UNCHANGED <<stack, c>>
  <2>1. pc' \in {"idle", "done"} /\ c' \in CLocals
    BY <1>1, <1>6 DEF Interpreted, TypeOK, CLocals
  <2>2. c'.object = None /\ c'.operands = {} /\ stack'.top = 0
    BY <1>3, <1>6
  <2>3. Control'
    BY <1>5, <2>1, <2>2 DEF Control, BetweenCallsOK, CompilingOK, StringsOK, RunningOK, UnusedLocals
  <2>4. FunctionsOK'
    BY <1>1, <1>2, <1>4, <2>1 DEF FunctionsOK, objects
  <2>5. stack' \in Stack /\ \A i \in 1..stack'.top : stack'.slots[i] \in Live \cup {None}
    BY <1>1, <1>6, SlotIsLive, Typed
  <2> QED
    BY <1>2, <1>3, <2>1, <2>3, <2>4, <2>5, LeaveKeeps DEF PC, Allocations
<1>7. CASE /\ Room
           /\ stack' = Pushed(stack, Current)
           /\ pc' = "closure"
           /\ c' = [NoLocals EXCEPT !.then = "execute", !.object = Current]
  <2>1. Current \in Live \cup {None} /\ Current \in Ref /\ "execute" \in PC
    BY <1>1, <1>4, LiveIsAllocated DEF Ref, PC, Allocations
  <2>2. /\ stack' \in Stack
        /\ stack'.top = stack.top + 1
        /\ stack'.slots[stack'.top] = Current
        /\ \A i \in 1..stack'.top : stack'.slots[i] \in Live \cup {None}
    BY <1>1, <1>7, <2>1, PushedOnIsLive
  <2>3. c' \in CLocals /\ c'.then = "execute" /\ c'.object = Current /\ c'.operands = {}
    BY <1>7, <2>1 DEF NoLocals, CLocals
  <2>4. stack'.top = 1 /\ stack'.slots[1] = Current
    BY <1>3, <2>2
  <2>5. Is(Current, "function") /\ heap' = heap
    BY <1>2, <1>4 DEF objects
  <2>6. Is(c.object, "function")'
    BY <2>3, <2>5 DEF Is
  <2>7. Control'
    BY <1>5, <1>7, <2>3, <2>4, <2>6 DEF Control, BetweenCallsOK, CompilingOK, StringsOK, RunningOK, UnusedLocals
  <2>8. FunctionsOK'
    BY <1>1, <1>2, <1>4, <1>7, <2>3 DEF FunctionsOK, objects
  <2> QED
    BY <1>2, <1>3, <1>7, <2>2, <2>3, <2>7, <2>8, LeaveKeeps DEF PC, Allocations
<1> QED
  BY <1>6, <1>7 DEF EndCompile


LEMMA CallKeeps ==
  ASSUME IInv, Call  PROVE Writes /\ IInv'
<1>1. TypeOK /\ HeapOK /\ PointersOK /\ OpenOK /\ Control /\ FunctionsOK
  BY DEF IInv
<1>2. /\ pc = "execute" /\ Running
      /\ UNCHANGED <<objects, strings, globals, openUpvalues, compilers, pc, c>>
  BY <1>1 DEF Call, Executes, Control, RunningOK
<1>3. PICK argCount \in 0..(stack.top - 1) :
        /\ Temporaries(argCount + 1)
        /\ \/ /\ Is(Peek(argCount), "closure")
              /\ Len(frames) < FramesMax
              /\ frames' = Append(frames, [closure |-> Peek(argCount), slots |-> stack.top - argCount])
              /\ UNCHANGED stack
           \/ /\ Is(Peek(argCount), "native")
              /\ stack' = Pushed(Popped(stack, argCount + 1), None)
              /\ UNCHANGED frames
  BY DEF Call
<1>4. stack.top \in Nat /\ argCount \in Nat /\ argCount + 1 \in Nat \ {0} /\ stack.top > argCount
  BY <1>1, <1>3, Typed, TopIsNatural
<1>5. CASE stack' = Pushed(Popped(stack, argCount + 1), None) /\ UNCHANGED frames
  BY <1>2, <1>3, <1>4, <1>5, ReplaceKeeps DEF moves, running, objects
<1>6. CASE /\ Is(Peek(argCount), "closure")
           /\ frames' = Append(frames, [closure |-> Peek(argCount), slots |-> stack.top - argCount])
           /\ UNCHANGED stack
  <2> DEFINE frame == [closure |-> Peek(argCount), slots |-> stack.top - argCount]
  <2>1. Peek(argCount) \in Live /\ Peek(argCount) \in Obj
    BY <1>1, <1>4, <1>6, PeekIsLive DEF Is, Ref
  <2>2. stack.top - argCount \in Slot
    BY <1>1, <1>4, Typed, TopIsNatural, MutatorAssumption DEF Slot
  <2>3. frame \in FrameRecord /\ frame.closure = Peek(argCount)
    BY <2>1, <2>2 DEF FrameRecord
  <2> HIDE DEF frame
  <2>4. frames \in Seq(FrameRecord) /\ frames # <<>> /\ frames[1].slots = 1
    BY <1>1, <1>2 DEF TypeOK, Running, FrameRecord
  <2>5. frames' = Append(frames, frame)
    BY <1>6 DEF frame
  <2>6. /\ frames' \in Seq(FrameRecord) /\ frames' # <<>>
        /\ Len(frames) \in Nat /\ Len(frames') = Len(frames) + 1 /\ frames'[Len(frames) + 1] = frame
        /\ \A i \in DOMAIN frames' : i = Len(frames) + 1 \/ (i \in DOMAIN frames /\ frames'[i] = frames[i])
    BY <2>3, <2>4, <2>5, OneMore
  <2>7. frames'[1] = frames[1]
    <3>1. Len(frames) # 0 /\ DOMAIN frames' = 1..Len(frames')
      BY <2>4, <2>6, EmptySeq, LenProperties
    <3>2. 1 \in DOMAIN frames' /\ 1 # Len(frames) + 1
      BY <2>6, <3>1
    <3> QED
      BY <2>6, <3>2
  <2>8. Running'
    BY <1>2, <2>4, <2>6, <2>7 DEF Running
  <2>9. Control'
    <3>1. c'.object = None /\ c'.operands = {}
      BY <1>1, <1>2 DEF Control, UnusedLocals
    <3> QED
      BY <1>2, <2>8, <3>1, ControlExecuting
  <2>10. FunctionsOK'
    BY <1>1, <1>2 DEF FunctionsOK, objects
  <2>11. UNCHANGED <<heap, text, location, strings, globals, stack, openUpvalues, compilers, pc, c>>
    BY <1>2, <1>6 DEF objects
  <2>12. Roots' \subseteq Held
    <3>1. Roots \subseteq Held
      BY <1>1, LiveIsAllocated DEF Held
    <3>2. /\ \A i \in 1..stack.top : stack.slots[i] \in Held \cup {None}
          /\ \A i \in DOMAIN frames : frames[i].closure \in Held
          /\ openUpvalues \subseteq Held
          /\ \A name \in DOMAIN globals : name \in Held /\ globals[name] \in Held \cup {None}
          /\ \A i \in DOMAIN compilers : compilers[i] \in Held
      BY <1>1, <3>1, RootsAreRefs
    <3>3. \A i \in DOMAIN frames' : frames'[i].closure \in Held
      BY <2>1, <2>3, <2>6, <3>2 DEF Held
    <3> QED
      BY <2>11, <3>2, <3>3, RootsAreIn2
  <2>13. Writes
    BY <1>1, <2>11, <2>12, NothingWritten
  <2>14. \A i \in DOMAIN frames' : Is(frames[i].closure, "closure")'
    BY <1>1, <1>6, <2>3, <2>6, <2>11, Typed DEF Is
  <2>15. TypeOK'
    <3>1. text' \in [Obj -> Text \cup {None}] /\ location' \in [Obj -> Slot \cup {0}] /\ strings' \subseteq Obj
      BY <1>1, <2>11 DEF TypeOK
    <3>2. openUpvalues' \subseteq Obj /\ stack' \in Stack /\ pc' \in PC /\ c' \in CLocals
      BY <1>1, <2>11 DEF TypeOK, CLocals, Stack
    <3> QED
      BY <1>1, <2>6, <2>11, <2>13, <2>14, <3>1, <3>2, TypeKept
  <2>16. FreeFrom(stack'.top + 1) /\ stack'.top \in Nat
    BY <1>1, <2>11, OpenAreBelow
  <2> QED
    BY <1>2, <2>9, <2>10, <2>11, <2>12, <2>15, <2>16, QuietKeeps
<1> QED
  BY <1>3, <1>5, <1>6

\* tableSet() on vm.globals
LEMMA KeySet ==
  ASSUME TypeOK, HeapOK, NEW name \in Live, Is(name, "string"), NEW v \in Live \cup {None}, SetKey(name, v)
  PROVE  \A key \in DOMAIN globals' :
           key \in Live /\ Is(key, "string") /\ globals'[key] \in Live \cup {None}
<1>1. DOMAIN globals' = DOMAIN globals \cup {name}
  BY DEF SetKey
<1>2. \A key \in DOMAIN globals' : globals'[key] = IF key = name THEN v ELSE globals[key]
  BY DEF SetKey
<1>3. \A key \in DOMAIN globals : key \in Live /\ Is(key, "string") /\ globals[key] \in Live \cup {None}
  BY RootsAreRefs, LiveIsAllocated DEF TypeOK
<1> QED
  BY <1>1, <1>2, <1>3

\* A global gets a value.
LEMMA GlobalSetKeeps ==
  ASSUME IInv, UNCHANGED <<objects, strings, running, compilers>>,
         pc \notin {"done", "intern"}, pc' \notin {"string", "intern"}, pc' \in PC, c' = NoLocals,
         NEW n \in 0..stack.top, stack' = Popped(stack, n), FreeFrom(stack.top - n + 1),
         \A key \in DOMAIN globals' :
           key \in Live /\ Is(key, "string") /\ globals'[key] \in Live \cup {None},
         Control', FunctionsOK'
  PROVE  Writes /\ IInv'
<1>1. TypeOK /\ HeapOK
  BY DEF IInv
<1>2. UNCHANGED <<heap, text, location, strings, frames, openUpvalues, compilers>>
  BY DEF objects, running
<1>3. /\ stack' \in Stack /\ stack'.top = stack.top - n
      /\ \A i \in 1..stack'.top : stack'.slots[i] \in Live \cup {None}
  BY <1>1, PoppedIsLive
<1>4. Roots' \subseteq Held
  <2>1. Roots \subseteq Held
    BY <1>1, LiveIsAllocated DEF Held
  <2>2. /\ \A i \in DOMAIN frames : frames[i].closure \in Held
        /\ openUpvalues \subseteq Held
        /\ \A i \in DOMAIN compilers : compilers[i] \in Held
    BY <1>1, <2>1, RootsAreRefs
  <2>3. \A i \in 1..stack'.top : stack'.slots[i] \in Held \cup {None}
    BY <1>3 DEF Held
  <2>4. \A name \in DOMAIN globals' : name \in Held /\ globals'[name] \in Held \cup {None}
    BY DEF Held
  <2> QED
    BY <1>2, <2>2, <2>3, <2>4, RootsAreIn2
<1>5. Writes
  BY <1>1, <1>2, <1>4, NothingWritten
<1>6. TypeOK'
  <2>1. text' \in [Obj -> Text \cup {None}] /\ location' \in [Obj -> Slot \cup {0}] /\ strings' \subseteq Obj
    BY <1>1, <1>2 DEF TypeOK
  <2>2. openUpvalues' \subseteq Obj
    BY <1>1, <1>2 DEF TypeOK
  <2>3. DOMAIN globals' \subseteq Obj
        /\ \A name \in DOMAIN globals' : globals'[name] \in Ref /\ Is(name, "string")
    BY <1>1, LiveIsAllocated DEF Ref
  <2> QED
    BY <1>1, <1>2, <1>3, <1>5, <2>1, <2>2, <2>3, NoLocalsAre, TypeKept
<1>7. FreeFrom(stack'.top + 1) /\ stack'.top \in Nat
  BY <1>3, TopIsNatural
<1> QED
  BY <1>2, <1>4, <1>6, <1>7, QuietKeeps

LEMMA DefineGlobalKeeps ==
  ASSUME IInv, DefineGlobal  PROVE Writes /\ IInv'
<1>1. TypeOK /\ HeapOK /\ PointersOK /\ Control /\ FunctionsOK
  BY DEF IInv
<1>2. /\ pc = "define" /\ SetKey(c.object, Peek(0)) /\ pc' = c.then /\ c' = NoLocals
      /\ stack' = Popped(stack, IF c.then = "idle" THEN 2 ELSE 1)
      /\ UNCHANGED <<objects, strings, running, compilers>>
  BY DEF DefineGlobal
<1>3. stack.top \in Nat /\ c.then \in {"idle", "execute"}
  BY <1>1, <1>2, Typed, TopIsNatural DEF Control, RunningOK
<1>4. CASE c.then = "idle"
  <2>1. Resting /\ stack.top = 2 /\ c.object = stack.slots[1] /\ Is(c.object, "string")
    BY <1>1, <1>2, <1>4 DEF Control, BetweenCallsOK
  <2>2. c.object \in Live /\ Peek(0) \in Live \cup {None}
    BY <1>1, <2>1, SlotIsLive, PeekIsLive DEF Is
  <2>3. \A key \in DOMAIN globals' : key \in Live /\ Is(key, "string") /\ globals'[key] \in Live \cup {None}
    BY <1>1, <1>2, <2>1, <2>2, KeySet
  <2>4. stack' = Popped(stack, 2) /\ 2 \in 0..stack.top
    BY <1>2, <1>4, <2>1
  <2>5. stack'.top = 0
    BY <1>1, <2>1, <2>4, PoppedIsLive
  <2>6. Resting'
    BY <1>2, <2>1 DEF Resting, NotRunning, running
  <2>7. FreeFrom(stack.top - 2 + 1)
    BY <2>1 DEF FreeFrom, Resting, NotRunning
  <2>8. Control'
    BY <1>2, <1>4, <2>5, <2>6, NoLocalsAre DEF Control, BetweenCallsOK, CompilingOK, StringsOK, RunningOK, UnusedLocals
  <2>9. FunctionsOK'
    BY <1>1, <1>2, <1>4 DEF FunctionsOK, objects
  <2>10. pc' \in PC /\ pc' \notin {"string", "intern"} /\ pc \notin {"done", "intern"}
    BY <1>2, <1>4 DEF PC
  <2> QED
    BY <1>2, <2>3, <2>4, <2>7, <2>8, <2>9, <2>10, GlobalSetKeeps
<1>5. CASE c.then = "execute"
  <2>1. Running /\ stack.top > 0 /\ FreeFrom(stack.top) /\ c.object \in Constants("string")
    BY <1>1, <1>2, <1>5 DEF Control, RunningOK
  <2>2. c.object \in Live /\ Is(c.object, "string") /\ Peek(0) \in Live \cup {None}
    BY <1>1, <2>1, RunningHas, PeekIsLive DEF Constants
  <2>3. \A key \in DOMAIN globals' : key \in Live /\ Is(key, "string") /\ globals'[key] \in Live \cup {None}
    BY <1>1, <1>2, <2>2, KeySet
  <2>4. stack' = Popped(stack, 1) /\ 1 \in 0..stack.top
    BY <1>2, <1>3, <1>5, <2>1
  <2>5. Running'
    BY <1>2, <2>1 DEF Running, running
  <2>6. FreeFrom(stack.top - 1 + 1)
    BY <1>3, <2>1
  <2>7. Control'
    BY <1>2, <1>5, <2>5, NoLocalsAre, ControlExecuting
  <2>8. FunctionsOK'
    BY <1>1, <1>2, <1>5 DEF FunctionsOK, objects
  <2>9. pc' \in PC /\ pc' \notin {"string", "intern"} /\ pc \notin {"done", "intern"}
    BY <1>2, <1>5 DEF PC
  <2> QED
    BY <1>2, <2>3, <2>4, <2>6, <2>7, <2>8, <2>9, GlobalSetKeeps
<1> QED
  BY <1>3, <1>4, <1>5


\* The same variables with the same values
SameGlobals ==
  DOMAIN globals' = DOMAIN globals /\ \A name \in DOMAIN globals : globals'[name] = globals[name]

\* resetStack() after an error: the open upvalues are forgotten, not closed.
LEMMA ResetKeeps ==
  ASSUME IInv, ErrorsAreHarmless, ~ NoErrors, pc \in {"execute", "assign"}, Running, ResetStack,
         pc' = Interpreted, c' \in CLocals, c'.object = None, c'.operands = {},
         UNCHANGED <<objects, strings, compilers>>, SameGlobals
  PROVE  Writes /\ IInv'
<1>1. TypeOK /\ HeapOK /\ PointersOK /\ ClosedOK /\ InternedOK /\ FunctionsOK
  BY DEF IInv
<1>2. /\ UNCHANGED <<heap, text, location, strings, compilers>>
      /\ frames' = <<>> /\ openUpvalues' = {} /\ stack' = [stack EXCEPT !.top = 0]
  BY DEF objects, ResetStack
<1>3. stack' \in Stack /\ stack'.top = 0
  BY <1>1, <1>2, Typed DEF Stack
<1>4. pc' \in {"idle", "done"} /\ (Interactive => pc' = "idle") /\ (~ Interactive => pc' = "done")
  BY DEF Interpreted
<1>5. compilers = <<>> /\ \A i \in 1..stack'.top : FALSE
  BY <1>3 DEF Running
<1>6. Roots' \subseteq Held
  <2>1. Roots \subseteq Held
    BY <1>1, LiveIsAllocated DEF Held
  <2>2. \A name \in DOMAIN globals : name \in Held /\ globals[name] \in Held \cup {None}
    BY <1>1, <2>1, RootsAreRefs
  <2>3. \A i \in DOMAIN frames' : FALSE
    BY <1>2
  <2>4. \A i \in DOMAIN compilers' : FALSE
    BY <1>2, <1>5
  <2>5. \A name \in DOMAIN globals' : name \in Held /\ globals'[name] \in Held \cup {None}
    BY <2>2 DEF SameGlobals
  <2> QED
    BY <1>2, <1>5, <2>3, <2>4, <2>5, RootsAreIn2
<1>7. Writes
  BY <1>1, <1>2, <1>6, NothingWritten
<1>8. HeapOK'
  BY <1>1, <1>7, WritesKeepHeap
<1>9. TypeOK'
  <2>1. frames' \in Seq(FrameRecord) /\ \A i \in DOMAIN frames' : FALSE
    BY <1>2, EmptySeq
  <2>2. text' \in [Obj -> Text \cup {None}] /\ location' \in [Obj -> Slot \cup {0}] /\ strings' \subseteq Obj
    BY <1>1, <1>2 DEF TypeOK
  <2>3. openUpvalues' \subseteq Obj /\ pc' \in PC
    BY <1>2, <1>4 DEF PC
  <2>4. DOMAIN globals' \subseteq Obj
        /\ \A name \in DOMAIN globals' : globals'[name] \in Ref /\ Is(name, "string")
    BY <1>1 DEF TypeOK, SameGlobals
  <2> QED
    BY <1>1, <1>2, <1>3, <1>7, <2>1, <2>2, <2>3, <2>4, TypeKept
<1>10. Control'
  <2>1. Resting' /\ stack'.top = 0
    BY <1>2, <1>3, <1>5 DEF Resting, NotRunning
  <2> QED
    BY <1>4, <2>1 DEF Control, BetweenCallsOK, CompilingOK, StringsOK, RunningOK, UnusedLocals
<1>11. PointersOK'
  BY <1>1, <1>2 DEF PointersOK, Is
<1>12. OpenOK'
  BY <1>2 DEF OpenOK
<1>13. ClosedOK'
  <2>1. CASE ~ Interactive
    BY <1>4, <2>1 DEF ClosedOK, NoErrors
  <2>2. CASE "fun" \notin Instructions
    BY <1>1, <1>2, <2>2 DEF ClosedOK, FunctionsOK
  <2> QED
    BY <2>1, <2>2 DEF ErrorsAreHarmless
<1>14. InternedOK'
  BY <1>1, <1>2, <1>4 DEF InternedOK
<1>15. FunctionsOK'
  BY <1>1, <1>2, <1>4 DEF FunctionsOK
<1> QED
  BY <1>7, <1>8, <1>9, <1>10, <1>11, <1>12, <1>13, <1>14, <1>15 DEF IInv

LEMMA RuntimeErrorKeeps ==
  ASSUME IInv, ErrorsAreHarmless, RuntimeError  PROVE Writes /\ IInv'
<1>1. TypeOK /\ Control
  BY DEF IInv
<1>2. /\ pc = "execute" /\ "runtimeError" \in Instructions /\ ResetStack /\ pc' = Interpreted
      /\ UNCHANGED <<objects, strings, globals, compilers, c>>
  BY DEF RuntimeError, Executes
<1>3. Running /\ c.object = None /\ c.operands = {}
  BY <1>1, <1>2 DEF Control, RunningOK, UnusedLocals
<1>4. ~ NoErrors
  BY <1>2 DEF NoErrors
<1>5. c' \in CLocals
  BY <1>1, <1>2 DEF TypeOK, CLocals
<1>6. SameGlobals
  BY <1>2 DEF SameGlobals
<1> QED
  BY <1>2, <1>3, <1>4, <1>5, <1>6, ResetKeeps

\* tableDelete() undoes tableSet() of a key that was not there.
LEMMA SetAndDeleted ==
  ASSUME NEW name, name \notin DOMAIN globals, NEW v, SetAndDeleteKey(name, v)
  PROVE  SameGlobals
<1> DEFINE set == [key \in DOMAIN globals \cup {name} |-> IF key = name THEN v ELSE globals[key]]
<1>1. globals' = [key \in DOMAIN set \ {name} |-> set[key]]
  BY DEF SetAndDeleteKey
<1>2. DOMAIN set = DOMAIN globals \cup {name}
  OBVIOUS
<1>3. \A key \in DOMAIN globals : set[key] = globals[key]
  OBVIOUS
<1> QED
  <2> HIDE DEF set
  <2>1. DOMAIN globals' = DOMAIN globals
    BY <1>1, <1>2
  <2> QED
    BY <1>1, <1>2, <1>3, <2>1 DEF SameGlobals

LEMMA SetGlobalKeeps ==
  ASSUME IInv, ErrorsAreHarmless, SetGlobal  PROVE Writes /\ IInv'
<1>1. TypeOK /\ HeapOK /\ PointersOK /\ OpenOK /\ Control /\ FunctionsOK
  BY DEF IInv
<1>2. pc = "assign" /\ c' = NoLocals /\ UNCHANGED <<objects, strings, compilers>>
  BY DEF SetGlobal
<1>3. Running /\ stack.top > 0 /\ c.object \in Constants("string") /\ "global" \in Instructions
  BY <1>1, <1>2 DEF Control, RunningOK
<1>4. CASE c.object \in DOMAIN globals
  <2>1. SetKey(c.object, Peek(0)) /\ pc' = "execute" /\ UNCHANGED <<stack, running>>
    BY <1>4 DEF SetGlobal
  <2>2. c.object \in Live /\ Is(c.object, "string") /\ Peek(0) \in Live \cup {None}
    BY <1>1, <1>3, RunningHas, PeekIsLive DEF Constants
  <2>3. \A key \in DOMAIN globals' : key \in Live /\ Is(key, "string") /\ globals'[key] \in Live \cup {None}
    BY <1>1, <2>1, <2>2, KeySet
  <2>4. stack' = Popped(stack, 0) /\ 0 \in 0..stack.top /\ FreeFrom(stack.top - 0 + 1)
    <3>1. stack \in Stack /\ stack.top \in Nat /\ FreeFrom(stack.top + 1)
      BY <1>1, Typed, OpenAreBelow
    <3>2. stack.top - 0 = stack.top
      BY <3>1
    <3> QED
      BY <2>1, <3>1, <3>2 DEF Popped, Stack
  <2>5. Control'
    <3>1. Running'
      BY <1>2, <1>3, <2>1 DEF Running, running
    <3> QED
      BY <1>2, <2>1, <3>1, NoLocalsAre, ControlExecuting
  <2>6. FunctionsOK'
    BY <1>1, <1>2, <2>1 DEF FunctionsOK, objects
  <2> QED
    BY <1>2, <2>1, <2>3, <2>4, <2>5, <2>6, GlobalSetKeeps DEF PC
<1>5. CASE c.object \notin DOMAIN globals
  <2>1. ResetStack /\ pc' = Interpreted /\ SameGlobals
    BY <1>5, SetAndDeleted DEF SetGlobal
  <2>2. ~ NoErrors
    BY <1>3 DEF NoErrors
  <2> QED
    BY <1>2, <1>3, <2>1, <2>2, NoLocalsAre, ResetKeeps
<1> QED
  BY <1>4, <1>5

----------------------------------------------------------------------------
(***************************************************************************)
(* closeUpvalues()                                                         *)
(***************************************************************************)

LEMMA CloseKeeps ==
  ASSUME IInv, pc = "execute", NEW last \in Nat \ {0}, CloseUpvalues(last),
         UNCHANGED <<text, strings, globals, compilers>>,
         frames' \in Seq(FrameRecord),
         \A i \in DOMAIN frames' : i \in DOMAIN frames /\ frames'[i] = frames[i],
         stack' \in Stack, \A i \in 1..stack'.top : stack'.slots[i] \in Live \cup {None},
         last <= stack'.top + 1,
         pc' \in {"execute", "idle", "done"}, c' \in CLocals, Control'
  PROVE  Writes /\ IInv'
<1> DEFINE closing == {u \in openUpvalues : location[u] >= last}
<1>1. TypeOK /\ HeapOK /\ PointersOK /\ OpenOK /\ ClosedOK /\ InternedOK /\ FunctionsOK
  BY DEF IInv
<1>2. /\ heap' = [o \in Obj |-> IF o \in closing
                                THEN [heap[o] EXCEPT !.closed = stack.slots[location[o]]]
                                ELSE heap[o]]
      /\ location' = [o \in Obj |-> IF o \in closing THEN 0 ELSE location[o]]
      /\ openUpvalues' = openUpvalues \ closing
  BY DEF CloseUpvalues
<1>3. ASSUME NEW u \in closing
      PROVE  /\ u \in Obj /\ u \in Live /\ heap[u].type = "upvalue"
             /\ location[u] \in 1..stack.top
             /\ stack.slots[location[u]] \in Live \cup {None} /\ stack.slots[location[u]] \in Ref
  <2>1. u \in openUpvalues
    OBVIOUS
  <2>2. u \in Live /\ u \in Obj /\ heap[u].type = "upvalue" /\ location[u] \in 1..stack.top
    BY <1>1, <2>1, RootsAreRefs, LiveIsAllocated DEF PointersOK, OpenOK, Is
  <2> QED
    BY <1>1, <2>2, SlotIsLive
<1>4. \A u \in openUpvalues \ closing : location[u] < last
  <2>1. \A u \in openUpvalues : location[u] \in Nat
    BY <1>1, Typed, TopIsNatural DEF OpenOK
  <2> QED
    BY <2>1
<1> HIDE DEF closing
<1>5. ASSUME NEW u \in closing
      PROVE  /\ heap'[u] \in Object /\ heap'[u].type = heap[u].type /\ heap'[u].constants = heap[u].constants
             /\ WellFormed(heap'[u])
             /\ Pointers(heap'[u]) \subseteq Held
  <2>1. heap[u] \in Object /\ WellFormed(heap[u]) /\ Pointers(heap[u]) \subseteq Live
    BY <1>1, <1>3, LiveIsAllocated DEF TypeOK, IsClosed
  <2>2. heap'[u] = [heap[u] EXCEPT !.closed = stack.slots[location[u]]]
    BY <1>2, <1>3
  <2>3. /\ heap'[u] \in Object
        /\ heap'[u].type = heap[u].type /\ heap'[u].constants = heap[u].constants
        /\ heap'[u].function = heap[u].function /\ heap'[u].name = heap[u].name
        /\ heap'[u].upvalues = heap[u].upvalues
        /\ heap'[u].closed = stack.slots[location[u]]
    BY <1>3, <2>1, <2>2 DEF Object
  <2>4. WellFormed(heap'[u])
    BY <1>3, <2>1, <2>3 DEF WellFormed
  <2>5. Pointers(heap'[u]) \subseteq Pointers(heap[u]) \cup Live
    BY <1>3, <2>3 DEF Pointers
  <2> QED
    BY <2>1, <2>3, <2>4, <2>5 DEF Held
<1>6. \A o \in Obj \ closing : heap'[o] = heap[o] /\ location'[o] = location[o]
  BY <1>2
<1>7. \A o \in Obj : heap'[o].type = heap[o].type /\ heap'[o].constants = heap[o].constants
  BY <1>5, <1>6
<1>8. heap' \in [Obj -> Object]
  <2>1. \A o \in Obj : heap'[o] \in Object
    BY <1>1, <1>5, <1>6 DEF TypeOK
  <2> QED
    BY <1>2, <2>1
<1>9. Roots' \subseteq Held
  <2>1. Roots \subseteq Held
    BY <1>1, LiveIsAllocated DEF Held
  <2>2. /\ \A i \in DOMAIN frames : frames[i].closure \in Held
        /\ openUpvalues \subseteq Held
        /\ \A name \in DOMAIN globals : name \in Held /\ globals[name] \in Held \cup {None}
        /\ \A i \in DOMAIN compilers : compilers[i] \in Held
    BY <1>1, <2>1, RootsAreRefs
  <2>3. \A i \in 1..stack'.top : stack'.slots[i] \in Held \cup {None}
    BY DEF Held
  <2>4. \A i \in DOMAIN frames' : frames'[i].closure \in Held
    BY <2>2
  <2>5. openUpvalues' \subseteq Held
    BY <1>2, <2>2
  <2> QED
    BY <2>2, <2>3, <2>4, <2>5, RootsAreIn2
<1>10. Writes
  <2>1. \A o \in Allocated(heap) : heap'[o].type = heap[o].type
    BY <1>7 DEF Allocated
  <2>2. \A o \in Obj : heap'[o] # heap[o] => o \in Held /\ Pointers(heap'[o]) \subseteq Held
    BY <1>3, <1>5, <1>6 DEF Held
  <2> QED
    BY <1>8, <1>9, <2>1, <2>2 DEF Writes, Held
<1>11. TypeOK'
  <2>1. \A o \in Obj : heap'[o] # heap[o] => WellFormed(heap'[o])
    BY <1>5, <1>6
  <2>2. location' \in [Obj -> Slot \cup {0}]
    BY <1>1, <1>2 DEF TypeOK
  <2>3. text' \in [Obj -> Text \cup {None}] /\ strings' \subseteq Obj /\ openUpvalues' \subseteq Obj
    BY <1>1, <1>2 DEF TypeOK
  <2>4. \A i \in DOMAIN frames' : Is(frames[i].closure, "closure")'
    BY <1>1, <1>7, Typed DEF Is
  <2>5. pc' \in PC
    BY DEF PC
  <2> QED
    BY <1>1, <1>10, <2>1, <2>2, <2>3, <2>4, <2>5, TypeKept
<1>12. HeapOK'
  BY <1>1, <1>10, WritesKeepHeap
<1>13. PointersOK'
  <2>1. \A o \in Obj : Is(o, "upvalue") => Is(o, "upvalue")'
    BY <1>7 DEF Is
  <2>2. ASSUME NEW o \in Obj, heap'[o].type = "closure"
        PROVE  Is(heap[o].function, "function")' /\ \A u \in heap'[o].upvalues : Is(u, "upvalue")'
    <3>1. o \notin closing
      BY <1>3, <1>5, <2>2
    <3>2. heap'[o] = heap[o] /\ heap[o] \in Object
      BY <1>1, <1>6, <3>1 DEF TypeOK
    <3>3. Is(heap[o].function, "function") /\ \A u \in heap[o].upvalues : Is(u, "upvalue")
      BY <1>1, <2>2, <3>2 DEF PointersOK
    <3>4. heap[o].function \in Obj /\ heap[o].upvalues \subseteq Obj
      BY <3>2, <3>3 DEF Object, Ref, Is
    <3> QED
      BY <1>7, <2>1, <3>2, <3>3, <3>4 DEF Is
  <2>3. \A u \in openUpvalues' : Is(u, "upvalue")'
    BY <1>1, <1>2, <2>1, Typed DEF PointersOK
  <2> QED
    BY <2>2, <2>3 DEF PointersOK
<1>14. OpenOK'
  <2>1. \A u \in openUpvalues' : u \in openUpvalues /\ location'[u] = location[u] /\ location[u] < last
    BY <1>1, <1>2, <1>4, <1>6, Typed
  <2>2. stack'.top \in Nat /\ \A u \in openUpvalues : location[u] \in Nat /\ location[u] >= 1
    BY <1>1, Typed, TopIsNatural DEF OpenOK
  <2>3. \A u \in openUpvalues' : location'[u] \in 1..stack'.top
    BY <2>1, <2>2
  <2> QED
    BY <1>1, <2>1, <2>3 DEF OpenOK
<1>15. ClosedOK'
  <2>1. ASSUME NEW u \in Obj, heap'[u].type = "upvalue", location'[u] # 0  PROVE u \in openUpvalues'
    <3>1. u \notin closing
      BY <1>2, <2>1
    <3>2. u \in openUpvalues
      BY <1>1, <1>6, <2>1, <3>1 DEF ClosedOK
    <3> QED
      BY <1>2, <3>1, <3>2
  <2> QED
    BY <2>1 DEF ClosedOK
<1>16. InternedOK'
  BY <1>1, <1>7 DEF InternedOK
<1>17. FunctionsOK'
  <2>1. \A o \in Obj : heap[o].constants \subseteq Obj
    BY <1>1 DEF TypeOK, Object
  <2> QED
    BY <1>1, <1>7, <2>1 DEF FunctionsOK
<1> QED
  BY <1>10, <1>11, <1>12, <1>13, <1>14, <1>15, <1>16, <1>17 DEF IInv


LEMMA CloseUpvalueKeeps ==
  ASSUME IInv, CloseUpvalue  PROVE Writes /\ IInv'
<1>1. TypeOK /\ HeapOK /\ PointersOK /\ Control
  BY DEF IInv
<1>2. /\ pc = "execute" /\ stack.top \in Locals /\ CloseUpvalues(stack.top) /\ stack' = Popped(stack, 1)
      /\ UNCHANGED <<text, strings, globals, frames, compilers, pc, c>>
  BY DEF CloseUpvalue
<1>3. Running /\ c.object = None /\ c.operands = {}
  BY <1>1, <1>2 DEF Control, RunningOK, UnusedLocals
<1>4. stack.top \in Nat \ {0} /\ 1 \in 0..stack.top
  <2>1. stack.top \in Nat /\ stack.top \in 2..stack.top
    BY <1>1, <1>2, <1>3, RunningHas, Typed, TopIsNatural
  <2> QED
    BY <2>1
<1>5. /\ stack' \in Stack /\ stack'.top = stack.top - 1
      /\ \A i \in 1..stack'.top : stack'.slots[i] \in Live \cup {None}
  BY <1>1, <1>2, <1>4, PoppedIsLive
<1>6. stack.top <= stack'.top + 1
  BY <1>4, <1>5
<1>7. frames' \in Seq(FrameRecord) /\ pc' \in {"execute", "idle", "done"} /\ c' \in CLocals
  BY <1>1, <1>2 DEF TypeOK, FrameRecord, CLocals
<1>8. Control'
  BY <1>2, <1>3, ControlExecuting DEF Running
<1> QED
  BY <1>2, <1>4, <1>5, <1>6, <1>7, <1>8, CloseKeeps

LEMMA OpReturnKeeps ==
  ASSUME IInv, OpReturn  PROVE Writes /\ IInv'
<1>1. TypeOK /\ HeapOK /\ PointersOK /\ OpenOK /\ Control
  BY DEF IInv
<1>2. /\ pc = "execute" /\ Temporaries(1) /\ CloseUpvalues(Frame.slots)
      /\ frames' = SubSeq(frames, 1, Len(frames) - 1)
      /\ UNCHANGED <<text, strings, globals, compilers, c>>
  BY DEF OpReturn
<1>3. Running /\ c.object = None /\ c.operands = {}
  BY <1>1, <1>2 DEF Control, RunningOK, UnusedLocals
<1>4. Frame.slots \in Slot /\ Len(frames) \in Nat /\ Len(frames) > 0
  BY <1>1, <1>3, RunningHas
<1>5. Frame.slots \in Nat \ {0}
  BY <1>4, MutatorAssumption DEF Slot
<1>6. stack.top \in Nat /\ stack.top > 1 /\ Frame.slots + 1 <= stack.top
  <2>1. stack.top \in Nat /\ stack.top > 1 /\ stack.top - 1 + 1 \in Locals
    BY <1>1, <1>2, <1>3, TemporariesAreFree
  <2> QED
    BY <1>5, <2>1 DEF Locals
<1>7. frames \in Seq(FrameRecord) /\ frames # <<>>
  BY <1>1, <1>3 DEF TypeOK, FrameRecord, Running
<1>8. /\ frames' \in Seq(FrameRecord)
      /\ Len(frames') = Len(frames) - 1
      /\ \A i \in DOMAIN frames' : i \in DOMAIN frames /\ frames'[i] = frames[i]
  BY <1>2, <1>7, AllButLast
<1>9. c' \in CLocals
  BY <1>1, <1>2 DEF TypeOK, CLocals
<1>10. CASE Len(frames) = 1
  <2>1. stack.top = Frame.slots + 1 /\ stack' = Popped(stack, 2) /\ pc' = Interpreted
    BY <1>10 DEF OpReturn
  <2>2. Frame.slots = 1 /\ stack.top = 2
    BY <1>3, <1>10, <2>1 DEF Frame, Running
  <2>3. 2 \in 0..stack.top
    BY <2>2
  <2>4. /\ stack' \in Stack /\ stack'.top = stack.top - 2
        /\ \A i \in 1..stack'.top : stack'.slots[i] \in Live \cup {None}
    BY <1>1, <2>1, <2>3, PoppedIsLive
  <2>5. stack'.top = 0 /\ Frame.slots <= stack'.top + 1
    BY <2>2, <2>4
  <2>6. pc' \in {"idle", "done"}
    BY <2>1 DEF Interpreted
  <2>7. openUpvalues' = {}
    <3>1. \A u \in openUpvalues : location[u] >= Frame.slots
      BY <1>1, <2>2 DEF OpenOK
    <3> QED
      BY <1>2, <3>1 DEF CloseUpvalues
  <2>8. frames' = <<>>
    BY <1>8, <1>10, EmptySeq
  <2>9. Control'
    <3>1. Resting'
      BY <1>2, <1>3, <2>7, <2>8 DEF Resting, NotRunning, Running
    <3> QED
      BY <1>2, <1>3, <2>5, <2>6, <3>1 DEF Control, BetweenCallsOK, CompilingOK, StringsOK, RunningOK, UnusedLocals
  <2> QED
    BY <1>2, <1>5, <1>8, <1>9, <2>4, <2>5, <2>6, <2>9, CloseKeeps
<1>11. CASE Len(frames) # 1
  <2> DEFINE n == stack.top - (Frame.slots - 1)
  <2>1. stack' = Pushed([stack EXCEPT !.top = Frame.slots - 1], Peek(0)) /\ pc' = "execute"
    BY <1>2, <1>11 DEF OpReturn
  <2>2. n \in 0..stack.top /\ stack.top - n = Frame.slots - 1 /\ stack.top - n < MaxStack
    <3>1. stack.top <= MaxStack /\ MaxStack \in Nat
      BY <1>1, Typed, TopIsNatural, MutatorAssumption
    <3>2. n \in Nat /\ n <= stack.top
      BY <1>5, <1>6
    <3>3. stack.top - n = Frame.slots - 1
      BY <1>5, <1>6
    <3> QED
      BY <1>5, <1>6, <3>1, <3>2, <3>3
  <2> HIDE DEF n
  <2>3. [stack EXCEPT !.top = Frame.slots - 1] = Popped(stack, n)
    BY <1>1, <2>2, Typed DEF Popped, Stack
  <2>4. Peek(0) \in Live \cup {None} /\ Peek(0) \in Ref
    BY <1>1, <1>6, PeekIsLive
  <2>5. /\ stack' \in Stack
        /\ stack'.top = stack.top - n + 1
        /\ \A i \in 1..stack'.top : stack'.slots[i] \in Live \cup {None}
    BY <1>1, <2>1, <2>2, <2>3, <2>4, PushedIsLive
  <2>6. Frame.slots <= stack'.top + 1
    BY <1>5, <2>2, <2>5
  <2>7. Running'
    <3>1. Len(frames') # 0 /\ Len(frames') \in Nat /\ DOMAIN frames' = 1..Len(frames')
      BY <1>4, <1>8, <1>11, LenProperties
    <3>2. 1 \in DOMAIN frames'
      BY <3>1
    <3>3. frames' # <<>>
      BY <3>2
    <3> QED
      BY <1>2, <1>3, <1>8, <3>2, <3>3 DEF Running
  <2>8. Control'
    BY <1>2, <1>3, <2>1, <2>7, ControlExecuting
  <2> QED
    BY <1>2, <1>5, <1>8, <1>9, <2>1, <2>5, <2>6, <2>8, CloseKeeps
<1> QED
  BY <1>10, <1>11


----------------------------------------------------------------------------
(***************************************************************************)
(* Steps that make a native, a function or a closure.                      *)
(***************************************************************************)

LEMMA MadeKeeps ==
  ASSUME IInv, NEW o \in Unused, NEW obj \in Object, obj.type \in {"native", "function", "closure"},
         WellFormed(obj), heap' = [heap EXCEPT ![o] = obj], Pointers(obj) \subseteq Held,
         obj.type = "closure" =>
            Is(obj.function, "function") /\ \A u \in obj.upvalues : Is(u, "upvalue"),
         UNCHANGED <<text, location, strings, globals, openUpvalues>>,
         pc \notin {"done", "intern"}, pc' \notin {"string", "intern"}, pc' \in PC, c' \in CLocals,
         stack' \in Stack, \A i \in 1..stack'.top : stack'.slots[i] \in Live \cup {None, o},
         FreeFrom(stack'.top + 1),
         UNCHANGED frames \/ (/\ obj.type = "closure"
                              /\ frames' \in Seq(FrameRecord)
                              /\ \A i \in DOMAIN frames' :
                                   frames'[i].closure = o
                                     \/ (i \in DOMAIN frames /\ frames'[i] = frames[i])),
         UNCHANGED compilers \/ (/\ obj.type = "function"
                                 /\ compilers' \in Seq(Obj)
                                 /\ \A i \in DOMAIN compilers' :
                                      compilers'[i] = o
                                        \/ (i \in DOMAIN compilers /\ compilers'[i] = compilers[i])),
         Control', FunctionsOK'
  PROVE  Writes /\ IInv'
<1>1. TypeOK /\ HeapOK
  BY DEF IInv
<1>2. o \in Obj /\ o \notin Allocated(heap) /\ heap[o].type = "free"
  BY DEF Unused, Allocated
<1>3. /\ heap' \in [Obj -> Object] /\ heap'[o] = obj
      /\ \A p \in Obj : p # o => heap'[p] = heap[p]
  BY <1>1, <1>2 DEF TypeOK
<1>4. Roots' \subseteq Held \cup {o}
  <2>1. Roots \subseteq Held
    BY <1>1, LiveIsAllocated DEF Held
  <2>2. /\ \A i \in DOMAIN frames : frames[i].closure \in Held
        /\ openUpvalues \subseteq Held
        /\ \A name \in DOMAIN globals : name \in Held /\ globals[name] \in Held \cup {None}
        /\ \A i \in DOMAIN compilers : compilers[i] \in Held
    BY <1>1, <2>1, RootsAreRefs
  <2> DEFINE R == Held \cup {o}
  <2>3. \A i \in 1..stack'.top : stack'.slots[i] \in R \cup {None}
    BY DEF Held
  <2>4. \A i \in DOMAIN frames' : frames'[i].closure \in R
    BY <2>2
  <2>5. \A i \in DOMAIN compilers' : compilers'[i] \in R
    BY <2>2
  <2>6. openUpvalues' \subseteq R /\ \A name \in DOMAIN globals' : name \in R /\ globals'[name] \in R \cup {None}
    BY <2>2
  <2> HIDE DEF R
  <2>7. Roots' \subseteq R
    BY <2>3, <2>4, <2>5, <2>6, RootsAreIn2
  <2> QED
    BY <2>7 DEF R
<1>5. Writes /\ Fresh = {o}
  <2>1. strings \subseteq strings' /\ strings' \subseteq strings \cup {o} /\ obj.type # "free"
    OBVIOUS
  <2> QED
    BY <1>1, <1>4, <2>1, ObjectMade
<1>6. \A p \in Obj, type \in ObjType : Is(p, type) => Is(p, type)'
  BY <1>1, <1>5, WritesKeepHeap
<1>7. o # None
  BY <1>2, NoneAssumption
<1>8. TypeOK'
  <2>1. \A p \in Obj : heap'[p] # heap[p] => WellFormed(heap'[p])
    BY <1>3
  <2>2. text' \in [Obj -> Text \cup {None}] /\ location' \in [Obj -> Slot \cup {0}] /\ strings' \subseteq Obj
    BY <1>1 DEF TypeOK
  <2>3. openUpvalues' \subseteq Obj
    BY <1>1 DEF TypeOK
  <2>4. UNCHANGED frames \/ (/\ frames' \in Seq(FrameRecord)
                             /\ \A i \in DOMAIN frames' : Is(frames[i].closure, "closure")')
    <3>1. CASE UNCHANGED frames
      BY <3>1
    <3>2. CASE /\ obj.type = "closure"
               /\ frames' \in Seq(FrameRecord)
               /\ \A i \in DOMAIN frames' :
                    frames'[i].closure = o \/ (i \in DOMAIN frames /\ frames'[i] = frames[i])
      <4>1. \A i \in DOMAIN frames : frames[i].closure \in Obj /\ Is(frames[i].closure, "closure")
        BY <1>1, Typed
      <4>2. "closure" \in ObjType
        BY DEF ObjType
      <4>3. ASSUME NEW i \in DOMAIN frames'  PROVE Is(frames[i].closure, "closure")'
        <5>1. CASE frames'[i].closure = o
          BY <1>3, <1>7, <3>2, <5>1 DEF Is
        <5>2. CASE i \in DOMAIN frames /\ frames'[i] = frames[i]
          <6>1. Is(frames[i].closure, "closure") /\ frames[i].closure \in Obj /\ frames[i].closure # o
            BY <1>2, <4>1, <5>2 DEF Is
          <6> QED
            BY <1>3, <5>2, <6>1 DEF Is
        <5> QED
          BY <3>2, <4>3, <5>1, <5>2
      <4> QED
        BY <3>2, <4>3
    <3> QED
      BY <3>1, <3>2
  <2>5. UNCHANGED compilers \/ (/\ compilers' \in Seq(Obj)
                                /\ \A i \in DOMAIN compilers' : Is(compilers[i], "function")')
    <3>1. CASE UNCHANGED compilers
      BY <3>1
    <3>2. CASE /\ obj.type = "function"
               /\ compilers' \in Seq(Obj)
               /\ \A i \in DOMAIN compilers' :
                    compilers'[i] = o \/ (i \in DOMAIN compilers /\ compilers'[i] = compilers[i])
      <4>1. \A i \in DOMAIN compilers : compilers[i] \in Obj /\ Is(compilers[i], "function")
        BY <1>1, Typed
      <4>2. ASSUME NEW i \in DOMAIN compilers'  PROVE Is(compilers[i], "function")'
        <5>1. CASE compilers'[i] = o
          BY <1>3, <1>7, <3>2, <5>1 DEF Is
        <5>2. CASE i \in DOMAIN compilers /\ compilers'[i] = compilers[i]
          <6>1. Is(compilers[i], "function") /\ compilers[i] \in Obj /\ compilers[i] # o
            BY <1>2, <4>1, <5>2 DEF Is
          <6> QED
            BY <1>3, <5>2, <6>1 DEF Is
        <5> QED
          BY <3>2, <4>2, <5>1, <5>2
      <4> QED
        BY <3>2, <4>2
    <3> QED
      BY <3>1, <3>2
  <2> QED
    BY <1>1, <1>5, <2>1, <2>2, <2>3, <2>4, <2>5, TypeKept
<1>9. \A p \in Fresh : heap'[p].type \notin {"string", "upvalue"}
  BY <1>3, <1>5
<1>10. \A p \in Obj : heap'[p] # heap[p] /\ heap'[p].type = "closure" =>
         Is(heap'[p].function, "function") /\ \A u \in heap'[p].upvalues : Is(u, "upvalue")
  BY <1>3
<1>11. stack'.top \in Nat
  BY TopIsNatural
<1>12. IInv'
  BY <1>5, <1>8, <1>9, <1>10, <1>11, WritingKeeps
<1> QED
  BY <1>5, <1>12

\* What FunctionsOK says of the heap, when such an object is made.
LEMMA MadeFunctions ==
  ASSUME IInv, "fun" \notin Instructions, NEW o \in Unused, NEW obj \in Object, obj.type # "upvalue",
         obj.constants = {}, heap' = [heap EXCEPT ![o] = obj]
  PROVE  /\ \A p \in Obj : heap'[p].type # "upvalue"
         /\ \A p \in Obj : \A k \in heap'[p].constants : heap'[k].type # "function"
<1>1. TypeOK /\ HeapOK /\ FunctionsOK
  BY DEF IInv
<1>2. o \in Obj /\ o \notin Allocated(heap)
  BY DEF Unused
<1>3. heap'[o] = obj /\ \A p \in Obj : p # o => heap'[p] = heap[p]
  BY <1>1, <1>2 DEF TypeOK
<1>4. ASSUME NEW p \in Obj, NEW k \in heap'[p].constants  PROVE heap'[k].type # "function"
  <2>1. p # o /\ heap'[p] = heap[p]
    BY <1>3, <1>4
  <2>2. heap[p] \in Object /\ heap[p].type = "function"
    BY <1>1, <1>4, <2>1 DEF TypeOK, WellFormed
  <2>3. k \in Obj /\ k \in Pointers(heap[p]) /\ p \in Allocated(heap)
    BY <1>4, <2>1, <2>2, NoneAssumption DEF Object, Pointers, Allocated
  <2>4. k \in Allocated(heap)
    BY <1>1, <2>3 DEF HeapOK, IsClosed
  <2>5. heap'[k] = heap[k]
    BY <1>2, <1>3, <2>3, <2>4
  <2> QED
    BY <1>1, <1>4, <2>1, <2>5 DEF FunctionsOK
<1> QED
  BY <1>1, <1>3, <1>4 DEF FunctionsOK

\* A new object is pushed.
LEMMA NewIsPushed ==
  ASSUME TypeOK, HeapOK, NEW o \in Obj, Room, stack' = Pushed(stack, o)
  PROVE  /\ stack' \in Stack
         /\ stack'.top = stack.top + 1
         /\ stack'.slots[stack'.top] = o
         /\ \A i \in 1..stack'.top : stack'.slots[i] \in Live \cup {None, o}
         /\ \A i \in 1..stack.top : stack'.slots[i] = stack.slots[i]
<1> DEFINE R == Live \cup {o}
<1>1. Live \subseteq R /\ o \in R \cup {None} /\ o \in Ref
  BY DEF Ref
<1>2. R \cup {None} = Live \cup {None, o}
  OBVIOUS
<1> HIDE DEF R
<1> QED
  BY <1>1, <1>2, PushedOnIsLive

LEMMA NewNativeKeeps ==
  ASSUME IInv, NewNative  PROVE Writes /\ IInv'
<1>1. TypeOK /\ HeapOK /\ Control /\ FunctionsOK
  BY DEF IInv
<1>2. /\ pc = "native" /\ Room /\ pc' = "define"
      /\ c' = [NoLocals EXCEPT !.then = "idle", !.object = stack.slots[1]]
      /\ UNCHANGED <<text, location, strings, globals, running, compilers>>
  BY DEF NewNative
<1>3. PICK o \in Unused : heap' = [heap EXCEPT ![o] = Blank("native")] /\ stack' = Pushed(stack, o)
  BY DEF NewNative, New
<1>4. Resting /\ stack.top = 1 /\ Is(stack.slots[1], "string")
  BY <1>1, <1>2 DEF Control, BetweenCallsOK
<1>5. stack.slots[1] \in Live /\ stack.slots[1] \in Obj /\ "idle" \in PC
  BY <1>1, <1>4, SlotIsLive, LiveIsAllocated DEF Is, PC
<1>6. c' \in CLocals /\ c'.then = "idle" /\ c'.object = stack.slots[1] /\ c'.operands = {}
  BY <1>2, <1>5 DEF NoLocals, CLocals, Ref
<1>7. o \in Obj
  BY DEF Unused
<1>8. /\ stack' \in Stack /\ stack'.top = stack.top + 1
      /\ \A i \in 1..stack'.top : stack'.slots[i] \in Live \cup {None, o}
      /\ \A i \in 1..stack.top : stack'.slots[i] = stack.slots[i]
  BY <1>1, <1>2, <1>3, <1>7, NewIsPushed
<1>9. stack'.top = 2 /\ stack'.slots[1] = stack.slots[1]
  BY <1>4, <1>8
<1>10. "native" \in ObjType
  BY DEF ObjType
<1>11. Is(c.object, "string")'
  <2>1. stack.slots[1] # o
    BY <1>1, <1>5, LiveIsAllocated DEF Unused
  <2> QED
    BY <1>1, <1>3, <1>4, <1>5, <1>6, <2>1 DEF Is, TypeOK
<1>12. Resting'
  BY <1>2, <1>4 DEF Resting, NotRunning, running
<1>13. Control'
  BY <1>2, <1>6, <1>9, <1>11, <1>12 DEF Control, BetweenCallsOK, CompilingOK, StringsOK, RunningOK, UnusedLocals
<1>14. FunctionsOK'
  <2>1. CASE "fun" \notin Instructions
    <3>0. /\ Blank("native") \in Object /\ Blank("native").type # "upvalue"
          /\ Blank("native").constants = {}
      BY <1>10, BlankIsObject
    <3>1. /\ \A p \in Obj : heap'[p].type # "upvalue"
          /\ \A p \in Obj : \A k \in heap'[p].constants : heap'[k].type # "function"
      BY <1>3, <2>1, <3>0, MadeFunctions
    <3> QED
      BY <1>1, <1>2, <2>1, <3>1 DEF FunctionsOK
  <2> QED
    BY <2>1 DEF FunctionsOK
<1>15. FreeFrom(stack'.top + 1)
  BY <1>4 DEF FreeFrom, Resting, NotRunning
<1>16. UNCHANGED <<text, location, strings, globals, frames, openUpvalues, compilers>>
  BY <1>2 DEF running
<1>17. pc \notin {"done", "intern"} /\ pc' \notin {"string", "intern"} /\ pc' \in PC
  BY <1>2 DEF PC, Allocations
<1>18. /\ Blank("native") \in Object /\ Blank("native").type = "native" /\ WellFormed(Blank("native"))
       /\ Pointers(Blank("native")) \subseteq Held
  BY <1>10, BlankIsObject
<1> QED
  BY <1>3, <1>6, <1>8, <1>13, <1>14, <1>15, <1>16, <1>17, <1>18, MadeKeeps

LEMMA NewFunctionKeeps ==
  ASSUME IInv, NewFunction  PROVE Writes /\ IInv'
<1>1. TypeOK /\ HeapOK /\ Control /\ FunctionsOK /\ OpenOK
  BY DEF IInv
<1>2. /\ pc = "function" /\ pc' = c.then /\ c' = NoLocals
      /\ UNCHANGED <<text, location, strings, globals, stack, running>>
  BY DEF NewFunction
<1>3. PICK f \in Unused : heap' = [heap EXCEPT ![f] = Blank("function")] /\ compilers' = Append(compilers, f)
  BY DEF NewFunction, New
<1>4. NotRunning /\ stack.top = 0 /\ c.then \in {"compile", "name"} /\ (c.then = "compile" <=> compilers = <<>>)
  BY <1>1, <1>2 DEF Control, CompilingOK
<1>5. f \in Obj /\ compilers \in Seq(Obj)
  BY <1>1 DEF Unused, TypeOK
<1>6. /\ compilers' \in Seq(Obj) /\ compilers' # <<>>
      /\ Len(compilers) \in Nat /\ Len(compilers') = Len(compilers) + 1
      /\ \A i \in DOMAIN compilers' :
           compilers'[i] = f \/ (i \in DOMAIN compilers /\ compilers'[i] = compilers[i])
  BY <1>3, <1>5, OneMore
<1>7. "function" \in ObjType
  BY DEF ObjType
<1>8. Compiling' /\ stack'.top = 0
  BY <1>2, <1>4, <1>6 DEF Compiling, NotRunning, running
<1>9. Control'
  BY <1>2, <1>4, <1>8, NoLocalsAre DEF Control, BetweenCallsOK, CompilingOK, StringsOK, RunningOK, UnusedLocals
<1>10. FunctionsOK'
  <2>1. CASE "fun" \notin Instructions
    <3>0. /\ Blank("function") \in Object /\ Blank("function").type # "upvalue"
          /\ Blank("function").constants = {}
      BY <1>7, BlankIsObject
    <3>1. /\ \A p \in Obj : heap'[p].type # "upvalue"
          /\ \A p \in Obj : \A k \in heap'[p].constants : heap'[k].type # "function"
      BY <1>3, <2>1, <3>0, MadeFunctions
    <3>2. c.then = "compile"
      BY <1>1, <1>2, <2>1 DEF FunctionsOK
    <3>3. Len(compilers') <= 1
      BY <1>4, <1>6, <3>2, EmptySeq
    <3> QED
      BY <1>2, <2>1, <3>1, <3>2, <3>3 DEF FunctionsOK
  <2> QED
    BY <2>1 DEF FunctionsOK
<1>11. UNCHANGED <<text, location, strings, globals, frames, openUpvalues>>
  BY <1>2 DEF running
<1>12. /\ stack' \in Stack /\ \A i \in 1..stack'.top : stack'.slots[i] \in Live \cup {None, f}
       /\ FreeFrom(stack'.top + 1)
  BY <1>1, <1>2, Typed, SlotIsLive, OpenAreBelow
<1>13. pc \notin {"done", "intern"} /\ pc' \notin {"string", "intern"} /\ pc' \in PC
  BY <1>2, <1>4 DEF PC, Allocations
<1>14. /\ Blank("function") \in Object /\ Blank("function").type = "function" /\ WellFormed(Blank("function"))
       /\ Pointers(Blank("function")) \subseteq Held
  BY <1>7, BlankIsObject
<1> QED
  BY <1>2, <1>3, <1>6, <1>9, <1>10, <1>11, <1>12, <1>13, <1>14, NoLocalsAre, MadeKeeps


\* The new closure takes the place of the function that was popped.
LEMMA NewReplaces ==
  ASSUME TypeOK, HeapOK, NEW o \in Obj, stack.top > 0, stack' = Pushed(Popped(stack, 1), o)
  PROVE  /\ stack' \in Stack
         /\ stack'.top = stack.top
         /\ stack'.slots[stack'.top] = o
         /\ \A i \in 1..stack'.top : stack'.slots[i] \in Live \cup {None, o}
<1> DEFINE R == Live \cup {o}
<1>1. Live \subseteq R /\ o \in R \cup {None} /\ o \in Ref
  BY DEF Ref
<1>2. R \cup {None} = Live \cup {None, o}
  OBVIOUS
<1>3. stack.top \in Nat /\ stack.top <= MaxStack /\ MaxStack \in Nat
  BY Typed, TopIsNatural, MutatorAssumption
<1>4. 1 \in 0..stack.top /\ stack.top - 1 < MaxStack /\ stack.top - 1 + 1 = stack.top
  BY <1>3
<1> HIDE DEF R
<1> QED
  BY <1>1, <1>2, <1>4, PushedIsLive

LEMMA NewClosureKeeps ==
  ASSUME IInv, NewClosure  PROVE Writes /\ IInv'
<1>1. TypeOK /\ HeapOK /\ PointersOK /\ Control /\ FunctionsOK /\ OpenOK
  BY DEF IInv
<1>2. /\ pc = "closure" /\ Room /\ pc' = c.then
      /\ UNCHANGED <<text, location, strings, globals, openUpvalues, compilers>>
  BY DEF NewClosure
<1> DEFINE obj == [Blank("closure") EXCEPT !.function = c.object]
<1>3. PICK o \in Unused :
        /\ heap' = [heap EXCEPT ![o] = obj]
        /\ IF c.then = "capture"
           THEN /\ stack' = Pushed(stack, o)
                /\ c' = [NoLocals EXCEPT !.object = o]
                /\ UNCHANGED frames
           ELSE /\ stack' = Pushed(Popped(stack, 1), o)
                /\ frames' = Append(frames, [closure |-> o, slots |-> stack.top])
                /\ c' = NoLocals
  BY DEF NewClosure, New
<1>4. c.then \in {"capture", "execute"}
  BY <1>1, <1>2 DEF Control, RunningOK
<1>5. c.object \in Live /\ Is(c.object, "function")
  <2>1. CASE c.then = "execute"
    <3>1. stack.top = 1 /\ c.object = stack.slots[1] /\ Is(c.object, "function")
      BY <1>1, <1>2, <2>1 DEF Control, CompilingOK
    <3> QED
      BY <1>1, <3>1, SlotIsLive DEF Is
  <2>2. CASE c.then = "capture"
    <3>1. Running /\ c.object \in Constants("function")
      BY <1>1, <1>2, <2>2 DEF Control, RunningOK
    <3> QED
      BY <1>1, <3>1, RunningHas DEF Constants
  <2> QED
    BY <1>4, <2>1, <2>2
<1>6. c.object \in Obj /\ o \in Obj /\ heap[o].type = "free"
  BY <1>1, <1>5, LiveIsAllocated DEF Unused, Allocated
<1>7. /\ obj \in Object /\ obj.type = "closure" /\ obj.function = c.object /\ obj.name = None
      /\ obj.closed = None /\ obj.constants = {} /\ obj.upvalues = {}
  BY <1>6 DEF Blank, Object, ObjType, Ref
<1> HIDE DEF obj
<1>8. WellFormed(obj) /\ Pointers(obj) \subseteq Held
  BY <1>5, <1>7 DEF WellFormed, Pointers, Held
<1>9. heap'[o] = obj
  BY <1>1, <1>3, <1>6 DEF TypeOK
<1>10. obj.type = "closure" => Is(obj.function, "function") /\ \A u \in obj.upvalues : Is(u, "upvalue")
  BY <1>5, <1>7
<1>11. pc \notin {"done", "intern"} /\ pc' \notin {"string", "intern"} /\ pc' \in PC
  BY <1>2, <1>4 DEF PC, Allocations
<1>12. FunctionsOK'
  <2>1. CASE "fun" \notin Instructions
    <3>1. /\ \A p \in Obj : heap'[p].type # "upvalue"
          /\ \A p \in Obj : \A k \in heap'[p].constants : heap'[k].type # "function"
      BY <1>3, <1>7, <2>1, MadeFunctions
    <3>2. c.then = "execute"
      BY <1>1, <1>2, <2>1 DEF FunctionsOK
    <3> QED
      BY <1>1, <1>2, <2>1, <3>1, <3>2 DEF FunctionsOK
  <2> QED
    BY <2>1 DEF FunctionsOK
<1>13. CASE c.then = "execute"
  <2>1. Resting /\ stack.top = 1
    BY <1>1, <1>2, <1>13 DEF Control, CompilingOK
  <2>2. /\ stack' = Pushed(Popped(stack, 1), o) /\ c' = NoLocals
        /\ frames' = Append(frames, [closure |-> o, slots |-> stack.top])
    BY <1>3, <1>13
  <2>3. /\ stack' \in Stack /\ stack'.top = stack.top
        /\ \A i \in 1..stack'.top : stack'.slots[i] \in Live \cup {None, o}
    BY <1>1, <1>6, <2>1, <2>2, NewReplaces
  <2> DEFINE frame == [closure |-> o, slots |-> stack.top]
  <2>4. stack.top \in Slot
    BY <1>1, <2>1, Typed DEF Stack
  <2>5. frame \in FrameRecord /\ frame.closure = o /\ frame.slots = 1
    BY <1>6, <2>1, <2>4 DEF FrameRecord
  <2> HIDE DEF frame
  <2>6. frames = <<>> /\ frames \in Seq(FrameRecord) /\ frames' = Append(frames, frame) /\ Len(frames) = 0
    BY <1>1, <2>1, <2>2, EmptySeq DEF frame, TypeOK, FrameRecord, Resting, NotRunning
  <2>7. /\ frames' \in Seq(FrameRecord) /\ frames' # <<>> /\ frames'[Len(frames) + 1] = frame
        /\ \A i \in DOMAIN frames' : i = Len(frames) + 1 \/ (i \in DOMAIN frames /\ frames'[i] = frames[i])
    BY <2>5, <2>6, OneMore
  <2>8. Running'
    <3>1. frames'[1] = frame /\ compilers' = <<>>
      BY <1>2, <2>1, <2>6, <2>7 DEF Resting
    <3> QED
      BY <2>5, <2>7, <3>1 DEF Running
  <2>9. Control'
    BY <1>2, <1>13, <2>2, <2>8, NoLocalsAre, ControlExecuting
  <2>10. FreeFrom(stack'.top + 1)
    BY <2>1 DEF FreeFrom, Resting, NotRunning
  <2>11. c' \in CLocals
    BY <2>2, NoLocalsAre
  <2>12. /\ obj.type = "closure"
         /\ frames' \in Seq(FrameRecord)
         /\ \A i \in DOMAIN frames' : frames'[i].closure = o \/ (i \in DOMAIN frames /\ frames'[i] = frames[i])
    BY <1>7, <2>5, <2>7
  <2> QED
    BY <1>2, <1>3, <1>7, <1>8, <1>10, <1>11, <1>12, <2>3, <2>9, <2>10, <2>11, <2>12, MadeKeeps
<1>14. CASE c.then = "capture"
  <2>1. Running
    BY <1>1, <1>2, <1>14 DEF Control, RunningOK
  <2>2. stack' = Pushed(stack, o) /\ c' = [NoLocals EXCEPT !.object = o] /\ UNCHANGED frames
    BY <1>3, <1>14
  <2>3. /\ stack' \in Stack /\ stack'.top = stack.top + 1 /\ stack'.slots[stack'.top] = o
        /\ \A i \in 1..stack'.top : stack'.slots[i] \in Live \cup {None, o}
    BY <1>1, <1>2, <1>6, <2>2, NewIsPushed
  <2>4. c' \in CLocals /\ c'.object = o /\ c'.operands = {}
    BY <1>6, <2>2 DEF NoLocals, CLocals, Ref
  <2>5. stack'.top > 0 /\ FreeFrom(stack'.top + 1)
    <3>1. FreeFrom(stack.top + 1) /\ stack.top \in Nat
      BY <1>1, OpenAreBelow
    <3> QED
      BY <1>1, <2>3, <3>1, FreeFromMore
  <2>6. Is(c.object, "closure")'
    BY <1>6, <1>7, <1>9, <2>4, NoneAssumption DEF Is
  <2>7. Running'
    BY <1>2, <2>1, <2>2 DEF Running
  <2>8. Control'
    BY <1>2, <1>14, <2>3, <2>4, <2>5, <2>6, <2>7 DEF Control, BetweenCallsOK, CompilingOK, StringsOK, RunningOK, UnusedLocals
  <2> QED
    BY <1>2, <1>3, <1>7, <1>8, <1>10, <1>11, <1>12, <2>2, <2>3, <2>4, <2>5, <2>8, MadeKeeps
<1> QED
  BY <1>4, <1>13, <1>14

----------------------------------------------------------------------------
(***************************************************************************)
(* captureUpvalue(), and the constants of a function.                      *)
(***************************************************************************)

\* The closure that is being made.
LEMMA CapturingHas ==
  ASSUME IInv, pc = "capture"
  PROVE  /\ Running /\ "fun" \in Instructions
         /\ stack.top > 0 /\ stack.top \in Nat
         /\ c.object \in Live /\ c.object \in Obj
         /\ c.object = stack.slots[stack.top]
         /\ heap[c.object] \in Object /\ heap[c.object].type = "closure"
         /\ WellFormed(heap[c.object])
<1>1. TypeOK /\ HeapOK /\ Control /\ FunctionsOK
  BY DEF IInv
<1>2. Running /\ stack.top > 0 /\ c.object = stack.slots[stack.top] /\ Is(c.object, "closure")
  BY <1>1 DEF Control, RunningOK
<1>3. stack.top \in Nat
  BY <1>1, Typed, TopIsNatural
<1>4. stack.top \in 1..stack.top
  BY <1>2, <1>3
<1>5. c.object \in Live /\ c.object \in Obj
  BY <1>1, <1>2, <1>4, SlotIsLive, LiveIsAllocated DEF Is
<1>6. "fun" \in Instructions
  BY <1>1 DEF FunctionsOK
<1> QED
  BY <1>1, <1>2, <1>3, <1>5, <1>6 DEF TypeOK, Is

\* It gets one more upvalue.
LEMMA ClosureGets ==
  ASSUME NEW closure \in Object, closure.type = "closure", WellFormed(closure), NEW u \in Obj,
         NEW obj, obj = [closure EXCEPT !.upvalues = @ \cup {u}]
  PROVE  /\ obj \in Object /\ obj.type = "closure" /\ WellFormed(obj)
         /\ obj.function = closure.function /\ obj.upvalues = closure.upvalues \cup {u}
         /\ Pointers(obj) \subseteq Pointers(closure) \cup {u}
<1>1. /\ obj \in Object /\ obj.type = "closure"
      /\ obj.function = closure.function /\ obj.upvalues = closure.upvalues \cup {u}
      /\ obj.name = closure.name /\ obj.closed = closure.closed /\ obj.constants = closure.constants
  BY DEF Object
<1>2. Pointers(obj) \subseteq Pointers(closure) \cup {u}
  BY <1>1 DEF Pointers
<1>3. WellFormed(obj)
  BY <1>1 DEF WellFormed
<1> QED
  BY <1>1, <1>2, <1>3

\* An upvalue that exists is captured.
LEMMA KnownIsCaptured ==
  ASSUME IInv, pc = "capture", NEW u \in Live, Is(u, "upvalue"),
         New(c.object, [heap[c.object] EXCEPT !.upvalues = @ \cup {u}]),
         UNCHANGED <<text, location, strings, globals, stack, running, compilers, pc, c>>
  PROVE  Writes /\ IInv'
<1> DEFINE obj == [heap[c.object] EXCEPT !.upvalues = @ \cup {u}]
<1>1. TypeOK /\ HeapOK /\ PointersOK /\ Control /\ OpenOK
  BY DEF IInv
<1>2. /\ Running /\ "fun" \in Instructions
      /\ stack.top > 0 /\ c.object = stack.slots[stack.top]
      /\ c.object \in Live /\ c.object \in Obj
      /\ heap[c.object] \in Object /\ heap[c.object].type = "closure" /\ WellFormed(heap[c.object])
  BY CapturingHas
<1>3. u \in Obj
  BY <1>1, LiveIsAllocated
<1>4. heap' = [heap EXCEPT ![c.object] = obj]
  BY DEF New
<1>5. /\ obj \in Object /\ obj.type = "closure" /\ WellFormed(obj)
      /\ obj.function = heap[c.object].function /\ obj.upvalues = heap[c.object].upvalues \cup {u}
      /\ Pointers(obj) \subseteq Pointers(heap[c.object]) \cup {u}
  BY <1>2, <1>3, ClosureGets
<1> HIDE DEF obj
<1>6. Is(obj.function, "function") /\ \A v \in obj.upvalues : Is(v, "upvalue")
  BY <1>1, <1>2, <1>5 DEF PointersOK
<1>7. Is(c.object, "closure")'
  BY <1>1, <1>2, <1>4, <1>5, NoneAssumption DEF Is, TypeOK
<1>8. c.operands = {}
  BY <1>1 DEF Control, UnusedLocals
<1>9. Control'
  <2>1. Running'
    BY <1>2 DEF Running, running
  <2> QED
    BY <1>2, <1>7, <1>8, <2>1 DEF Control, BetweenCallsOK, CompilingOK, StringsOK, RunningOK, UnusedLocals
<1>10. FunctionsOK'
  BY <1>2 DEF FunctionsOK
<1>11. /\ stack' \in Stack /\ \A i \in 1..stack'.top : stack'.slots[i] \in Held \cup {None}
       /\ FreeFrom(stack'.top + 1)
  BY <1>1, Typed, SlotIsLive, OpenAreBelow DEF Held
<1>12. pc' \in PC /\ c' \in CLocals
  BY <1>1 DEF TypeOK, CLocals
<1>13. Pointers(obj) \subseteq Pointers(heap[c.object]) \cup Held
  BY <1>5 DEF Held
<1>14. pc \notin {"done", "intern"} /\ pc' \notin {"string", "intern"}
  OBVIOUS
<1> QED
  BY <1>2, <1>4, <1>5, <1>6, <1>9, <1>10, <1>11, <1>12, <1>13, <1>14, FieldStepKeeps

LEMMA CaptureUpvalueKeeps ==
  ASSUME IInv, CaptureUpvalue  PROVE Writes /\ IInv'
<1>1. TypeOK /\ HeapOK /\ PointersOK /\ Running /\ pc = "capture"
  BY CapturingHas DEF IInv, CaptureUpvalue
<1>2. PICK u \in heap[Frame.closure].upvalues : New(c.object, [heap[c.object] EXCEPT !.upvalues = @ \cup {u}])
  BY DEF CaptureUpvalue
<1>3. u \in Live /\ Is(u, "upvalue")
  BY <1>1, RunningHas
<1> QED
  BY <1>1, <1>2, <1>3, KnownIsCaptured DEF CaptureUpvalue


\* A variable is captured for the first time.
LEMMA NewIsCaptured ==
  ASSUME IInv, pc = "capture", NEW slot \in Locals, ~ Captured(slot), NEW u \in Unused,
         NEW obj, obj = [heap[c.object] EXCEPT !.upvalues = @ \cup {u}],
         heap' \in [Obj -> Object], heap'[u] = Blank("upvalue"), heap'[c.object] = obj,
         \A p \in Obj \ {u, c.object} : heap'[p] = heap[p],
         location' = [location EXCEPT ![u] = slot],
         openUpvalues' = openUpvalues \cup {u},
         UNCHANGED <<text, strings, globals, stack, frames, compilers, pc, c>>
  PROVE  Writes /\ IInv'
<1>1. TypeOK /\ HeapOK /\ PointersOK /\ Control /\ OpenOK /\ ClosedOK /\ InternedOK
  BY DEF IInv
<1>2. /\ Running /\ "fun" \in Instructions
      /\ stack.top > 0 /\ stack.top \in Nat /\ c.object = stack.slots[stack.top]
      /\ c.object \in Live /\ c.object \in Obj
      /\ heap[c.object] \in Object /\ heap[c.object].type = "closure" /\ WellFormed(heap[c.object])
  BY CapturingHas
<1>3. u \in Obj /\ u \notin Allocated(heap) /\ heap[u].type = "free" /\ u # None
  BY NoneAssumption DEF Unused, Allocated
<1>4. u # c.object /\ u \notin Live
  BY <1>1, <1>2, <1>3, LiveIsAllocated
<1>5. /\ obj \in Object /\ obj.type = "closure" /\ WellFormed(obj)
      /\ obj.function = heap[c.object].function /\ obj.upvalues = heap[c.object].upvalues \cup {u}
      /\ Pointers(obj) \subseteq Pointers(heap[c.object]) \cup {u}
  BY <1>2, <1>3, ClosureGets
<1>6. /\ Blank("upvalue") \in Object /\ Blank("upvalue").type = "upvalue"
      /\ Pointers(Blank("upvalue")) = {} /\ WellFormed(Blank("upvalue"))
  BY BlankIsObject DEF ObjType
<1>7. /\ location' \in [Obj -> Slot \cup {0}] /\ location'[u] = slot
      /\ \A p \in Obj \ {u} : location'[p] = location[p]
      /\ slot \in 1..stack.top /\ slot \in Slot
  <2>1. slot \in 2..stack.top
    BY <1>1, <1>2, RunningHas
  <2>2. slot \in 1..stack.top /\ slot \in Slot
    BY <1>1, <1>2, <2>1, Typed, TopIsNatural
  <2> QED
    BY <1>1, <1>3, <2>2 DEF TypeOK
<1>8. /\ \A p \in Obj : p # u => heap'[p].type = heap[p].type
      /\ Allocated(heap)' = Allocated(heap) \cup {u}
  <2>1. \A p \in Obj : p # u => heap'[p].type = heap[p].type
    BY <1>2, <1>5
  <2> QED
    BY <1>3, <1>6, <2>1 DEF Allocated
<1>9. Fresh = {u}
  BY <1>3, <1>8 DEF Fresh
<1>10. Roots' \subseteq Held \cup {u}
  <2>1. Roots \subseteq Held
    BY <1>1, LiveIsAllocated DEF Held
  <2> DEFINE R == Held \cup {u}
  <2>2. /\ \A i \in 1..stack.top : stack.slots[i] \in R \cup {None}
        /\ \A i \in DOMAIN frames : frames[i].closure \in R
        /\ openUpvalues \subseteq R /\ u \in R
        /\ \A name \in DOMAIN globals : name \in R /\ globals[name] \in R \cup {None}
        /\ \A i \in DOMAIN compilers : compilers[i] \in R
    BY <1>1, <2>1, RootsAreRefs
  <2> HIDE DEF R
  <2>3. openUpvalues' \subseteq R
    BY <2>2
  <2>4. Roots' \subseteq R
    BY <2>2, <2>3, RootsAreIn2
  <2> QED
    BY <2>4 DEF R
<1>11. Pointers(obj) \subseteq Held \cup {u}
  BY <1>1, <1>2, <1>5, LiveIsAllocated DEF IsClosed, Held
<1>12. Writes
  <2>1. \A p \in Allocated(heap) : heap'[p].type = heap[p].type
    BY <1>3, <1>8 DEF Allocated
  <2>2. ASSUME NEW p \in Obj, heap'[p] # heap[p]
        PROVE  p \in Held \cup {u} /\ Pointers(heap'[p]) \subseteq Held \cup {u}
    <3>1. CASE p = u
      BY <1>6, <3>1
    <3>2. CASE p = c.object
      BY <1>2, <1>11, <3>2 DEF Held
    <3> QED
      BY <2>2, <3>1, <3>2
  <2>3. strings \subseteq strings' /\ strings' \subseteq Held
    BY DEF Held
  <2> QED
    BY <1>9, <1>10, <2>1, <2>2, <2>3 DEF Writes
<1>13. TypeOK'
  <2>1. \A p \in Obj : heap'[p] # heap[p] => WellFormed(heap'[p])
    BY <1>5, <1>6
  <2>2. text' \in [Obj -> Text \cup {None}] /\ strings' \subseteq Obj /\ openUpvalues' \subseteq Obj
    BY <1>1, <1>3 DEF TypeOK
  <2>3. stack' \in Stack /\ pc' \in PC /\ c' \in CLocals
    BY <1>1 DEF TypeOK, CLocals, Stack
  <2> QED
    BY <1>1, <1>7, <1>12, <2>1, <2>2, <2>3, TypeKept
<1>14. HeapOK' /\ \A p \in Obj, type \in ObjType : Is(p, type) => Is(p, type)'
  BY <1>1, <1>12, WritesKeepHeap
<1>15. "function" \in ObjType /\ "upvalue" \in ObjType /\ "closure" \in ObjType
  BY DEF ObjType
<1>16. Is(u, "upvalue")'
  BY <1>3, <1>6 DEF Is
<1>17. PointersOK'
  <2>1. ASSUME NEW p \in Obj, heap'[p].type = "closure"
        PROVE  Is(heap[p].function, "function")' /\ \A v \in heap'[p].upvalues : Is(v, "upvalue")'
    <3>1. p # u /\ heap[p].type = "closure"
      BY <1>6, <1>8, <2>1
    <3>2. Is(heap[p].function, "function") /\ \A v \in heap[p].upvalues : Is(v, "upvalue")
      BY <1>1, <3>1 DEF PointersOK
    <3>3. heap'[p].function = heap[p].function /\ heap'[p].upvalues \subseteq heap[p].upvalues \cup {u}
      BY <1>5, <3>1
    <3>4. heap[p] \in Object
      BY <1>1 DEF TypeOK
    <3>5. heap[p].function \in Obj /\ heap[p].upvalues \subseteq Obj
      BY <3>2, <3>4 DEF Object, Ref, Is
    <3> QED
      BY <1>14, <1>15, <1>16, <3>2, <3>3, <3>5
  <2>2. \A v \in openUpvalues' : Is(v, "upvalue")'
    BY <1>1, <1>14, <1>15, <1>16, Typed DEF PointersOK
  <2> QED
    BY <2>1, <2>2 DEF PointersOK
<1>18. u \notin openUpvalues /\ \A v \in openUpvalues : v \in Obj /\ location'[v] = location[v] /\ location[v] # slot
  <2>1. u \notin openUpvalues
    BY <1>3, <1>1 DEF PointersOK, Is
  <2> QED
    BY <1>1, <1>7, <2>1, Typed DEF Captured
<1>19. OpenOK'
  <2>1. \A v \in openUpvalues' : location'[v] \in 1..stack'.top
    BY <1>1, <1>7, <1>18 DEF OpenOK
  <2>2. \A v, w \in openUpvalues' : location'[v] = location'[w] => v = w
    BY <1>1, <1>7, <1>18 DEF OpenOK
  <2> QED
    BY <2>1, <2>2 DEF OpenOK
<1>20. ClosedOK'
  BY <1>1, <1>7, <1>8 DEF ClosedOK
<1>21. InternedOK'
  <2>1. \A s \in Obj : heap'[s].type = "string" => heap[s].type = "string"
    BY <1>6, <1>8
  <2> QED
    BY <1>1, <2>1 DEF InternedOK
<1>22. FunctionsOK'
  BY <1>2 DEF FunctionsOK
<1>23. Control'
  <2>1. Running'
    BY <1>2 DEF Running
  <2>2. Is(c.object, "closure")'
    BY <1>2, <1>5, NoneAssumption DEF Is
  <2>3. c.operands = {}
    BY <1>1 DEF Control, UnusedLocals
  <2> QED
    BY <1>2, <2>1, <2>2, <2>3 DEF Control, BetweenCallsOK, CompilingOK, StringsOK, RunningOK, UnusedLocals
<1> QED
  BY <1>12, <1>13, <1>14, <1>17, <1>19, <1>20, <1>21, <1>22, <1>23 DEF IInv

LEMMA CaptureLocalKeeps ==
  ASSUME IInv, CaptureLocal  PROVE Writes /\ IInv'
<1>1. /\ pc = "capture"
      /\ UNCHANGED <<text, strings, globals, stack, frames, compilers, pc, c>>
  BY DEF CaptureLocal
<1>2. PICK slot \in Locals :
        IF Captured(slot)
        THEN /\ \E u \in openUpvalues :
                  /\ location[u] = slot
                  /\ New(c.object, [heap[c.object] EXCEPT !.upvalues = @ \cup {u}])
             /\ UNCHANGED <<location, openUpvalues>>
        ELSE \E u \in Unused :
               /\ heap' = [heap EXCEPT ![u] = Blank("upvalue"), ![c.object].upvalues = @ \cup {u}]
               /\ location' = [location EXCEPT ![u] = slot]
               /\ openUpvalues' = openUpvalues \cup {u}
  BY DEF CaptureLocal
<1>3. CASE Captured(slot)
  <2>1. PICK u \in openUpvalues : New(c.object, [heap[c.object] EXCEPT !.upvalues = @ \cup {u}])
    BY <1>2, <1>3
  <2>2. u \in Live /\ Is(u, "upvalue")
    BY RootsAreRefs, LiveIsAllocated DEF IInv, PointersOK
  <2>3. UNCHANGED <<text, location, strings, globals, stack, running, compilers, pc, c>>
    BY <1>1, <1>2, <1>3 DEF running
  <2> QED
    BY <1>1, <2>1, <2>2, <2>3, KnownIsCaptured
<1>4. CASE ~ Captured(slot)
  <2>1. PICK u \in Unused :
               /\ heap' = [heap EXCEPT ![u] = Blank("upvalue"), ![c.object].upvalues = @ \cup {u}]
               /\ location' = [location EXCEPT ![u] = slot]
               /\ openUpvalues' = openUpvalues \cup {u}
    BY <1>2, <1>4
  <2> DEFINE obj == [heap[c.object] EXCEPT !.upvalues = @ \cup {u}]
  <2>2. TypeOK /\ HeapOK /\ c.object \in Live /\ c.object \in Obj /\ heap[c.object] \in Object
    BY <1>1, CapturingHas DEF IInv
  <2>3. u \in Obj /\ u # c.object
    BY <2>2, LiveIsAllocated DEF Unused
  <2>4. obj \in Object /\ Blank("upvalue") \in Object
    BY <2>2, <2>3, ClosureGets, BlankIsObject DEF Object, ObjType
  <2>5. /\ heap' \in [Obj -> Object] /\ heap'[u] = Blank("upvalue") /\ heap'[c.object] = obj
        /\ \A p \in Obj \ {u, c.object} : heap'[p] = heap[p]
    BY <2>1, <2>2, <2>3, <2>4 DEF TypeOK
  <2> QED
    BY <1>1, <1>4, <2>1, <2>5, NewIsCaptured
<1> QED
  BY <1>3, <1>4

\* The function that is being compiled.
LEMMA CurrentIs ==
  ASSUME TypeOK, HeapOK, Compiling
  PROVE  /\ Current \in Live /\ Current \in Obj
         /\ heap[Current] \in Object /\ heap[Current].type = "function" /\ WellFormed(heap[Current])
<1>1. compilers \in Seq(Obj) /\ compilers # <<>>
  BY DEF TypeOK, Compiling
<1>2. Len(compilers) \in 1..Len(compilers)
  BY <1>1, EmptySeq, LenProperties
<1>3. Current \in Live /\ Current \in Obj /\ Is(Current, "function")
  BY <1>2, Typed, RootsAreRefs, LiveIsAllocated DEF Current
<1> QED
  BY <1>3 DEF TypeOK, Is

LEMMA WriteConstantKeeps ==
  ASSUME IInv, WriteConstant  PROVE Writes /\ IInv'
<1> DEFINE obj == [heap[Current] EXCEPT !.constants = @ \cup {Peek(0)}]
<1>1. TypeOK /\ HeapOK /\ PointersOK /\ Control /\ OpenOK /\ FunctionsOK
  BY DEF IInv
<1>2. /\ pc = "constant" /\ pc' = "compile" /\ heap' = [heap EXCEPT ![Current] = obj]
      /\ stack' = Popped(stack, 1)
      /\ UNCHANGED <<text, location, strings, globals, running, compilers, c>>
  BY DEF WriteConstant, New
<1>3. /\ Compiling /\ stack.top = 1 /\ c.object = None /\ c.operands = {}
      /\ Is(stack.slots[1], "string") \/ Is(stack.slots[1], "function")
  BY <1>1, <1>2 DEF Control, CompilingOK, UnusedLocals
<1>4. Peek(0) = stack.slots[1] /\ Peek(0) \in Live /\ Peek(0) \in Obj
  <2>1. Peek(0) = stack.slots[1]
    BY <1>3 DEF Peek
  <2>2. 1 \in 1..stack.top
    BY <1>3
  <2> QED
    BY <1>1, <1>3, <2>1, <2>2, SlotIsLive, LiveIsAllocated DEF Is
<1>5. /\ Current \in Live /\ Current \in Obj
      /\ heap[Current] \in Object /\ heap[Current].type = "function" /\ WellFormed(heap[Current])
  BY <1>1, <1>3, CurrentIs
<1>6. /\ obj \in Object /\ obj.type = "function"
      /\ obj.function = heap[Current].function /\ obj.name = heap[Current].name
      /\ obj.closed = heap[Current].closed /\ obj.upvalues = heap[Current].upvalues
      /\ obj.constants = heap[Current].constants \cup {Peek(0)}
  BY <1>4, <1>5 DEF Object
<1> HIDE DEF obj
<1>7. WellFormed(obj)
  BY <1>5, <1>6 DEF WellFormed
<1>8. Pointers(obj) \subseteq Pointers(heap[Current]) \cup Held
  BY <1>4, <1>6 DEF Pointers, Held
<1>9. /\ stack' \in Stack /\ stack'.top = 0
  BY <1>1, <1>2, <1>3, PoppedIsLive
<1>10. \A i \in 1..stack'.top : stack'.slots[i] \in Held \cup {None}
  BY <1>9
<1>11. Control'
  <2>1. Compiling'
    BY <1>2, <1>3 DEF Compiling, NotRunning, running
  <2> QED
    BY <1>2, <1>3, <1>9, <2>1 DEF Control, BetweenCallsOK, CompilingOK, StringsOK, RunningOK, UnusedLocals
<1>12. FunctionsOK'
  <2>1. CASE "fun" \notin Instructions
    <3>1. heap[Peek(0)].type # "function"
      BY <1>1, <1>2, <1>4, <2>1 DEF FunctionsOK
    <3>2. /\ \A o \in Obj : heap'[o].type = heap[o].type
          /\ \A o \in Obj : heap'[o].constants \subseteq heap[o].constants \cup {Peek(0)}
      BY <1>1, <1>2, <1>5, <1>6 DEF TypeOK
    <3>3. \A o \in Obj : heap[o].constants \subseteq Obj
      BY <1>1 DEF TypeOK, Object
    <3> QED
      BY <1>1, <1>2, <1>4, <2>1, <3>1, <3>2, <3>3 DEF FunctionsOK
  <2> QED
    BY <2>1 DEF FunctionsOK
<1>13. FreeFrom(stack'.top + 1)
  BY <1>3 DEF FreeFrom, Compiling, NotRunning
<1>14. pc' \in PC /\ c' \in CLocals /\ pc \notin {"done", "intern"} /\ pc' \notin {"string", "intern"}
  BY <1>1, <1>2 DEF TypeOK, CLocals, PC, Allocations
<1> QED
  BY <1>2, <1>5, <1>6, <1>7, <1>8, <1>9, <1>10, <1>11, <1>12, <1>13, <1>14, FieldStepKeeps


----------------------------------------------------------------------------
(***************************************************************************)
(* Strings.                                                                *)
(***************************************************************************)

\* A value takes the place of the n values on top.
LEMMA Replaced ==
  ASSUME NEW st \in Stack, NEW R, \A i \in 1..st.top : st.slots[i] \in R,
         NEW n \in 0..st.top, NEW v \in R, v \in Ref, st.top - n < MaxStack
  PROVE  /\ Pushed(Popped(st, n), v) \in Stack
         /\ Pushed(Popped(st, n), v).top = st.top - n + 1
         /\ \A i \in 1..(st.top - n + 1) : Pushed(Popped(st, n), v).slots[i] \in R
<1> DEFINE lower == Popped(st, n)
           new   == Pushed(lower, v)
<1>1. st.top \in Nat
  BY TopIsNatural
<1>2. lower \in Stack /\ lower.top = st.top - n /\ lower.slots = st.slots
  BY PoppedIs
<1> HIDE DEF lower
<1>3. /\ new \in Stack
      /\ new.top = lower.top + 1
      /\ new.slots[lower.top + 1] = v
      /\ \A i \in 1..lower.top : new.slots[i] = lower.slots[i]
  BY <1>2, PushedIs
<1> HIDE DEF new
<1>4. ASSUME NEW i \in 1..(st.top - n + 1)  PROVE new.slots[i] \in R
  <2>1. CASE i = st.top - n + 1
    BY <1>2, <1>3, <2>1
  <2>2. CASE i # st.top - n + 1
    <3>1. i \in 1..lower.top /\ i \in 1..st.top
      BY <1>1, <1>2, <2>2
    <3> QED
      BY <1>2, <1>3, <3>1
  <2> QED
    BY <2>1, <2>2
<1> QED
  BY <1>2, <1>3, <1>4 DEF new, lower

LEMMA Joined ==
  ASSUME NEW st \in Stack, NEW R, \A i \in 1..st.top : st.slots[i] \in R,
         NEW v \in R, v \in Ref, st.top < MaxStack
  PROVE  /\ Pushed(st, v) \in Stack
         /\ Pushed(st, v).top = st.top + 1
         /\ Pushed(st, v).slots[st.top + 1] = v
         /\ \A i \in 1..(st.top + 1) : Pushed(st, v).slots[i] \in R
<1>1. st.top \in Nat
  BY TopIsNatural
<1>2. /\ Pushed(st, v) \in Stack
      /\ Pushed(st, v).top = st.top + 1
      /\ Pushed(st, v).slots[st.top + 1] = v
      /\ \A i \in 1..st.top : Pushed(st, v).slots[i] = st.slots[i]
  BY PushedIs
<1>3. \A i \in 1..(st.top + 1) : i = st.top + 1 \/ i \in 1..st.top
  BY <1>1
<1> QED
  BY <1>2, <1>3

\* The caller gets its string: s, which is in vm.strings by now.
LEMMA StringGiven ==
  ASSUME IInv, pc # "done", NEW s \in Held, Is(s, "string"),
         NEW then, NEW st \in Stack, \A i \in 1..st.top : st.slots[i] \in Live \cup {None},
         MakingFor(then, st.top), st.top < MaxStack,
         Return(s, then, st),
         UNCHANGED <<text, location, globals, running, compilers>>,
         strings \subseteq strings', strings' \subseteq Held,
         \A x \in strings' : Is(x, "string"),
         \A x \in Obj : heap[x].type = "string" => x \in strings',
         \A x, y \in strings' : text[x] = text[y] => x = y
  PROVE  Writes /\ IInv'
<1>1. TypeOK /\ HeapOK /\ PointersOK /\ OpenOK /\ ClosedOK /\ FunctionsOK
  BY DEF IInv
<1>2. s \in Obj /\ s \in Ref /\ s # None
  BY <1>1, LiveIsAllocated DEF Is, Ref
<1>3. then \in {"native", "name", "constant", "concatenate"} /\ st.top \in Nat
  BY TopIsNatural DEF MakingFor
<1>4. frames' = frames /\ openUpvalues' = openUpvalues /\ c' = NoLocals
  BY DEF running, Return
\* the stack
<1>5. /\ stack' \in Stack
      /\ \A i \in 1..stack'.top : stack'.slots[i] \in Held \cup {None}
      /\ FreeFrom(stack'.top + 1)
      /\ then \in {"native", "constant"} => stack'.top = 1 /\ stack'.slots[1] = s
      /\ then = "name" => stack'.top = 0
  <2>1. \A i \in 1..st.top : st.slots[i] \in Held \cup {None}
    BY DEF Held
  <2>2. CASE then = "concatenate"
    <3>1. stack' = Pushed(Popped(st, 2), s)
      BY <2>2 DEF Return
    <3>2. 2 \in 0..st.top /\ st.top - 2 < MaxStack /\ FreeFrom(st.top - 1)
      BY <1>3, <2>2, MutatorAssumption DEF MakingFor
    <3>3. /\ stack' \in Stack /\ stack'.top = st.top - 2 + 1
          /\ \A i \in 1..(st.top - 2 + 1) : stack'.slots[i] \in Held \cup {None}
      <4> DEFINE R == Held \cup {None}
      <4>1. s \in R /\ \A i \in 1..st.top : st.slots[i] \in R
        BY <2>1
      <4> HIDE DEF R
      <4>2. /\ Pushed(Popped(st, 2), s) \in Stack
            /\ Pushed(Popped(st, 2), s).top = st.top - 2 + 1
            /\ \A i \in 1..(st.top - 2 + 1) : Pushed(Popped(st, 2), s).slots[i] \in R
        BY <1>2, <3>2, <4>1, Replaced
      <4> QED
        BY <3>1, <4>2 DEF R
    <3>4. FreeFrom(stack'.top + 1)
      <4>1. st.top - 1 <= stack'.top + 1 /\ st.top - 1 \in Int /\ stack'.top + 1 \in Int
        BY <1>3, <3>3
      <4> QED
        BY <1>1, <3>2, <4>1, FreeFromMore
    <3> QED
      BY <2>2, <3>3, <3>4
  <2>3. CASE then \in {"native", "constant"}
    <3>1. stack' = Pushed(st, s) /\ st.top = 0 /\ openUpvalues = {}
      BY <2>3 DEF Return, MakingFor, Resting, Compiling, NotRunning
    <3>2. s \in Held \cup {None}
      OBVIOUS
    <3>3. /\ stack' \in Stack /\ stack'.top = st.top + 1 /\ stack'.slots[st.top + 1] = s
          /\ \A i \in 1..(st.top + 1) : stack'.slots[i] \in Held \cup {None}
      BY <1>2, <2>1, <3>1, <3>2, Joined
    <3> QED
      BY <2>3, <3>1, <3>3 DEF FreeFrom
  <2>4. CASE then = "name"
    <3>1. stack' = st /\ st.top = 0 /\ openUpvalues = {}
      BY <2>4 DEF Return, MakingFor, Compiling, NotRunning
    <3> QED
      BY <2>1, <2>4, <3>1 DEF FreeFrom
  <2> QED
    BY <1>3, <2>2, <2>3, <2>4
\* the heap
<1>6. /\ heap' \in [Obj -> Object]
      /\ \A o \in Obj : heap'[o].type = heap[o].type /\ heap'[o].constants = heap[o].constants
      /\ \A o \in Obj : heap'[o].function = heap[o].function /\ heap'[o].upvalues = heap[o].upvalues
      /\ \A o \in Obj : heap'[o] # heap[o] =>
           o \in Held /\ Pointers(heap'[o]) \subseteq Held /\ WellFormed(heap'[o])
  <2>1. CASE then # "name"
    BY <1>1, <2>1 DEF Return, TypeOK
  <2>2. CASE then = "name"
    <3> DEFINE obj == [heap[Current] EXCEPT !.name = s]
    <3>1. Compiling /\ heap' = [heap EXCEPT ![Current].name = s]
      BY <2>2 DEF MakingFor, Return
    <3>2. /\ Current \in Live /\ Current \in Obj
          /\ heap[Current] \in Object /\ heap[Current].type = "function" /\ WellFormed(heap[Current])
      BY <1>1, <3>1, CurrentIs
    <3>3. heap' = [heap EXCEPT ![Current] = obj]
      BY <1>1, <3>1, <3>2 DEF TypeOK
    <3>4. /\ obj \in Object /\ obj.type = "function" /\ obj.name = s
          /\ obj.function = heap[Current].function /\ obj.closed = heap[Current].closed
          /\ obj.upvalues = heap[Current].upvalues /\ obj.constants = heap[Current].constants
      BY <1>2, <3>2 DEF Object
    <3> HIDE DEF obj
    <3>5. WellFormed(obj)
      BY <3>2, <3>4 DEF WellFormed
    <3>6. Pointers(obj) \subseteq Pointers(heap[Current]) \cup {s}
      BY <3>4 DEF Pointers
    <3>7. Pointers(heap[Current]) \subseteq Held
      BY <1>1, <3>2, LiveIsAllocated DEF IsClosed, Held
    <3>8. /\ heap' \in [Obj -> Object] /\ heap'[Current] = obj
          /\ \A o \in Obj \ {Current} : heap'[o] = heap[o]
      BY <1>1, <3>2, <3>3, <3>4 DEF TypeOK
    <3> QED
      BY <3>2, <3>4, <3>5, <3>6, <3>7, <3>8 DEF Held
  <2> QED
    BY <2>1, <2>2
<1>7. Roots' \subseteq Held
  <2>1. Roots \subseteq Held
    BY <1>1, LiveIsAllocated DEF Held
  <2>2. /\ \A i \in DOMAIN frames : frames[i].closure \in Held
        /\ openUpvalues \subseteq Held
        /\ \A name \in DOMAIN globals : name \in Held /\ globals[name] \in Held \cup {None}
        /\ \A i \in DOMAIN compilers : compilers[i] \in Held
    BY <1>1, <2>1, RootsAreRefs
  <2> QED
    BY <1>4, <1>5, <2>2, RootsAreIn2
<1>8. Writes
  <2>1. \A o \in Allocated(heap) : heap'[o].type = heap[o].type
    BY <1>6 DEF Allocated
  <2> QED
    BY <1>6, <1>7, <2>1 DEF Writes
<1>9. \A o \in Obj, type \in ObjType : Is(o, type) => Is(o, type)'
  BY <1>1, <1>8, WritesKeepHeap
<1>10. "function" \in ObjType /\ "upvalue" \in ObjType /\ "string" \in ObjType
  BY DEF ObjType
<1>11. strings' \subseteq Obj
  BY <1>1, LiveIsAllocated
<1>12. TypeOK'
  <2>1. \A o \in Obj : heap'[o] # heap[o] => WellFormed(heap'[o])
    BY <1>6
  <2>2. \A x \in strings' : x \notin strings => Is(x, "string")'
    BY <1>9, <1>10, <1>11
  <2>3. text' \in [Obj -> Text \cup {None}] /\ location' \in [Obj -> Slot \cup {0}] /\ openUpvalues' \subseteq Obj
    BY <1>1, <1>4 DEF TypeOK
  <2>4. pc' \in PC /\ c' \in CLocals
    BY <1>3, <1>4, NoLocalsAre DEF Return, PC, Allocations
  <2> QED
    BY <1>1, <1>4, <1>5, <1>8, <1>11, <2>1, <2>2, <2>3, <2>4, TypeKept
<1>13. HeapOK'
  BY <1>1, <1>8, WritesKeepHeap
<1>14. PointersOK'
  <2>1. ASSUME NEW o \in Obj, heap'[o].type = "closure"
        PROVE  Is(heap[o].function, "function")' /\ \A u \in heap'[o].upvalues : Is(u, "upvalue")'
    <3>1. Is(heap[o].function, "function") /\ \A u \in heap[o].upvalues : Is(u, "upvalue")
      BY <1>1, <1>6, <2>1 DEF PointersOK
    <3>2. heap[o] \in Object
      BY <1>1 DEF TypeOK
    <3>3. heap[o].function \in Obj /\ heap[o].upvalues \subseteq Obj
      BY <3>1, <3>2 DEF Object, Ref, Is
    <3> QED
      BY <1>6, <1>9, <1>10, <3>1, <3>3
  <2>2. \A u \in openUpvalues' : Is(u, "upvalue")'
    BY <1>1, <1>4, <1>9, <1>10, Typed DEF PointersOK
  <2> QED
    BY <2>1, <2>2 DEF PointersOK
<1>15. OpenOK'
  <2>1. ASSUME NEW u \in openUpvalues  PROVE location[u] \in 1..stack'.top
    <3>1. location[u] \in 1..stack.top /\ stack.top \in Nat /\ stack'.top \in Nat
      BY <1>1, <1>5, Typed, TopIsNatural DEF OpenOK
    <3>2. location[u] < stack'.top + 1
      BY <1>5 DEF FreeFrom
    <3> QED
      BY <3>1, <3>2
  <2> QED
    BY <1>1, <1>4, <2>1 DEF OpenOK
<1>16. ClosedOK'
  BY <1>1, <1>4, <1>6 DEF ClosedOK
<1>17. pc' \in {"native", "compile", "constant", "execute"} /\ (pc' = "constant" => then = "constant")
       /\ (pc' = "native" => then = "native") /\ (pc' = "compile" => then = "name")
       /\ (pc' = "execute" => then = "concatenate")
  BY <1>3 DEF Return
<1>18. InternedOK'
  BY <1>6, <1>17 DEF InternedOK
<1>19. FunctionsOK'
  <2>1. \A o \in Obj : heap[o].constants \subseteq Obj
    BY <1>1 DEF TypeOK, Object
  <2>2. pc' = "constant" => heap'[stack'.slots[1]].type # "function"
    BY <1>2, <1>5, <1>6, <1>17 DEF Is
  <2> QED
    BY <1>1, <1>6, <1>17, <2>1, <2>2 DEF FunctionsOK
<1>20. Control'
  <2>1. Is(s, "string")'
    BY <1>2, <1>9, <1>10
  <2>2. pc' \in {"native", "constant"} => Is(stack.slots[1], "string")'
    BY <1>5, <1>17, <2>1 DEF Is
  <2>3. /\ pc' = "native" => Resting'
        /\ pc' \in {"constant", "compile"} => Compiling'
        /\ pc' = "execute" => Running'
    BY <1>4, <1>17 DEF MakingFor, Resting, Compiling, Running, NotRunning
  <2> QED
    BY <1>4, <1>5, <1>17, <2>2, <2>3, NoLocalsAre
       DEF Control, BetweenCallsOK, CompilingOK, StringsOK, RunningOK, UnusedLocals
<1> QED
  BY <1>8, <1>12, <1>13, <1>14, <1>15, <1>16, <1>18, <1>19, <1>20 DEF IInv


\* copyString() and takeString(): found, or about to be allocated.
LEMMA InternKeeps ==
  ASSUME IInv, pc \notin {"done", "intern"}, NEW t \in Text, NEW then, MakingFor(then, stack.top),
         Intern(t, then), UNCHANGED compilers
  PROVE  Writes /\ IInv'
<1>1. /\ TypeOK /\ HeapOK /\ PointersOK /\ OpenOK /\ ClosedOK /\ InternedOK /\ FunctionsOK
  BY DEF IInv
<1>2. Room /\ UNCHANGED <<text, location, strings, globals, running>>
  BY DEF Intern
<1>3. CASE Find(t) # {}
  <2>1. PICK s \in Find(t) : Return(s, then, stack)
    BY <1>3 DEF Intern
  <2>2. s \in strings /\ s \in Held /\ Is(s, "string")
    BY <1>1, <2>1 DEF Find, Held, TypeOK
  <2>3. stack \in Stack /\ \A i \in 1..stack.top : stack.slots[i] \in Live \cup {None}
    BY <1>1, Typed, SlotIsLive
  <2>4. stack.top < MaxStack
    BY <1>2 DEF Room
  <2>5. /\ strings \subseteq strings' /\ strings' \subseteq Held
        /\ \A x \in strings' : Is(x, "string")
    BY <1>1, <1>2 DEF Held, TypeOK
  <2>6. /\ \A x \in Obj : heap[x].type = "string" => x \in strings'
        /\ \A x, y \in strings' : text[x] = text[y] => x = y
    BY <1>1, <1>2 DEF InternedOK
  <2>7. UNCHANGED <<text, location, globals, running, compilers>>
    BY <1>2
  <2> QED
    BY <2>1, <2>2, <2>3, <2>4, <2>5, <2>6, <2>7, StringGiven
<1>4. CASE Find(t) = {}
  <2>1. /\ pc' = "string" /\ c' = [NoLocals EXCEPT !.then = then, !.text = t]
        /\ UNCHANGED <<heap, stack>>
    BY <1>4 DEF Intern
  <2>2. UNCHANGED <<heap, text, location, strings, globals, stack, frames, openUpvalues, compilers>>
    BY <1>2, <2>1 DEF running
  <2>3. then \in PC \cup {"", "concatenate"}
    BY DEF MakingFor, PC, Allocations
  <2>4. c' \in CLocals /\ c'.then = then /\ c'.text = t /\ c'.object = None /\ c'.operands = {}
    BY <2>1, <2>3 DEF NoLocals, CLocals, Ref
  <2>5. TypeOK'
    <3>1. pc' \in PC /\ c' \in CLocals
      BY <2>1, <2>4 DEF PC, Allocations
    <3> QED
      BY <1>1, <2>2, <3>1 DEF TypeOK, Is, CLocals
  <2>6. Writes
    <3>1. Roots' \subseteq Held
      BY <1>1, <2>2, LiveIsAllocated DEF Roots, Held
    <3> QED
      BY <1>1, <2>2, <3>1, NothingWritten
  <2>7. HeapOK'
    BY <1>1, <2>6, WritesKeepHeap
  <2>8. PointersOK' /\ OpenOK' /\ ClosedOK'
    BY <1>1, <2>2 DEF PointersOK, OpenOK, ClosedOK, Is
  <2>9. InternedOK'
    <3>1. \A s \in strings : text[s] # t
      BY <1>4 DEF Find
    <3> QED
      BY <1>1, <2>1, <2>2, <2>4, <3>1 DEF InternedOK
  <2>10. FunctionsOK'
    BY <1>1, <2>1, <2>2 DEF FunctionsOK
  <2>11. Control'
    <3>1. MakingOK(stack.top)'
      BY <2>2, <2>4 DEF MakingOK, MakingFor, Resting, Compiling, Running, NotRunning, FreeFrom
    <3> QED
      BY <2>1, <2>4, <3>1 DEF Control, BetweenCallsOK, CompilingOK, StringsOK, RunningOK, UnusedLocals
  <2> QED
    BY <2>5, <2>6, <2>7, <2>8, <2>9, <2>10, <2>11 DEF IInv
<1> QED
  BY <1>3, <1>4

LEMMA DefineNativeKeeps ==
  ASSUME IInv, DefineNative  PROVE Writes /\ IInv'
<1>1. TypeOK /\ Control /\ FunctionsOK
  BY DEF IInv
<1>2. pc = "initVM" /\ UNCHANGED compilers
  BY DEF DefineNative
<1>3. Resting /\ stack.top = 0 /\ c.object = None /\ c.operands = {}
  BY <1>1, <1>2 DEF Control, BetweenCallsOK, UnusedLocals
<1>4. CASE Natives = {}
  <2>1. pc' = "idle" /\ UNCHANGED <<objects, strings, globals, stack, running, compilers, c>>
    BY <1>2, <1>4 DEF DefineNative
  <2>2. Control'
    <3>1. Resting'
      BY <1>3, <2>1 DEF Resting, NotRunning, running
    <3> QED
      BY <1>3, <2>1, <3>1 DEF Control, BetweenCallsOK, CompilingOK, StringsOK, RunningOK, UnusedLocals
  <2>3. FunctionsOK'
    BY <1>1, <2>1 DEF FunctionsOK, objects
  <2>4. pc' \in PC /\ c' \in CLocals
    BY <1>1, <2>1 DEF TypeOK, CLocals, PC
  <2> QED
    BY <1>2, <2>1, <2>2, <2>3, <2>4, WaitKeeps
<1>5. CASE Natives # {}
  <2>1. PICK t \in Natives : Intern(t, "native")
    BY <1>5 DEF DefineNative
  <2>2. t \in Text
    BY MutatorAssumption
  <2>3. MakingFor("native", stack.top)
    BY <1>3 DEF MakingFor
  <2> QED
    BY <1>2, <2>1, <2>2, <2>3, InternKeeps
<1> QED
  BY <1>4, <1>5

LEMMA NameFunctionKeeps ==
  ASSUME IInv, NameFunction  PROVE Writes /\ IInv'
<1>1. pc = "name" /\ UNCHANGED compilers
  BY DEF NameFunction
<1>2. PICK t \in Text : Intern(t, "name")
  BY DEF NameFunction
<1>3. MakingFor("name", stack.top)
  BY <1>1 DEF IInv, Control, CompilingOK, MakingFor
<1> QED
  BY <1>1, <1>2, <1>3, InternKeeps

LEMMA StringConstantKeeps ==
  ASSUME IInv, StringConstant  PROVE Writes /\ IInv'
<1>1. pc = "compile" /\ UNCHANGED compilers
  BY DEF StringConstant
<1>2. PICK t \in Text : Intern(t, "constant")
  BY DEF StringConstant
<1>3. MakingFor("constant", stack.top)
  BY <1>1 DEF IInv, Control, CompilingOK, MakingFor
<1> QED
  BY <1>1, <1>2, <1>3, InternKeeps

LEMMA TakeStringKeeps ==
  ASSUME IInv, TakeString  PROVE Writes /\ IInv'
<1>1. pc = "chars" /\ UNCHANGED compilers
  BY DEF TakeString
<1>2. PICK t \in Text : Intern(t, "concatenate")
  BY DEF TakeString
<1>3. MakingFor("concatenate", stack.top)
  BY <1>1 DEF IInv, Control, RunningOK, MakingFor
<1> QED
  BY <1>1, <1>2, <1>3, InternKeeps

LEMMA AllocateStringKeeps ==
  ASSUME IInv, AllocateString  PROVE Writes /\ IInv'
<1>1. TypeOK /\ HeapOK /\ PointersOK /\ OpenOK /\ ClosedOK /\ InternedOK /\ FunctionsOK /\ Control
  BY DEF IInv
<1>2. /\ pc = "string" /\ Room /\ pc' = "intern"
      /\ UNCHANGED <<location, strings, globals, running, compilers>>
  BY DEF AllocateString
<1>3. PICK s \in Unused :
        /\ heap' = [heap EXCEPT ![s] = Blank("string")]
        /\ text' = [text EXCEPT ![s] = c.text]
        /\ stack' = Pushed(stack, s)
        /\ c' = [c EXCEPT !.object = s]
  BY DEF AllocateString, New
<1>4. s \in Obj /\ s \notin Allocated(heap) /\ heap[s].type = "free" /\ s # None
  BY NoneAssumption DEF Unused, Allocated
<1>5. frames' = frames /\ openUpvalues' = openUpvalues
  BY <1>2 DEF running
<1>6. /\ stack' \in Stack /\ stack'.top = stack.top + 1 /\ stack'.slots[stack'.top] = s
      /\ \A i \in 1..stack'.top : stack'.slots[i] \in Live \cup {None, s}
  BY <1>1, <1>2, <1>3, <1>4, NewIsPushed
<1>7. "string" \in ObjType /\ "upvalue" \in ObjType /\ "function" \in ObjType
  BY DEF ObjType
<1>8. /\ Blank("string") \in Object /\ Blank("string").type = "string" /\ WellFormed(Blank("string"))
      /\ Pointers(Blank("string")) \subseteq Held /\ Blank("string").constants = {}
  BY <1>7, BlankIsObject
<1>9. heap'[s] = Blank("string") /\ \A o \in Obj : o # s => heap'[o] = heap[o]
  BY <1>1, <1>3, <1>4 DEF TypeOK
<1>10. c.text \in Text /\ MakingOK(stack.top) /\ c.operands = {}
  BY <1>1, <1>2 DEF Control, StringsOK, UnusedLocals
<1>11. /\ text' \in [Obj -> Text \cup {None}] /\ text'[s] = c.text
       /\ \A o \in Obj : o # s => text'[o] = text[o]
  BY <1>1, <1>3, <1>4, <1>10 DEF TypeOK
<1>12. c' \in CLocals /\ c'.object = s /\ c'.then = c.then /\ c'.operands = {}
  <2>1. c \in CLocals /\ s \in Ref
    BY <1>1, <1>4 DEF TypeOK, CLocals, Ref
  <2> QED
    BY <1>3, <1>10, <2>1 DEF CLocals
<1>13. Roots' \subseteq Held \cup {s}
  <2>1. Roots \subseteq Held
    BY <1>1, LiveIsAllocated DEF Held
  <2> DEFINE R == Held \cup {s}
  <2>2. /\ \A i \in DOMAIN frames : frames[i].closure \in R
        /\ openUpvalues \subseteq R
        /\ \A name \in DOMAIN globals : name \in R /\ globals[name] \in R \cup {None}
        /\ \A i \in DOMAIN compilers : compilers[i] \in R
    BY <1>1, <2>1, RootsAreRefs
  <2>3. \A i \in 1..stack'.top : stack'.slots[i] \in R \cup {None}
    BY <1>6 DEF Held
  <2> HIDE DEF R
  <2>4. Roots' \subseteq R
    BY <1>2, <1>5, <2>2, <2>3, RootsAreIn2
  <2> QED
    BY <2>4 DEF R
<1>14. Writes
  <2>1. strings \subseteq strings' /\ strings' \subseteq strings \cup {s} /\ Blank("string").type # "free"
    BY <1>2, <1>8
  <2> QED
    BY <1>1, <1>3, <1>8, <1>13, <2>1, ObjectMade
<1>15. HeapOK' /\ \A o \in Obj, type \in ObjType : Is(o, type) => Is(o, type)'
  BY <1>1, <1>14, WritesKeepHeap
<1>16. TypeOK'
  <2>1. \A o \in Obj : heap'[o] # heap[o] => WellFormed(heap'[o])
    BY <1>8, <1>9
  <2>2. location' \in [Obj -> Slot \cup {0}] /\ strings' \subseteq Obj /\ openUpvalues' \subseteq Obj
    BY <1>1, <1>2, <1>5 DEF TypeOK
  <2>3. pc' \in PC
    BY <1>2 DEF PC, Allocations
  <2> QED
    BY <1>1, <1>2, <1>5, <1>6, <1>11, <1>12, <1>14, <2>1, <2>2, <2>3, TypeKept
<1>17. PointersOK'
  <2>1. ASSUME NEW o \in Obj, heap'[o].type = "closure"
        PROVE  Is(heap[o].function, "function")' /\ \A u \in heap'[o].upvalues : Is(u, "upvalue")'
    <3>1. heap'[o] = heap[o] /\ heap[o] \in Object
      BY <1>1, <1>8, <1>9, <2>1 DEF TypeOK
    <3>2. Is(heap[o].function, "function") /\ \A u \in heap[o].upvalues : Is(u, "upvalue")
      BY <1>1, <2>1, <3>1 DEF PointersOK
    <3>3. heap[o].function \in Obj /\ heap[o].upvalues \subseteq Obj
      BY <3>1, <3>2 DEF Object, Ref, Is
    <3> QED
      BY <1>7, <1>15, <3>1, <3>2, <3>3
  <2>2. \A u \in openUpvalues' : Is(u, "upvalue")'
    BY <1>1, <1>5, <1>7, <1>15, Typed DEF PointersOK
  <2> QED
    BY <2>1, <2>2 DEF PointersOK
<1>18. FreeFrom(stack.top + 1) /\ stack.top \in Nat
  BY <1>1, OpenAreBelow
<1>19. OpenOK'
  <2>1. \A u \in openUpvalues : location[u] \in 1..stack'.top
    BY <1>1, <1>6, <1>18 DEF OpenOK
  <2> QED
    BY <1>1, <1>2, <1>5, <2>1 DEF OpenOK
<1>20. ClosedOK'
  BY <1>1, <1>2, <1>5, <1>8, <1>9 DEF ClosedOK
<1>21. InternedOK'
  <2>1. \A o \in strings : o \in Obj /\ o # s
    BY <1>1, <1>4 DEF TypeOK, HeapOK
  <2>2. \A o \in strings : text[o] # c.text
    BY <1>1, <1>2 DEF InternedOK
  <2> QED
    BY <1>1, <1>2, <1>9, <1>11, <1>12, <2>1, <2>2 DEF InternedOK
<1>22. FunctionsOK'
  <2>1. CASE "fun" \notin Instructions
    <3>1. /\ \A p \in Obj : heap'[p].type # "upvalue"
          /\ \A p \in Obj : \A k \in heap'[p].constants : heap'[k].type # "function"
      BY <1>3, <1>8, <2>1, MadeFunctions
    <3> QED
      BY <1>1, <1>2, <2>1, <3>1 DEF FunctionsOK
  <2> QED
    BY <2>1 DEF FunctionsOK
<1>23. Control'
  <2>1. Is(c.object, "string")'
    BY <1>4, <1>8, <1>9, <1>12 DEF Is
  <2>2. stack'.top > 0 /\ stack'.top - 1 = stack.top
    BY <1>6, <1>18
  <2>3. MakingOK(stack.top - 1)'
    BY <1>2, <1>5, <1>10, <1>12, <2>2
       DEF MakingOK, MakingFor, Resting, Compiling, Running, NotRunning, FreeFrom
  <2>4. FreeFrom(stack.top)'
    BY <1>2, <1>5, <1>6, <1>18 DEF FreeFrom
  <2> QED
    BY <1>2, <1>6, <1>12, <2>1, <2>2, <2>3, <2>4
       DEF Control, BetweenCallsOK, CompilingOK, StringsOK, RunningOK, UnusedLocals
<1> QED
  BY <1>14, <1>15, <1>16, <1>17, <1>19, <1>20, <1>21, <1>22, <1>23 DEF IInv

LEMMA TableSetStringKeeps ==
  ASSUME IInv, TableSetString  PROVE Writes /\ IInv'
<1>1. TypeOK /\ HeapOK /\ InternedOK /\ Control
  BY DEF IInv
<1>2. /\ pc = "intern" /\ strings' = strings \cup {c.object} /\ Return(c.object, c.then, Popped(stack, 1))
      /\ UNCHANGED <<text, location, globals, running, compilers>>
  BY DEF TableSetString
<1>3. /\ stack.top > 0 /\ c.object = stack.slots[stack.top] /\ Is(c.object, "string")
      /\ MakingFor(c.then, stack.top - 1)
  BY <1>1, <1>2 DEF Control, StringsOK, MakingOK
<1>4. stack.top \in Nat /\ 1 \in 0..stack.top /\ stack.top \in 1..stack.top /\ stack.top <= MaxStack
  BY <1>1, <1>3, Typed, TopIsNatural
<1>5. c.object \in Live /\ c.object \in Held /\ c.object \in Obj
  BY <1>1, <1>3, <1>4, SlotIsLive, LiveIsAllocated DEF Is, Held
<1>6. /\ Popped(stack, 1) \in Stack /\ Popped(stack, 1).top = stack.top - 1
      /\ \A i \in 1..Popped(stack, 1).top : Popped(stack, 1).slots[i] \in Live \cup {None}
  BY <1>1, <1>4, PoppedIsLive
<1>7. Popped(stack, 1).top < MaxStack /\ MakingFor(c.then, Popped(stack, 1).top)
  BY <1>3, <1>4, <1>6, MutatorAssumption
<1>8. /\ strings \subseteq strings' /\ strings' \subseteq Held
      /\ \A x \in strings' : Is(x, "string")
  BY <1>1, <1>2, <1>3, <1>5 DEF Held, TypeOK
<1>9. /\ \A x \in Obj : heap[x].type = "string" => x \in strings'
      /\ \A x, y \in strings' : text[x] = text[y] => x = y
  BY <1>1, <1>2 DEF InternedOK
<1>10. pc # "done"
  BY <1>2
<1> QED
  BY <1>2, <1>3, <1>5, <1>6, <1>7, <1>8, <1>9, <1>10, StringGiven


----------------------------------------------------------------------------
(***************************************************************************)
(* A collection, at any allocation.                                        *)
(***************************************************************************)

LEMMA CollectKeeps ==
  ASSUME IInv, Collect  PROVE IInv'
<1>1. TypeOK /\ HeapOK /\ PointersOK /\ OpenOK /\ ClosedOK /\ InternedOK /\ FunctionsOK /\ Control
  BY DEF IInv
<1>2. /\ pc \in Allocations
      /\ heap' = [o \in Obj |-> IF o \in Live THEN heap[o] ELSE Freed]
      /\ text' = [o \in Obj |-> IF o \in Live THEN text[o] ELSE None]
      /\ location' = [o \in Obj |-> IF o \in Live THEN location[o] ELSE 0]
      /\ strings' = strings \cap Live
      /\ UNCHANGED <<globals, stack, running, compilers, pc, c>>
  BY DEF Collect
<1>3. /\ Roots \subseteq Live /\ Live \in SUBSET Obj /\ Live \subseteq Allocated(heap) /\ IsClosed(heap, Live)
      /\ heap \in [Obj -> Object] /\ \A o \in Obj : WellFormed(heap[o])
  BY <1>1, LiveIsAllocated DEF TypeOK
<1>4. /\ heap' \in [Obj -> Object]
      /\ \A o \in Obj : WellFormed(heap'[o])
      /\ \A o \in Live : heap'[o] = heap[o]
      /\ \A o \in Obj \ Live : heap'[o] = Freed /\ heap'[o].type = "free"
      /\ Allocated(heap') = Live
      /\ IsClosed(heap', Allocated(heap'))
  BY <1>2, <1>3, FreedOutside
<1>5. UNCHANGED <<globals, stack, frames, openUpvalues, compilers, pc, c>>
  BY <1>2 DEF running
<1>6. /\ \A o \in Live : text'[o] = text[o] /\ location'[o] = location[o]
      /\ \A o \in Obj \ Live : location'[o] = 0
      /\ text' \in [Obj -> Text \cup {None}] /\ location' \in [Obj -> Slot \cup {0}]
  BY <1>1, <1>2, <1>3 DEF TypeOK
<1>7. \A o \in Live : \A type : Is(o, type) => Is(o, type)'
  BY <1>4 DEF Is
<1>8. /\ \A i \in 1..stack.top : stack.slots[i] \in Live \cup {None}
      /\ \A i \in DOMAIN frames : frames[i].closure \in Live
      /\ openUpvalues \subseteq Live
      /\ \A name \in DOMAIN globals : name \in Live
      /\ \A i \in DOMAIN compilers : compilers[i] \in Live
  BY <1>1, <1>3, RootsAreRefs
<1>9. TypeOK'
  <2>1. \A key \in strings' \cup DOMAIN globals' : Is(key, "string")'
    BY <1>1, <1>2, <1>5, <1>7, <1>8 DEF TypeOK
  <2>2. ASSUME NEW i \in DOMAIN frames'  PROVE Is(frames[i].closure, "closure")'
    <3>1. i \in DOMAIN frames /\ frames[i].closure \in Live /\ frames'[i] = frames[i]
      BY <1>5, <1>8
    <3>2. Is(frames[i].closure, "closure")
      BY <1>1, <3>1, Typed
    <3> QED
      BY <1>4, <3>1, <3>2 DEF Is
  <2>3. ASSUME NEW i \in DOMAIN compilers'  PROVE Is(compilers[i], "function")'
    <3>1. i \in DOMAIN compilers /\ compilers[i] \in Live /\ compilers'[i] = compilers[i]
      BY <1>5, <1>8
    <3>2. Is(compilers[i], "function")
      BY <1>1, <3>1, Typed
    <3> QED
      BY <1>4, <3>1, <3>2 DEF Is
  <2>4. strings' \subseteq Obj
    BY <1>2, <1>3
  <2> QED
    BY <1>1, <1>4, <1>5, <1>6, <2>1, <2>2, <2>3, <2>4 DEF TypeOK
<1>10. HeapOK'
  <2>1. Roots' = Roots
    BY <1>5 DEF Roots
  <2>2. Roots' \cup strings' \subseteq Allocated(heap')
    BY <1>2, <1>3, <1>4, <2>1
  <2> QED
    BY <1>4, <2>2 DEF HeapOK
<1>11. PointersOK'
  <2>1. ASSUME NEW o \in Obj, heap'[o].type = "closure"
        PROVE  Is(heap[o].function, "function")' /\ \A u \in heap'[o].upvalues : Is(u, "upvalue")'
    <3>1. o \in Live /\ heap'[o] = heap[o] /\ heap[o] \in Object
      BY <1>3, <1>4, <2>1
    <3>2. Is(heap[o].function, "function") /\ \A u \in heap[o].upvalues : Is(u, "upvalue")
      BY <1>1, <2>1, <3>1 DEF PointersOK
    <3>3. heap[o].function # None /\ None \notin heap[o].upvalues
      BY <3>2 DEF Is
    <3>4. heap[o].function \in Live /\ heap[o].upvalues \subseteq Live
      BY <1>3, <3>1, <3>3 DEF IsClosed, Pointers
    <3> QED
      BY <1>7, <3>1, <3>2, <3>4 DEF Is
  <2>2. \A u \in openUpvalues' : Is(u, "upvalue")'
    BY <1>1, <1>5, <1>7, <1>8 DEF PointersOK
  <2> QED
    BY <2>1, <2>2 DEF PointersOK
<1>12. \A u \in openUpvalues : location'[u] = location[u]
  BY <1>6, <1>8
<1>13. OpenOK'
  BY <1>1, <1>5, <1>12 DEF OpenOK
<1>14. ClosedOK'
  BY <1>1, <1>4, <1>5, <1>6 DEF ClosedOK
<1>15. \A n : FreeFrom(n) => FreeFrom(n)'
  BY <1>5, <1>12 DEF FreeFrom
<1>16. pc = "intern" => c.object \in Live
  <2>1. pc = "intern" => stack.top > 0 /\ c.object = stack.slots[stack.top] /\ c.object # None
    BY <1>1 DEF Control, StringsOK, Is
  <2>2. stack.top \in Nat
    BY <1>1, Typed, TopIsNatural
  <2> QED
    BY <1>8, <2>1, <2>2
<1>17. InternedOK'
  <2>1. \A s \in Obj : heap'[s].type = "string" => s \in Live /\ heap[s].type = "string"
    BY <1>4
  <2>2. \A s \in strings' : s \in strings /\ text'[s] = text[s]
    BY <1>2, <1>6
  <2>3. \A s \in Obj : heap'[s].type = "string" => s \in strings' \/ (pc' = "intern" /\ s = c'.object)
    BY <1>1, <1>2, <1>5, <2>1 DEF InternedOK
  <2>4. \A s, t \in strings' : text'[s] = text'[t] => s = t
    BY <1>1, <2>2 DEF InternedOK
  <2>5. pc' = "string" => \A s \in strings' : text'[s] # c'.text
    BY <1>1, <1>5, <2>2 DEF InternedOK
  <2>6. pc' = "intern" => \A s \in strings' : text'[s] # text'[c'.object]
    BY <1>1, <1>5, <1>6, <1>16, <2>2 DEF InternedOK
  <2> QED
    BY <2>3, <2>4, <2>5, <2>6 DEF InternedOK
<1>18. FunctionsOK'
  <2>1. Freed.type = "free" /\ Freed.constants = {}
    BY DEF Freed, Blank
  <2>2. \A o \in Obj : heap'[o] = heap[o] \/ heap'[o] = Freed
    BY <1>4
  <2>3. \A o \in Obj : heap[o].constants \subseteq Obj
    BY <1>3 DEF Object
  <2>4. ASSUME "fun" \notin Instructions
        PROVE  /\ \A o \in Obj : heap'[o].type # "upvalue"
               /\ \A o \in Obj : \A k \in heap'[o].constants : heap'[k].type # "function"
    BY <1>1, <2>1, <2>2, <2>3, <2>4 DEF FunctionsOK
  <2>5. pc = "constant" => stack.slots[1] \in Live
    <3>1. pc = "constant" => stack.top = 1 /\ stack.slots[1] # None
      BY <1>1 DEF Control, CompilingOK, Is
    <3> QED
      BY <1>8, <3>1
  <2> QED
    BY <1>1, <1>4, <1>5, <2>4, <2>5 DEF FunctionsOK
<1>19. Control'
  <2>1. ASSUME Running  PROVE Constants("string")' = Constants("string") /\ Constants("function")' = Constants("function")
    <3>1. Frame' = Frame /\ Frame.closure \in Live /\ heap[Frame.closure].function \in Live
      BY <1>1, <1>5, <2>1, RunningHas DEF Frame
    <3>2. /\ heap'[Frame.closure] = heap[Frame.closure]
          /\ heap'[heap[Frame.closure].function] = heap[heap[Frame.closure].function]
      BY <1>4, <3>1
    <3> DEFINE K == heap[heap[Frame.closure].function].constants
    <3>3. Pointers(heap[heap[Frame.closure].function]) \subseteq Live /\ K \subseteq Obj
      BY <1>3, <3>1 DEF IsClosed, Object
    <3>4. K \subseteq Live
      BY <3>3, NoneAssumption DEF Pointers
    <3> HIDE DEF K
    <3>5. \A k \in K : heap'[k] = heap[k]
      BY <1>4, <3>4
    <3>6. heap'[heap'[Frame'.closure].function].constants = K
      BY <3>1, <3>2 DEF K
    <3>7. \A type : Constants(type) = {k \in K : k # None /\ heap[k].type = type}
      BY DEF Constants, Is, K
    <3>8. ASSUME NEW type  PROVE Constants(type)' = {k \in K : k # None /\ heap'[k].type = type}
      BY <3>6 DEF Constants, Is
    <3> QED
      BY <3>5, <3>7, <3>8
  <2>2. (Running <=> Running') /\ (Resting <=> Resting') /\ (Compiling <=> Compiling') /\ (NotRunning <=> NotRunning')
    BY <1>5 DEF Running, Resting, Compiling, NotRunning
  <2>3. stack.top \in Nat
    BY <1>1, Typed, TopIsNatural
  <2>4. \A i \in 1..stack.top : \A type : Is(stack.slots[i], type) => Is(stack.slots[i], type)'
    <3>1. ASSUME NEW i \in 1..stack.top, NEW type, Is(stack.slots[i], type)
          PROVE  Is(stack.slots[i], type)'
      <4>1. stack.slots[i] \in Live /\ stack'.slots[i] = stack.slots[i]
        BY <1>5, <1>8, <3>1 DEF Is
      <4> QED
        BY <1>4, <3>1, <4>1 DEF Is
    <3> QED
      BY <3>1
  <2>5. \A i \in 1..stack.top : \A type : c.object = stack.slots[i] /\ Is(c.object, type) => Is(c.object, type)'
    BY <1>5, <2>4 DEF Is
  <2>6. BetweenCallsOK'
    BY <1>1, <1>5, <2>2, <2>4, <2>5 DEF Control, BetweenCallsOK
  <2>7. CompilingOK'
    BY <1>1, <1>5, <2>2, <2>4, <2>5 DEF Control, CompilingOK
  <2>8. StringsOK'
    <3>1. pc = "string" => MakingOK(stack.top)'
      BY <1>1, <1>5, <1>15, <2>2 DEF Control, StringsOK, MakingOK, MakingFor
    <3>2. pc = "intern" => MakingOK(stack.top - 1)' /\ FreeFrom(stack.top)'
      BY <1>1, <1>5, <1>15, <2>2 DEF Control, StringsOK, MakingOK, MakingFor
    <3>3. pc = "intern" => stack.top \in 1..stack.top
      BY <1>1, <2>3 DEF Control, StringsOK
    <3> QED
      BY <1>1, <1>5, <2>5, <3>1, <3>2, <3>3 DEF Control, StringsOK
  <2>9. RunningOK'
    <3>1. pc \in {"capture", "chars", "assign"} => stack.top \in 1..stack.top
      BY <1>1, <2>3 DEF Control, RunningOK
    <3>2. pc = "chars" => FreeFrom(stack.top - 1)'
      BY <1>1, <1>5, <1>15 DEF Control, RunningOK
    <3>3. pc = "define" /\ c.then = "execute" => FreeFrom(stack.top)'
      BY <1>1, <1>5, <1>15 DEF Control, RunningOK
    <3> QED
      BY <1>1, <1>5, <2>1, <2>2, <2>5, <3>1, <3>2, <3>3 DEF Control, RunningOK
  <2>10. UnusedLocals'
    BY <1>1, <1>5 DEF Control, UnusedLocals
  <2> QED
    BY <2>6, <2>7, <2>8, <2>9, <2>10 DEF Control
<1> QED
  BY <1>9, <1>10, <1>11, <1>13, <1>14, <1>17, <1>18, <1>19 DEF IInv

----------------------------------------------------------------------------
(***************************************************************************)
(* The inductive invariant holds.                                          *)
(***************************************************************************)

LEMMA InitHolds == Init => IInv
<1> SUFFICES ASSUME Init PROVE IInv
  OBVIOUS
<1>1. /\ heap = [o \in Obj |-> Freed]
      /\ text = [o \in Obj |-> None]
      /\ location = [o \in Obj |-> 0]
      /\ strings = {} /\ globals = <<>> /\ openUpvalues = {}
      /\ stack = [slots |-> [i \in Slot |-> None], top |-> 0]
      /\ frames = <<>> /\ compilers = <<>>
      /\ pc = "initVM" /\ c = NoLocals
  BY DEF Init
<1>2. /\ Freed \in Object /\ Freed.type = "free" /\ WellFormed(Freed)
      /\ Pointers(Freed) = {} /\ Freed.constants = {}
  BY BlankIsObject, NoneAssumption DEF Freed, Blank, WellFormed, Pointers
<1>3. DOMAIN globals = {} /\ DOMAIN frames = {} /\ DOMAIN compilers = {}
  BY <1>1
<1>4. frames \in Seq([closure : Obj, slots : Slot]) /\ compilers \in Seq(Obj) /\ Len(compilers) = 0
  BY <1>1, EmptySeq
<1>5. 1..stack.top = {} /\ stack.top = 0
  BY <1>1
<1>6. TypeOK
  <2>1. c \in [then : PC \cup {"", "concatenate"}, text : Text \cup {None}, object : Ref,
               operands : SUBSET Obj]
    BY <1>1 DEF NoLocals, Ref
  <2>2. stack \in [slots : [Slot -> Ref], top : Slot \cup {0}]
    BY <1>1 DEF Ref
  <2>3. heap \in [Obj -> Object] /\ \A o \in Obj : WellFormed(heap[o])
    BY <1>1, <1>2
  <2> QED
    BY <1>1, <1>3, <1>4, <2>1, <2>2, <2>3 DEF TypeOK, PC
<1>7. Roots = {}
  BY <1>1, <1>3, <1>5 DEF Roots
<1>8. Allocated(heap) = {}
  BY <1>1, <1>2 DEF Allocated
<1>9. HeapOK
  BY <1>1, <1>7, <1>8 DEF HeapOK, IsClosed
<1>10. \A o \in Obj : heap[o].type = "free" /\ heap[o].constants = {}
  BY <1>1, <1>2
<1>11. PointersOK /\ OpenOK /\ ClosedOK /\ InternedOK
  BY <1>1, <1>10 DEF PointersOK, OpenOK, ClosedOK, InternedOK
<1>12. FunctionsOK
  BY <1>1, <1>4, <1>10 DEF FunctionsOK
<1>13. Control
  BY <1>1, <1>5
  DEF Control, BetweenCallsOK, CompilingOK, StringsOK, RunningOK, UnusedLocals, Resting,
      NotRunning, NoLocals
<1> QED
  BY <1>6, <1>9, <1>11, <1>12, <1>13 DEF IInv

\* Every step of the program but a collection.
LEMMA ProgramKeeps ==
  ASSUME ErrorsAreHarmless, IInv, Next
  PROVE  (Collect \/ Writes) /\ IInv'
<1>1. CASE Collect
  BY <1>1, CollectKeeps
<1>2. CASE DefineNative \/ NewNative
  BY <1>2, DefineNativeKeeps, NewNativeKeeps
<1>3. CASE AllocateString \/ TableSetString
  BY <1>3, AllocateStringKeeps, TableSetStringKeeps
<1>4. CASE Interpret \/ BeginFunction \/ NewFunction \/ NameFunction
  BY <1>4, InterpretKeeps, BeginFunctionKeeps, NewFunctionKeeps, NameFunctionKeeps
<1>5. CASE StringConstant \/ WriteConstant \/ EndFunction \/ EndCompile
  BY <1>5, StringConstantKeeps, WriteConstantKeeps, EndFunctionKeeps, EndCompileKeeps
<1>6. CASE NewClosure \/ CaptureLocal \/ CaptureUpvalue \/ CaptureDone
  BY <1>6, NewClosureKeeps, CaptureLocalKeeps, CaptureUpvalueKeeps, CaptureDoneKeeps
<1>7. CASE Push \/ Pop \/ Operate \/ SetLocal \/ SetUpvalue
  BY <1>7, PushKeeps, PopKeeps, OperateKeeps, SetLocalKeeps, SetUpvalueKeeps
<1>8. CASE NameGlobal \/ DefineGlobal \/ SetGlobal
  BY <1>8, NameGlobalKeeps, DefineGlobalKeeps, SetGlobalKeeps
<1>9. CASE Concatenate \/ TakeString
  BY <1>9, ConcatenateKeeps, TakeStringKeeps
<1>10. CASE Closure \/ CloseUpvalue \/ Call \/ OpReturn \/ RuntimeError
  BY <1>10, ClosureKeeps, CloseUpvalueKeeps, CallKeeps, OpReturnKeeps, RuntimeErrorKeeps
<1> QED
  BY <1>1, <1>2, <1>3, <1>4, <1>5, <1>6, <1>7, <1>8, <1>9, <1>10 DEF Next

LEMMA NextKeeps == ErrorsAreHarmless /\ IInv /\ [Next]_vars => IInv'
<1>1. ASSUME IInv, UNCHANGED vars PROVE IInv'
  <2> USE <1>1 DEF vars
  <2>1. TypeOK'
    BY DEF IInv, TypeOK, Is
  <2>2. Control'
    BY DEF IInv, Control, BetweenCallsOK, CompilingOK, StringsOK, RunningOK, UnusedLocals,
           MakingOK, MakingFor, FreeFrom, Resting, Compiling, Running, NotRunning, Is,
           Constants, Frame
  <2>3. PointersOK' /\ OpenOK' /\ ClosedOK' /\ InternedOK' /\ FunctionsOK'
    BY DEF IInv, PointersOK, OpenOK, ClosedOK, InternedOK, FunctionsOK, Is
  <2>4. HeapOK'
    BY DEF IInv, HeapOK, Roots
  <2> QED
    BY <2>1, <2>2, <2>3, <2>4 DEF IInv
<1>2. ASSUME ErrorsAreHarmless, IInv, Next PROVE IInv'
  BY <1>2, ProgramKeeps
<1> QED
  BY <1>1, <1>2

\* The stack and the chain of compilers protect what the C functions hold, at every
\* allocation, unless a runtime error in the REPL has made the VM forget open upvalues.
THEOREM Inductive == ErrorsAreHarmless => (Spec => []IInv)
<1> SUFFICES ASSUME ErrorsAreHarmless PROVE Spec => []IInv
  OBVIOUS
<1>1. IInv /\ [Next]_vars => IInv'
  BY NextKeeps
<1> QED
  BY <1>1, InitHolds, PTL DEF Spec

----------------------------------------------------------------------------
(***************************************************************************)
(* What follows from it.                                                   *)
(***************************************************************************)

\* Where the code takes a pointer for a string, a closure or a function without
\* looking at the tag, it is one.
THEOREM TypesHold == ErrorsAreHarmless => (Spec => []TypeOK)
<1>1. IInv => TypeOK
  BY DEF IInv
<1> SUFFICES ASSUME ErrorsAreHarmless PROVE Spec => []TypeOK
  OBVIOUS
<1>2. Spec => []IInv
  BY Inductive
<1> QED
  BY <1>1, <1>2, PTL

LEMMA LocalsAreAllocated ==
  ASSUME IInv
  PROVE  ({c.object} \ {None}) \cup c.operands \subseteq Allocated(heap)
<1>1. /\ TypeOK /\ HeapOK /\ UnusedLocals /\ RunningOK /\ StringsOK /\ BetweenCallsOK /\ CompilingOK
      /\ Live \subseteq Allocated(heap)
  BY LiveIsAllocated DEF IInv, Control
<1>2. stack.top \in Nat
  BY <1>1, Typed, TopIsNatural
<1>3. ASSUME NEW i \in 1..stack.top  PROVE stack.slots[i] \in Live \cup {None}
  BY <1>1, <1>3, SlotIsLive
<1>4. ASSUME pc \in {"intern", "capture"}  PROVE c.object \in Live \cup {None}
  BY <1>1, <1>2, <1>3, <1>4 DEF StringsOK, RunningOK
<1>5. ASSUME Running, NEW type, c.object \in Constants(type)  PROVE c.object \in Live
  BY <1>5, RunningHas DEF IInv
<1>6. ASSUME pc \in {"assign", "define", "closure"}  PROVE c.object \in Live \cup {None}
  BY <1>1, <1>2, <1>3, <1>5, <1>6 DEF BetweenCallsOK, CompilingOK, RunningOK
<1>7. c.operands \subseteq Live \cup {None}
  BY <1>1, <1>2, <1>3 DEF RunningOK, UnusedLocals
<1>8. None \notin c.operands
  BY <1>1, NoneAssumption DEF TypeOK
<1> QED
  BY <1>1, <1>4, <1>6, <1>7, <1>8 DEF UnusedLocals

\* Nothing that the compiler and the VM refer to is ever freed, the operands of
\* concatenate() and the fields of the C functions' own pointers included.
THEOREM NothingDangles == ErrorsAreHarmless => (Spec => []NoDangling)
<1>1. IInv => NoDangling
  BY LocalsAreAllocated DEF NoDangling, IInv, HeapOK
<1> SUFFICES ASSUME ErrorsAreHarmless PROVE Spec => []NoDangling
  OBVIOUS
<1>2. Spec => []IInv
  BY Inductive
<1> QED
  BY <1>1, <1>2, PTL

\* Two strings in use are equal exactly if they are the same object.
THEOREM StringsAreInterned == ErrorsAreHarmless => (Spec => []Interned)
<1>1. ASSUME IInv PROVE Interned
  <2>1. TypeOK /\ HeapOK /\ InternedOK
    BY <1>1 DEF IInv
  <2>2. Held \subseteq Obj
    BY <2>1, LiveIsAllocated
  <2> QED
    BY <2>1, <2>2 DEF Interned, InternedOK, Is
<1> SUFFICES ASSUME ErrorsAreHarmless PROVE Spec => []Interned
  OBVIOUS
<1>2. Spec => []IInv
  BY Inductive
<1> QED
  BY <1>1, <1>2, PTL

\* Every call of interpret() leaves the VM and the compiler as it found them.
THEOREM CallsLeaveNothing == ErrorsAreHarmless => (Spec => []CleanBetweenCalls)
<1>1. IInv => CleanBetweenCalls
  BY DEF IInv, Control, BetweenCallsOK, CleanBetweenCalls, Resting, NotRunning
<1> SUFFICES ASSUME ErrorsAreHarmless PROVE Spec => []CleanBetweenCalls
  OBVIOUS
<1>2. Spec => []IInv
  BY Inductive
<1> QED
  BY <1>1, <1>2, PTL

\* Where no statement can fail at run time, or no closures are made.
NothingForgotten == NoErrors \/ "fun" \notin Instructions

\* An upvalue that refers to the stack refers to a slot in use and is the only one to do
\* so, and it is in vm.openUpvalues, where closeUpvalues() will find it.
THEOREM OpenUpvaluesAreFound == NothingForgotten => (Spec => []UpvaluesOnStack)
<1> SUFFICES ASSUME NothingForgotten PROVE Spec => []UpvaluesOnStack
  OBVIOUS
<1>1. ASSUME IInv PROVE UpvaluesOnStack
  <2>1. TypeOK /\ HeapOK /\ OpenOK /\ ClosedOK /\ FunctionsOK
    BY <1>1 DEF IInv
  <2>2. Live \subseteq Obj
    BY <2>1, LiveIsAllocated
  <2>3. \A u \in Obj : heap[u].type = "upvalue" /\ location[u] # 0 => u \in openUpvalues
    BY <2>1 DEF NothingForgotten, ClosedOK, FunctionsOK
  <2> QED
    BY <2>1, <2>2, <2>3 DEF UpvaluesOnStack, OpenOK, Is
<1>2. Spec => []IInv
  BY Inductive DEF NothingForgotten, ErrorsAreHarmless
<1> QED
  BY <1>1, <1>2, PTL

\* When interpret() has returned, every upvalue that a closure took along holds its
\* variable itself: a runtime error is the only way to leave one open.
THEOREM VariablesOutliveScopes == NothingForgotten => (Spec => []ClosuresOutliveScopes)
<1> SUFFICES ASSUME NothingForgotten PROVE Spec => []ClosuresOutliveScopes
  OBVIOUS
<1>1. ASSUME IInv PROVE ClosuresOutliveScopes
  <2>1. TypeOK /\ HeapOK /\ ClosedOK /\ FunctionsOK /\ BetweenCallsOK
    BY <1>1 DEF IInv, Control
  <2>2. Live \subseteq Obj
    BY <2>1, LiveIsAllocated
  <2>3. \A u \in Obj : heap[u].type = "upvalue" /\ location[u] # 0 => u \in openUpvalues
    BY <2>1 DEF NothingForgotten, ClosedOK, FunctionsOK
  <2>4. pc \in {"idle", "done"} => openUpvalues = {}
    BY <2>1 DEF BetweenCallsOK, Resting, NotRunning
  <2> QED
    BY <2>2, <2>3, <2>4 DEF ClosuresOutliveScopes, Is
<1>2. Spec => []IInv
  BY Inductive DEF NothingForgotten, ErrorsAreHarmless
<1> QED
  BY <1>1, <1>2, PTL

----------------------------------------------------------------------------
(***************************************************************************)
(* The compiler and the VM implement the abstract collection.              *)
(***************************************************************************)

\* The abstract specification speaks of objects in the same words.
LEMMA SameWords ==
  /\ Abstract!Object = Object
  /\ Abstract!Freed = Freed
  /\ \A h : Abstract!Allocated(h) = Allocated(h)
  /\ \A obj : Abstract!Pointers(obj) = Pointers(obj)
  /\ Abstract!Live = Live
<1>1. \A h, R : Abstract!Reachable(h, R) = Reachable(h, R)
  BY DEF Abstract!Reachable, Abstract!IsClosed, Abstract!Pointers, Reachable, IsClosed, Pointers
<1>2. Abstract!AllRoots = Roots
  BY DEF Abstract!AllRoots
<1> QED
  BY <1>1, <1>2
  DEF Abstract!Object, Abstract!ObjType, Abstract!Ref, Abstract!Freed, Abstract!Blank,
      Abstract!Allocated, Abstract!Pointers, Abstract!Live, Object, ObjType, Ref, Freed, Blank,
      Allocated, Pointers, Live

LEMMA InitRefines == Init => Abstract!Init
<1> SUFFICES ASSUME Init PROVE Abstract!Init
  OBVIOUS
<1>1. Roots = {}
  BY DEF Init, Roots
<1> QED
  BY <1>1, SameWords DEF Init, Abstract!Init

LEMMA StepRefines ==
  ErrorsAreHarmless /\ IInv /\ [Next]_vars => [Abstract!Next]_(Abstract!vars)
<1> SUFFICES ASSUME ErrorsAreHarmless, IInv, [Next]_vars
             PROVE  Abstract!Next
                      \/ UNCHANGED <<heap, [kind \in {"all"} |-> Roots], strings>>
  BY DEF Abstract!vars
<1>1. CASE UNCHANGED vars
  BY <1>1 DEF vars, Roots
<1>2. CASE Collect
  <2>1. Roots' = Roots
    BY <1>2 DEF Collect, Roots, running
  <2> QED
    BY <1>2, <2>1, SameWords DEF Collect, Abstract!Next, Abstract!Collect
<1>3. CASE Writes
  <2>1. [kind \in {"all"} |-> Roots'] \in [{"all"} -> SUBSET (Live \cup strings \cup Fresh)]
    BY <1>3 DEF Writes, Held
  <2> QED
    BY <1>3, <2>1, SameWords
    DEF Writes, Held, Fresh, Abstract!Next, Abstract!Mutate
<1> QED
  BY <1>1, <1>2, <1>3, ProgramKeeps

\* Only OP_DEFINE_GLOBAL and defineNative() make a global variable, and nothing removes
\* one: the name that a failing OP_SET_GLOBAL puts into vm.globals is gone, and with an
\* error no variable or value is lost.
THEOREM GlobalsComeFromDefinitions == Spec => OnlyDefinitionsDefine
<1> DEFINE Step ==
      pc # "define" =>
        /\ DOMAIN globals' = DOMAIN globals
        /\ pc' \in {"idle", "done"} => \A name \in DOMAIN globals : globals'[name] = globals[name]
<1>1. ASSUME Next PROVE Step
  <2>1. CASE SetGlobal
    <3>1. CASE c.object \in DOMAIN globals
      <4>1. DOMAIN globals' = DOMAIN globals /\ pc' = "execute"
        BY <2>1, <3>1 DEF SetGlobal, SetKey
      <4> QED
        BY <4>1
    <3>2. CASE c.object \notin DOMAIN globals
      <4>1. SameGlobals
        BY <2>1, <3>2, SetAndDeleted DEF SetGlobal
      <4> QED
        BY <4>1 DEF SameGlobals
    <3> QED
      BY <3>1, <3>2
  <2>2. CASE DefineGlobal
    BY <2>2 DEF DefineGlobal
  <2>3. CASE UNCHANGED globals
    BY <2>3
  <2>4. SetGlobal \/ DefineGlobal \/ UNCHANGED globals
    BY <1>1
    DEF Next, Collect, DefineNative, NewNative, AllocateString, TableSetString, Interpret, BeginFunction,
        NewFunction, NameFunction, StringConstant, WriteConstant, EndFunction, EndCompile, NewClosure,
        CaptureLocal, CaptureUpvalue, CaptureDone, Push, Pop, Operate, SetLocal, SetUpvalue, NameGlobal,
        Concatenate, TakeString, Closure, CloseUpvalue, Call, OpReturn, RuntimeError, Intern, moves
  <2> QED
    BY <2>1, <2>2, <2>3, <2>4
<1>2. [Next]_vars => [Step]_vars
  BY <1>1
<1> HIDE DEF Step
<1>3. Spec => [][Step]_vars
  BY <1>2, PTL DEF Spec
<1> QED
  BY <1>3 DEF OnlyDefinitionsDefine, Step

\* The program writes only objects that it can reach or has just been given, and stores
\* only what it can reach, which is what the collector takes for granted.
THEOREM Refinement == ErrorsAreHarmless => (Spec => Implements)
<1> SUFFICES ASSUME ErrorsAreHarmless PROVE Spec => Implements
  OBVIOUS
<1>1. IInv /\ [Next]_vars => [Abstract!Next]_(Abstract!vars)
  BY StepRefines
<1>2. Init /\ [][Next]_vars /\ []IInv => Abstract!Init /\ [][Abstract!Next]_(Abstract!vars)
  BY <1>1, InitRefines, PTL
<1>3. Spec => []IInv
  BY Inductive
<1> QED
  BY <1>2, <1>3, PTL DEF Spec, Implements, Abstract!Spec
=============================================================================
