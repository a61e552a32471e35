---------------------------- MODULE ObjectHeap ----------------------------
(***************************************************************************)
(* The heap objects of object.h and the graph their pointers form.         *)
(*                                                                         *)
(* Every object is a record of one shape, whatever its type; a field that  *)
(* the C struct of that type does not have is blank.  Arrays of pointers   *)
(* (a function's constant pool, a closure's upvalues) are sets: the order  *)
(* of their entries and their NULL or number entries make no difference to *)
(* what keeps an object alive.                                             *)
(***************************************************************************)
CONSTANTS
  Obj,    \* the addresses an object may have
  None    \* the NULL pointer, and every Value that is not an object

ASSUME NoneAssumption == None \notin Obj

ObjType == {"closure", "function", "native", "string", "upvalue"}

Ref == Obj \cup {None}

Object ==
  [type      : ObjType \cup {"free"},
   function  : Ref,          \* ObjClosure.function
   name      : Ref,          \* ObjFunction.name
   closed    : Ref,          \* ObjUpvalue.closed
   constants : SUBSET Obj,   \* ObjFunction.chunk.constants
   upvalues  : SUBSET Obj]   \* ObjClosure.upvalues

Blank(type) ==
  [type |-> type, function |-> None, name |-> None, closed |-> None,
   constants |-> {}, upvalues |-> {}]

\* Memory that holds no object.
Freed == Blank("free")

\* Only the fields of an object's own C struct are used.
WellFormed(object) ==
  /\ object.type # "closure"  => object.function = None /\ object.upvalues = {}
  /\ object.type # "function" => object.name = None /\ object.constants = {}
  /\ object.type # "upvalue"  => object.closed = None

Allocated(heap) == {o \in Obj : heap[o].type # "free"}

\* Every object a program can get to from this one in one step.
Pointers(object) ==
  ({object.function, object.name, object.closed}
     \cup object.constants \cup object.upvalues) \ {None}

IsClosed(heap, S) == \A o \in S : Pointers(heap[o]) \subseteq S

\* The least set that holds the roots and whatever its members point to: an object
\* is outside it if some closed set of that kind leaves it out.
Reachable(heap, roots) ==
  LET closed == {S \in SUBSET Obj : roots \subseteq S /\ IsClosed(heap, S)}
  IN  Obj \ UNION {Obj \ S : S \in closed}
============================================================================
