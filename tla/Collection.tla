---------------------------- MODULE Collection ----------------------------
(***************************************************************************)
(* What memory.c promises to the compiler and the VM: the program creates  *)
(* objects, links them and drops them, and now and then everything that it *)
(* can no longer reach disappears at once, nothing else ever does, and the *)
(* weak table of interned strings forgets exactly the strings that went.   *)
(***************************************************************************)
EXTENDS ObjectHeap

CONSTANT RootKind   \* where the VM and the compiler keep references

VARIABLES
  heap,      \* address -> object
  roots,     \* kind of root -> the objects referenced from there
  strings    \* the keys of vm.strings

vars == <<heap, roots, strings>>

AllRoots == UNION {roots[k] : k \in RootKind}

Live == Reachable(heap, AllRoots)

Init ==
  /\ heap = [o \in Obj |-> Freed]
  /\ roots = [k \in RootKind |-> {}]
  /\ strings = {}

(***************************************************************************)
(* One step of the program.  It holds references to what it can reach, and *)
(* through copyString and takeString it can get back an interned string    *)
(* that nothing else references.  It writes only objects it holds or has   *)
(* just been given, and it stores only references that it holds.           *)
(***************************************************************************)
Mutate ==
  LET fresh == Allocated(heap') \ Allocated(heap)
      held  == Live \cup strings \cup fresh
  IN  /\ heap' \in [Obj -> Object]
      /\ \A o \in Allocated(heap) : heap'[o].type = heap[o].type
      /\ \A o \in Obj : heap'[o] # heap[o] =>
           o \in held /\ Pointers(heap'[o]) \subseteq held
      /\ roots' \in [RootKind -> SUBSET held]
      /\ strings \subseteq strings'
      /\ strings' \subseteq held

\* collectGarbage() seen from outside.
Collect ==
  /\ LET live == Live
     IN  /\ heap' = [o \in Obj |-> IF o \in live THEN heap[o] ELSE Freed]
         /\ strings' = strings \cap live
  /\ UNCHANGED roots

\* freeVM(): the tables and every object go.
Release ==
  /\ heap' = [o \in Obj |-> Freed]
  /\ roots' = [k \in RootKind |-> {}]
  /\ strings' = {}

Next == Mutate \/ Collect \/ Release

Spec == Init /\ [][Next]_vars
============================================================================
