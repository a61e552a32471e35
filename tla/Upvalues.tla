----------------------------- MODULE Upvalues -----------------------------
(***************************************************************************)
(* Captured variables in vm.c.  An upvalue refers to a slot of the stack   *)
(* as long as the variable is there and holds its value afterwards.  The   *)
(* open ones are in a list, highest slot first, through which two closures *)
(* find the same upvalue for one variable, and which the end of a scope or *)
(* of a call cuts off at its own lowest slot.                              *)
(*                                                                         *)
(* A frame may execute any instruction on the slots and upvalues it has.   *)
(* As the compiler sees to, temporaries are not captured, and a variable   *)
(* that is goes with OP_CLOSE_UPVALUE (module Scopes).  The first runtime  *)
(* error ends a program, and so the model.                                 *)
(***************************************************************************)
EXTENDS UpvalueList, FiniteSets

CONSTANTS
  Value,      \* values other than closures
  Nil,        \* NIL_VAL
  Closure,    \* the closures that may be made
  Upvalue,    \* the upvalues that may be made
  Script,     \* the closure that interpret() calls
  FramesMax,  \* FRAMES_MAX
  MaxStack    \* bound on the stack, which the code does not check

ASSUME UpvaluesAssumption ==
  /\ Nil \in Value
  /\ Script \in Closure
  /\ Closure \cap Value = {} /\ Upvalue \cap (Value \cup Closure) = {}
  /\ FramesMax \in Nat \ {0}
  /\ MaxStack \in Nat \ {0}

VARIABLES
  slots,         \* vm.stack
  top,           \* vm.stackTop
  frames,        \* vm.frames
  location,      \* ObjUpvalue.location: a slot, or 0 for the address of closed
  closed,        \* ObjUpvalue.closed
  openUpvalues,  \* the list vm.openUpvalues
  captured,      \* closure -> ObjClosure.upvalues
  filling        \* the loop of OP_CLOSURE is running

vars == <<slots, top, frames, location, closed, openUpvalues, captured, filling>>

stack == <<slots, top>>
upvalues == <<location, closed, openUpvalues>>

Item == Value \cup Closure

Room == top < MaxStack

Frame == frames[Len(frames)]

\* The slots of the frame but the one of the callee.
Locals == (Frame.slots + 1)..top

Running == frames # <<>> /\ ~ filling

IsCaptured(slot) == \E j \in DOMAIN openUpvalues : location[openUpvalues[j]] = slot

IsTemporary(slot) == slot \in Locals /\ ~ IsCaptured(slot)

\* *upvalue->location
ValueOf(u) == IF location[u] = 0 THEN closed[u] ELSE slots[location[u]]

PushValue(v) ==
  /\ Room
  /\ slots' = [slots EXCEPT ![top + 1] = v]
  /\ top' = top + 1

----------------------------------------------------------------------------
\* OP_CONSTANT, OP_NIL, OP_GET_LOCAL, OP_GET_UPVALUE
Push ==
  /\ Running
  /\ \E v \in Value \cup {slots[i] : i \in Locals} \cup {ValueOf(u) : u \in captured[Frame.closure]} :
       PushValue(v)
  /\ UNCHANGED <<frames, upvalues, captured, filling>>

Pop ==
  /\ Running
  /\ IsTemporary(top)
  /\ top' = top - 1
  /\ UNCHANGED <<slots, frames, upvalues, captured, filling>>

SetLocal ==
  /\ Running
  /\ IsTemporary(top)
  /\ \E slot \in Locals : slots' = [slots EXCEPT ![slot] = slots[top]]
  /\ UNCHANGED <<top, frames, upvalues, captured, filling>>

SetUpvalue ==
  /\ Running
  /\ IsTemporary(top)
  /\ \E u \in captured[Frame.closure] :
       IF location[u] = 0
       THEN closed' = [closed EXCEPT ![u] = slots[top]] /\ UNCHANGED slots
       ELSE slots' = [slots EXCEPT ![location[u]] = slots[top]] /\ UNCHANGED closed
  /\ UNCHANGED <<top, frames, location, openUpvalues, captured, filling>>

\* OP_CLOSURE up to its loop
NewClosure ==
  /\ Running
  /\ \E f \in Closure \ DOMAIN captured :
       /\ PushValue(f)
       /\ captured' = [g \in DOMAIN captured \cup {f} |-> IF g = f THEN {} ELSE captured[g]]
  /\ filling' = TRUE
  /\ UNCHANGED <<frames, upvalues>>

Hold(u) == captured' = [captured EXCEPT ![slots[top]] = @ \cup {u}]

\* closure->upvalues[i] = captureUpvalue(frame->slots + index)
CaptureLocal ==
  /\ filling
  /\ \E slot \in Locals :
       IF IsShared(openUpvalues, location, slot)
       THEN Hold(Shared(openUpvalues, location, slot)) /\ UNCHANGED upvalues
       ELSE \E u \in Upvalue \ UNION {captured[f] : f \in DOMAIN captured} :
              /\ Hold(u)
              /\ location' = [location EXCEPT ![u] = slot]
              /\ openUpvalues' = Inserted(openUpvalues, location, slot, u)
              /\ UNCHANGED closed
  /\ UNCHANGED <<stack, frames, filling>>

\* closure->upvalues[i] = frame->closure->upvalues[index]
CaptureUpvalue ==
  /\ filling
  /\ \E u \in captured[Frame.closure] : Hold(u)
  /\ UNCHANGED <<stack, frames, upvalues, filling>>

CaptureDone ==
  /\ filling
  /\ filling' = FALSE
  /\ UNCHANGED <<stack, frames, upvalues, captured>>

\* Mutation: location is reset, but the value is not copied.
CloseWithoutValue(last) ==
  LET closing == Closing(openUpvalues, location, last)
  IN  /\ location' = [u \in Upvalue |-> IF u \in closing THEN 0 ELSE location[u]]
      /\ openUpvalues' = Remaining(openUpvalues, location, last)
      /\ UNCHANGED closed

CloseUpvalues(last) ==
  LET closing == Closing(openUpvalues, location, last)
  IN  /\ closed' = [u \in Upvalue |-> IF u \in closing THEN slots[location[u]] ELSE closed[u]]
      /\ location' = [u \in Upvalue |-> IF u \in closing THEN 0 ELSE location[u]]
      /\ openUpvalues' = Remaining(openUpvalues, location, last)

CloseUpvalue ==
  /\ Running
  /\ top \in Locals
  /\ CloseUpvalues(top)
  /\ top' = top - 1
  /\ UNCHANGED <<slots, frames, captured, filling>>

\* Mutation: FRAMES_MAX is compared one frame too late.
CallOneTooMany ==
  /\ Running
  /\ Len(frames) <= FramesMax
  /\ \E argCount \in 0..(top - 1) :
       LET callee == top - argCount
       IN  /\ \A slot \in callee..top : IsTemporary(slot)
           /\ slots[callee] \in Closure
           /\ frames' = Append(frames, [closure |-> slots[callee], slots |-> callee])
  /\ UNCHANGED <<stack, upvalues, captured, filling>>

Call ==
  /\ Running
  /\ Len(frames) < FramesMax
  /\ \E argCount \in 0..(top - 1) :
       LET callee == top - argCount
       IN  /\ \A slot \in callee..top : IsTemporary(slot)
           /\ slots[callee] \in Closure
           /\ frames' = Append(frames, [closure |-> slots[callee], slots |-> callee])
  /\ UNCHANGED <<stack, upvalues, captured, filling>>

OpReturn ==
  /\ Running
  /\ IsTemporary(top)
  /\ CloseUpvalues(Frame.slots)
  /\ frames' = SubSeq(frames, 1, Len(frames) - 1)
  /\ IF Len(frames) = 1
     THEN top = Frame.slots + 1 /\ top' = 0 /\ UNCHANGED slots
     ELSE top' = Frame.slots /\ slots' = [slots EXCEPT ![Frame.slots] = slots[top]]
  /\ UNCHANGED <<captured, filling>>

----------------------------------------------------------------------------
\* interpret() has called the script.
Init ==
  /\ slots = [i \in 1..MaxStack |-> IF i = 1 THEN Script ELSE Nil]
  /\ top = 1
  /\ frames = <<[closure |-> Script, slots |-> 1]>>
  /\ location = [u \in Upvalue |-> 0]
  /\ closed = [u \in Upvalue |-> Nil]
  /\ openUpvalues = <<>>
  /\ captured = [f \in {Script} |-> {}]
  /\ filling = FALSE

Next ==
  \/ Push \/ Pop \/ SetLocal \/ SetUpvalue
  \/ NewClosure \/ CaptureLocal \/ CaptureUpvalue \/ CaptureDone
  \/ CloseUpvalue \/ Call \/ OpReturn

Spec == Init /\ [][Next]_vars

----------------------------------------------------------------------------
TypeOK ==
  /\ slots \in [1..MaxStack -> Item]
  /\ top \in 0..MaxStack
  /\ frames \in Seq([closure : Closure, slots : 1..MaxStack]) /\ Len(frames) <= FramesMax
  /\ location \in [Upvalue -> 0..MaxStack]
  /\ closed \in [Upvalue -> Item]
  /\ openUpvalues \in Seq(Upvalue)
  /\ DOMAIN captured \subseteq Closure
  /\ \A f \in DOMAIN captured : captured[f] \subseteq Upvalue
  /\ filling \in BOOLEAN

\* captureUpvalue() and closeUpvalues() stop at the first member that is low
\* enough: the list goes strictly down, from no higher than the top of the stack.
\* So no variable has two upvalues, and none that is above a slot is missed when
\* the slots from there on are given up.
GoesDown ==
  /\ \A j \in DOMAIN openUpvalues : location[openUpvalues[j]] \in 1..top
  /\ \A j, k \in DOMAIN openUpvalues :
       j < k => location[openUpvalues[j]] > location[openUpvalues[k]]

\* An upvalue that a closure holds is closed, or in the list that will close it.
OpenAreListed ==
  \A f \in DOMAIN captured : \A u \in captured[f] :
    location[u] # 0 => \E j \in DOMAIN openUpvalues : openUpvalues[j] = u

CellAt(slot) == openUpvalues[CHOOSE j \in DOMAIN openUpvalues : location[openUpvalues[j]] = slot]

\* The stack as the program sees it: a captured variable is its upvalue.
Env == [i \in 1..top |-> IF IsCaptured(i) THEN CellAt(i) ELSE slots[i]]

Store == [u \in Upvalue |-> ValueOf(u)]

Abstract == INSTANCE Cells WITH Cell <- Upvalue, env <- Env, store <- Store, held <- captured

\* A captured variable is one cell, however many closures share it, whoever writes
\* it, and whether or not its scope is still there.
Implements == Abstract!Spec
============================================================================
