------------------------------ MODULE Mutator ------------------------------
(***************************************************************************)
(* How the compiler and the VM keep alive what they are working on.        *)
(*                                                                         *)
(* Every call that allocates may run the collector, which knows only the   *)
(* roots of markRoots(): whatever a C function holds in a local variable   *)
(* across an allocation must also be on the VM stack or within reach of a  *)
(* root.  The steps of this module are the stretches of C code between two *)
(* allocations; pc says which allocation comes next.  The collector is one *)
(* step here (module Collector has its steps), enabled whenever pc is at   *)
(* an allocation.  Two allocations with nothing between them that touches  *)
(* an object are one allocation here: collecting twice in a row changes    *)
(* nothing.                                                                *)
(*                                                                         *)
(* Bytecode is abstracted to its effect: a frame may execute any           *)
(* instruction that its function's constants, its slots and its closure's  *)
(* upvalues allow.  Numbers, booleans and nil are None.                    *)
(***************************************************************************)
EXTENDS ObjectHeap, Integers, Sequences, FiniteSets

CONSTANTS
  Text,           \* what strings may say
  Natives,        \* the names of the natives that initVM() defines
  Instructions,   \* the statements and instructions that programs use
  Interactive,    \* repl(), or runFile()
  FramesMax,      \* FRAMES_MAX
  MaxStack,       \* bound on the stack, which the code does not check
  MaxCompilers,   \* bound on the nesting of functions
  MaxConstants    \* bound on the objects among a function's constants

ASSUME MutatorAssumption ==
  /\ Natives \subseteq Text
  /\ Interactive \in BOOLEAN
  /\ FramesMax \in Nat \ {0} /\ MaxStack \in Nat /\ MaxCompilers \in Nat /\ MaxConstants \in Nat

VARIABLES
  heap,          \* address -> object
  text,          \* address -> characters of the string there
  location,      \* address -> slot an upvalue refers to, 0 when it is closed
  strings,       \* the keys of vm.strings
  globals,       \* vm.globals: address of a key -> value
  stack,         \* vm.stack with vm.stackTop: slots above the top keep their values
  frames,        \* vm.frames
  openUpvalues,  \* the members of the list vm.openUpvalues
  compilers,     \* the functions of the chain of compilers, the current one last
  pc,            \* the allocation that comes next, or the loop that goes on
  c              \* the local variables of the C functions that wait for it

vars == <<heap, text, location, strings, globals, stack, frames, openUpvalues, compilers, pc, c>>

objects == <<heap, text, location>>
running == <<frames, openUpvalues>>

Slot == 1..MaxStack

\* Where an allocation is about to happen.
Allocations == {"compile", "function", "string", "intern", "constant", "native", "closure",
                "capture", "chars", "define", "assign"}

PC == Allocations \cup {"initVM", "idle", "name", "execute", "done"}

\* Where main() is when interpret() has returned: repl() reads the next line, and
\* runFile() ends.
Interpreted == IF Interactive THEN "idle" ELSE "done"

NoLocals == [then |-> "", text |-> None, object |-> None, operands |-> {}]

\* What markRoots() finds.
Roots ==
  ({stack.slots[i] : i \in 1..stack.top}
     \cup {frames[i].closure : i \in DOMAIN frames}
     \cup openUpvalues
     \cup DOMAIN globals \cup {globals[name] : name \in DOMAIN globals}
     \cup {compilers[i] : i \in DOMAIN compilers}) \ {None}

Live == Reachable(heap, Roots)

\* Mutation: tableRemoveWhite() is not called.
CollectKeepingStrings ==
  /\ pc \in Allocations
  /\ LET live == Live
     IN  /\ heap' = [o \in Obj |-> IF o \in live THEN heap[o] ELSE Freed]
         /\ text' = [o \in Obj |-> IF o \in live THEN text[o] ELSE None]
         /\ location' = [o \in Obj |-> IF o \in live THEN location[o] ELSE 0]
  /\ UNCHANGED <<strings, globals, stack, running, compilers, pc, c>>

Collect ==
  /\ pc \in Allocations
  /\ LET live == Live
     IN  /\ heap' = [o \in Obj |-> IF o \in live THEN heap[o] ELSE Freed]
         /\ text' = [o \in Obj |-> IF o \in live THEN text[o] ELSE None]
         /\ location' = [o \in Obj |-> IF o \in live THEN location[o] ELSE 0]
         /\ strings' = strings \cap live
  /\ UNCHANGED <<globals, stack, running, compilers, pc, c>>

----------------------------------------------------------------------------
(***************************************************************************)
(* The stack, and the places values are kept in.                           *)
(***************************************************************************)
Pushed(st, v) == [slots |-> [st.slots EXCEPT ![st.top + 1] = v], top |-> st.top + 1]

Popped(st, n) == [st EXCEPT !.top = @ - n]

Peek(distance) == stack.slots[stack.top - distance]

Room == stack.top < MaxStack

Frame == frames[Len(frames)]

Current == compilers[Len(compilers)]

Is(v, type) == v # None /\ heap[v].type = type

\* The constants of the function that runs.
Constants(type) == {k \in heap[heap[Frame.closure].function].constants : Is(k, type)}

\* The slots of the frame that hold parameters, local variables and temporaries.
Locals == (Frame.slots + 1)..stack.top

Captured(slot) == \E u \in openUpvalues : location[u] = slot

\* Mutation: resetStack() resets vm.stackTop only.
ResetStackTop ==
  /\ stack' = [stack EXCEPT !.top = 0]
  /\ UNCHANGED running

\* resetStack()
ResetStack ==
  /\ stack' = [stack EXCEPT !.top = 0]
  /\ frames' = <<>>
  /\ openUpvalues' = {}

Unused == Obj \ Allocated(heap)

New(o, object) == heap' = [heap EXCEPT ![o] = object]

----------------------------------------------------------------------------
(***************************************************************************)
(* Strings: copyString(), takeString() and allocateString().               *)
(***************************************************************************)

\* tableFindString()
Find(t) == {s \in strings : text[s] = t}

\* What the caller does with the string it gets, pushes included, up to the next
\* allocation; st is the stack it finds.
Return(s, then, st) ==
  /\ stack' = CASE then = "concatenate" -> Pushed(Popped(st, 2), s)
                [] then = "name"        -> st
                [] OTHER                -> Pushed(st, s)
  /\ heap' = IF then = "name" THEN [heap EXCEPT ![Current].name = s] ELSE heap
  /\ pc' = CASE then = "concatenate" -> "execute"
             [] then = "name"        -> "compile"
             [] OTHER                -> then
  /\ c' = NoLocals

\* Mutation: the string table is not searched.
AllocateAlways(t, then) ==
  /\ Room
  /\ pc' = "string"
  /\ c' = [NoLocals EXCEPT !.then = then, !.text = t]
  /\ UNCHANGED <<objects, stack, strings, globals, running>>

\* copyString(), and takeString() once it has its characters.
Intern(t, then) ==
  /\ Room
  /\ IF Find(t) # {}
     THEN \E s \in Find(t) : Return(s, then, stack)
     ELSE /\ pc' = "string"
          /\ c' = [NoLocals EXCEPT !.then = then, !.text = t]
          /\ UNCHANGED <<heap, stack>>
  /\ UNCHANGED <<text, location, strings, globals, running>>

\* Mutation: the new string is not pushed before tableSet().
AllocateUnpushed ==
  /\ pc = "string"
  /\ \E s \in Unused :
       /\ New(s, Blank("string"))
       /\ text' = [text EXCEPT ![s] = c.text]
       /\ c' = [c EXCEPT !.object = s]
  /\ pc' = "intern"
  /\ UNCHANGED <<location, strings, globals, stack, running, compilers>>

\* allocateString() up to tableSet(), which may grow the table.
AllocateString ==
  /\ pc = "string"
  /\ Room
  /\ \E s \in Unused :
       /\ New(s, Blank("string"))
       /\ text' = [text EXCEPT ![s] = c.text]
       /\ stack' = Pushed(stack, s)
       /\ c' = [c EXCEPT !.object = s]
  /\ pc' = "intern"
  /\ UNCHANGED <<location, strings, globals, running, compilers>>

TableSetString ==
  /\ pc = "intern"
  /\ strings' = strings \cup {c.object}
  /\ Return(c.object, c.then, Popped(stack, 1))
  /\ UNCHANGED <<text, location, globals, running, compilers>>

\* initVM(): defineNative() creates the name, the native, and the global.
DefineNative ==
  /\ pc = "initVM"
  /\ IF Natives = {}
     THEN pc' = "idle" /\ UNCHANGED <<objects, strings, globals, stack, running, c>>
     ELSE \E t \in Natives : Intern(t, "native")
  /\ UNCHANGED compilers

\* Mutation: the native is taken for its name.
NewNativeSwapped ==
  /\ pc = "native"
  /\ \E o \in Unused :
       /\ New(o, Blank("native"))
       /\ stack' = Pushed(stack, o)
       /\ c' = [NoLocals EXCEPT !.then = "idle", !.object = o]
  /\ pc' = "define"
  /\ UNCHANGED <<text, location, strings, globals, running, compilers>>

NewNative ==
  /\ pc = "native"
  /\ Room
  /\ \E o \in Unused : New(o, Blank("native")) /\ stack' = Pushed(stack, o)
  /\ pc' = "define"
  /\ c' = [NoLocals EXCEPT !.then = "idle", !.object = stack.slots[1]]
  /\ UNCHANGED <<text, location, strings, globals, running, compilers>>

----------------------------------------------------------------------------
(***************************************************************************)
(* The compiler: compile(), function(), initCompiler(), endCompiler() and  *)
(* makeConstant().  Between any two of its steps emitByte() may grow the   *)
(* code of the current function.                                           *)
(***************************************************************************)
Interpret ==
  /\ pc = "idle"
  /\ pc' = "function"
  /\ c' = [NoLocals EXCEPT !.then = "compile"]
  /\ UNCHANGED <<objects, strings, globals, stack, running, compilers>>

ConstantsLeft == Cardinality(heap[Current].constants) < MaxConstants

BeginFunction ==
  /\ pc = "compile"
  /\ "fun" \in Instructions
  /\ ConstantsLeft
  /\ Len(compilers) < MaxCompilers
  /\ pc' = "function"
  /\ c' = [NoLocals EXCEPT !.then = "name"]
  /\ UNCHANGED <<objects, strings, globals, stack, running, compilers>>

\* initCompiler(): the new function is a root as soon as it exists.
NewFunction ==
  /\ pc = "function"
  /\ \E f \in Unused : New(f, Blank("function")) /\ compilers' = Append(compilers, f)
  /\ pc' = c.then
  /\ c' = NoLocals
  /\ UNCHANGED <<text, location, strings, globals, stack, running>>

NameFunction ==
  /\ pc = "name"
  /\ \E t \in Text : Intern(t, "name")
  /\ UNCHANGED compilers

\* identifierConstant() and string(), for the instructions that have a string for
\* an operand
StringConstant ==
  /\ pc = "compile"
  /\ Instructions \cap {"constant", "global"} # {}
  /\ ConstantsLeft
  /\ \E t \in Text : Intern(t, "constant")
  /\ UNCHANGED compilers

\* addConstant() after its push
WriteConstant ==
  /\ pc = "constant"
  /\ New(Current, [heap[Current] EXCEPT !.constants = @ \cup {Peek(0)}])
  /\ stack' = Popped(stack, 1)
  /\ pc' = "compile"
  /\ UNCHANGED <<text, location, strings, globals, running, compilers, c>>

LeaveCompiler == compilers' = SubSeq(compilers, 1, Len(compilers) - 1)

\* The end of function(): endCompiler(), then addConstant() pushes the function.
EndFunction ==
  /\ pc = "compile"
  /\ Len(compilers) > 1
  /\ Room
  /\ LeaveCompiler
  /\ stack' = Pushed(stack, Current)
  /\ pc' = "constant"
  /\ UNCHANGED <<objects, strings, globals, running, c>>

\* The end of compile(), and interpret() up to newClosure().
EndCompile ==
  /\ pc = "compile"
  /\ Len(compilers) = 1
  /\ LeaveCompiler
  /\ \/ pc' = Interpreted /\ UNCHANGED <<stack, c>>   \* INTERPRET_COMPILE_ERROR
     \/ /\ Room
        /\ stack' = Pushed(stack, Current)
        /\ pc' = "closure"
        /\ c' = [NoLocals EXCEPT !.then = "execute", !.object = Current]
  /\ UNCHANGED <<objects, strings, globals, running>>

----------------------------------------------------------------------------
(***************************************************************************)
(* Closures.                                                               *)
(***************************************************************************)

\* Mutation: OP_CLOSURE captures before it pushes the closure.
CaptureBeforePush ==
  /\ pc = "closure"
  /\ Room
  /\ \E o \in Unused :
       /\ New(o, [Blank("closure") EXCEPT !.function = c.object])
       /\ IF c.then = "capture"
          THEN /\ c' = [NoLocals EXCEPT !.object = o]
               /\ UNCHANGED <<stack, frames>>
          ELSE /\ stack' = Pushed(Popped(stack, 1), o)
               /\ frames' = Append(frames, [closure |-> o, slots |-> stack.top])
               /\ c' = NoLocals
  /\ pc' = c.then
  /\ UNCHANGED <<text, location, strings, globals, openUpvalues, compilers>>

\* newClosure(), for interpret() and for OP_CLOSURE.
NewClosure ==
  /\ pc = "closure"
  /\ Room
  /\ \E o \in Unused :
       /\ New(o, [Blank("closure") EXCEPT !.function = c.object])
       /\ IF c.then = "capture"
          THEN /\ stack' = Pushed(stack, o)
               /\ c' = [NoLocals EXCEPT !.object = o]
               /\ UNCHANGED frames
          ELSE /\ stack' = Pushed(Popped(stack, 1), o)
               /\ frames' = Append(frames, [closure |-> o, slots |-> stack.top])
               /\ c' = NoLocals
  /\ pc' = c.then
  /\ UNCHANGED <<text, location, strings, globals, openUpvalues, compilers>>

\* closure->upvalues[i] = captureUpvalue(frame->slots + index)
CaptureLocal ==
  /\ pc = "capture"
  /\ \E slot \in Locals :
       IF Captured(slot)
       THEN /\ \E u \in openUpvalues :
                 /\ location[u] = slot
                 /\ New(c.object, [heap[c.object] EXCEPT !.upvalues = @ \cup {u}])
            /\ UNCHANGED <<location, openUpvalues>>
       ELSE \E u \in Unused :
              /\ heap' = [heap EXCEPT ![u] = Blank("upvalue"), ![c.object].upvalues = @ \cup {u}]
              /\ location' = [location EXCEPT ![u] = slot]
              /\ openUpvalues' = openUpvalues \cup {u}
  /\ UNCHANGED <<text, strings, globals, stack, frames, compilers, pc, c>>

\* closure->upvalues[i] = frame->closure->upvalues[index]
CaptureUpvalue ==
  /\ pc = "capture"
  /\ \E u \in heap[Frame.closure].upvalues :
       New(c.object, [heap[c.object] EXCEPT !.upvalues = @ \cup {u}])
  /\ UNCHANGED <<text, location, strings, globals, stack, running, compilers, pc, c>>

CaptureDone ==
  /\ pc = "capture"
  /\ pc' = "execute"
  /\ c' = NoLocals
  /\ UNCHANGED <<objects, strings, globals, stack, running, compilers>>

\* Mutation: the upvalue of the last slot itself stays open.
CloseUpvaluesAbove(last) ==
  LET closing == {u \in openUpvalues : location[u] > last}
  IN  /\ heap' = [o \in Obj |-> IF o \in closing
                                THEN [heap[o] EXCEPT !.closed = stack.slots[location[o]]]
                                ELSE heap[o]]
      /\ location' = [o \in Obj |-> IF o \in closing THEN 0 ELSE location[o]]
      /\ openUpvalues' = openUpvalues \ closing

\* closeUpvalues(last)
CloseUpvalues(last) ==
  LET closing == {u \in openUpvalues : location[u] >= last}
  IN  /\ heap' = [o \in Obj |-> IF o \in closing
                                THEN [heap[o] EXCEPT !.closed = stack.slots[location[o]]]
                                ELSE heap[o]]
      /\ location' = [o \in Obj |-> IF o \in closing THEN 0 ELSE location[o]]
      /\ openUpvalues' = openUpvalues \ closing

\* *upvalue->location
ValueOf(u) == IF location[u] = 0 THEN heap[u].closed ELSE stack.slots[location[u]]

----------------------------------------------------------------------------
(***************************************************************************)
(* run(), as far as references go.  The compiler emits OP_CLOSE_UPVALUE    *)
(* and not OP_POP for a local variable that is captured, and operands are  *)
(* temporaries.                                                            *)
(***************************************************************************)
Executes(instruction) == pc = "execute" /\ instruction \in Instructions

Temporaries(n) == \A slot \in (stack.top - n + 1)..stack.top : slot \in Locals /\ ~ Captured(slot)

\* What an instruction that only moves values between places leaves alone.
moves == <<text, location, strings, running, compilers, pc, c>>

\* OP_CONSTANT, OP_NIL, OP_GET_LOCAL, OP_GET_GLOBAL and OP_GET_UPVALUE
Push ==
  /\ pc = "execute"
  /\ Room
  /\ \E v \in UNION {IF "constant" \in Instructions THEN Constants("string") ELSE {},
                     {None},
                     {stack.slots[slot] : slot \in Locals},
                     IF "global" \in Instructions
                     THEN {globals[name] : name \in Constants("string") \cap DOMAIN globals}
                     ELSE {},
                     {ValueOf(u) : u \in heap[Frame.closure].upvalues}} :
       stack' = Pushed(stack, v)
  /\ UNCHANGED <<heap, globals, moves>>

\* OP_POP, OP_PRINT
Pop ==
  /\ pc = "execute"
  /\ Temporaries(1)
  /\ stack' = Popped(stack, 1)
  /\ UNCHANGED <<heap, globals, moves>>

\* The instructions with BINARY_OP, and OP_ADD of numbers.  To references OP_EQUAL does
\* the same, and OP_NOT and OP_NEGATE what Pop and then Push of None do.
Operate ==
  /\ Executes("operate")
  /\ Temporaries(2)
  /\ stack' = Pushed(Popped(stack, 2), None)
  /\ UNCHANGED <<heap, globals, moves>>

SetLocal ==
  /\ Executes("setLocal")
  /\ \E slot \in Locals : stack' = [stack EXCEPT !.slots[slot] = Peek(0)]
  /\ UNCHANGED <<heap, globals, moves>>

SetUpvalue ==
  /\ Executes("setUpvalue")
  /\ stack.top \in Locals
  /\ \E u \in heap[Frame.closure].upvalues :
       IF location[u] = 0
       THEN New(u, [heap[u] EXCEPT !.closed = Peek(0)]) /\ UNCHANGED stack
       ELSE stack' = [stack EXCEPT !.slots[location[u]] = Peek(0)] /\ UNCHANGED heap
  /\ UNCHANGED <<globals, moves>>

\* OP_DEFINE_GLOBAL and OP_SET_GLOBAL up to tableSet()
NameGlobal ==
  /\ Executes("global")
  /\ \E name \in Constants("string") :
       \/ /\ Temporaries(1)
          /\ pc' = "define"
          /\ c' = [NoLocals EXCEPT !.then = "execute", !.object = name]
       \/ /\ stack.top \in Locals
          /\ pc' = "assign"
          /\ c' = [NoLocals EXCEPT !.object = name]
  /\ UNCHANGED <<objects, strings, globals, stack, running, compilers>>

\* tableSet(&vm.globals, name, v)
SetKey(name, v) ==
  globals' = [key \in DOMAIN globals \cup {name} |-> IF key = name THEN v ELSE globals[key]]

\* The rest of OP_DEFINE_GLOBAL, and of defineNative().
DefineGlobal ==
  /\ pc = "define"
  /\ SetKey(c.object, Peek(0))
  /\ stack' = Popped(stack, IF c.then = "idle" THEN 2 ELSE 1)
  /\ pc' = c.then
  /\ c' = NoLocals
  /\ UNCHANGED <<objects, strings, running, compilers>>

\* tableSet(&vm.globals, name, v), then tableDelete(&vm.globals, name)
SetAndDeleteKey(name, v) ==
  LET set == [key \in DOMAIN globals \cup {name} |-> IF key = name THEN v ELSE globals[key]]
  IN  globals' = [key \in DOMAIN set \ {name} |-> set[key]]

\* Mutation: the key is not deleted again.
SetGlobalKeepsKey ==
  /\ pc = "assign"
  /\ IF c.object \in DOMAIN globals
     THEN /\ SetKey(c.object, Peek(0))
          /\ pc' = "execute"
          /\ UNCHANGED <<stack, running>>
     ELSE /\ SetKey(c.object, Peek(0))
          /\ ResetStack
          /\ pc' = Interpreted
  /\ c' = NoLocals
  /\ UNCHANGED <<objects, strings, compilers>>

\* The rest of OP_SET_GLOBAL.  tableSet() is called before it is known whether the
\* variable is there: a key that was new is deleted again.
SetGlobal ==
  /\ pc = "assign"
  /\ IF c.object \in DOMAIN globals
     THEN /\ SetKey(c.object, Peek(0))
          /\ pc' = "execute"
          /\ UNCHANGED <<stack, running>>
     ELSE /\ SetAndDeleteKey(c.object, Peek(0))
          /\ ResetStack
          /\ pc' = Interpreted
  /\ c' = NoLocals
  /\ UNCHANGED <<objects, strings, compilers>>

\* OP_ADD of strings, up to the ALLOCATE of concatenate(), which holds pointers to
\* both operands
Concatenate ==
  /\ Executes("concatenate")
  /\ Temporaries(2)
  /\ Is(Peek(0), "string") /\ Is(Peek(1), "string")
  /\ pc' = "chars"
  /\ c' = [NoLocals EXCEPT !.operands = {Peek(0), Peek(1)}]
  /\ UNCHANGED <<objects, strings, globals, stack, running, compilers>>

\* The rest of concatenate().  The characters may be any.
TakeString ==
  /\ pc = "chars"
  /\ \E t \in Text : Intern(t, "concatenate")
  /\ UNCHANGED compilers

\* OP_CLOSURE up to newClosure()
Closure ==
  /\ pc = "execute"
  /\ \E f \in Constants("function") : c' = [NoLocals EXCEPT !.then = "capture", !.object = f]
  /\ pc' = "closure"
  /\ UNCHANGED <<objects, strings, globals, stack, running, compilers>>

CloseUpvalue ==
  /\ pc = "execute"
  /\ stack.top \in Locals
  /\ CloseUpvalues(stack.top)
  /\ stack' = Popped(stack, 1)
  /\ UNCHANGED <<text, strings, globals, frames, compilers, pc, c>>

Call ==
  /\ Executes("call")
  /\ \E argCount \in 0..(stack.top - 1) :
       /\ Temporaries(argCount + 1)
       /\ \/ /\ Is(Peek(argCount), "closure")
             /\ Len(frames) < FramesMax
             /\ frames' = Append(frames, [closure |-> Peek(argCount), slots |-> stack.top - argCount])
             /\ UNCHANGED stack
          \/ /\ Is(Peek(argCount), "native")
             /\ stack' = Pushed(Popped(stack, argCount + 1), None)
             /\ UNCHANGED frames
  /\ UNCHANGED <<objects, strings, globals, openUpvalues, compilers, pc, c>>

\* A script returns when nothing but its result is left.
OpReturn ==
  /\ pc = "execute"
  /\ Temporaries(1)
  /\ CloseUpvalues(Frame.slots)
  /\ frames' = SubSeq(frames, 1, Len(frames) - 1)
  /\ IF Len(frames) = 1
     THEN /\ stack.top = Frame.slots + 1
          /\ stack' = Popped(stack, 2)
          /\ pc' = Interpreted
     ELSE /\ stack' = Pushed([stack EXCEPT !.top = Frame.slots - 1], Peek(0))
          /\ UNCHANGED pc
  /\ UNCHANGED <<text, strings, globals, compilers, c>>

\* Any instruction whose operands do not fit, and a call that is one too many.
RuntimeError ==
  /\ Executes("runtimeError")
  /\ ResetStack
  /\ pc' = Interpreted
  /\ UNCHANGED <<objects, strings, globals, compilers, c>>

----------------------------------------------------------------------------
Init ==
  /\ heap = [o \in Obj |-> Freed]
  /\ text = [o \in Obj |-> None]
  /\ location = [o \in Obj |-> 0]
  /\ strings = {}
  /\ globals = <<>>
  /\ stack = [slots |-> [i \in Slot |-> None], top |-> 0]
  /\ frames = <<>>
  /\ openUpvalues = {}
  /\ compilers = <<>>
  /\ pc = "initVM"
  /\ c = NoLocals

Next ==
  \/ Collect
  \/ DefineNative \/ NewNative
  \/ AllocateString \/ TableSetString
  \/ Interpret \/ BeginFunction \/ NewFunction \/ NameFunction
  \/ StringConstant \/ WriteConstant \/ EndFunction \/ EndCompile
  \/ NewClosure \/ CaptureLocal \/ CaptureUpvalue \/ CaptureDone
  \/ Push \/ Pop \/ Operate \/ SetLocal \/ SetUpvalue
  \/ NameGlobal \/ DefineGlobal \/ SetGlobal
  \/ Concatenate \/ TakeString
  \/ Closure \/ CloseUpvalue \/ Call \/ OpReturn \/ RuntimeError

Spec == Init /\ [][Next]_vars

----------------------------------------------------------------------------
\* Every variable has its type, and where the code casts an Obj pointer without
\* looking at the tag (the keys of the tables, a frame's closure, a compiler's
\* function) the object has the type it is cast to.
TypeOK ==
  /\ heap \in [Obj -> Object]
  /\ text \in [Obj -> Text \cup {None}]
  /\ location \in [Obj -> Slot \cup {0}]
  /\ strings \subseteq Obj
  /\ DOMAIN globals \subseteq Obj /\ \A name \in DOMAIN globals : globals[name] \in Ref
  /\ stack \in [slots : [Slot -> Ref], top : Slot \cup {0}]
  /\ frames \in Seq([closure : Obj, slots : Slot])
  /\ openUpvalues \subseteq Obj
  /\ compilers \in Seq(Obj)
  /\ pc \in PC
  /\ c \in [then : PC \cup {"", "concatenate"}, text : Text \cup {None}, object : Ref,
            operands : SUBSET Obj]
  /\ \A o \in Obj : WellFormed(heap[o])
  /\ \A key \in strings \cup DOMAIN globals : Is(key, "string")
  /\ \A i \in DOMAIN frames : Is(frames[i].closure, "closure")
  /\ \A i \in DOMAIN compilers : Is(compilers[i], "function")

\* Neither the roots, nor the weak table, nor a local variable of a C function
\* that waits for an allocation, nor an object, refers to memory that a
\* collection has freed.
NoDangling ==
  /\ Roots \cup strings \cup ({c.object} \ {None}) \cup c.operands \subseteq Allocated(heap)
  /\ IsClosed(heap, Allocated(heap))

\* What a program can get hold of, now or by making the same text again.
Held == Live \cup strings

\* Strings are equal exactly if they are the same object, which is all that
\* valuesEqual() and the tables compare: no string that is in use is missing from
\* vm.strings, and no text is in it twice.
Interned ==
  /\ \A s \in Held : Is(s, "string") /\ pc # "intern" => s \in strings
  /\ \A s, t \in strings : text[s] = text[t] => s = t

\* Between two calls of interpret() the stack, the frames, the list of open
\* upvalues and the chain of compilers are empty, whatever way the last one ended.
CleanBetweenCalls ==
  pc \in {"initVM", "idle", "done"} => stack.top = 0 /\ frames = <<>> /\ openUpvalues = {} /\ compilers = <<>>

\* A global variable is there from its definition on, and for no other reason: a failing
\* OP_SET_GLOBAL, which has put its name into the table, takes it out again, and neither
\* this nor another error loses a variable or its value for the lines that follow.
OnlyDefinitionsDefine ==
  [][pc # "define" =>
       /\ DOMAIN globals' = DOMAIN globals
       /\ pc' \in {"idle", "done"} => \A name \in DOMAIN globals : globals'[name] = globals[name]]_vars

\* Open upvalues refer to slots in use, one upvalue to a slot, and no other
\* upvalue that the program can reach refers to the stack at all.
UpvaluesOnStack ==
  /\ \A u \in openUpvalues : location[u] \in 1..stack.top
  /\ \A u, v \in openUpvalues : location[u] = location[v] => u = v
  /\ \A u \in Live : Is(u, "upvalue") /\ location[u] # 0 => u \in openUpvalues

\* When interpret() has returned no scope is left, and every upvalue that a closure
\* took along holds its variable itself.
ClosuresOutliveScopes ==
  pc \in {"idle", "done"} => \A u \in Live : Is(u, "upvalue") => location[u] = 0

\* Nothing but concatenate() itself refers to the operands while it allocates.
OperandsOffStack ==
  pc = "chars" => c.operands \cap {stack.slots[i] : i \in 1..stack.top} = {}

Abstract == INSTANCE Collection WITH RootKind <- {"all"}, roots <- [kind \in {"all"} |-> Roots]

\* The compiler and the VM use the heap as the collector expects of them.
Implements == Abstract!Spec
============================================================================
