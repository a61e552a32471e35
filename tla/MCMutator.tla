----------------------------- MODULE MCMutator -----------------------------
EXTENDS Mutator, TLC

\* Addresses are interchangeable: a run may identify the states that differ in
\* addresses only, or leave out all but one choice of the address of a new object.
Addresses == Permutations(Obj)

LowestFirst ==
  \A o \in Allocated(heap') \ Allocated(heap) : \A p \in Unused : o <= p

\* A slot above the top of the stack is written before it is read, as long as no
\* upvalue refers to it, so in a run that checks UpvaluesOnStack states that differ
\* in such slots only are one.
InUse ==
  <<heap, text, location, strings, globals, SubSeq(stack.slots, 1, stack.top),
    frames, openUpvalues, compilers, pc, c>>
============================================================================
