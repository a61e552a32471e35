---------------------------- MODULE UpvalueList ----------------------------
(***************************************************************************)
(* The list vm.openUpvalues of vm.c, as the sequence of its members from   *)
(* the head on.  location says to which slot of the stack each refers.     *)
(***************************************************************************)
EXTENDS Integers, Sequences

\* Where the loop of captureUpvalue() stops: at the first member that refers to
\* the slot or to one below it, or behind the last member.
StopAt(list, location, local) ==
  CHOOSE i \in 1..(Len(list) + 1) :
    /\ i <= Len(list) => location[list[i]] <= local
    /\ \A j \in 1..(i - 1) : location[list[j]] > local

\* captureUpvalue() returns an upvalue that is there, ...
IsShared(list, location, local) ==
  LET i == StopAt(list, location, local)
  IN  i <= Len(list) /\ location[list[i]] = local

Shared(list, location, local) == list[StopAt(list, location, local)]

\* Mutation: the new upvalue does not get its next.
InsertedWithoutNext(list, location, local, u) ==
  SubSeq(list, 1, StopAt(list, location, local) - 1) \o <<u>>

\* Mutation: a new upvalue always becomes the head of the list.
InsertedAtHead(list, location, local, u) == <<u>> \o list

\* ... or links a new one in where the loop stopped.
Inserted(list, location, local, u) ==
  LET i == StopAt(list, location, local)
  IN  SubSeq(list, 1, i - 1) \o <<u>> \o SubSeq(list, i, Len(list))

\* How many members the loop of closeUpvalues() takes off the head.
CountAbove(list, location, last) ==
  CHOOSE n \in 0..Len(list) :
    /\ \A j \in 1..n : location[list[j]] >= last
    /\ n < Len(list) => location[list[n + 1]] < last

Closing(list, location, last) == {list[j] : j \in 1..CountAbove(list, location, last)}

Remaining(list, location, last) ==
  SubSeq(list, CountAbove(list, location, last) + 1, Len(list))
============================================================================
