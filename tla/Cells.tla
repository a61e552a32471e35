------------------------------- MODULE Cells -------------------------------
(***************************************************************************)
(* What upvalues promise to a program: the first closure that captures a   *)
(* variable puts it into a cell.  From then on the variable's place on the *)
(* stack and every closure that captures it share the cell, and the        *)
(* closures keep it when the place is gone.                                *)
(***************************************************************************)
EXTENDS Integers, Sequences

CONSTANTS
  Value,     \* values other than closures
  Closure,   \* the closures that may be made
  Cell       \* the cells that may be made

VARIABLES
  env,     \* the stack: a value, a closure, or the cell that holds it
  store,   \* what the cells hold
  held     \* closure -> the cells it has captured

vars == <<env, store, held>>

Contents(x) == IF x \in Cell THEN store[x] ELSE x

Used == UNION {held[f] : f \in DOMAIN held}

\* What an instruction can get hold of.
Readable == Value \cup {Contents(env[i]) : i \in DOMAIN env} \cup {store[cell] : cell \in Used}

\* The closure of the script is the first.
Init ==
  /\ \E f \in Closure : env = <<f>> /\ held = [g \in {f} |-> {}]
  /\ store \in [Cell -> Value]

Push ==
  /\ \E v \in Readable : env' = Append(env, v)
  /\ UNCHANGED <<store, held>>

\* The end of a scope, and the end of a call, which leaves a result.
Leave ==
  /\ \E n \in 0..(Len(env) - 1) :
       LET rest == SubSeq(env, 1, n)
       IN  env' \in {rest, Append(rest, Contents(env[Len(env)]))}
  /\ UNCHANGED <<store, held>>

Assign ==
  /\ \E i \in DOMAIN env, v \in Readable :
       IF env[i] \in Cell
       THEN store' = [store EXCEPT ![env[i]] = v] /\ UNCHANGED env
       ELSE env' = [env EXCEPT ![i] = v] /\ UNCHANGED store
  /\ UNCHANGED held

AssignHeld ==
  /\ \E cell \in Used, v \in Readable : store' = [store EXCEPT ![cell] = v]
  /\ UNCHANGED <<env, held>>

MakeClosure ==
  /\ \E f \in Closure \ DOMAIN held :
       /\ env' = Append(env, f)
       /\ held' = [g \in DOMAIN held \cup {f} |-> IF g = f THEN {} ELSE held[g]]
  /\ UNCHANGED store

\* The newest closure captures a variable, or shares what another one holds.
Capture ==
  \E f \in DOMAIN held :
    /\ env[Len(env)] = f \/ env[Len(env)] \in held[f]
    /\ \/ \E i \in DOMAIN env :
            IF env[i] \in Cell
            THEN held' = [held EXCEPT ![f] = @ \cup {env[i]}] /\ UNCHANGED <<env, store>>
            ELSE \E cell \in Cell \ Used :
                   /\ held' = [held EXCEPT ![f] = @ \cup {cell}]
                   /\ env' = [env EXCEPT ![i] = cell]
                   /\ store' = [store EXCEPT ![cell] = env[i]]
       \/ \E cell \in Used : held' = [held EXCEPT ![f] = @ \cup {cell}] /\ UNCHANGED <<env, store>>

Next == Push \/ Leave \/ Assign \/ AssignHeld \/ MakeClosure \/ Capture

Spec == Init /\ [][Next]_vars
============================================================================
