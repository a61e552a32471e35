---------------------------- MODULE Dictionary ----------------------------
(***************************************************************************)
(* What table.c promises: a finite map, the answer of every call as the    *)
(* map has it, and nothing forgotten but what the collector took away.     *)
(***************************************************************************)
CONSTANTS
  Key,    \* the strings that may be keys
  Value,  \* what they may stand for
  Nil     \* the value that a caller has before it asks

VARIABLES
  map,    \* the map, a function on the keys that it has
  result  \* what the last call returned: the bool, and *value

vars == <<map, result>>

Answer(found, value) == [found |-> found, value |-> value]

Without(key) == [k \in DOMAIN map \ {key} |-> map[k]]

Init == map = <<>> /\ result = Answer(FALSE, Nil)

Get(key) ==
  /\ result' = IF key \in DOMAIN map THEN Answer(TRUE, map[key]) ELSE Answer(FALSE, Nil)
  /\ UNCHANGED map

Set(key, value) ==
  /\ map' = [k \in DOMAIN map \cup {key} |-> IF k = key THEN value ELSE map[k]]
  /\ result' = Answer(key \notin DOMAIN map, Nil)

Delete(key) ==
  /\ map' = Without(key)
  /\ result' = Answer(key \in DOMAIN map, Nil)

FindString(key) ==
  /\ result' = Answer(key \in DOMAIN map, Nil)
  /\ UNCHANGED map

\* A collection takes the key away in the middle of whatever call is running.
Forget(key) ==
  /\ map' = Without(key)
  /\ UNCHANGED result

Clear == map' = <<>> /\ UNCHANGED result

Next ==
  \/ \E key \in Key :
       \/ Get(key) \/ Delete(key) \/ FindString(key) \/ Forget(key)
       \/ \E value \in Value : Set(key, value)
  \/ Clear

Spec == Init /\ [][Next]_vars
============================================================================
