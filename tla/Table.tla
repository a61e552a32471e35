------------------------------- MODULE Table -------------------------------
(***************************************************************************)
(* The open-addressing hash table of table.c: linear probing, tombstones,  *)
(* growth by rehashing, and tableRemoveWhite(), by which a collection      *)
(* empties the table of interned strings.  Growing allocates, so the       *)
(* collection may come in the middle of tableSet().                        *)
(*                                                                         *)
(* A key is an interned string: equal text is the same address, so looking *)
(* up characters and looking up an address find the same entry.            *)
(***************************************************************************)
EXTENDS Integers, FiniteSets, FiniteSetsExt

CONSTANTS
  Key,          \* the strings that may be keys
  None,         \* the NULL key
  Value,        \* what they may stand for
  Nil, True,    \* NIL_VAL, BOOL_VAL(true)
  HashCodes,    \* the values of ObjString.hash
  MinCapacity,  \* the capacity that GROW_CAPACITY() starts at
  MaxCapacity   \* bound on the capacity, which the code does not bound

ASSUME TableAssumption ==
  /\ None \notin Key
  /\ {Nil, True} \subseteq Value /\ Nil # True
  /\ HashCodes \subseteq Nat
  /\ MinCapacity \in Nat /\ MinCapacity >= 2
  /\ MaxCapacity \in Nat

VARIABLES
  hash,      \* Key -> ObjString.hash
  capacity,  \* table->capacity
  count,     \* table->count
  entries,   \* table->entries
  pc,        \* which loop is running
  i,         \* its counter
  call,      \* the arguments of tableSet() while the table grows
  white,     \* the keys that a collection has not marked
  fresh,     \* the array that adjustCapacity() fills
  result     \* what the last call returned: the bool, and *value

vars == <<hash, capacity, count, entries, pc, i, call, white, fresh, result>>

table == <<capacity, count, entries>>
loop  == <<pc, i, call, white, fresh>>

Entry == [key : Key \cup {None}, value : Value]

Empty     == [key |-> None, value |-> Nil]
Tombstone == [key |-> None, value |-> True]

NoCall == [key |-> None, value |-> Nil]

Answer(found, value) == [found |-> found, value |-> value]

Keys(es) == {es[n].key : n \in DOMAIN es} \ {None}

\* The indexes that a search for the key goes over are Probe(key, 0), Probe(key, 1), ...
Probe(key, cap, n) == (hash[key] + n) % cap

\* Where such a search ends.
Stops(es, cap, key) ==
  {n \in 0..(cap - 1) : es[Probe(key, cap, n)] = Empty \/ es[Probe(key, cap, n)].key = key}

\* Mutation: the search ends at the first tombstone.
FindEntryOrTombstone(es, cap, key) ==
  Probe(key, cap, Min({n \in 0..(cap - 1) : es[Probe(key, cap, n)].key \in {None, key}}))

\* findEntry(): the entry of the key, or else the first tombstone on the way, or
\* else the empty entry at its end.
FindEntry(es, cap, key) ==
  LET stop  == Min(Stops(es, cap, key))
      tombs == {n \in 0..(stop - 1) : es[Probe(key, cap, n)].key = None}
  IN  IF es[Probe(key, cap, stop)].key = key \/ tombs = {}
      THEN Probe(key, cap, stop)
      ELSE Probe(key, cap, Min(tombs))

GrowCapacity(cap) == IF cap < MinCapacity THEN MinCapacity ELSE 2 * cap

\* Mutation: the table may become full.
FillUp == count + 1 > capacity

\* count + 1 > capacity * TABLE_MAX_LOAD
TooFull == 4 * (count + 1) > 3 * capacity

----------------------------------------------------------------------------
Get(key) ==
  /\ pc = "idle"
  /\ LET entry == entries[FindEntry(entries, capacity, key)]
     IN  result' = IF count = 0 \/ entry.key = None
                   THEN Answer(FALSE, Nil)
                   ELSE Answer(TRUE, entry.value)
  /\ UNCHANGED <<hash, table, loop>>

\* tableFindString(), which goes past tombstones and returns none.
FindString(key) ==
  /\ pc = "idle"
  /\ result' =
       IF count = 0
       THEN Answer(FALSE, Nil)
       ELSE LET stop == Min(Stops(entries, capacity, key))
            IN  Answer(entries[Probe(key, capacity, stop)].key = key, Nil)
  /\ UNCHANGED <<hash, table, loop>>

\* Mutation: a tombstone that is used again is counted again.
CountTombstoneAgain(key, value) ==
  LET n     == FindEntry(entries, capacity, key)
      isNew == entries[n].key = None
  IN  /\ count' = IF isNew THEN count + 1 ELSE count
      /\ entries' = [entries EXCEPT ![n] = [key |-> key, value |-> value]]
      /\ result' = Answer(isNew, Nil)
      /\ UNCHANGED <<hash, capacity>>

\* The rest of tableSet() when there is room: a tombstone that is used again has
\* been counted already.
Insert(key, value) ==
  LET n     == FindEntry(entries, capacity, key)
      isNew == entries[n].key = None
  IN  /\ count' = IF isNew /\ entries[n].value = Nil THEN count + 1 ELSE count
      /\ entries' = [entries EXCEPT ![n] = [key |-> key, value |-> value]]
      /\ result' = Answer(isNew, Nil)
      /\ UNCHANGED <<hash, capacity>>

SetInRoom(key, value) ==
  /\ pc = "idle"
  /\ ~ TooFull
  /\ Insert(key, value)
  /\ UNCHANGED loop

\* Up to the ALLOCATE of adjustCapacity().
SetGrows(key, value) ==
  /\ pc = "idle"
  /\ TooFull
  /\ GrowCapacity(capacity) <= MaxCapacity
  /\ pc' = "allocate"
  /\ call' = [key |-> key, value |-> value]
  /\ UNCHANGED <<hash, table, i, white, fresh, result>>

\* Mutation: the entry is emptied.
DeleteToEmpty(es, key) == [es EXCEPT ![FindEntry(es, capacity, key)] = Empty]

\* The entries after tableDelete() of a key that is there.
Deleted(es, key) == [es EXCEPT ![FindEntry(es, capacity, key)] = Tombstone]

Delete(key) ==
  /\ pc = "idle"
  /\ IF count = 0 \/ entries[FindEntry(entries, capacity, key)].key = None
     THEN result' = Answer(FALSE, Nil) /\ UNCHANGED entries
     ELSE result' = Answer(TRUE, Nil) /\ entries' = Deleted(entries, key)
  /\ UNCHANGED <<hash, capacity, count, loop>>

FreeTable ==
  /\ pc = "idle"
  /\ capacity' = 0 /\ count' = 0 /\ entries' = <<>>
  /\ UNCHANGED <<hash, loop, result>>

----------------------------------------------------------------------------
(***************************************************************************)
(* A collection, at an allocation of this table or of anything else.  It   *)
(* has marked the key that is being set, which the caller keeps alive.     *)
(***************************************************************************)
Collect ==
  /\ pc \in {"idle", "allocate"}
  /\ \E S \in SUBSET (Keys(entries) \ {call.key}) : S # {} /\ white' = S
  /\ pc' = "removeWhite"
  /\ i' = 0
  /\ UNCHANGED <<hash, table, call, fresh, result>>

RemoveWhite ==
  /\ pc = "removeWhite"
  /\ i < capacity
  /\ entries' = IF entries[i].key \in white THEN Deleted(entries, entries[i].key) ELSE entries
  /\ i' = i + 1
  /\ UNCHANGED <<hash, capacity, count, pc, call, white, fresh, result>>

\* The loop is over: back to the allocation that the collection came from.
Collected ==
  /\ pc = "removeWhite"
  /\ i = capacity
  /\ pc' = IF call = NoCall THEN "idle" ELSE "allocated"
  /\ i' = 0
  /\ white' = {}
  /\ UNCHANGED <<hash, table, call, fresh, result>>

----------------------------------------------------------------------------
(***************************************************************************)
(* adjustCapacity() after its ALLOCATE, and the rest of tableSet().        *)
(***************************************************************************)
NewCapacity == GrowCapacity(capacity)

BeginRehash ==
  /\ pc \in {"allocate", "allocated"}
  /\ pc' = "rehash"
  /\ i' = 0
  /\ fresh' = [n \in 0..(NewCapacity - 1) |-> Empty]
  /\ count' = 0
  /\ UNCHANGED <<hash, capacity, entries, call, white, result>>

Rehash ==
  /\ pc = "rehash"
  /\ i < capacity
  /\ IF entries[i].key = None
     THEN UNCHANGED <<count, fresh>>
     ELSE /\ fresh' = [fresh EXCEPT ![FindEntry(fresh, NewCapacity, entries[i].key)] = entries[i]]
          /\ count' = count + 1
  /\ i' = i + 1
  /\ UNCHANGED <<hash, capacity, entries, pc, call, white, result>>

\* Mutation: table->capacity keeps its value.
EndRehashOldCapacity ==
  /\ pc = "rehash"
  /\ i = capacity
  /\ entries' = fresh
  /\ fresh' = <<>>
  /\ i' = 0
  /\ pc' = "insert"
  /\ UNCHANGED <<hash, capacity, count, call, white, result>>

EndRehash ==
  /\ pc = "rehash"
  /\ i = capacity
  /\ entries' = fresh
  /\ capacity' = NewCapacity
  /\ fresh' = <<>>
  /\ i' = 0
  /\ pc' = "insert"
  /\ UNCHANGED <<hash, count, call, white, result>>

SetGrown ==
  /\ pc = "insert"
  /\ Insert(call.key, call.value)
  /\ pc' = "idle"
  /\ call' = NoCall
  /\ UNCHANGED <<i, white, fresh>>

----------------------------------------------------------------------------
\* initTable()
Init ==
  /\ hash \in [Key -> HashCodes]
  /\ capacity = 0 /\ count = 0 /\ entries = <<>>
  /\ pc = "idle"
  /\ i = 0
  /\ call = NoCall
  /\ white = {}
  /\ fresh = <<>>
  /\ result = Answer(FALSE, Nil)

Calls ==
  \/ \E key \in Key :
       \/ Get(key) \/ FindString(key) \/ Delete(key)
       \/ \E value \in Value : SetInRoom(key, value) \/ SetGrows(key, value)
  \/ FreeTable
  \/ Collect

Loops == RemoveWhite \/ Collected \/ BeginRehash \/ Rehash \/ EndRehash \/ SetGrown

Next == Calls \/ Loops

Spec == Init /\ [][Next]_vars

----------------------------------------------------------------------------
IsArray(es, cap) ==
  DOMAIN es = 0..(cap - 1) /\ \A n \in 0..(cap - 1) : es[n] \in Entry

\* Every variable has its type; an array has as many entries as its capacity says.
TypeOK ==
  /\ hash \in [Key -> HashCodes]
  /\ capacity \in Nat /\ count \in Nat /\ IsArray(entries, capacity)
  /\ pc \in {"idle", "allocate", "removeWhite", "allocated", "rehash", "insert"}
  /\ i \in 0..capacity
  /\ call \in Entry /\ (call = NoCall <=> pc = "idle" \/ (pc = "removeWhite" /\ call.key = None))
  /\ white \subseteq Key
  /\ IsArray(fresh, IF pc = "rehash" THEN NewCapacity ELSE 0)
  /\ result \in [found : BOOLEAN, value : Value]

Used(es) == {n \in DOMAIN es : es[n] # Empty}

\* table->count is the number of keys and tombstones, in the array that is being
\* filled when the table grows.
CountIsExact == count = Cardinality(Used(IF pc = "rehash" THEN fresh ELSE entries))

\* A search always ends: an array that has entries has an empty one, however
\* keys and tombstones came and went.
ProbesEnd ==
  /\ \A es \in {entries, fresh} : DOMAIN es # {} => Used(es) # DOMAIN es
  /\ pc # "rehash" => 4 * count <= 3 * capacity

\* Every key is in one entry, and a search for it ends there: no tombstone, no
\* growth and no collection leaves a key behind an empty entry.
KeysAreFound ==
  /\ \A n \in DOMAIN entries : entries[n].key # None =>
       FindEntry(entries, capacity, entries[n].key) = n
  /\ \A n \in DOMAIN fresh : fresh[n].key # None =>
       FindEntry(fresh, NewCapacity, fresh[n].key) = n

\* What the array says.
Contents ==
  [key \in Keys(entries) |->
    entries[CHOOSE n \in DOMAIN entries : entries[n].key = key].value]

\* Every call answers and changes the table as if it were a finite map, and a
\* collection that comes while the table grows forgets keys and does nothing else.
Map == INSTANCE Dictionary WITH map <- Contents

Implements == Map!Spec
============================================================================
