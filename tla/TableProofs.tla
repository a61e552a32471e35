---------------------------- MODULE TableProofs ----------------------------
(***************************************************************************)
(* Proofs about the hash table, for every set of keys, every assignment of *)
(* hash codes and every capacity that growing can reach.                   *)
(***************************************************************************)
EXTENDS Table, LeastNumber, FiniteSetTheorems

----------------------------------------------------------------------------
(***************************************************************************)
(* The indexes that a search goes over.                                    *)
(***************************************************************************)

\* A remainder is what is left over, and no other number below the divisor is.
LEMMA Remainder ==
  ASSUME NEW a \in Nat, NEW c \in Nat \ {0}
  PROVE  /\ a % c \in 0..(c - 1)
         /\ a \div c \in Int
         /\ a = c * (a \div c) + (a % c)
OBVIOUS

LEMMA RemainderIs ==
  ASSUME NEW a \in Nat, NEW c \in Nat \ {0}, NEW q \in Int, NEW r \in 0..(c - 1), a = c * q + r
  PROVE  a % c = r
OBVIOUS

\* index = (index + 1) % capacity comes to the end of the array once, and goes on
\* at its beginning.
LEMMA Wraps ==
  ASSUME NEW a \in Nat, NEW c \in Nat \ {0}, NEW n \in 0..(c - 1)
  PROVE  (a + n) % c = IF (a % c) + n < c THEN (a % c) + n ELSE (a % c) + n - c
<1> DEFINE q == a \div c
           r == a % c
<1>1. a = c * q + r /\ q \in Int /\ r \in 0..(c - 1)
  BY Remainder
<1>2. a + n \in Nat
  OBVIOUS
<1> HIDE DEF q, r
<1>3. CASE r + n < c
  <2>1. a + n = c * q + (r + n) /\ r + n \in 0..(c - 1)
    BY <1>1, <1>3
  <2> QED
    BY <1>1, <1>2, <1>3, <2>1, RemainderIs DEF r
<1>4. CASE ~ (r + n < c)
  <2>1. c * (q + 1) = c * q + c
    BY <1>1
  <2>2. a + n = c * (q + 1) + (r + n - c) /\ r + n - c \in 0..(c - 1) /\ q + 1 \in Int
    BY <1>1, <1>4, <2>1
  <2>3. (a + n) % c = r + n - c
    BY <1>2, <2>2, RemainderIs
  <2> QED
    BY <1>4, <2>3 DEF r
<1> QED
  BY <1>3, <1>4

\* A search for a key goes over every index of the array, and over none twice.
LEMMA ProbesAll ==
  ASSUME NEW key, hash[key] \in Nat, NEW cap \in Nat \ {0}
  PROVE  /\ \A n \in 0..(cap - 1) : Probe(key, cap, n) \in 0..(cap - 1)
         /\ \A m \in 0..(cap - 1) : \E n \in 0..(cap - 1) : Probe(key, cap, n) = m
         /\ \A m, n \in 0..(cap - 1) : Probe(key, cap, m) = Probe(key, cap, n) => m = n
<1> DEFINE r == hash[key] % cap
<1>1. r \in 0..(cap - 1)
  BY Remainder
<1>2. \A n \in 0..(cap - 1) : Probe(key, cap, n) = IF r + n < cap THEN r + n ELSE r + n - cap
  BY Wraps DEF Probe
<1> HIDE DEF r
<1>3. ASSUME NEW m \in 0..(cap - 1)
      PROVE  \E n \in 0..(cap - 1) : Probe(key, cap, n) = m
  <2>1. CASE m >= r
    <3>1. m - r \in 0..(cap - 1) /\ Probe(key, cap, m - r) = m
      BY <1>1, <1>2, <2>1
    <3> QED
      BY <3>1
  <2>2. CASE m < r
    <3>1. m + cap - r \in 0..(cap - 1) /\ Probe(key, cap, m + cap - r) = m
      BY <1>1, <1>2, <2>2
    <3> QED
      BY <3>1
  <2> QED
    BY <1>1, <2>1, <2>2
<1>4. \A n \in 0..(cap - 1) : Probe(key, cap, n) \in 0..(cap - 1)
  BY <1>1, <1>2
<1>5. ASSUME NEW m \in 0..(cap - 1), NEW n \in 0..(cap - 1), Probe(key, cap, m) = Probe(key, cap, n)
      PROVE  m = n
  BY <1>1, <1>2, <1>5
<1> QED
  BY <1>3, <1>4, <1>5

----------------------------------------------------------------------------
(***************************************************************************)
(* findEntry().                                                            *)
(***************************************************************************)

\* The loop of findEntry() goes past an entry that is not empty and has another key.
Passes(es, cap, key, n) ==
  es[Probe(key, cap, n)] # Empty /\ es[Probe(key, cap, n)].key # key

\* The entries on the way to a key are not empty and do not have it.
Linked(es, cap) ==
  \A n \in 0..(cap - 1) : es[n].key # None =>
    \E d \in 0..(cap - 1) :
      /\ Probe(es[n].key, cap, d) = n
      /\ \A e \in 0..(d - 1) : Passes(es, cap, es[n].key, e)

\* An array in which a search ends.
Searchable(es, cap) ==
  IsArray(es, cap) /\ cap \in Nat \ {0} /\ \E n \in 0..(cap - 1) : es[n] = Empty

LEMMA MinIsLeast ==
  ASSUME NEW S \in SUBSET Nat, S # {}
  PROVE  Min(S) \in S /\ \A n \in S : Min(S) <= n
BY Least DEF Min

\* A search ends at the first entry that it does not pass.
LEMMA SearchEnds ==
  ASSUME NEW es, NEW cap, Searchable(es, cap), NEW key \in Key, hash \in [Key -> HashCodes]
  PROVE  LET stop == Min(Stops(es, cap, key))
         IN  /\ stop \in 0..(cap - 1)
             /\ ~ Passes(es, cap, key, stop)
             /\ \A e \in 0..(stop - 1) : Passes(es, cap, key, e)
<1> DEFINE S == Stops(es, cap, key)
           stop == Min(S)
<1>1. cap \in Nat \ {0} /\ hash[key] \in Nat
  BY TableAssumption DEF Searchable
<1>2. S = {n \in 0..(cap - 1) : ~ Passes(es, cap, key, n)}
  BY DEF Stops, Passes
<1>3. S # {}
  <2>1. PICK m \in 0..(cap - 1) : es[m] = Empty
    BY DEF Searchable
  <2>2. PICK n \in 0..(cap - 1) : Probe(key, cap, n) = m
    BY <1>1, ProbesAll
  <2> QED
    BY <1>2, <2>1, <2>2 DEF Passes
<1>4. S \in SUBSET Nat
  BY <1>1, <1>2
<1> HIDE DEF S
<1>5. stop \in S /\ \A n \in S : stop <= n
  BY <1>3, <1>4, MinIsLeast
<1> HIDE DEF stop
<1>6. stop \in 0..(cap - 1) /\ ~ Passes(es, cap, key, stop)
  BY <1>2, <1>5
<1>7. ASSUME NEW e \in 0..(stop - 1)  PROVE Passes(es, cap, key, e)
  <2>1. e \in 0..(cap - 1) /\ ~ (stop <= e)
    BY <1>1, <1>6
  <2> QED
    BY <1>2, <1>5, <2>1
<1>8. /\ stop \in 0..(cap - 1)
      /\ ~ Passes(es, cap, key, stop)
      /\ \A e \in 0..(stop - 1) : Passes(es, cap, key, e)
  BY <1>6, <1>7
<1> QED
  BY <1>8 DEF stop, S

\* The first entry that is not passed is where the search ends.
LEMMA EndIsUnique ==
  ASSUME NEW es, NEW cap, Searchable(es, cap), NEW key \in Key, hash \in [Key -> HashCodes],
         NEW d \in 0..(cap - 1), ~ Passes(es, cap, key, d),
         \A e \in 0..(d - 1) : Passes(es, cap, key, e)
  PROVE  Min(Stops(es, cap, key)) = d
<1> DEFINE stop == Min(Stops(es, cap, key))
<1>1. /\ stop \in 0..(cap - 1) /\ cap \in Nat
      /\ ~ Passes(es, cap, key, stop)
      /\ \A e \in 0..(stop - 1) : Passes(es, cap, key, e)
  BY SearchEnds DEF Searchable
<1> HIDE DEF stop
<1>2. ~ (d < stop) /\ ~ (stop < d)
  <2>1. d < stop => d \in 0..(stop - 1)
    BY <1>1
  <2>2. stop < d => stop \in 0..(d - 1)
    BY <1>1
  <2> QED
    BY <1>1, <2>1, <2>2
<1>3. stop = d
  BY <1>1, <1>2
<1> QED
  BY <1>3 DEF stop

\* What findEntry() returns: the entry of the key, if the search ends at one, or
\* else an entry without a key, on the way or at the end.
LEMMA FindEntryIs ==
  ASSUME NEW es, NEW cap, Searchable(es, cap), NEW key \in Key, hash \in [Key -> HashCodes]
  PROVE  LET stop == Min(Stops(es, cap, key))
             n    == FindEntry(es, cap, key)
         IN  /\ n \in 0..(cap - 1)
             /\ es[n].key \in {None, key}
             /\ es[Probe(key, cap, stop)].key = key => n = Probe(key, cap, stop)
             /\ es[n].key = key => n = Probe(key, cap, stop)
             /\ es[n].key = None =>
                  \E d \in 0..stop : Probe(key, cap, d) = n
<1> DEFINE stop == Min(Stops(es, cap, key))
           end  == Probe(key, cap, stop)
           tombs == {d \in 0..(stop - 1) : es[Probe(key, cap, d)].key = None}
           n    == FindEntry(es, cap, key)
<1>1. cap \in Nat \ {0} /\ hash[key] \in Nat /\ key # None
  BY TableAssumption DEF Searchable
<1>2. stop \in 0..(cap - 1) /\ ~ Passes(es, cap, key, stop)
  BY SearchEnds
<1>3. n = IF es[end].key = key \/ tombs = {} THEN end ELSE Probe(key, cap, Min(tombs))
  BY DEF FindEntry
<1>4. end \in 0..(cap - 1) /\ (es[end] = Empty \/ es[end].key = key)
  BY <1>1, <1>2, ProbesAll DEF Passes
<1> SUFFICES /\ n \in 0..(cap - 1)
             /\ es[n].key \in {None, key}
             /\ es[end].key = key => n = end
             /\ es[n].key = key => n = end
             /\ es[n].key = None => \E d \in 0..stop : Probe(key, cap, d) = n
  OBVIOUS
<1>5. stop \in 0..stop
  BY <1>1, <1>2
<1> HIDE DEF stop, end, n
<1>6. CASE es[end].key = key
  <2>1. n = end
    BY <1>3, <1>6
  <2> QED
    BY <1>1, <1>4, <1>6, <2>1
<1>7. CASE es[end].key # key /\ tombs = {}
  <2>1. n = end /\ es[end].key = None
    BY <1>3, <1>4, <1>7 DEF Empty
  <2> QED
    BY <1>1, <1>4, <1>5, <1>7, <2>1 DEF end
<1>8. CASE es[end].key # key /\ tombs # {}
  <2> DEFINE d == Min(tombs)
  <2>1. tombs \in SUBSET Nat
    BY <1>2
  <2>2. d \in tombs
    <3> HIDE DEF tombs
    <3> QED
      BY <1>8, <2>1, MinIsLeast
  <2>3. n = Probe(key, cap, d)
    BY <1>3, <1>8
  <2> HIDE DEF d
  <2>4. d \in 0..stop /\ d \in 0..(cap - 1) /\ es[Probe(key, cap, d)].key = None
    BY <1>1, <1>2, <2>2
  <2>5. n \in 0..(cap - 1)
    BY <1>1, <2>3, <2>4, ProbesAll
  <2> QED
    BY <1>1, <1>8, <2>3, <2>4, <2>5
<1> QED
  BY <1>6, <1>7, <1>8

\* A key is in the entry at which a search for it ends, for every key, when no
\* entry on the way to it is empty, and only then.
LEMMA LinkedIsFound ==
  ASSUME NEW es, NEW cap, Searchable(es, cap), hash \in [Key -> HashCodes]
  PROVE  Linked(es, cap) <=>
           \A n \in DOMAIN es : es[n].key # None => FindEntry(es, cap, es[n].key) = n
<1>1. cap \in Nat \ {0} /\ DOMAIN es = 0..(cap - 1)
  BY DEF Searchable, IsArray
<1>2. \A n \in 0..(cap - 1) : es[n].key # None => es[n].key \in Key /\ hash[es[n].key] \in Nat
  BY TableAssumption DEF Searchable, IsArray, Entry
<1>3. ASSUME Linked(es, cap), NEW n \in 0..(cap - 1), es[n].key # None
      PROVE  FindEntry(es, cap, es[n].key) = n
  <2> DEFINE key == es[n].key
  <2>1. PICK d \in 0..(cap - 1) :
          Probe(key, cap, d) = n /\ \A e \in 0..(d - 1) : Passes(es, cap, key, e)
    BY <1>3 DEF Linked
  <2>2. key \in Key /\ ~ Passes(es, cap, key, d)
    BY <1>2, <1>3, <2>1 DEF Passes
  <2>3. Min(Stops(es, cap, key)) = d
    BY <2>1, <2>2, EndIsUnique
  <2> QED
    BY <2>1, <2>2, <2>3, FindEntryIs
<1>4. ASSUME NEW n \in 0..(cap - 1), es[n].key # None, FindEntry(es, cap, es[n].key) = n
      PROVE  \E d \in 0..(cap - 1) :
               /\ Probe(es[n].key, cap, d) = n
               /\ \A e \in 0..(d - 1) : Passes(es, cap, es[n].key, e)
  <2> DEFINE key == es[n].key
             stop == Min(Stops(es, cap, key))
  <2>1. key \in Key
    BY <1>2, <1>4
  <2>2. stop \in 0..(cap - 1) /\ \A e \in 0..(stop - 1) : Passes(es, cap, key, e)
    BY <2>1, SearchEnds
  <2>3. Probe(key, cap, stop) = n
    BY <1>4, <2>1, FindEntryIs
  <2> HIDE DEF stop
  <2> QED
    BY <2>2, <2>3
<1> QED
  BY <1>1, <1>3, <1>4 DEF Linked

\* findEntry() finds a key that is there, and an entry without key if it is not.
LEMMA Finds ==
  ASSUME NEW es, NEW cap, Searchable(es, cap), Linked(es, cap), hash \in [Key -> HashCodes],
         NEW key \in Key
  PROVE  /\ FindEntry(es, cap, key) \in 0..(cap - 1)
         /\ es[FindEntry(es, cap, key)].key \in {None, key}
         /\ \A n \in 0..(cap - 1) : es[n].key = key => n = FindEntry(es, cap, key)
         /\ LET stop == Min(Stops(es, cap, key))
            IN  /\ stop \in 0..(cap - 1)
                /\ \A e \in 0..(stop - 1) : Passes(es, cap, key, e)
                /\ \E d \in 0..stop : Probe(key, cap, d) = FindEntry(es, cap, key)
                /\ es[Probe(key, cap, stop)].key = key <=> es[FindEntry(es, cap, key)].key = key
<1> DEFINE n == FindEntry(es, cap, key)
           stop == Min(Stops(es, cap, key))
<1>1. DOMAIN es = 0..(cap - 1) /\ key # None
  BY TableAssumption DEF Searchable, IsArray
<1>2. \A m \in 0..(cap - 1) : es[m].key = key => m = n
  BY <1>1, LinkedIsFound
<1>3. /\ n \in 0..(cap - 1) /\ es[n].key \in {None, key}
      /\ es[Probe(key, cap, stop)].key = key => n = Probe(key, cap, stop)
      /\ es[n].key = key => n = Probe(key, cap, stop)
      /\ es[n].key = None => \E d \in 0..stop : Probe(key, cap, d) = n
  BY FindEntryIs
<1>4. stop \in 0..(cap - 1) /\ \A e \in 0..(stop - 1) : Passes(es, cap, key, e)
  BY SearchEnds
<1>5. cap \in Nat
  BY DEF Searchable
<1> SUFFICES /\ n \in 0..(cap - 1)
             /\ es[n].key \in {None, key}
             /\ \A m \in 0..(cap - 1) : es[m].key = key => m = n
             /\ stop \in 0..(cap - 1)
             /\ \A e \in 0..(stop - 1) : Passes(es, cap, key, e)
             /\ \E d \in 0..stop : Probe(key, cap, d) = n
             /\ es[Probe(key, cap, stop)].key = key <=> es[n].key = key
  OBVIOUS
<1> HIDE DEF n, stop
<1>6. stop \in 0..stop
  BY <1>4, <1>5
<1> QED
  BY <1>2, <1>3, <1>4, <1>6

\* The key that is written into the entry that findEntry() returned is found there,
\* and so are the others where they were.
LEMMA PutKeepsLinked ==
  ASSUME NEW es, NEW cap, Searchable(es, cap), Linked(es, cap), hash \in [Key -> HashCodes],
         NEW key \in Key, NEW value \in Value, NEW es2,
         es2 = [es EXCEPT ![FindEntry(es, cap, key)] = [key |-> key, value |-> value]]
  PROVE  IsArray(es2, cap) /\ Linked(es2, cap)
<1> DEFINE n == FindEntry(es, cap, key)
           stop == Min(Stops(es, cap, key))
<1>1. /\ n \in 0..(cap - 1)
      /\ es[n].key \in {None, key}
      /\ \A m \in 0..(cap - 1) : es[m].key = key => m = n
      /\ stop \in 0..(cap - 1)
      /\ \A e \in 0..(stop - 1) : Passes(es, cap, key, e)
      /\ \E d \in 0..stop : Probe(key, cap, d) = n
  BY Finds
<1> HIDE DEF n, stop
<1>2. /\ cap \in Nat \ {0} /\ DOMAIN es = 0..(cap - 1) /\ key # None
      /\ \A m \in 0..(cap - 1) : es[m] \in Entry
  BY TableAssumption DEF Searchable, IsArray
<1>3. [key |-> key, value |-> value] \in Entry /\ [key |-> key, value |-> value] # Empty
  BY <1>2 DEF Entry, Empty
<1>4. /\ DOMAIN es2 = 0..(cap - 1)
      /\ es2[n] = [key |-> key, value |-> value]
      /\ \A m \in 0..(cap - 1) : m # n => es2[m] = es[m]
  BY <1>1, <1>2 DEF n
<1>5. IsArray(es2, cap)
  BY <1>2, <1>3, <1>4 DEF IsArray
<1>6. ASSUME NEW m \in 0..(cap - 1), es2[m].key # None
      PROVE  \E d \in 0..(cap - 1) :
               /\ Probe(es2[m].key, cap, d) = m
               /\ \A e \in 0..(d - 1) : Passes(es2, cap, es2[m].key, e)
  <2>1. CASE m = n
    <3>1. es2[m].key = key /\ hash[key] \in Nat
      BY <1>4, <2>1, TableAssumption
    <3>2. PICK d \in 0..stop : Probe(key, cap, d) = n
      BY <1>1
    <3>3. d \in 0..(cap - 1)
      BY <1>1, <1>2, <3>2
    <3>4. ASSUME NEW e \in 0..(d - 1)  PROVE Passes(es2, cap, key, e)
      <4>1. e \in 0..(cap - 1) /\ e # d /\ e \in 0..(stop - 1)
        BY <1>1, <1>2, <3>2, <3>3
      <4>2. Probe(key, cap, e) \in 0..(cap - 1) /\ Probe(key, cap, e) # n
        BY <1>2, <3>1, <3>2, <3>3, <4>1, ProbesAll
      <4>3. Passes(es, cap, key, e)
        BY <1>1, <4>1
      <4> QED
        BY <1>4, <4>2, <4>3 DEF Passes
    <3> QED
      BY <2>1, <3>1, <3>2, <3>3, <3>4
  <2>2. CASE m # n
    <3>1. es2[m].key = es[m].key /\ es[m].key # key /\ es[m].key # None /\ es[m].key \in Key
      BY <1>1, <1>2, <1>4, <1>6, <2>2 DEF Entry
    <3>2. PICK d \in 0..(cap - 1) :
            /\ Probe(es[m].key, cap, d) = m
            /\ \A e \in 0..(d - 1) : Passes(es, cap, es[m].key, e)
      BY <3>1 DEF Linked
    <3>3. ASSUME NEW e \in 0..(d - 1)  PROVE Passes(es2, cap, es[m].key, e)
      <4>1. e \in 0..(cap - 1) /\ hash[es[m].key] \in Nat /\ Passes(es, cap, es[m].key, e)
        BY <1>2, <3>1, <3>2, TableAssumption
      <4>2. Probe(es[m].key, cap, e) \in 0..(cap - 1)
        BY <1>2, <4>1, ProbesAll
      <4>3. CASE Probe(es[m].key, cap, e) = n
        BY <1>3, <1>4, <3>1, <4>3 DEF Passes
      <4>4. CASE Probe(es[m].key, cap, e) # n
        BY <1>4, <4>1, <4>2, <4>4 DEF Passes
      <4> QED
        BY <4>3, <4>4
    <3> QED
      BY <3>1, <3>2, <3>3
  <2> QED
    BY <2>1, <2>2
<1> QED
  BY <1>5, <1>6 DEF Linked

\* A tombstone instead of an entry leaves all other keys on their ways.
LEMMA DeleteKeepsLinked ==
  ASSUME NEW es, NEW cap, IsArray(es, cap), cap \in Nat \ {0}, Linked(es, cap),
         hash \in [Key -> HashCodes],
         NEW n \in 0..(cap - 1), NEW es2, es2 = [es EXCEPT ![n] = Tombstone]
  PROVE  IsArray(es2, cap) /\ Linked(es2, cap)
<1>1. Tombstone \in Entry /\ Tombstone.key = None /\ Tombstone # Empty
  BY TableAssumption DEF Tombstone, Empty, Entry
<1>2. DOMAIN es = 0..(cap - 1) /\ \A m \in 0..(cap - 1) : es[m] \in Entry
  BY DEF IsArray
<1>3. /\ DOMAIN es2 = 0..(cap - 1) /\ es2[n] = Tombstone
      /\ \A m \in 0..(cap - 1) : m # n => es2[m] = es[m]
  BY <1>2
<1>4. IsArray(es2, cap)
  BY <1>1, <1>2, <1>3 DEF IsArray
<1>5. ASSUME NEW m \in 0..(cap - 1), es2[m].key # None
      PROVE  \E d \in 0..(cap - 1) :
               /\ Probe(es2[m].key, cap, d) = m
               /\ \A e \in 0..(d - 1) : Passes(es2, cap, es2[m].key, e)
  <2>1. m # n /\ es2[m] = es[m]
    BY <1>1, <1>3, <1>5
  <2>2. es[m].key # None /\ es[m].key \in Key
    BY <1>2, <1>5, <2>1 DEF Entry
  <2>3. PICK d \in 0..(cap - 1) :
          /\ Probe(es[m].key, cap, d) = m
          /\ \A e \in 0..(d - 1) : Passes(es, cap, es[m].key, e)
    BY <2>2 DEF Linked
  <2>4. ASSUME NEW e \in 0..(d - 1)  PROVE Passes(es2, cap, es[m].key, e)
    <3>1. e \in 0..(cap - 1) /\ hash[es[m].key] \in Nat /\ Passes(es, cap, es[m].key, e)
      <4>1. e \in 0..(cap - 1)
        BY <2>3
      <4>2. hash[es[m].key] \in Nat
        BY <2>2, TableAssumption
      <4> QED
        BY <2>3, <4>1, <4>2
    <3>2. Probe(es[m].key, cap, e) \in 0..(cap - 1)
      BY <3>1, ProbesAll
    <3> QED
      BY <1>1, <1>3, <2>2, <3>1, <3>2 DEF Passes
  <2> QED
    BY <2>1, <2>3, <2>4
<1> QED
  BY <1>4, <1>5 DEF Linked

----------------------------------------------------------------------------
(***************************************************************************)
(* How many entries are in use.                                            *)
(***************************************************************************)

LEMMA UsedIsFinite ==
  ASSUME NEW es, NEW cap \in Nat, IsArray(es, cap)
  PROVE  /\ IsFiniteSet(Used(es))
         /\ Cardinality(Used(es)) \in Nat
         /\ Cardinality(Used(es)) <= cap
         /\ Cardinality(Used(es)) < cap => \E n \in 0..(cap - 1) : es[n] = Empty
         /\ Cardinality(Used(es)) = 0 => \A n \in 0..(cap - 1) : es[n] = Empty
<1>1. DOMAIN es = 0..(cap - 1)
  BY DEF IsArray
<1>2. IsFiniteSet(0..(cap - 1)) /\ Cardinality(0..(cap - 1)) = cap
  BY FS_Interval
<1>3. Used(es) \in SUBSET (0..(cap - 1))
  BY <1>1 DEF Used
<1>4. /\ IsFiniteSet(Used(es)) /\ Cardinality(Used(es)) \in Nat
      /\ Cardinality(Used(es)) <= cap
  BY <1>2, <1>3, FS_Subset, FS_CardinalityType
<1>5. ASSUME Cardinality(Used(es)) < cap  PROVE \E n \in 0..(cap - 1) : es[n] = Empty
  <2>1. Used(es) # 0..(cap - 1)
    BY <1>2, <1>5
  <2> QED
    BY <1>1, <2>1 DEF Used
<1>6. ASSUME Cardinality(Used(es)) = 0  PROVE \A n \in 0..(cap - 1) : es[n] = Empty
  <2>1. Used(es) = {}
    BY <1>4, <1>6, FS_EmptySet
  <2> QED
    BY <1>1, <2>1 DEF Used
<1> QED
  BY <1>4, <1>5, <1>6

\* Writing an entry that is not empty uses one more if it was empty.
LEMMA UsedPut ==
  ASSUME NEW es, NEW cap \in Nat, IsArray(es, cap), NEW n \in 0..(cap - 1),
         NEW es2, DOMAIN es2 = 0..(cap - 1), es2[n] # Empty,
         \A m \in 0..(cap - 1) : m # n => es2[m] = es[m]
  PROVE  /\ Used(es2) = Used(es) \cup {n}
         /\ Cardinality(Used(es2)) =
              IF es[n] = Empty THEN Cardinality(Used(es)) + 1 ELSE Cardinality(Used(es))
<1>1. DOMAIN es = 0..(cap - 1)
  BY DEF IsArray
<1>2. Used(es2) = Used(es) \cup {n}
  BY <1>1 DEF Used
<1>3. n \in Used(es) <=> es[n] # Empty
  BY <1>1 DEF Used
<1> QED
  BY <1>2, <1>3, UsedIsFinite, FS_AddElement

\* An array without entries in use.
LEMMA UsedNone ==
  ASSUME NEW es, NEW cap \in Nat, es = [n \in 0..(cap - 1) |-> Empty]
  PROVE  IsArray(es, cap) /\ Linked(es, cap) /\ Used(es) = {} /\ Cardinality(Used(es)) = 0
<1>1. Empty \in Entry /\ Empty.key = None
  BY TableAssumption DEF Empty, Entry
<1>2. IsArray(es, cap) /\ Linked(es, cap) /\ Used(es) = {}
  BY <1>1 DEF IsArray, Linked, Used
<1> QED
  BY <1>2, FS_EmptySet

----------------------------------------------------------------------------
(***************************************************************************)
(* The inductive invariant.                                                *)
(***************************************************************************)

\* The capacity of a table that has an array is no less than GROW_CAPACITY() starts at.
CapacityOK == capacity = 0 \/ capacity >= MinCapacity

CounterOK == pc \notin {"removeWhite", "rehash"} => i = 0

\* A table that has grown has room for the key that it has grown for.
RoomOK == pc = "insert" => ~ TooFull

\* The array that is being filled has the keys that the loop has been over, with
\* their values, and no tombstones.
RehashOK ==
  pc = "rehash" =>
    /\ count <= i
    /\ \A n \in DOMAIN fresh : fresh[n].key = None => fresh[n] = Empty
    /\ \A n \in DOMAIN fresh : fresh[n].key # None => \E m \in 0..(i - 1) : fresh[n] = entries[m]
    /\ \A m \in 0..(i - 1) : entries[m].key # None => \E n \in DOMAIN fresh : fresh[n] = entries[m]

\* What tableSet() was called with while the table grows.
CallOK == call # NoCall => call.key \in Key

IInv ==
  /\ TypeOK /\ CountIsExact /\ ProbesEnd /\ KeysAreFound
  /\ CapacityOK /\ CounterOK /\ CallOK /\ RoomOK /\ RehashOK

LEMMA InitIInv == Init => IInv
<1> SUFFICES ASSUME Init  PROVE IInv
  OBVIOUS
<1>1. /\ capacity = 0 /\ count = 0 /\ entries = <<>> /\ fresh = <<>> /\ pc = "idle" /\ i = 0
      /\ call = NoCall /\ white = {} /\ hash \in [Key -> HashCodes] /\ result = Answer(FALSE, Nil)
  BY DEF Init
<1>2. IsArray(<<>>, 0) /\ DOMAIN <<>> = {}
  BY DEF IsArray
<1>3. NoCall \in Entry /\ NoCall.key = None
  BY TableAssumption DEF NoCall, Entry
<1>4. Answer(FALSE, Nil) \in [found : BOOLEAN, value : Value]
  BY TableAssumption DEF Answer
<1>5. TypeOK
  <2>1. i \in 0..capacity /\ capacity \in Nat /\ count \in Nat /\ white \subseteq Key
    BY <1>1
  <2>2. IsArray(entries, capacity) /\ IsArray(fresh, IF pc = "rehash" THEN NewCapacity ELSE 0)
    BY <1>1, <1>2
  <2>3. call \in Entry /\ call = NoCall /\ result \in [found : BOOLEAN, value : Value]
    BY <1>1, <1>3, <1>4
  <2> QED
    BY <1>1, <2>1, <2>2, <2>3 DEF TypeOK
<1>6. CountIsExact
  <2>1. Used(<<>>) = {}
    BY <1>2 DEF Used
  <2> QED
    BY <1>1, <2>1, FS_EmptySet DEF CountIsExact
<1>7. ProbesEnd /\ KeysAreFound
  BY <1>1, <1>2 DEF ProbesEnd, KeysAreFound
<1> QED
  BY <1>1, <1>5, <1>6, <1>7 DEF IInv, CapacityOK, CounterOK, CallOK, RoomOK, RehashOK

\* What the invariant says of the table when it does not grow, and when it does.
LEMMA Facts ==
  ASSUME IInv
  PROVE  /\ capacity \in Nat /\ count \in Nat /\ hash \in [Key -> HashCodes]
         /\ IsArray(entries, capacity) /\ DOMAIN entries = 0..(capacity - 1)
         /\ capacity # 0 => Searchable(entries, capacity)
         /\ Linked(entries, capacity)
         /\ pc # "rehash" => count = Cardinality(Used(entries))
         /\ MinCapacity \in Nat /\ MinCapacity >= 2
         /\ NewCapacity \in Nat /\ NewCapacity >= 2 /\ 4 * (capacity + 1) <= 3 * NewCapacity
         /\ NewCapacity >= MinCapacity /\ capacity < NewCapacity
         /\ pc = "rehash" =>
              /\ IsArray(fresh, NewCapacity) /\ DOMAIN fresh = 0..(NewCapacity - 1)
              /\ Searchable(fresh, NewCapacity) /\ Linked(fresh, NewCapacity)
              /\ count = Cardinality(Used(fresh))
         /\ pc # "rehash" => DOMAIN fresh = {}
<1>1. /\ capacity \in Nat /\ count \in Nat /\ hash \in [Key -> HashCodes]
      /\ IsArray(entries, capacity) /\ DOMAIN entries = 0..(capacity - 1)
      /\ MinCapacity \in Nat /\ MinCapacity >= 2
  BY TableAssumption DEF IInv, TypeOK, IsArray
<1>2. capacity # 0 => Searchable(entries, capacity)
  <2> SUFFICES ASSUME capacity # 0  PROVE \E n \in 0..(capacity - 1) : entries[n] = Empty
    BY <1>1 DEF Searchable
  <2>1. DOMAIN entries # {}
    <3>1. 0 \in 0..(capacity - 1)
      BY <1>1
    <3> QED
      BY <1>1, <3>1
  <2> QED
    BY <1>1, <2>1 DEF IInv, ProbesEnd, Used
<1>3. Linked(entries, capacity)
  <2>1. CASE capacity = 0
    BY <2>1 DEF Linked
  <2>2. CASE capacity # 0
    BY <1>1, <1>2, <2>2, LinkedIsFound DEF IInv, KeysAreFound
  <2> QED
    BY <2>1, <2>2
<1>4. NewCapacity = IF capacity < MinCapacity THEN MinCapacity ELSE 2 * capacity
  BY DEF NewCapacity, GrowCapacity
<1>5. capacity < MinCapacity => capacity = 0
  BY <1>1 DEF IInv, CapacityOK
<1>6. /\ NewCapacity \in Nat /\ NewCapacity >= 2 /\ 4 * (capacity + 1) <= 3 * NewCapacity
      /\ NewCapacity >= MinCapacity /\ capacity < NewCapacity
  BY <1>1, <1>4, <1>5
<1>7. ASSUME pc = "rehash"
      PROVE  /\ IsArray(fresh, NewCapacity) /\ DOMAIN fresh = 0..(NewCapacity - 1)
             /\ Searchable(fresh, NewCapacity) /\ Linked(fresh, NewCapacity)
             /\ count = Cardinality(Used(fresh))
  <2>1. IsArray(fresh, NewCapacity) /\ DOMAIN fresh = 0..(NewCapacity - 1)
    BY <1>7 DEF IInv, TypeOK, IsArray
  <2>2. Searchable(fresh, NewCapacity)
    <3>1. 0 \in DOMAIN fresh
      BY <1>6, <2>1
    <3>2. Used(fresh) # DOMAIN fresh
      BY <3>1 DEF IInv, ProbesEnd
    <3>3. \E n \in 0..(NewCapacity - 1) : fresh[n] = Empty
      BY <2>1, <3>2 DEF Used
    <3> QED
      BY <1>6, <2>1, <3>3 DEF Searchable
  <2>3. Linked(fresh, NewCapacity)
    BY <1>1, <2>2, LinkedIsFound DEF IInv, KeysAreFound
  <2> QED
    BY <1>7, <2>1, <2>2, <2>3 DEF IInv, CountIsExact
<1>8. pc # "rehash" => DOMAIN fresh = {}
  BY DEF IInv, TypeOK, IsArray
<1> QED
  BY <1>1, <1>2, <1>3, <1>6, <1>7, <1>8 DEF IInv, CountIsExact

\* What has to be shown of a state in which the table does not grow ...
Settled ==
  /\ TypeOK /\ pc # "rehash" /\ Linked(entries, capacity)
  /\ count = Cardinality(Used(entries)) /\ 4 * count <= 3 * capacity
  /\ CapacityOK /\ CounterOK /\ CallOK /\ RoomOK

\* ... and of one in which it does.
Growing ==
  /\ TypeOK /\ pc = "rehash" /\ Linked(entries, capacity) /\ Linked(fresh, NewCapacity)
  /\ capacity # 0 => \E n \in 0..(capacity - 1) : entries[n] = Empty
  /\ count = Cardinality(Used(fresh))
  /\ CapacityOK /\ CallOK /\ RehashOK

LEMMA SettledIsEnough == Settled => IInv
<1> SUFFICES ASSUME Settled  PROVE IInv
  OBVIOUS
<1>1. /\ capacity \in Nat /\ count \in Nat /\ hash \in [Key -> HashCodes]
      /\ IsArray(entries, capacity) /\ DOMAIN entries = 0..(capacity - 1) /\ DOMAIN fresh = {}
  BY DEF Settled, TypeOK, IsArray
<1>2. CountIsExact
  BY DEF Settled, CountIsExact
<1>3. capacity # 0 => Searchable(entries, capacity)
  <2> SUFFICES ASSUME capacity # 0  PROVE \E n \in 0..(capacity - 1) : entries[n] = Empty
    BY <1>1 DEF Searchable
  <2>1. Cardinality(Used(entries)) < capacity
    BY <1>1 DEF Settled
  <2> QED
    BY <1>1, <2>1, UsedIsFinite
<1>4. ProbesEnd
  <2>1. DOMAIN entries # {} => Used(entries) # DOMAIN entries
    <3> SUFFICES ASSUME DOMAIN entries # {}  PROVE Used(entries) # DOMAIN entries
      OBVIOUS
    <3>1. capacity # 0
      BY <1>1
    <3>2. \E n \in 0..(capacity - 1) : entries[n] = Empty
      BY <1>3, <3>1 DEF Searchable
    <3> QED
      BY <1>1, <3>2 DEF Used
  <2> QED
    BY <1>1, <2>1 DEF ProbesEnd, Settled
<1>5. KeysAreFound
  <2>1. CASE capacity = 0
    BY <1>1, <2>1 DEF KeysAreFound
  <2>2. CASE capacity # 0
    <3>1. \A n \in DOMAIN entries : entries[n].key # None => FindEntry(entries, capacity, entries[n].key) = n
      BY <1>1, <1>3, <2>2, LinkedIsFound DEF Settled
    <3> QED
      BY <1>1, <3>1 DEF KeysAreFound
  <2> QED
    BY <2>1, <2>2
<1> QED
  BY <1>2, <1>4, <1>5 DEF IInv, Settled, RehashOK

LEMMA GrowingIsEnough == Growing => IInv
<1> SUFFICES ASSUME Growing  PROVE IInv
  OBVIOUS
<1>1. /\ capacity \in Nat /\ count \in Nat /\ hash \in [Key -> HashCodes]
      /\ IsArray(entries, capacity) /\ DOMAIN entries = 0..(capacity - 1)
      /\ IsArray(fresh, NewCapacity) /\ DOMAIN fresh = 0..(NewCapacity - 1)
      /\ pc = "rehash"
  BY DEF Growing, TypeOK, IsArray
<1>2. NewCapacity \in Nat \ {0} /\ capacity < NewCapacity
  BY <1>1, TableAssumption DEF Growing, CapacityOK, NewCapacity, GrowCapacity
<1>3. capacity # 0 => Searchable(entries, capacity)
  BY <1>1 DEF Growing, Searchable
<1>4. Searchable(fresh, NewCapacity)
  <2>1. count <= i /\ i \in 0..capacity
    BY <1>1 DEF Growing, RehashOK, TypeOK
  <2>2. Cardinality(Used(fresh)) < NewCapacity
    BY <1>1, <1>2, <2>1 DEF Growing
  <2> QED
    BY <1>1, <1>2, <2>2, UsedIsFinite DEF Searchable
<1>5. CountIsExact
  BY <1>1 DEF Growing, CountIsExact
<1>6. ProbesEnd
  <2>1. DOMAIN entries # {} => Used(entries) # DOMAIN entries
    <3> SUFFICES ASSUME DOMAIN entries # {}  PROVE Used(entries) # DOMAIN entries
      OBVIOUS
    <3>1. capacity # 0
      BY <1>1
    <3>2. \E n \in 0..(capacity - 1) : entries[n] = Empty
      BY <1>3, <3>1 DEF Searchable
    <3> QED
      BY <1>1, <3>2 DEF Used
  <2>2. Used(fresh) # DOMAIN fresh
    BY <1>1, <1>4 DEF Searchable, Used
  <2> QED
    BY <1>1, <2>1, <2>2 DEF ProbesEnd
<1>7. KeysAreFound
  <2>1. \A n \in DOMAIN entries : entries[n].key # None => FindEntry(entries, capacity, entries[n].key) = n
    <3>1. CASE capacity = 0
      BY <1>1, <3>1
    <3>2. CASE capacity # 0
      BY <1>1, <1>3, <3>2, LinkedIsFound DEF Growing
    <3> QED
      BY <3>1, <3>2
  <2>2. \A n \in DOMAIN fresh : fresh[n].key # None => FindEntry(fresh, NewCapacity, fresh[n].key) = n
    BY <1>1, <1>4, LinkedIsFound DEF Growing
  <2> QED
    BY <2>1, <2>2 DEF KeysAreFound
<1> QED
  BY <1>1, <1>5, <1>6, <1>7 DEF IInv, Growing, CounterOK, RoomOK

\* A key keeps its hash code.
LEMMA LinkedNext ==
  ASSUME hash' = hash
  PROVE  /\ Linked(entries', capacity') <=> Linked(entries, capacity)'
         /\ Linked(fresh', NewCapacity') <=> Linked(fresh, NewCapacity)'
BY DEF Linked, Passes, Probe

----------------------------------------------------------------------------
(***************************************************************************)
(* Every step keeps the invariant.                                         *)
(***************************************************************************)

\* tableSet() when there is room.
LEMMA InsertKeeps ==
  ASSUME IInv, pc # "rehash", ~ TooFull, NEW key \in Key, NEW value \in Value, Insert(key, value)
  PROVE  /\ count' \in Nat /\ 4 * count' <= 3 * capacity
         /\ IsArray(entries', capacity) /\ Linked(entries', capacity)
         /\ count' = Cardinality(Used(entries'))
         /\ result' \in [found : BOOLEAN, value : Value]
         /\ UNCHANGED <<hash, capacity>>
<1> DEFINE n     == FindEntry(entries, capacity, key)
           entry == [key |-> key, value |-> value]
<1>1. /\ capacity \in Nat \ {0} /\ count \in Nat /\ hash \in [Key -> HashCodes]
      /\ 4 * (count + 1) <= 3 * capacity /\ Searchable(entries, capacity)
      /\ IsArray(entries, capacity) /\ Linked(entries, capacity)
      /\ count = Cardinality(Used(entries))
  BY Facts DEF TooFull
<1>2. /\ n \in 0..(capacity - 1) /\ entries[n].key \in {None, key} /\ key # None
  BY <1>1, Finds, TableAssumption
<1>3. /\ count' = IF entries[n].key = None /\ entries[n].value = Nil THEN count + 1 ELSE count
      /\ entries' = [entries EXCEPT ![n] = entry]
      /\ result' = Answer(entries[n].key = None, Nil)
      /\ UNCHANGED <<hash, capacity>>
  BY DEF Insert
<1>4. IsArray(entries', capacity) /\ Linked(entries', capacity)
  BY <1>1, <1>3, PutKeepsLinked
<1> HIDE DEF n
<1>5. entries[n] \in Entry
  BY <1>1, <1>2 DEF IsArray
<1>6. entry # Empty /\ (entries[n] = Empty <=> entries[n].key = None /\ entries[n].value = Nil)
  BY <1>2, <1>5 DEF Empty, Entry
<1>7. Cardinality(Used(entries')) =
        IF entries[n] = Empty THEN Cardinality(Used(entries)) + 1 ELSE Cardinality(Used(entries))
  <2>1. /\ DOMAIN entries' = 0..(capacity - 1) /\ entries'[n] # Empty
        /\ \A m \in 0..(capacity - 1) : m # n => entries'[m] = entries[m]
    BY <1>1, <1>2, <1>3, <1>6 DEF IsArray
  <2>2. capacity \in Nat
    BY <1>1
  <2> QED
    BY <1>1, <1>2, <2>1, <2>2, UsedPut
<1>8. result' \in [found : BOOLEAN, value : Value]
  BY <1>3, TableAssumption DEF Answer
<1> QED
  BY <1>1, <1>3, <1>4, <1>6, <1>7, <1>8

\* tableDelete() of a key that is there.
LEMMA DeletedKeeps ==
  ASSUME IInv, pc # "rehash", NEW n \in 0..(capacity - 1), entries[n].key # None,
         entries' = Deleted(entries, entries[n].key)
  PROVE  /\ IsArray(entries', capacity) /\ Linked(entries', capacity)
         /\ count = Cardinality(Used(entries'))
         /\ entries' = [entries EXCEPT ![n] = Tombstone]
<1>1. /\ capacity \in Nat \ {0} /\ hash \in [Key -> HashCodes] /\ n \in DOMAIN entries
      /\ IsArray(entries, capacity) /\ Linked(entries, capacity)
      /\ count = Cardinality(Used(entries))
  BY Facts
<1>2. FindEntry(entries, capacity, entries[n].key) = n
  BY <1>1 DEF IInv, KeysAreFound
<1>3. entries' = [entries EXCEPT ![n] = Tombstone]
  BY <1>2 DEF Deleted
<1>4. IsArray(entries', capacity) /\ Linked(entries', capacity)
  BY <1>1, <1>3, DeleteKeepsLinked
<1>5. capacity \in Nat /\ Tombstone # Empty /\ entries[n] # Empty
  BY <1>1, TableAssumption DEF Tombstone, Empty
<1>6. Cardinality(Used(entries')) =
        IF entries[n] = Empty THEN Cardinality(Used(entries)) + 1 ELSE Cardinality(Used(entries))
  <2>1. /\ DOMAIN entries' = 0..(capacity - 1) /\ entries'[n] # Empty
        /\ \A m \in 0..(capacity - 1) : m # n => entries'[m] = entries[m]
    BY <1>1, <1>3, <1>5 DEF IsArray
  <2> QED
    BY <1>1, <1>5, <2>1, UsedPut
<1> QED
  BY <1>1, <1>3, <1>4, <1>5, <1>6

LEMMA NextIInv == IInv /\ [Next]_vars => IInv'
<1> SUFFICES ASSUME IInv, [Next]_vars  PROVE IInv'
  OBVIOUS
<1>1. Settled' => IInv'
  BY SettledIsEnough, PTL
<1>2. Growing' => IInv'
  BY GrowingIsEnough, PTL
<1>3. /\ capacity \in Nat /\ count \in Nat /\ hash \in [Key -> HashCodes]
      /\ IsArray(entries, capacity) /\ DOMAIN entries = 0..(capacity - 1)
      /\ capacity # 0 => Searchable(entries, capacity)
      /\ Linked(entries, capacity)
      /\ pc # "rehash" => count = Cardinality(Used(entries))
  BY Facts
<1>4. pc # "rehash" => 4 * count <= 3 * capacity
  BY DEF IInv, ProbesEnd
<1>5. count # 0 /\ pc # "rehash" => capacity # 0
  BY <1>3, <1>4
<1>6. NoCall.key = None /\ NoCall \in Entry /\ None \notin Key
  BY TableAssumption DEF NoCall, Entry
\* A call that only answers.
<1>7. ASSUME pc = "idle", UNCHANGED <<hash, table, loop>>,
             result' \in [found : BOOLEAN, value : Value]
      PROVE  IInv'
  <2>1. UNCHANGED <<hash, capacity, count, entries, pc, i, call, white, fresh>>
    BY <1>7 DEF table, loop
  <2>2. TypeOK'
    BY <1>7, <2>1 DEF IInv, TypeOK, IsArray, NewCapacity
  <2>3. Linked(entries, capacity)'
    BY <1>3, <2>1, LinkedNext
  <2>4. CapacityOK' /\ CounterOK' /\ CallOK' /\ RoomOK'
    BY <1>7, <2>1 DEF IInv, CapacityOK, CounterOK, CallOK, RoomOK
  <2>5. (count = Cardinality(Used(entries)))' /\ 4 * count' <= 3 * capacity'
    BY <1>3, <1>4, <1>7, <2>1 DEF Used
  <2> QED
    BY <1>1, <1>7, <2>1, <2>2, <2>3, <2>4, <2>5 DEF Settled
<1>8. ASSUME NEW key \in Key, Get(key)  PROVE IInv'
  <2>1. pc = "idle" /\ UNCHANGED <<hash, table, loop>>
    BY <1>8 DEF Get
  <2>2. result' = IF count = 0 \/ entries[FindEntry(entries, capacity, key)].key = None
                  THEN Answer(FALSE, Nil)
                  ELSE Answer(TRUE, entries[FindEntry(entries, capacity, key)].value)
    BY <1>8 DEF Get
  <2>3. count # 0 => entries[FindEntry(entries, capacity, key)] \in Entry
    BY <1>3, <1>5, <2>1, Finds DEF IsArray
  <2>4. result' \in [found : BOOLEAN, value : Value]
    BY <2>2, <2>3, TableAssumption DEF Answer, Entry
  <2> QED
    BY <1>7, <2>1, <2>4
<1>9. ASSUME NEW key \in Key, FindString(key)  PROVE IInv'
  <2>1. pc = "idle" /\ UNCHANGED <<hash, table, loop>>
    BY <1>9 DEF FindString
  <2>2. result' \in [found : BOOLEAN, value : Value]
    BY <1>9, TableAssumption DEF FindString, Answer
  <2> QED
    BY <1>7, <2>1, <2>2
<1>10. ASSUME NEW key \in Key, Delete(key)  PROVE IInv'
  <2> DEFINE n == FindEntry(entries, capacity, key)
  <2>1. pc = "idle" /\ UNCHANGED <<hash, capacity, count, loop>>
    BY <1>10 DEF Delete
  <2>2. CASE count = 0 \/ entries[n].key = None
    <3>1. result' = Answer(FALSE, Nil) /\ UNCHANGED entries
      BY <1>10, <2>2 DEF Delete
    <3>2. result' \in [found : BOOLEAN, value : Value]
      BY <3>1, TableAssumption DEF Answer
    <3> QED
      BY <1>7, <2>1, <3>1, <3>2 DEF table
  <2>3. CASE ~ (count = 0 \/ entries[n].key = None)
    <3>1. result' = Answer(TRUE, Nil) /\ entries' = Deleted(entries, key)
      BY <1>10, <2>3 DEF Delete
    <3>2. n \in 0..(capacity - 1) /\ entries[n].key = key /\ entries[n].key # None
      BY <1>3, <1>5, <2>1, <2>3, Finds
    <3> HIDE DEF n
    <3>3. /\ IsArray(entries', capacity) /\ Linked(entries', capacity)
          /\ count = Cardinality(Used(entries'))
      BY <2>1, <3>1, <3>2, DeletedKeeps
    <3>4. UNCHANGED <<hash, capacity, count, pc, i, call, white, fresh>>
      BY <2>1 DEF loop
    <3>5. result' \in [found : BOOLEAN, value : Value]
      BY <3>1, TableAssumption DEF Answer
    <3>6. TypeOK'
      BY <2>1, <3>3, <3>4, <3>5 DEF IInv, TypeOK, IsArray, NewCapacity
    <3>7. Linked(entries, capacity)'
      BY <3>3, <3>4, LinkedNext
    <3>8. CapacityOK' /\ CounterOK' /\ CallOK' /\ RoomOK'
      BY <2>1, <3>4 DEF IInv, CapacityOK, CounterOK, CallOK, RoomOK
    <3>9. (count = Cardinality(Used(entries)))' /\ 4 * count' <= 3 * capacity'
      BY <1>4, <2>1, <3>3, <3>4 DEF Used
    <3> QED
      BY <1>1, <2>1, <3>4, <3>6, <3>7, <3>8, <3>9 DEF Settled
  <2> QED
    BY <2>2, <2>3
<1>11. ASSUME NEW key \in Key, NEW value \in Value, SetInRoom(key, value)  PROVE IInv'
  <2>1. pc = "idle" /\ ~ TooFull /\ Insert(key, value) /\ UNCHANGED <<pc, i, call, white, fresh>>
    BY <1>11 DEF SetInRoom, loop
  <2>2. /\ count' \in Nat /\ 4 * count' <= 3 * capacity
        /\ IsArray(entries', capacity) /\ Linked(entries', capacity)
        /\ count' = Cardinality(Used(entries'))
        /\ result' \in [found : BOOLEAN, value : Value]
        /\ UNCHANGED <<hash, capacity>>
    BY <2>1, InsertKeeps
  <2>3. TypeOK'
    BY <2>1, <2>2 DEF IInv, TypeOK, IsArray, NewCapacity
  <2>4. Linked(entries, capacity)'
    BY <2>2, LinkedNext
  <2>5. CapacityOK' /\ CounterOK' /\ CallOK' /\ RoomOK'
    BY <2>1, <2>2 DEF IInv, CapacityOK, CounterOK, CallOK, RoomOK
  <2>6. (count = Cardinality(Used(entries)))' /\ 4 * count' <= 3 * capacity'
    BY <2>2 DEF Used
  <2> QED
    BY <1>1, <2>1, <2>3, <2>4, <2>5, <2>6 DEF Settled
<1>12. ASSUME NEW key \in Key, NEW value \in Value, SetGrows(key, value)  PROVE IInv'
  <2>1. /\ pc = "idle" /\ pc' = "allocate" /\ call' = [key |-> key, value |-> value]
        /\ UNCHANGED <<hash, capacity, count, entries, i, white, fresh, result>>
    BY <1>12 DEF SetGrows, table
  <2>2. call' \in Entry /\ call' # NoCall /\ call'.key = key /\ key \in Key
    BY <1>6, <2>1 DEF Entry, NoCall
  <2>3. TypeOK'
    BY <2>1, <2>2 DEF IInv, TypeOK, IsArray, NewCapacity
  <2>4. Linked(entries, capacity)'
    BY <1>3, <2>1, LinkedNext
  <2>5. CapacityOK' /\ CounterOK' /\ CallOK' /\ RoomOK'
    BY <2>1, <2>2 DEF IInv, CapacityOK, CounterOK, CallOK, RoomOK
  <2>6. (count = Cardinality(Used(entries)))' /\ 4 * count' <= 3 * capacity'
    BY <1>3, <1>4, <2>1 DEF Used
  <2> QED
    BY <1>1, <2>1, <2>3, <2>4, <2>5, <2>6 DEF Settled
<1>13. ASSUME FreeTable  PROVE IInv'
  <2>1. /\ pc = "idle" /\ capacity' = 0 /\ count' = 0 /\ entries' = <<>>
        /\ UNCHANGED <<hash, pc, i, call, white, fresh, result>>
    BY <1>13 DEF FreeTable, loop
  <2>2. IsArray(<<>>, 0) /\ Used(<<>>) = {} /\ Linked(<<>>, 0)
    BY DEF IsArray, Used, Linked
  <2>3. i = 0
    BY <2>1 DEF IInv, CounterOK
  <2>4. TypeOK'
    BY <2>1, <2>2, <2>3 DEF IInv, TypeOK, IsArray, NewCapacity
  <2>5. Linked(entries, capacity)'
    BY <2>1, <2>2, LinkedNext
  <2>6. CapacityOK' /\ CounterOK' /\ CallOK' /\ RoomOK'
    BY <2>1 DEF IInv, CapacityOK, CounterOK, CallOK, RoomOK
  <2>7. (count = Cardinality(Used(entries)))' /\ 4 * count' <= 3 * capacity'
    <3>1. Used(entries)' = {}
      BY <2>1, <2>2 DEF Used
    <3> QED
      BY <2>1, <3>1, FS_EmptySet
  <2> QED
    BY <1>1, <2>1, <2>4, <2>5, <2>6, <2>7 DEF Settled
<1>14. ASSUME Collect  PROVE IInv'
  <2>1. /\ pc \in {"idle", "allocate"} /\ pc' = "removeWhite" /\ i' = 0
        /\ white' \subseteq Keys(entries)
        /\ UNCHANGED <<hash, capacity, count, entries, call, fresh, result>>
    BY <1>14 DEF Collect, table
  <2>2. white' \subseteq Key
    BY <1>3, <2>1 DEF Keys, IsArray, Entry
  <2>3. call = NoCall <=> call.key = None
    BY <1>6 DEF IInv, CallOK
  <2>4. TypeOK'
    BY <1>3, <1>6, <2>1, <2>2, <2>3 DEF IInv, TypeOK, IsArray, NewCapacity
  <2>5. Linked(entries, capacity)'
    BY <1>3, <2>1, LinkedNext
  <2>6. CapacityOK' /\ CounterOK' /\ CallOK' /\ RoomOK'
    BY <2>1 DEF IInv, CapacityOK, CounterOK, CallOK, RoomOK
  <2>7. (count = Cardinality(Used(entries)))' /\ 4 * count' <= 3 * capacity'
    BY <1>3, <1>4, <2>1 DEF Used
  <2> QED
    BY <1>1, <2>1, <2>4, <2>5, <2>6, <2>7 DEF Settled
<1>15. ASSUME RemoveWhite  PROVE IInv'
  <2>1. /\ pc = "removeWhite" /\ i < capacity /\ i' = i + 1
        /\ UNCHANGED <<hash, capacity, count, pc, call, white, fresh, result>>
    BY <1>15 DEF RemoveWhite
  <2>2. /\ IsArray(entries', capacity) /\ Linked(entries', capacity)
        /\ count = Cardinality(Used(entries'))
    <3>1. CASE entries[i].key \in white
      <4>1. i \in 0..(capacity - 1) /\ entries[i].key # None
        BY <1>3, <1>6, <2>1, <3>1 DEF IInv, TypeOK
      <4>2. entries' = Deleted(entries, entries[i].key)
        BY <1>15, <3>1 DEF RemoveWhite
      <4> QED
        BY <2>1, <4>1, <4>2, DeletedKeeps
    <3>2. CASE entries[i].key \notin white
      <4>1. entries' = entries
        BY <1>15, <3>2 DEF RemoveWhite
      <4> QED
        BY <1>3, <2>1, <4>1
    <3> QED
      BY <3>1, <3>2
  <2>3. i' \in 0..capacity
    BY <1>3, <2>1 DEF IInv, TypeOK
  <2>4. TypeOK'
    BY <2>1, <2>2, <2>3 DEF IInv, TypeOK, IsArray, NewCapacity
  <2>5. Linked(entries, capacity)'
    BY <2>1, <2>2, LinkedNext
  <2>6. CapacityOK' /\ CounterOK' /\ CallOK' /\ RoomOK'
    BY <2>1 DEF IInv, CapacityOK, CounterOK, CallOK, RoomOK
  <2>7. (count = Cardinality(Used(entries)))' /\ 4 * count' <= 3 * capacity'
    BY <1>4, <2>1, <2>2 DEF Used
  <2> QED
    BY <1>1, <2>1, <2>4, <2>5, <2>6, <2>7 DEF Settled
<1>16. ASSUME Collected  PROVE IInv'
  <2>1. /\ pc = "removeWhite" /\ pc' = (IF call = NoCall THEN "idle" ELSE "allocated")
        /\ i' = 0 /\ white' = {}
        /\ UNCHANGED <<hash, capacity, count, entries, call, fresh, result>>
    BY <1>16 DEF Collected, table
  <2>2. TypeOK'
    BY <1>3, <2>1 DEF IInv, TypeOK, IsArray, NewCapacity
  <2>3. Linked(entries, capacity)'
    BY <1>3, <2>1, LinkedNext
  <2>4. CapacityOK' /\ CounterOK' /\ CallOK' /\ RoomOK'
    BY <2>1 DEF IInv, CapacityOK, CounterOK, CallOK, RoomOK
  <2>5. (count = Cardinality(Used(entries)))' /\ 4 * count' <= 3 * capacity'
    BY <1>3, <1>4, <2>1 DEF Used
  <2> QED
    BY <1>1, <2>1, <2>2, <2>3, <2>4, <2>5 DEF Settled
<1>17. ASSUME BeginRehash  PROVE IInv'
  <2>1. /\ pc \in {"allocate", "allocated"} /\ pc' = "rehash" /\ i' = 0 /\ count' = 0
        /\ fresh' = [n \in 0..(NewCapacity - 1) |-> Empty]
        /\ UNCHANGED <<hash, capacity, entries, call, white, result>>
    BY <1>17 DEF BeginRehash
  <2>2. NewCapacity \in Nat /\ NewCapacity' = NewCapacity
    BY <2>1, Facts DEF NewCapacity
  <2>3. /\ IsArray(fresh', NewCapacity) /\ Linked(fresh', NewCapacity)
        /\ Cardinality(Used(fresh')) = 0
    BY <2>1, <2>2, UsedNone
  <2>4. TypeOK'
    BY <1>3, <2>1, <2>2, <2>3 DEF IInv, TypeOK, IsArray
  <2>5. Linked(entries, capacity)' /\ Linked(fresh, NewCapacity)'
    BY <1>3, <2>1, <2>2, <2>3, LinkedNext
  <2>6. CapacityOK' /\ CallOK'
    BY <2>1 DEF IInv, CapacityOK, CallOK
  <2>7. RehashOK'
    <3>1. \A n \in DOMAIN fresh' : fresh'[n] = Empty
      BY <2>1
    <3>2. Empty.key = None
      BY DEF Empty
    <3> QED
      BY <2>1, <3>1, <3>2 DEF RehashOK
  <2>8. (count = Cardinality(Used(fresh)))'
    BY <2>1, <2>3 DEF Used
  <2>9. (capacity # 0 => \E n \in 0..(capacity - 1) : entries[n] = Empty)'
    BY <1>3, <2>1 DEF Searchable
  <2> QED
    BY <1>2, <2>1, <2>4, <2>5, <2>6, <2>7, <2>8, <2>9 DEF Growing
<1>18. ASSUME Rehash  PROVE IInv'
  <2> DEFINE key == entries[i].key
             n   == FindEntry(fresh, NewCapacity, key)
  <2>1. /\ pc = "rehash" /\ i < capacity /\ i' = i + 1
        /\ UNCHANGED <<hash, capacity, entries, pc, call, white, result>>
    BY <1>18 DEF Rehash
  <2>2. i \in 0..(capacity - 1) /\ i' \in 0..capacity /\ i \in Nat /\ entries[i] \in Entry
    BY <1>3, <2>1 DEF IInv, TypeOK, IsArray
  <2>3. /\ IsArray(fresh, NewCapacity) /\ DOMAIN fresh = 0..(NewCapacity - 1)
        /\ Searchable(fresh, NewCapacity) /\ Linked(fresh, NewCapacity)
        /\ count = Cardinality(Used(fresh)) /\ NewCapacity \in Nat
    BY <2>1, Facts
  <2>4. NewCapacity' = NewCapacity
    BY <2>1 DEF NewCapacity
  <2>5. /\ count <= i
        /\ \A m \in DOMAIN fresh : fresh[m].key = None => fresh[m] = Empty
        /\ \A m \in DOMAIN fresh : fresh[m].key # None => \E j \in 0..(i - 1) : fresh[m] = entries[j]
        /\ \A j \in 0..(i - 1) : entries[j].key # None => \E m \in DOMAIN fresh : fresh[m] = entries[j]
    BY <2>1 DEF IInv, RehashOK
  <2>6. /\ IsArray(fresh', NewCapacity) /\ Linked(fresh', NewCapacity)
        /\ count' = Cardinality(Used(fresh')) /\ count' \in Nat /\ count' <= i'
        /\ \A m \in DOMAIN fresh' : fresh'[m].key = None => fresh'[m] = Empty
        /\ \A m \in DOMAIN fresh' : fresh'[m].key # None => \E j \in 0..i : fresh'[m] = entries[j]
        /\ \A j \in 0..i : entries[j].key # None => \E m \in DOMAIN fresh' : fresh'[m] = entries[j]
    <3>1. CASE key = None
      <4>1. UNCHANGED <<count, fresh>>
        BY <1>18, <3>1 DEF Rehash
      <4>2. \A j \in 0..i : j \in 0..(i - 1) \/ j = i
        BY <2>2
      <4>3. \A j \in 0..(i - 1) : j \in 0..i
        BY <2>2
      <4> QED
        BY <1>3, <2>1, <2>2, <2>3, <2>5, <3>1, <4>1, <4>2, <4>3
    <3>2. CASE key # None
      <4>1. fresh' = [fresh EXCEPT ![n] = entries[i]] /\ count' = count + 1
        BY <1>18, <3>2 DEF Rehash
      <4>2. key \in Key /\ entries[i].value \in Value
        BY <2>2, <3>2 DEF Entry
      <4>3. entries[i] = [key |-> key, value |-> entries[i].value]
        BY <2>2 DEF Entry
      <4>4. n \in 0..(NewCapacity - 1) /\ fresh[n].key \in {None, key}
        BY <1>3, <2>3, <4>2, Finds
      <4>5. IsArray(fresh', NewCapacity) /\ Linked(fresh', NewCapacity)
        BY <1>3, <2>3, <4>1, <4>2, <4>3, PutKeepsLinked
      <4> HIDE DEF n
      \* The key has not been here: it is in one entry of the old array only.
      <4>6. fresh[n].key = None
        <5> SUFFICES ASSUME fresh[n].key = key  PROVE FALSE
          BY <4>4
        <5>1. PICK j \in 0..(i - 1) : fresh[n] = entries[j]
          BY <2>3, <2>5, <3>2, <4>4
        <5>2. entries[j].key = key /\ j \in DOMAIN entries /\ i \in DOMAIN entries /\ j # i
          BY <1>3, <2>2, <5>1
        <5>3. /\ FindEntry(entries, capacity, entries[j].key) = j
              /\ FindEntry(entries, capacity, entries[i].key) = i
          BY <3>2, <5>2 DEF IInv, KeysAreFound
        <5> QED
          BY <5>2, <5>3
      <4>7. fresh[n] = Empty /\ entries[i] # Empty
        BY <2>3, <2>5, <3>2, <4>4, <4>6 DEF Empty
      <4>8. /\ DOMAIN fresh' = 0..(NewCapacity - 1) /\ fresh'[n] = entries[i]
            /\ \A m \in 0..(NewCapacity - 1) : m # n => fresh'[m] = fresh[m]
        BY <2>3, <4>1, <4>4
      <4>9. count' = Cardinality(Used(fresh')) /\ count' \in Nat /\ count' <= i'
        <5>1. Cardinality(Used(fresh')) =
                IF fresh[n] = Empty THEN Cardinality(Used(fresh)) + 1 ELSE Cardinality(Used(fresh))
          BY <2>3, <4>4, <4>7, <4>8, UsedPut
        <5> QED
          BY <1>3, <2>1, <2>2, <2>3, <2>5, <4>1, <4>7, <5>1
      <4>10. \A m \in DOMAIN fresh' : fresh'[m].key = None => fresh'[m] = Empty
        BY <2>3, <2>5, <3>2, <4>8
      <4>11. \A m \in DOMAIN fresh' : fresh'[m].key # None => \E j \in 0..i : fresh'[m] = entries[j]
        <5> SUFFICES ASSUME NEW m \in 0..(NewCapacity - 1), fresh'[m].key # None
                     PROVE  \E j \in 0..i : fresh'[m] = entries[j]
          BY <4>8
        <5>1. CASE m = n
          BY <2>2, <4>8, <5>1
        <5>2. CASE m # n
          <6>1. PICK j \in 0..(i - 1) : fresh[m] = entries[j]
            BY <2>3, <2>5, <4>8, <5>2
          <6>2. j \in 0..i
            BY <2>2
          <6> QED
            BY <4>8, <5>2, <6>1, <6>2
        <5> QED
          BY <5>1, <5>2
      <4>12. \A j \in 0..i : entries[j].key # None => \E m \in DOMAIN fresh' : fresh'[m] = entries[j]
        <5> SUFFICES ASSUME NEW j \in 0..i, entries[j].key # None
                     PROVE  \E m \in 0..(NewCapacity - 1) : fresh'[m] = entries[j]
          BY <4>8
        <5>1. CASE j = i
          BY <4>4, <4>8, <5>1
        <5>2. CASE j # i
          <6>1. j \in 0..(i - 1)
            BY <2>2, <5>2
          <6>2. PICK m \in 0..(NewCapacity - 1) : fresh[m] = entries[j]
            BY <2>3, <2>5, <6>1
          <6>3. m # n
            BY <4>6, <6>2
          <6> QED
            BY <4>8, <6>2, <6>3
        <5> QED
          BY <5>1, <5>2
      <4> QED
        BY <4>5, <4>9, <4>10, <4>11, <4>12
    <3> QED
      BY <3>1, <3>2
  <2>7. TypeOK'
    BY <1>3, <2>1, <2>2, <2>4, <2>6 DEF IInv, TypeOK, IsArray
  <2>8. Linked(entries, capacity)' /\ Linked(fresh, NewCapacity)'
    BY <1>3, <2>1, <2>4, <2>6, LinkedNext
  <2>9. CapacityOK' /\ CallOK'
    BY <2>1 DEF IInv, CapacityOK, CallOK
  <2>10. RehashOK'
    <3>1. i' - 1 = i
      BY <2>1, <2>2
    <3> QED
      BY <2>1, <2>6, <3>1 DEF RehashOK
  <2>11. (count = Cardinality(Used(fresh)))'
    BY <2>6 DEF Used
  <2>12. (capacity # 0 => \E m \in 0..(capacity - 1) : entries[m] = Empty)'
    BY <1>3, <2>1 DEF Searchable
  <2> QED
    BY <1>2, <2>1, <2>7, <2>8, <2>9, <2>10, <2>11, <2>12 DEF Growing
<1>19. ASSUME EndRehash  PROVE IInv'
  <2>1. /\ pc = "rehash" /\ i = capacity /\ entries' = fresh /\ capacity' = NewCapacity
        /\ fresh' = <<>> /\ i' = 0 /\ pc' = "insert"
        /\ UNCHANGED <<hash, count, call, white, result>>
    BY <1>19 DEF EndRehash
  <2>2. /\ IsArray(fresh, NewCapacity) /\ Linked(fresh, NewCapacity)
        /\ count = Cardinality(Used(fresh)) /\ NewCapacity \in Nat
        /\ 4 * (capacity + 1) <= 3 * NewCapacity /\ NewCapacity >= MinCapacity
    BY <2>1, Facts
  <2>3. count <= capacity
    BY <2>1 DEF IInv, RehashOK
  <2>4. TypeOK'
    <3>1. i' \in 0..capacity' /\ capacity' \in Nat /\ IsArray(entries', capacity') /\ IsArray(fresh', 0)
      BY <2>1, <2>2 DEF IsArray
    <3> QED
      BY <2>1, <3>1 DEF IInv, TypeOK, IsArray
  <2>5. Linked(entries, capacity)'
    BY <2>1, <2>2, LinkedNext
  <2>6. 4 * (count + 1) <= 3 * NewCapacity
    BY <1>3, <2>2, <2>3
  <2>7. CapacityOK' /\ CounterOK' /\ CallOK' /\ RoomOK'
    BY <1>3, <2>1, <2>2, <2>6 DEF IInv, CapacityOK, CounterOK, CallOK, RoomOK, TooFull
  <2>8. (count = Cardinality(Used(entries)))' /\ 4 * count' <= 3 * capacity'
    BY <1>3, <2>1, <2>2, <2>6 DEF Used
  <2> QED
    BY <1>1, <2>1, <2>4, <2>5, <2>7, <2>8 DEF Settled
<1>20. ASSUME SetGrown  PROVE IInv'
  <2>1. /\ pc = "insert" /\ Insert(call.key, call.value) /\ pc' = "idle" /\ call' = NoCall
        /\ UNCHANGED <<i, white, fresh>>
    BY <1>20 DEF SetGrown
  <2>2. call.key \in Key /\ call.value \in Value /\ ~ TooFull
    BY <2>1 DEF IInv, TypeOK, Entry, CallOK, RoomOK
  <2>3. /\ count' \in Nat /\ 4 * count' <= 3 * capacity
        /\ IsArray(entries', capacity) /\ Linked(entries', capacity)
        /\ count' = Cardinality(Used(entries'))
        /\ result' \in [found : BOOLEAN, value : Value]
        /\ UNCHANGED <<hash, capacity>>
    BY <2>1, <2>2, InsertKeeps
  <2>4. TypeOK'
    BY <1>6, <2>1, <2>3 DEF IInv, TypeOK, IsArray, NewCapacity
  <2>5. Linked(entries, capacity)'
    BY <2>3, LinkedNext
  <2>6. CapacityOK' /\ CounterOK' /\ CallOK' /\ RoomOK'
    BY <2>1, <2>3 DEF IInv, CapacityOK, CounterOK, CallOK, RoomOK
  <2>7. (count = Cardinality(Used(entries)))' /\ 4 * count' <= 3 * capacity'
    BY <2>3 DEF Used
  <2> QED
    BY <1>1, <2>1, <2>4, <2>5, <2>6, <2>7 DEF Settled
<1>21. CASE UNCHANGED vars
  <2>1. UNCHANGED <<hash, capacity, count, entries, pc, i, call, white, fresh, result>>
    BY <1>21 DEF vars
  <2>2. TypeOK' /\ CapacityOK' /\ CounterOK' /\ CallOK' /\ RoomOK' /\ RehashOK'
    BY <2>1 DEF IInv, TypeOK, IsArray, NewCapacity, GrowCapacity, CapacityOK, CounterOK, CallOK,
                RoomOK, TooFull, RehashOK
  <2>3. Linked(entries, capacity)'
    BY <1>3, <2>1, LinkedNext
  <2>4. CASE pc # "rehash"
    <3>1. (count = Cardinality(Used(entries)))' /\ 4 * count' <= 3 * capacity'
      BY <1>3, <1>4, <2>1, <2>4 DEF Used
    <3> QED
      BY <1>1, <2>1, <2>2, <2>3, <2>4, <3>1 DEF Settled
  <2>5. CASE pc = "rehash"
    <3>1. Linked(fresh, NewCapacity) /\ count = Cardinality(Used(fresh))
      BY <2>5, Facts
    <3>2. NewCapacity' = NewCapacity
      BY <2>1 DEF NewCapacity
    <3>3. Linked(fresh, NewCapacity)'
      BY <2>1, <3>1, <3>2, LinkedNext
    <3>4. (count = Cardinality(Used(fresh)))'
      BY <2>1, <3>1 DEF Used
    <3>5. (capacity # 0 => \E m \in 0..(capacity - 1) : entries[m] = Empty)'
      BY <1>3, <2>1 DEF Searchable
    <3> QED
      BY <1>2, <2>1, <2>2, <2>3, <2>5, <3>3, <3>4, <3>5 DEF Growing
  <2> QED
    BY <2>4, <2>5
<1> QED
  BY <1>8, <1>9, <1>10, <1>11, <1>12, <1>13, <1>14, <1>15, <1>16, <1>17, <1>18, <1>19, <1>20, <1>21
  DEF Next, Calls, Loops

\* The inductive invariant holds in every reachable state.
THEOREM Inductive == Spec => []IInv
BY InitIInv, NextIInv, PTL DEF Spec

\* Every variable has its type, and every array the length that its capacity says.
THEOREM TypesHold == Spec => []TypeOK
<1>1. IInv => TypeOK
  BY DEF IInv
<1> QED
  BY <1>1, Inductive, PTL

\* table->count counts keys and tombstones, however often they come and go.
THEOREM CountsExactly == Spec => []CountIsExact
<1>1. IInv => CountIsExact
  BY DEF IInv
<1> QED
  BY <1>1, Inductive, PTL

\* The loops of findEntry() and tableFindString() end at every capacity.
THEOREM ProbesAlwaysEnd == Spec => []ProbesEnd
<1>1. IInv => ProbesEnd
  BY DEF IInv
<1> QED
  BY <1>1, Inductive, PTL

\* No key is ever lost in the array, nor in the one that replaces it.
THEOREM NoKeyIsLost == Spec => []KeysAreFound
<1>1. IInv => KeysAreFound
  BY DEF IInv
<1> QED
  BY <1>1, Inductive, PTL

----------------------------------------------------------------------------
(***************************************************************************)
(* The table is a finite map.                                              *)
(***************************************************************************)

\* What the map is.
Mapped ==
  /\ DOMAIN Contents = Keys(entries)
  /\ Contents = [key \in Keys(entries) |-> Contents[key]]
  /\ \A key : key \in Keys(entries) <=> key # None /\ \E n \in DOMAIN entries : entries[n].key = key
  /\ \A n \in DOMAIN entries : entries[n].key # None => Contents[entries[n].key] = entries[n].value

LEMMA ContentsIsMapped == IInv => Mapped
<1> SUFFICES ASSUME IInv  PROVE Mapped
  OBVIOUS
<1>1. \A key : key \in Keys(entries) <=> key # None /\ \E n \in DOMAIN entries : entries[n].key = key
  BY DEF Keys
<1>2. ASSUME NEW n \in DOMAIN entries, entries[n].key # None
      PROVE  Contents[entries[n].key] = entries[n].value
  <2> DEFINE m == CHOOSE m \in DOMAIN entries : entries[m].key = entries[n].key
  <2>1. m \in DOMAIN entries /\ entries[m].key = entries[n].key
    OBVIOUS
  <2>2. Contents[entries[n].key] = entries[m].value
    BY <1>1, <1>2 DEF Contents
  <2> HIDE DEF m
  <2>3. /\ FindEntry(entries, capacity, entries[m].key) = m
        /\ FindEntry(entries, capacity, entries[n].key) = n
    BY <1>2, <2>1 DEF IInv, KeysAreFound
  <2> QED
    BY <2>1, <2>2, <2>3
<1> QED
  BY <1>1, <1>2 DEF Mapped, Contents

\* A table whose count is 0 has no keys, and a search in any other tells whether the
\* key is there.
LEMMA SearchTells ==
  ASSUME IInv, pc # "rehash", NEW key \in Key
  PROVE  /\ count = 0 => Keys(entries) = {}
         /\ count # 0 =>
              LET n == FindEntry(entries, capacity, key)
              IN  /\ n \in 0..(capacity - 1) /\ n \in DOMAIN entries
                  /\ entries[n].key \in {None, key}
                  /\ entries[n].key = None <=> key \notin Keys(entries)
                  /\ entries[Probe(key, capacity, Min(Stops(entries, capacity, key)))].key = key
                       <=> key \in Keys(entries)
<1>1. /\ capacity \in Nat /\ count = Cardinality(Used(entries)) /\ count \in Nat
      /\ hash \in [Key -> HashCodes] /\ 4 * count <= 3 * capacity
      /\ IsArray(entries, capacity) /\ DOMAIN entries = 0..(capacity - 1)
      /\ capacity # 0 => Searchable(entries, capacity)
      /\ Linked(entries, capacity)
  BY Facts DEF IInv, ProbesEnd
<1>2. key # None
  BY TableAssumption
<1>3. ASSUME count = 0  PROVE Keys(entries) = {}
  <2>1. \A n \in DOMAIN entries : entries[n] = Empty
    BY <1>1, <1>3, UsedIsFinite
  <2> QED
    BY <2>1 DEF Keys, Empty
<1>4. ASSUME count # 0
      PROVE  LET n == FindEntry(entries, capacity, key)
             IN  /\ n \in 0..(capacity - 1) /\ n \in DOMAIN entries
                 /\ entries[n].key \in {None, key}
                 /\ entries[n].key = None <=> key \notin Keys(entries)
                 /\ entries[Probe(key, capacity, Min(Stops(entries, capacity, key)))].key = key
                      <=> key \in Keys(entries)
  <2> DEFINE n    == FindEntry(entries, capacity, key)
             stop == Min(Stops(entries, capacity, key))
  <2>1. Searchable(entries, capacity)
    BY <1>1, <1>4
  <2>2. /\ n \in 0..(capacity - 1) /\ entries[n].key \in {None, key}
        /\ \A m \in 0..(capacity - 1) : entries[m].key = key => m = n
        /\ entries[Probe(key, capacity, stop)].key = key <=> entries[n].key = key
    BY <1>1, <2>1, Finds
  <2> HIDE DEF n, stop
  <2>3. key \in Keys(entries) <=> entries[n].key = key
    BY <1>1, <1>2, <2>2 DEF Keys
  <2>4. /\ n \in 0..(capacity - 1) /\ n \in DOMAIN entries
        /\ entries[n].key \in {None, key}
        /\ entries[n].key = None <=> key \notin Keys(entries)
        /\ entries[Probe(key, capacity, stop)].key = key <=> key \in Keys(entries)
    BY <1>1, <1>2, <2>2, <2>3
  <2> QED
    BY <2>4 DEF n, stop
<1> QED
  BY <1>3, <1>4

\* tableSet() sets the key in the map and leaves all others alone.
LEMMA InsertIsSet ==
  ASSUME IInv, Mapped, Mapped', pc # "rehash", ~ TooFull, NEW key \in Key, NEW value \in Value,
         Insert(key, value)
  PROVE  Map!Set(key, value)
<1> DEFINE n == FindEntry(entries, capacity, key)
<1>1. /\ capacity \in Nat \ {0} /\ hash \in [Key -> HashCodes] /\ key # None
      /\ DOMAIN entries = 0..(capacity - 1)
      /\ Searchable(entries, capacity) /\ Linked(entries, capacity)
  BY Facts, TableAssumption DEF TooFull
<1>2. /\ n \in DOMAIN entries /\ entries[n].key \in {None, key}
      /\ \A m \in DOMAIN entries : entries[m].key = key => m = n
  BY <1>1, Finds
<1>3. /\ entries' = [entries EXCEPT ![n] = [key |-> key, value |-> value]]
      /\ result' = Answer(entries[n].key = None, Nil)
  BY DEF Insert
<1> HIDE DEF n
<1>4. /\ DOMAIN entries' = DOMAIN entries /\ entries'[n] = [key |-> key, value |-> value]
      /\ \A m \in DOMAIN entries : m # n => entries'[m] = entries[m]
  BY <1>2, <1>3
<1>5. entries[n].key = None <=> key \notin Keys(entries)
  BY <1>1, <1>2 DEF Mapped
<1>6. Keys(entries') = Keys(entries) \cup {key}
  <2>1. ASSUME NEW k \in Keys(entries')  PROVE k \in Keys(entries) \cup {key}
    <3>1. PICK m \in DOMAIN entries : entries'[m].key = k /\ k # None
      BY <1>4 DEF Keys
    <3> QED
      BY <1>4, <3>1 DEF Keys
  <2>2. ASSUME NEW k \in Keys(entries), k # key  PROVE k \in Keys(entries')
    <3>1. PICK m \in DOMAIN entries : entries[m].key = k /\ k # None
      BY DEF Keys
    <3>2. m # n
      BY <1>2, <2>2, <3>1
    <3> QED
      BY <1>4, <3>1, <3>2 DEF Keys
  <2>3. key \in Keys(entries')
    BY <1>1, <1>2, <1>4 DEF Keys
  <2> QED
    BY <2>1, <2>2, <2>3
<1>7. ASSUME NEW k \in Keys(entries')
      PROVE  Contents'[k] = IF k = key THEN value ELSE Contents[k]
  <2>1. CASE k = key
    BY <1>1, <1>2, <1>4, <2>1 DEF Mapped
  <2>2. CASE k # key
    <3>1. PICK m \in DOMAIN entries : entries[m].key = k /\ k # None
      BY <1>6, <2>2 DEF Keys
    <3>2. m # n
      BY <1>2, <2>2, <3>1
    <3>3. Contents[k] = entries[m].value
      BY <3>1 DEF Mapped
    <3>4. Contents'[k] = entries'[m].value
      BY <1>4, <3>1, <3>2 DEF Mapped
    <3> QED
      BY <1>4, <2>2, <3>2, <3>3, <3>4
  <2> QED
    BY <2>1, <2>2
<1>8. DOMAIN Contents = Keys(entries) /\ Contents' = [k \in Keys(entries') |-> Contents'[k]]
  BY DEF Mapped
<1>9. Contents' = [k \in DOMAIN Contents \cup {key} |-> IF k = key THEN value ELSE Contents[k]]
  BY <1>6, <1>7, <1>8
<1>10. result' = Map!Answer(key \notin DOMAIN Contents, Nil)
  BY <1>3, <1>5, <1>8 DEF Answer, Map!Answer
<1> QED
  BY <1>9, <1>10 DEF Map!Set

\* A tombstone instead of an entry takes its key out of the map.
LEMMA DeletedIsWithout ==
  ASSUME IInv, Mapped, Mapped', pc # "rehash", NEW n \in DOMAIN entries, entries[n].key # None,
         entries' = Deleted(entries, entries[n].key)
  PROVE  Contents' = Map!Without(entries[n].key)
<1> DEFINE key == entries[n].key
<1>1. DOMAIN entries = 0..(capacity - 1)
  BY Facts
<1>2. entries' = [entries EXCEPT ![n] = Tombstone]
  BY <1>1, DeletedKeeps
<1>3. /\ DOMAIN entries' = DOMAIN entries /\ entries'[n].key = None
      /\ \A m \in DOMAIN entries : m # n => entries'[m] = entries[m]
  BY <1>2 DEF Tombstone
<1>4. \A m \in DOMAIN entries : entries[m].key = key => m = n
  <2> SUFFICES ASSUME NEW m \in DOMAIN entries, entries[m].key = key  PROVE m = n
    OBVIOUS
  <2>1. /\ FindEntry(entries, capacity, entries[m].key) = m
        /\ FindEntry(entries, capacity, entries[n].key) = n
    BY DEF IInv, KeysAreFound
  <2> QED
    BY <2>1
<1>5. Keys(entries') = Keys(entries) \ {key}
  <2>1. ASSUME NEW k \in Keys(entries')  PROVE k \in Keys(entries) \ {key}
    <3>1. PICK m \in DOMAIN entries : entries'[m].key = k /\ k # None
      BY <1>3 DEF Keys
    <3>2. m # n
      BY <1>3, <3>1
    <3> QED
      BY <1>3, <1>4, <3>1, <3>2 DEF Keys
  <2>2. ASSUME NEW k \in Keys(entries), k # key  PROVE k \in Keys(entries')
    <3>1. PICK m \in DOMAIN entries : entries[m].key = k /\ k # None
      BY DEF Keys
    <3>2. m # n
      BY <2>2, <3>1
    <3> QED
      BY <1>3, <3>1, <3>2 DEF Keys
  <2> QED
    BY <2>1, <2>2
<1>6. ASSUME NEW k \in Keys(entries')  PROVE Contents'[k] = Contents[k]
  <2>1. PICK m \in DOMAIN entries : entries'[m].key = k /\ k # None
    BY <1>3 DEF Keys
  <2>2. m # n
    BY <1>3, <2>1
  <2>3. Contents'[k] = entries'[m].value
    BY <1>3, <2>1 DEF Mapped
  <2>4. Contents[k] = entries[m].value
    BY <1>3, <2>1, <2>2 DEF Mapped
  <2> QED
    BY <1>3, <2>2, <2>3, <2>4
<1>7. DOMAIN Contents = Keys(entries) /\ Contents' = [k \in Keys(entries') |-> Contents'[k]]
  BY DEF Mapped
<1> QED
  BY <1>5, <1>6, <1>7 DEF Map!Without

\* The array that has been filled says what the old one did.
LEMMA RehashIsSilent ==
  ASSUME IInv, Mapped, Mapped', EndRehash
  PROVE  Contents' = Contents
<1>1. pc = "rehash" /\ i = capacity /\ entries' = fresh
  BY DEF EndRehash
<1>2. DOMAIN entries = 0..(i - 1)
  BY <1>1, Facts
<1>3. /\ \A n \in DOMAIN fresh : fresh[n].key # None => \E m \in DOMAIN entries : fresh[n] = entries[m]
      /\ \A m \in DOMAIN entries : entries[m].key # None => \E n \in DOMAIN fresh : fresh[n] = entries[m]
  BY <1>1, <1>2 DEF IInv, RehashOK
<1>4. Keys(entries') = Keys(entries)
  <2>1. \A k \in Keys(entries') : k \in Keys(entries)
    BY <1>1, <1>3 DEF Keys
  <2>2. \A k \in Keys(entries) : k \in Keys(entries')
    BY <1>1, <1>3 DEF Keys
  <2> QED
    BY <2>1, <2>2
<1>5. ASSUME NEW k \in Keys(entries)  PROVE Contents'[k] = Contents[k]
  <2>1. PICK m \in DOMAIN entries : entries[m].key = k /\ k # None
    BY DEF Keys
  <2>2. PICK n \in DOMAIN fresh : fresh[n] = entries[m]
    BY <1>3, <2>1
  <2>3. Contents[k] = entries[m].value
    BY <2>1 DEF Mapped
  <2>4. Contents'[k] = fresh[n].value
    BY <1>1, <2>1, <2>2 DEF Mapped
  <2> QED
    BY <2>2, <2>3, <2>4
<1>6. /\ Contents = [k \in Keys(entries) |-> Contents[k]]
      /\ Contents' = [k \in Keys(entries') |-> Contents'[k]]
  BY DEF Mapped
<1> QED
  BY <1>4, <1>5, <1>6

LEMMA InitRefines == Init => Map!Init
<1> SUFFICES ASSUME Init  PROVE Map!Init
  OBVIOUS
<1>1. entries = <<>> /\ result = Answer(FALSE, Nil)
  BY DEF Init
<1>2. Keys(entries) = {}
  BY <1>1 DEF Keys
<1>3. Contents = <<>>
  BY <1>2 DEF Contents
<1> QED
  BY <1>1, <1>3 DEF Map!Init, Answer, Map!Answer

LEMMA StepRefines == IInv /\ IInv' /\ [Next]_vars => [Map!Next]_(Map!vars)
<1> SUFFICES ASSUME IInv, IInv', [Next]_vars
             PROVE  Map!Next \/ UNCHANGED <<Contents, result>>
  BY DEF Map!vars
<1>1. Mapped /\ Mapped'
  <2>1. Mapped
    BY ContentsIsMapped
  <2>2. IInv' => Mapped'
    BY ContentsIsMapped, PTL
  <2> QED
    BY <2>1, <2>2
<1>2. DOMAIN Contents = Keys(entries) /\ Contents = [k \in Keys(entries) |-> Contents[k]]
  BY <1>1 DEF Mapped
<1>3. UNCHANGED entries => UNCHANGED Contents
  BY DEF Contents, Keys
<1>4. DOMAIN entries = 0..(capacity - 1) /\ capacity \in Nat
  BY Facts
<1>5. ASSUME NEW key \in Key, Get(key)  PROVE Map!Next
  <2> DEFINE n == FindEntry(entries, capacity, key)
  <2>1. /\ pc = "idle" /\ UNCHANGED entries
        /\ result' = IF count = 0 \/ entries[n].key = None
                     THEN Answer(FALSE, Nil) ELSE Answer(TRUE, entries[n].value)
    BY <1>5 DEF Get, table
  <2>2. CASE count = 0
    BY <1>2, <1>3, <2>1, <2>2, SearchTells DEF Map!Next, Map!Get, Answer, Map!Answer
  <2>3. CASE count # 0
    <3>1. /\ n \in DOMAIN entries /\ entries[n].key \in {None, key}
          /\ entries[n].key = None <=> key \notin Keys(entries)
      BY <2>1, <2>3, SearchTells
    <3> HIDE DEF n
    <3>2. entries[n].key # None => Contents[key] = entries[n].value
      BY <1>1, <3>1 DEF Mapped
    <3>3. Map!Get(key)
      BY <1>2, <1>3, <2>1, <2>3, <3>1, <3>2 DEF Map!Get, Answer, Map!Answer
    <3> QED
      BY <3>3 DEF Map!Next
  <2> QED
    BY <2>2, <2>3
<1>6. ASSUME NEW key \in Key, FindString(key)  PROVE Map!Next
  <2>1. /\ pc = "idle" /\ UNCHANGED entries
        /\ result' = IF count = 0 THEN Answer(FALSE, Nil)
                     ELSE Answer(entries[Probe(key, capacity, Min(Stops(entries, capacity, key)))].key = key, Nil)
    BY <1>6 DEF FindString, table
  <2>2. result' = Map!Answer(key \in DOMAIN Contents, Nil)
    <3>1. CASE count = 0
      <4>1. result' = Answer(FALSE, Nil)
        BY <2>1, <3>1
      <4>2. (key \in DOMAIN Contents) = FALSE
        BY <1>2, <2>1, <3>1, SearchTells
      <4> QED
        BY <4>1, <4>2 DEF Answer, Map!Answer
    <3>2. CASE count # 0
      <4>1. entries[Probe(key, capacity, Min(Stops(entries, capacity, key)))].key = key
              <=> key \in Keys(entries)
        BY <2>1, <3>2, SearchTells
      <4> QED
        BY <1>2, <2>1, <3>2, <4>1 DEF Answer, Map!Answer
    <3> QED
      BY <3>1, <3>2
  <2> QED
    BY <1>3, <2>1, <2>2 DEF Map!Next, Map!FindString
<1>7. ASSUME NEW key \in Key, Delete(key)  PROVE Map!Next
  <2> DEFINE n == FindEntry(entries, capacity, key)
  <2>1. pc = "idle"
    BY <1>7 DEF Delete
  <2>2. CASE count = 0 \/ entries[n].key = None
    <3>1. result' = Answer(FALSE, Nil) /\ UNCHANGED entries
      BY <1>7, <2>2 DEF Delete
    <3>2. key \notin DOMAIN Contents
      BY <1>2, <2>1, <2>2, SearchTells
    <3>3. Contents' = Map!Without(key)
      <4>1. DOMAIN Contents \ {key} = Keys(entries)
        BY <1>2, <3>2
      <4> QED
        BY <1>2, <1>3, <3>1, <4>1 DEF Map!Without
    <3>4. result' = Map!Answer(key \in DOMAIN Contents, Nil)
      <4>1. (key \in DOMAIN Contents) = FALSE
        BY <3>2
      <4> QED
        BY <3>1, <4>1 DEF Answer, Map!Answer
    <3> QED
      BY <3>3, <3>4 DEF Map!Next, Map!Delete
  <2>3. CASE ~ (count = 0 \/ entries[n].key = None)
    <3>1. result' = Answer(TRUE, Nil) /\ entries' = Deleted(entries, key)
      BY <1>7, <2>3 DEF Delete
    <3>2. n \in DOMAIN entries /\ entries[n].key = key /\ entries[n].key # None /\ key \in Keys(entries)
      BY <2>1, <2>3, SearchTells
    <3> HIDE DEF n
    <3>3. Contents' = Map!Without(key)
      BY <1>1, <2>1, <3>1, <3>2, DeletedIsWithout
    <3> QED
      BY <1>2, <3>1, <3>2, <3>3 DEF Map!Next, Map!Delete, Answer, Map!Answer
  <2> QED
    BY <2>2, <2>3
<1>8. ASSUME NEW key \in Key, NEW value \in Value, SetInRoom(key, value)  PROVE Map!Next
  <2>1. pc # "rehash" /\ ~ TooFull /\ Insert(key, value)
    BY <1>8 DEF SetInRoom
  <2> QED
    BY <1>1, <2>1, InsertIsSet DEF Map!Next
<1>9. ASSUME SetGrown  PROVE Map!Next
  <2>1. pc = "insert" /\ Insert(call.key, call.value)
    BY <1>9 DEF SetGrown
  <2>2. call.key \in Key /\ call.value \in Value /\ ~ TooFull
    BY <2>1 DEF IInv, TypeOK, Entry, CallOK, RoomOK
  <2>3. Map!Set(call.key, call.value)
    BY <1>1, <2>1, <2>2, InsertIsSet
  <2> QED
    BY <2>2, <2>3 DEF Map!Next
<1>10. ASSUME FreeTable  PROVE Map!Next
  <2>1. entries' = <<>> /\ UNCHANGED result
    BY <1>10 DEF FreeTable
  <2>2. Keys(entries') = {}
    BY <2>1 DEF Keys
  <2>3. Contents' = [k \in Keys(entries') |-> Contents'[k]]
    BY <1>1 DEF Mapped
  <2>4. Contents' = <<>>
    BY <2>2, <2>3
  <2> QED
    BY <2>1, <2>4 DEF Map!Next, Map!Clear
<1>11. ASSUME RemoveWhite  PROVE Map!Next \/ UNCHANGED <<Contents, result>>
  <2>1. /\ pc = "removeWhite" /\ i < capacity /\ UNCHANGED result
        /\ entries' = IF entries[i].key \in white THEN Deleted(entries, entries[i].key) ELSE entries
    BY <1>11 DEF RemoveWhite
  <2>2. CASE entries[i].key \in white
    <3>1. i \in DOMAIN entries /\ entries[i].key \in Key /\ entries[i].key # None
      BY <1>4, <2>1, <2>2, TableAssumption DEF IInv, TypeOK
    <3>2. Contents' = Map!Without(entries[i].key)
      BY <1>1, <2>1, <2>2, <3>1, DeletedIsWithout
    <3> QED
      BY <2>1, <3>1, <3>2 DEF Map!Next, Map!Forget
  <2>3. CASE entries[i].key \notin white
    BY <1>3, <2>1, <2>3
  <2> QED
    BY <2>2, <2>3
<1>12. ASSUME EndRehash  PROVE UNCHANGED <<Contents, result>>
  BY <1>1, <1>12, RehashIsSilent DEF EndRehash
<1>13. ASSUME Collect \/ Collected \/ BeginRehash \/ Rehash \/ UNCHANGED vars
                \/ \E key \in Key, value \in Value : SetGrows(key, value)
       PROVE  UNCHANGED <<Contents, result>>
  BY <1>3, <1>13 DEF Collect, Collected, BeginRehash, Rehash, SetGrows, table, vars
<1> QED
  BY <1>5, <1>6, <1>7, <1>8, <1>9, <1>10, <1>11, <1>12, <1>13 DEF Next, Calls, Loops

\* Whatever the layout of the array, a caller sees a finite map, also across growth
\* and collections in the middle of tableSet().
THEOREM Refinement == Spec => Implements
<1>1. Init /\ [][Next]_vars /\ []IInv => Map!Init /\ [][Map!Next]_(Map!vars)
  BY InitRefines, StepRefines, PTL
<1> QED
  BY <1>1, Inductive, PTL DEF Spec, Implements, Map!Spec

=============================================================================
