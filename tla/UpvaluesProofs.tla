-------------------------- MODULE UpvaluesProofs --------------------------
(***************************************************************************)
(* Proofs about captured variables, for every stack, any number of frames, *)
(* closures and upvalues.                                                  *)
(***************************************************************************)
EXTENDS Upvalues, LeastNumber, SequenceTheorems

----------------------------------------------------------------------------
(***************************************************************************)
(* The loops over the list.                                                *)
(***************************************************************************)

\* captureUpvalue() stops at the first member that is low enough, or at the end.
LEMMA StopAtIsFirst ==
  ASSUME NEW list, Len(list) \in Nat, NEW loc, NEW slot \in Nat,
         \A j \in 1..Len(list) : loc[list[j]] \in Nat
  PROVE  /\ StopAt(list, loc, slot) \in 1..(Len(list) + 1)
         /\ StopAt(list, loc, slot) <= Len(list) => loc[list[StopAt(list, loc, slot)]] <= slot
         /\ \A j \in 1..(StopAt(list, loc, slot) - 1) : loc[list[j]] > slot
<1> DEFINE S == {i \in 1..(Len(list) + 1) : i <= Len(list) => loc[list[i]] <= slot}
<1>1. PICK i \in S : \A j \in S : i <= j
  <2>1. S \in SUBSET Nat /\ Len(list) + 1 \in S
    OBVIOUS
  <2> HIDE DEF S
  <2> QED
    BY <2>1, Least
<1>2. \A j \in 1..(i - 1) : loc[list[j]] > slot
  <2> SUFFICES ASSUME NEW j \in 1..(i - 1), ~ (loc[list[j]] > slot)  PROVE FALSE
    OBVIOUS
  <2>1. j \in S
    OBVIOUS
  <2> QED
    BY <1>1, <2>1
<1> QED
  BY <1>1, <1>2 DEF StopAt

\* closeUpvalues() takes off the members from the head on that are not below last.
LEMMA CountAboveIsLast ==
  ASSUME NEW list, Len(list) \in Nat, NEW loc, NEW last \in Nat,
         \A j \in 1..Len(list) : loc[list[j]] \in Nat
  PROVE  /\ CountAbove(list, loc, last) \in 0..Len(list)
         /\ \A j \in 1..CountAbove(list, loc, last) : loc[list[j]] >= last
         /\ CountAbove(list, loc, last) < Len(list) =>
              loc[list[CountAbove(list, loc, last) + 1]] < last
<1> DEFINE S == {n \in 0..Len(list) : n < Len(list) => loc[list[n + 1]] < last}
<1>1. PICK n \in S : \A m \in S : n <= m
  <2>1. S \in SUBSET Nat /\ Len(list) \in S
    OBVIOUS
  <2> HIDE DEF S
  <2> QED
    BY <2>1, Least
<1>2. \A j \in 1..n : loc[list[j]] >= last
  <2> SUFFICES ASSUME NEW j \in 1..n, ~ (loc[list[j]] >= last)  PROVE FALSE
    OBVIOUS
  <2>1. j - 1 \in S /\ j - 1 \in Nat /\ n \in Nat /\ j - 1 < n
    OBVIOUS
  <2>2. n <= j - 1
    BY <1>1, <2>1
  <2> QED
    BY <2>1, <2>2
<1> QED
  BY <1>1, <1>2 DEF CountAbove

----------------------------------------------------------------------------
(***************************************************************************)
(* The inductive invariant.                                                *)
(***************************************************************************)

\* Frames are one above the other on the stack and run closures that are there.
FramesOK ==
  /\ frames # <<>> => frames[1].slots = 1
  /\ \A k \in DOMAIN frames : frames[k].closure \in DOMAIN captured /\ frames[k].slots <= top
  /\ \A k, m \in DOMAIN frames : k < m => frames[k].slots < frames[m].slots

\* The closures on the stack and in upvalues are there.
ClosuresExist ==
  /\ \A slot \in 1..top : slots[slot] \in Closure => slots[slot] \in DOMAIN captured
  /\ \A u \in Upvalue : closed[u] \in Closure => closed[u] \in DOMAIN captured

\* Only an upvalue that has been made refers to a slot.
OpenAreHeld ==
  \A u \in Upvalue : location[u] # 0 => \E f \in DOMAIN captured : u \in captured[f]

\* While OP_CLOSURE runs, the new closure is on top of the stack, and if it has
\* captured its own slot it holds the upvalue.
FillingOK ==
  filling =>
    /\ frames # <<>>
    /\ top > 0 /\ slots[top] \in DOMAIN captured
    /\ \A j \in DOMAIN openUpvalues :
         location[openUpvalues[j]] = top => openUpvalues[j] \in captured[slots[top]]

IInv ==
  TypeOK /\ GoesDown /\ OpenAreListed /\ FramesOK /\ ClosuresExist /\ OpenAreHeld /\ FillingOK

\* An upvalue is in the list as long as it refers to a slot, and only then, and it
\* is the only one that refers to this slot.
LEMMA ListIsExact ==
  ASSUME IInv
  PROVE  /\ \A u \in Upvalue : location[u] # 0 =>
              /\ location[u] \in 1..top
              /\ \E j \in DOMAIN openUpvalues : openUpvalues[j] = u
         /\ \A j \in DOMAIN openUpvalues :
              openUpvalues[j] \in Upvalue /\ location[openUpvalues[j]] \in 1..top
         /\ DOMAIN openUpvalues = 1..Len(openUpvalues) /\ Len(openUpvalues) \in Nat
         /\ \A j, k \in 1..Len(openUpvalues) :
              j < k => location[openUpvalues[j]] > location[openUpvalues[k]]
         /\ \A u, v \in Upvalue : location[u] # 0 /\ location[u] = location[v] => u = v
<1> USE DEF IInv, TypeOK
<1>1. DOMAIN openUpvalues = 1..Len(openUpvalues) /\ Len(openUpvalues) \in Nat
  OBVIOUS
<1>2. \A j \in DOMAIN openUpvalues :
        openUpvalues[j] \in Upvalue /\ location[openUpvalues[j]] \in 1..top
  BY <1>1 DEF GoesDown
<1>3. \A u \in Upvalue : location[u] # 0 => \E j \in DOMAIN openUpvalues : openUpvalues[j] = u
  BY DEF OpenAreHeld, OpenAreListed
<1>4. \A u, v \in Upvalue : location[u] # 0 /\ location[u] = location[v] => u = v
  <2> SUFFICES ASSUME NEW u \in Upvalue, NEW v \in Upvalue,
                      location[u] # 0, location[u] = location[v]
               PROVE  u = v
    OBVIOUS
  <2>1. PICK j \in DOMAIN openUpvalues : openUpvalues[j] = u
    BY <1>3
  <2>2. PICK k \in DOMAIN openUpvalues : openUpvalues[k] = v
    BY <1>3
  <2>3. ~ (j < k) /\ ~ (k < j)
    BY <2>1, <2>2 DEF GoesDown
  <2> QED
    BY <1>1, <2>1, <2>2, <2>3
<1>5. \A j, k \in 1..Len(openUpvalues) :
        j < k => location[openUpvalues[j]] > location[openUpvalues[k]]
  BY <1>1 DEF GoesDown
<1> QED
  BY <1>1, <1>2, <1>3, <1>4, <1>5

\* captureUpvalue() finds the upvalue of the slot if there is one.
LEMMA SharedIsTheOne ==
  ASSUME IInv, NEW slot \in 1..top
  PROVE  /\ IsShared(openUpvalues, location, slot) <=> IsCaptured(slot)
         /\ IsCaptured(slot) =>
              /\ Shared(openUpvalues, location, slot) \in Upvalue
              /\ location[Shared(openUpvalues, location, slot)] = slot
<1> DEFINE i == StopAt(openUpvalues, location, slot)
<1>1. /\ i \in 1..(Len(openUpvalues) + 1)
      /\ i <= Len(openUpvalues) => location[openUpvalues[i]] <= slot
      /\ \A j \in 1..(i - 1) : location[openUpvalues[j]] > slot
  <2>1. slot \in Nat /\ \A j \in 1..Len(openUpvalues) : location[openUpvalues[j]] \in Nat
    BY ListIsExact DEF IInv, TypeOK
  <2> QED
    BY <2>1, ListIsExact, StopAtIsFirst
<1> HIDE DEF i
<1>2. ASSUME NEW j \in DOMAIN openUpvalues, location[openUpvalues[j]] = slot
      PROVE  i = j
  <2>1. ~ (j < i)
    BY <1>1, <1>2, ListIsExact
  <2>2. ~ (i < j)
    BY <1>1, <1>2, ListIsExact DEF IInv, GoesDown
  <2> QED
    BY <1>1, <2>1, <2>2, ListIsExact
<1>3. (i <= Len(openUpvalues) /\ location[openUpvalues[i]] = slot) <=> IsCaptured(slot)
  BY <1>1, <1>2, ListIsExact DEF IsCaptured
<1>4. IsCaptured(slot) => openUpvalues[i] \in Upvalue /\ location[openUpvalues[i]] = slot
  BY <1>1, <1>3, ListIsExact
<1> QED
  BY <1>3, <1>4 DEF IsShared, Shared, i

\* Linking a new upvalue in where the loop stopped keeps the list in order.
LEMMA InsertedInOrder ==
  ASSUME IInv, NEW slot \in 1..top, ~ IsCaptured(slot), NEW u \in Upvalue, location[u] = 0,
         location' = [location EXCEPT ![u] = slot],
         openUpvalues' = Inserted(openUpvalues, location, slot, u)
  PROVE  /\ openUpvalues' \in Seq(Upvalue)
         /\ \A j \in DOMAIN openUpvalues' : location'[openUpvalues'[j]] \in 1..top
         /\ \A j, k \in DOMAIN openUpvalues' : j < k => location'[openUpvalues'[j]] > location'[openUpvalues'[k]]
         /\ \E j \in DOMAIN openUpvalues' : openUpvalues'[j] = u
         /\ \A k \in DOMAIN openUpvalues : \E j \in DOMAIN openUpvalues' : openUpvalues'[j] = openUpvalues[k]
         /\ \A j \in DOMAIN openUpvalues' :
              openUpvalues'[j] = u \/ \E k \in DOMAIN openUpvalues : openUpvalues'[j] = openUpvalues[k]
<1> DEFINE i == StopAt(openUpvalues, location, slot)
           n == Len(openUpvalues)
<1>1. /\ i \in 1..(n + 1)
      /\ i <= n => location[openUpvalues[i]] <= slot
      /\ \A j \in 1..(i - 1) : location[openUpvalues[j]] > slot
  <2>1. slot \in Nat /\ \A j \in 1..n : location[openUpvalues[j]] \in Nat
    BY ListIsExact DEF IInv, TypeOK
  <2> QED
    BY <2>1, ListIsExact, StopAtIsFirst
<1>2. openUpvalues' = SubSeq(openUpvalues, 1, i - 1) \o <<u>> \o SubSeq(openUpvalues, i, n)
  BY DEF Inserted
<1> HIDE DEF i
<1>3. /\ openUpvalues' \in Seq(Upvalue)
      /\ Len(openUpvalues') = n + 1
      /\ \A j \in 1..(n + 1) :
           openUpvalues'[j] = IF j < i THEN openUpvalues[j] ELSE IF j = i THEN u ELSE openUpvalues[j - 1]
  <2> DEFINE a == SubSeq(openUpvalues, 1, i - 1)
             b == SubSeq(openUpvalues, i, n)
             e == a \o <<u>>
  <2>1. openUpvalues \in Seq(Upvalue) /\ n \in Nat /\ \A k \in 1..n : openUpvalues[k] \in Upvalue
    BY DEF IInv, TypeOK
  <2>2. /\ a \in Seq(Upvalue) /\ Len(a) = i - 1
        /\ \A k \in 1..(i - 1) : a[k] = openUpvalues[k]
    BY <1>1, <2>1, SubSeqProperties
  <2>3. /\ b \in Seq(Upvalue) /\ Len(b) = n - i + 1
        /\ \A k \in 1..(n - i + 1) : b[k] = openUpvalues[i + k - 1]
    BY <1>1, <2>1, SubSeqProperties
  <2>4. <<u>> \in Seq(Upvalue) /\ Len(<<u>>) = 1 /\ <<u>>[1] = u
    OBVIOUS
  <2>5. openUpvalues' = e \o b
    BY <1>2
  <2> HIDE DEF a, b
  <2>6. /\ e \in Seq(Upvalue) /\ Len(e) = i
        /\ \A k \in 1..i : e[k] = IF k <= i - 1 THEN openUpvalues[k] ELSE u
    BY <1>1, <2>1, <2>2, <2>4, ConcatProperties
  <2> HIDE DEF e
  <2>7. /\ openUpvalues' \in Seq(Upvalue) /\ Len(openUpvalues') = n + 1
        /\ \A k \in 1..(n + 1) : openUpvalues'[k] = IF k <= i THEN e[k] ELSE b[k - i]
    <3>1. Len(e) + Len(b) = n + 1
      BY <1>1, <2>1, <2>3, <2>6
    <3>2. /\ openUpvalues' \in Seq(Upvalue) /\ Len(openUpvalues') = Len(e) + Len(b)
          /\ \A k \in 1..(Len(e) + Len(b)) : openUpvalues'[k] = IF k <= Len(e) THEN e[k] ELSE b[k - Len(e)]
      <4>1. e \in Seq(Upvalue) /\ b \in Seq(Upvalue)
        BY <2>3, <2>6
      <4>2. /\ e \o b \in Seq(Upvalue) /\ Len(e \o b) = Len(e) + Len(b)
            /\ \A k \in 1..(Len(e) + Len(b)) : (e \o b)[k] = IF k <= Len(e) THEN e[k] ELSE b[k - Len(e)]
        BY <4>1, ConcatProperties
      <4> QED
        BY <2>5, <4>2
    <3> QED
      BY <2>6, <3>1, <3>2
  <2>8. ASSUME NEW k \in 1..(n + 1)
        PROVE  openUpvalues'[k] = IF k < i THEN openUpvalues[k] ELSE IF k = i THEN u ELSE openUpvalues[k - 1]
    <3>1. CASE k <= i
      BY <1>1, <2>1, <2>6, <2>7, <3>1
    <3>2. CASE k > i
      <4>1. k - i \in 1..(n - i + 1) /\ i + (k - i) - 1 = k - 1 /\ ~ (k <= i)
        BY <1>1, <2>1, <3>2
      <4>2. openUpvalues'[k] = b[k - i]
        BY <2>7, <4>1
      <4>3. b[k - i] = openUpvalues[k - 1]
        BY <2>3, <4>1
      <4> QED
        BY <1>1, <2>1, <3>2, <4>2, <4>3
    <3> QED
      BY <1>1, <2>1, <3>1, <3>2
  <2> QED
    BY <2>7, <2>8
<1> HIDE DEF n
<1>4. /\ n \in Nat /\ DOMAIN openUpvalues = 1..n /\ DOMAIN openUpvalues' = 1..(n + 1)
      /\ i \in 1..(n + 1)
  BY <1>1, <1>3, ListIsExact DEF n
<1>5. \A k \in 1..n : /\ openUpvalues[k] # u
                      /\ location'[openUpvalues[k]] = location[openUpvalues[k]]
                      /\ location[openUpvalues[k]] \in 1..top
                      /\ location[openUpvalues[k]] # slot
  <2> SUFFICES ASSUME NEW k \in 1..n
               PROVE  /\ openUpvalues[k] # u
                      /\ location'[openUpvalues[k]] = location[openUpvalues[k]]
                      /\ location[openUpvalues[k]] \in 1..top
                      /\ location[openUpvalues[k]] # slot
    OBVIOUS
  <2>1. openUpvalues[k] \in Upvalue /\ location[openUpvalues[k]] \in 1..top
    BY <1>4, ListIsExact
  <2>2. openUpvalues[k] # u
    BY <2>1
  <2>3. location[openUpvalues[k]] # slot
    BY <1>4 DEF IsCaptured
  <2> QED
    BY <2>1, <2>2, <2>3 DEF IInv, TypeOK
<1>6. location'[u] = slot
  BY DEF IInv, TypeOK
<1>7. \A k \in 1..n : k >= i => location[openUpvalues[k]] < slot
  <2> SUFFICES ASSUME NEW k \in 1..n, k >= i  PROVE location[openUpvalues[k]] < slot
    OBVIOUS
  <2>1. i \in 1..n /\ location[openUpvalues[i]] <= slot
    BY <1>1, <1>4 DEF n
  <2>2. location[openUpvalues[k]] <= location[openUpvalues[i]]
    BY <1>4, <1>5, <2>1, ListIsExact DEF n
  <2> QED
    BY <1>5, <2>1, <2>2
<1>8. ASSUME NEW j \in 1..(n + 1)  PROVE location'[openUpvalues'[j]] \in 1..top
  <2>1. CASE j < i
    <3>1. j \in 1..n /\ openUpvalues'[j] = openUpvalues[j]
      BY <1>3, <1>4, <2>1 DEF n
    <3> QED
      BY <1>5, <3>1
  <2>2. CASE j = i
    BY <1>3, <1>4, <1>6, <2>2 DEF n
  <2>3. CASE j > i
    <3>1. j - 1 \in 1..n /\ openUpvalues'[j] = openUpvalues[j - 1]
      BY <1>3, <1>4, <2>3 DEF n
    <3> QED
      BY <1>5, <3>1
  <2> QED
    BY <1>4, <2>1, <2>2, <2>3
<1>9. ASSUME NEW j \in 1..(n + 1), NEW k \in 1..(n + 1), j < k
      PROVE  location'[openUpvalues'[j]] > location'[openUpvalues'[k]]
  <2>1. CASE k < i
    <3>1. openUpvalues'[j] = openUpvalues[j] /\ openUpvalues'[k] = openUpvalues[k] /\ j \in 1..n /\ k \in 1..n
      BY <1>3, <1>4, <1>9, <2>1 DEF n
    <3> QED
      BY <1>4, <1>5, <1>9, <3>1, ListIsExact DEF n
  <2>2. CASE k = i
    <3>1. openUpvalues'[j] = openUpvalues[j] /\ openUpvalues'[k] = u /\ j \in 1..n /\ j \in 1..(i - 1)
      BY <1>3, <1>4, <1>9, <2>2 DEF n
    <3> QED
      BY <1>1, <1>5, <1>6, <3>1
  <2>3. CASE k > i /\ j = i
    <3>1. openUpvalues'[j] = u /\ openUpvalues'[k] = openUpvalues[k - 1] /\ k - 1 \in 1..n /\ k - 1 >= i
      BY <1>3, <1>4, <1>9, <2>3 DEF n
    <3> QED
      BY <1>5, <1>6, <1>7, <3>1
  <2>4. CASE k > i /\ j < i
    <3>1. /\ openUpvalues'[j] = openUpvalues[j] /\ openUpvalues'[k] = openUpvalues[k - 1]
          /\ j \in 1..n /\ k - 1 \in 1..n /\ k - 1 >= i /\ j \in 1..(i - 1)
      BY <1>3, <1>4, <1>9, <2>4 DEF n
    <3>2. location[openUpvalues[j]] > slot /\ slot > location[openUpvalues[k - 1]]
      BY <1>1, <1>7, <3>1
    <3> QED
      BY <1>5, <3>1, <3>2
  <2>5. CASE k > i /\ j > i
    <3>1. /\ openUpvalues'[j] = openUpvalues[j - 1] /\ openUpvalues'[k] = openUpvalues[k - 1]
          /\ j - 1 \in 1..n /\ k - 1 \in 1..n /\ j - 1 < k - 1
      BY <1>3, <1>4, <1>9, <2>5 DEF n
    <3>2. location[openUpvalues[j - 1]] > location[openUpvalues[k - 1]]
      BY <3>1, ListIsExact DEF n
    <3> QED
      BY <1>5, <3>1, <3>2
  <2> QED
    BY <1>4, <2>1, <2>2, <2>3, <2>4, <2>5
<1>10. openUpvalues'[i] = u
  BY <1>3, <1>4 DEF n
<1>11. ASSUME NEW k \in 1..n  PROVE \E j \in 1..(n + 1) : openUpvalues'[j] = openUpvalues[k]
  <2>1. CASE k < i
    BY <1>3, <1>4, <2>1 DEF n
  <2>2. CASE k >= i
    <3>1. k + 1 \in 1..(n + 1) /\ openUpvalues'[k + 1] = openUpvalues[k]
      BY <1>3, <1>4, <2>2 DEF n
    <3> QED
      BY <3>1
  <2> QED
    BY <1>4, <2>1, <2>2
<1>12. ASSUME NEW j \in 1..(n + 1)
       PROVE  openUpvalues'[j] = u \/ \E k \in 1..n : openUpvalues'[j] = openUpvalues[k]
  <2>1. CASE j < i
    BY <1>3, <1>4, <2>1 DEF n
  <2>2. CASE j > i
    <3>1. j - 1 \in 1..n /\ openUpvalues'[j] = openUpvalues[j - 1]
      BY <1>3, <1>4, <2>2 DEF n
    <3> QED
      BY <3>1
  <2> QED
    BY <1>4, <1>10, <2>1, <2>2
<1>13. /\ \E j \in DOMAIN openUpvalues' : openUpvalues'[j] = u
       /\ \A k \in DOMAIN openUpvalues : \E j \in DOMAIN openUpvalues' : openUpvalues'[j] = openUpvalues[k]
       /\ \A j \in DOMAIN openUpvalues' : openUpvalues'[j] = u \/ \E k \in DOMAIN openUpvalues : openUpvalues'[j] = openUpvalues[k]
  <2>1. \E j \in DOMAIN openUpvalues' : openUpvalues'[j] = u
    BY <1>4, <1>10
  <2>2. \A k \in DOMAIN openUpvalues : \E j \in DOMAIN openUpvalues' : openUpvalues'[j] = openUpvalues[k]
    BY <1>4, <1>11
  <2>3. \A j \in DOMAIN openUpvalues' : openUpvalues'[j] = u \/ \E k \in DOMAIN openUpvalues : openUpvalues'[j] = openUpvalues[k]
    BY <1>4, <1>12
  <2> QED
    BY <2>1, <2>2, <2>3
<1> QED
  BY <1>3, <1>4, <1>8, <1>9, <1>13

\* closeUpvalues() closes exactly the upvalues from the slot last on: each takes the
\* value of its slot, and the others stay in the list, in order.
ClosedFrom(last) ==
  /\ closed' = [u \in Upvalue |-> IF location[u] >= last THEN slots[location[u]] ELSE closed[u]]
  /\ location' = [u \in Upvalue |-> IF location[u] >= last THEN 0 ELSE location[u]]
  /\ openUpvalues' \in Seq(Upvalue)
  /\ \A j \in DOMAIN openUpvalues' :
       /\ location'[openUpvalues'[j]] \in 1..(last - 1)
       /\ location'[openUpvalues'[j]] = location[openUpvalues'[j]]
  /\ \A j, k \in DOMAIN openUpvalues' :
       j < k => location'[openUpvalues'[j]] > location'[openUpvalues'[k]]
  /\ \A u \in Upvalue : location'[u] # 0 => \E j \in DOMAIN openUpvalues' : openUpvalues'[j] = u

LEMMA ClosedFromLastOn ==
  ASSUME IInv, NEW last \in 1..MaxStack, CloseUpvalues(last)
  PROVE  ClosedFrom(last)
<1> DEFINE c == CountAbove(openUpvalues, location, last)
           n == Len(openUpvalues)
<1>1. /\ c \in 0..n
      /\ \A j \in 1..c : location[openUpvalues[j]] >= last
      /\ c < n => location[openUpvalues[c + 1]] < last
  <2>1. last \in Nat /\ \A j \in 1..n : location[openUpvalues[j]] \in Nat
    BY ListIsExact, UpvaluesAssumption DEF IInv, TypeOK
  <2> QED
    BY <2>1, ListIsExact, CountAboveIsLast
<1>2. openUpvalues' = SubSeq(openUpvalues, c + 1, n)
  BY DEF CloseUpvalues, Remaining
<1>3. Closing(openUpvalues, location, last) = {openUpvalues[j] : j \in 1..c}
  BY DEF Closing
<1> HIDE DEF c
<1>4. /\ openUpvalues' \in Seq(Upvalue)
      /\ Len(openUpvalues') = n - c
      /\ \A j \in 1..(n - c) : openUpvalues'[j] = openUpvalues[c + j]
  BY <1>1, <1>2 DEF IInv, TypeOK
<1> HIDE DEF n
<1>5. n \in Nat /\ c \in 0..n /\ DOMAIN openUpvalues = 1..n /\ DOMAIN openUpvalues' = 1..(n - c)
  BY <1>1, <1>4, ListIsExact DEF n
<1>6. \A k \in 1..n : openUpvalues[k] \in Upvalue /\ location[openUpvalues[k]] \in 1..top /\ top \in Nat
  <2>1. top \in Nat
    BY UpvaluesAssumption DEF IInv, TypeOK
  <2> QED
    BY <1>5, <2>1, ListIsExact
<1>7. \A k \in 1..n : k > c => location[openUpvalues[k]] < last
  <2> SUFFICES ASSUME NEW k \in 1..n, k > c  PROVE location[openUpvalues[k]] < last
    OBVIOUS
  <2>1. c + 1 \in 1..n /\ location[openUpvalues[c + 1]] < last
    BY <1>1, <1>5 DEF n
  <2>2. location[openUpvalues[k]] <= location[openUpvalues[c + 1]]
    BY <1>5, <1>6, <2>1, ListIsExact DEF n
  <2> QED
    BY <1>6, <2>1, <2>2
<1>8. ASSUME NEW u \in Upvalue
      PROVE  u \in Closing(openUpvalues, location, last) <=> location[u] >= last
  <2>1. ASSUME u \in Closing(openUpvalues, location, last)  PROVE location[u] >= last
    BY <1>1, <1>3, <2>1
  <2>2. ASSUME location[u] >= last  PROVE u \in Closing(openUpvalues, location, last)
    <3>1. location[u] # 0
      BY <2>2
    <3>2. PICK k \in 1..n : openUpvalues[k] = u
      BY <1>5, <3>1, ListIsExact
    <3>3. k \in 1..c
      BY <1>5, <1>6, <1>7, <2>2, <3>2
    <3> QED
      BY <1>3, <3>2, <3>3
  <2> QED
    BY <2>1, <2>2
<1>9. /\ closed' = [u \in Upvalue |->
                      IF location[u] >= last THEN slots[location[u]] ELSE closed[u]]
      /\ location' = [u \in Upvalue |-> IF location[u] >= last THEN 0 ELSE location[u]]
  BY <1>8 DEF CloseUpvalues
<1>10. ASSUME NEW j \in 1..(n - c)
       PROVE  /\ openUpvalues'[j] = openUpvalues[c + j] /\ c + j \in 1..n
              /\ location'[openUpvalues'[j]] \in 1..(last - 1)
              /\ location'[openUpvalues'[j]] = location[openUpvalues'[j]]
  <2>1. openUpvalues'[j] = openUpvalues[c + j] /\ c + j \in 1..n /\ c + j > c
    BY <1>4, <1>5
  <2>2. location[openUpvalues[c + j]] < last /\ openUpvalues[c + j] \in Upvalue
    BY <1>6, <1>7, <2>1
  <2> QED
    BY <1>6, <1>9, <2>1, <2>2
<1>11. ASSUME NEW j \in 1..(n - c), NEW k \in 1..(n - c), j < k
       PROVE  location'[openUpvalues'[j]] > location'[openUpvalues'[k]]
  <2>1. c + j < c + k
    BY <1>5, <1>11
  <2>2. location[openUpvalues[c + j]] > location[openUpvalues[c + k]]
    BY <1>5, <1>10, <2>1, ListIsExact DEF n
  <2>3. /\ location'[openUpvalues'[j]] = location[openUpvalues[c + j]]
        /\ location'[openUpvalues'[k]] = location[openUpvalues[c + k]]
    BY <1>10
  <2> QED
    BY <2>2, <2>3
<1>12. ASSUME NEW u \in Upvalue, location'[u] # 0
       PROVE  \E j \in 1..(n - c) : openUpvalues'[j] = u
  <2>1. location[u] # 0 /\ ~ (location[u] >= last)
    BY <1>9, <1>12
  <2>2. PICK k \in 1..n : openUpvalues[k] = u
    BY <1>5, <2>1, ListIsExact
  <2>3. ~ (k \in 1..c)
    BY <1>1, <2>1, <2>2
  <2>4. k - c \in 1..(n - c) /\ c + (k - c) = k
    BY <1>5, <2>3
  <2>5. openUpvalues'[k - c] = u
    BY <1>4, <2>2, <2>4
  <2> QED
    BY <2>4, <2>5
<1> QED
  BY <1>4, <1>5, <1>9, <1>10, <1>11, <1>12 DEF ClosedFrom

----------------------------------------------------------------------------
(***************************************************************************)
(* What a frame can reach.                                                 *)
(***************************************************************************)

LEMMA InitIInv == Init => IInv
<1> SUFFICES ASSUME Init  PROVE IInv
  OBVIOUS
<1> USE UpvaluesAssumption
<1>1. TypeOK
  <2>1. slots \in [1..MaxStack -> Item] /\ top \in 0..MaxStack
    BY DEF Init, Item
  <2>2. frames \in Seq([closure : Closure, slots : 1..MaxStack]) /\ Len(frames) <= FramesMax
    BY DEF Init
  <2>3. location \in [Upvalue -> 0..MaxStack] /\ closed \in [Upvalue -> Item]
    BY DEF Init, Item
  <2>4. openUpvalues \in Seq(Upvalue)
    BY DEF Init
  <2> QED
    BY <2>1, <2>2, <2>3, <2>4 DEF Init, TypeOK
<1>2. GoesDown /\ OpenAreListed /\ OpenAreHeld /\ FillingOK
  BY DEF Init, GoesDown, OpenAreListed, OpenAreHeld, FillingOK
<1>3. FramesOK
  BY DEF Init, FramesOK
<1>4. ClosuresExist
  <2>1. Nil \notin Closure
    OBVIOUS
  <2> QED
    BY <2>1 DEF Init, ClosuresExist
<1> QED
  BY <1>1, <1>2, <1>3, <1>4 DEF IInv

\* The current frame is on the stack, above all others.
LEMMA CurrentFrame ==
  ASSUME IInv, frames # <<>>
  PROVE  /\ top \in Nat /\ top <= MaxStack /\ MaxStack \in Nat
         /\ Len(frames) \in 1..FramesMax /\ FramesMax \in Nat
         /\ DOMAIN frames = 1..Len(frames)
         /\ Frame.closure \in DOMAIN captured /\ captured[Frame.closure] \subseteq Upvalue
         /\ Frame.slots \in 1..top
         /\ Locals \subseteq 2..top
         /\ \A k \in 1..Len(frames) :
              /\ frames[k].slots \in 1..top
              /\ frames[k].slots <= Frame.slots
              /\ k < Len(frames) => frames[k].slots < Frame.slots
<1>0. frames \in Seq([closure : Closure, slots : 1..MaxStack])
  BY DEF IInv, TypeOK
<1>1. /\ top \in Nat /\ top <= MaxStack /\ MaxStack \in Nat /\ FramesMax \in Nat
      /\ Len(frames) \in 1..FramesMax /\ DOMAIN frames = 1..Len(frames)
  BY UpvaluesAssumption DEF IInv, TypeOK
<1>2. \A k \in 1..Len(frames) : frames[k].slots \in 1..top
  <2> SUFFICES ASSUME NEW k \in 1..Len(frames)  PROVE frames[k].slots \in 1..top
    OBVIOUS
  <2>1. frames[k] \in [closure : Closure, slots : 1..MaxStack]
    BY <1>0, ElementOfSeq
  <2>2. frames[k].slots \in 1..MaxStack
    BY <2>1
  <2>3. frames[k].slots <= top
    BY <1>1 DEF IInv, FramesOK
  <2> QED
    BY <1>1, <2>2, <2>3
<1>3. Len(frames) \in 1..Len(frames)
  BY <1>1
<1>4. \A k \in 1..Len(frames) : k < Len(frames) => frames[k].slots < Frame.slots
  BY <1>1, <1>3 DEF IInv, FramesOK, Frame
<1>5. Frame.slots \in 1..top /\ Frame.closure \in DOMAIN captured
  BY <1>1, <1>2, <1>3 DEF IInv, FramesOK, Frame
<1>6. captured[Frame.closure] \subseteq Upvalue
  BY <1>5 DEF IInv, TypeOK
<1>7. \A k \in 1..Len(frames) : frames[k].slots <= Frame.slots
  <2> SUFFICES ASSUME NEW k \in 1..Len(frames)  PROVE frames[k].slots <= Frame.slots
    OBVIOUS
  <2>1. CASE k = Len(frames)
    BY <1>1, <1>5, <2>1 DEF Frame
  <2>2. CASE k < Len(frames)
    BY <1>1, <1>2, <1>4, <1>5, <2>2
  <2>3. k \in Int /\ Len(frames) \in Int /\ k <= Len(frames)
    BY <1>1
  <2> QED
    BY <2>1, <2>2, <2>3
<1>8. Locals \subseteq 2..top
  BY <1>1, <1>5 DEF Locals
<1> QED
  BY <1>1, <1>2, <1>4, <1>5, <1>6, <1>7, <1>8

\* A value that can be read through an upvalue or from a slot is a value, and a
\* closure among them is there.
LEMMA ReadableExists ==
  ASSUME IInv
  PROVE  /\ \A slot \in 1..top : /\ slots[slot] \in Item
                                 /\ slots[slot] \in Closure => slots[slot] \in DOMAIN captured
         /\ \A u \in Upvalue : /\ ValueOf(u) \in Item
                               /\ ValueOf(u) \in Closure => ValueOf(u) \in DOMAIN captured
<1>1. top \in Nat /\ top <= MaxStack /\ MaxStack \in Nat
  BY UpvaluesAssumption DEF IInv, TypeOK
<1>2. \A slot \in 1..top : /\ slots[slot] \in Item
                           /\ slots[slot] \in Closure => slots[slot] \in DOMAIN captured
  BY <1>1 DEF IInv, TypeOK, ClosuresExist
<1>3. ASSUME NEW u \in Upvalue
      PROVE  ValueOf(u) \in Item /\ (ValueOf(u) \in Closure => ValueOf(u) \in DOMAIN captured)
  <2>1. CASE location[u] = 0
    BY <2>1 DEF IInv, TypeOK, ValueOf, ClosuresExist
  <2>2. CASE location[u] # 0
    BY <1>2, <2>2, ListIsExact DEF ValueOf
  <2> QED
    BY <2>1, <2>2
<1> QED
  BY <1>2, <1>3

\* A temporary is above all frames and in no upvalue.
LEMMA TopIsTemporary ==
  ASSUME IInv, Running, IsTemporary(top)
  PROVE  /\ top \in 2..MaxStack
         /\ \A k \in 1..Len(frames) : frames[k].slots <= top - 1
         /\ \A u \in Upvalue : location[u] # top
         /\ \A j \in DOMAIN openUpvalues : location[openUpvalues[j]] \in 1..(top - 1)
<1>1. frames # <<>> /\ top \in Locals /\ ~ IsCaptured(top)
  BY DEF Running, IsTemporary
<1>2. top \in 2..MaxStack /\ MaxStack \in Nat /\ Frame.slots < top /\ Frame.slots \in Nat
  BY <1>1, CurrentFrame DEF Locals
<1>3. \A k \in 1..Len(frames) : frames[k].slots <= top - 1
  BY <1>1, <1>2, CurrentFrame
<1>4. \A j \in DOMAIN openUpvalues : location[openUpvalues[j]] # top
  BY <1>1 DEF IsCaptured
<1>5. \A u \in Upvalue : location[u] # top
  BY <1>2, <1>4, ListIsExact
<1> QED
  BY <1>2, <1>3, <1>4, <1>5, ListIsExact

----------------------------------------------------------------------------
(***************************************************************************)
(* Every step keeps the invariant.                                         *)
(***************************************************************************)

\* A value that is pushed is in nobody's way.
LEMMA PushKeeps ==
  ASSUME IInv, Running, NEW v \in Item, PushValue(v), UNCHANGED <<frames, upvalues>>,
         DOMAIN captured \subseteq DOMAIN captured', v \in Closure => v \in DOMAIN captured'
  PROVE  /\ slots' \in [1..MaxStack -> Item] /\ top' \in 1..MaxStack /\ top' = top + 1
         /\ slots'[top'] = v
         /\ \A slot \in 1..top : slots'[slot] = slots[slot]
         /\ GoesDown' /\ FramesOK' /\ ClosuresExist'
<1>1. top \in Nat /\ MaxStack \in Nat /\ top < MaxStack /\ frames # <<>>
  BY CurrentFrame DEF Running, PushValue, Room
<1>2. /\ slots' = [slots EXCEPT ![top + 1] = v] /\ top' = top + 1
      /\ UNCHANGED <<frames, location, closed, openUpvalues>>
  BY DEF PushValue, upvalues
<1>3. slots' \in [1..MaxStack -> Item] /\ top' \in 1..MaxStack
  BY <1>1, <1>2 DEF IInv, TypeOK
<1>4. slots'[top'] = v /\ \A slot \in 1..top : slots'[slot] = slots[slot]
  BY <1>1, <1>2 DEF IInv, TypeOK
<1>5. GoesDown'
  BY <1>1, <1>2 DEF IInv, GoesDown
<1>6. FramesOK'
  <2>1. \A k \in DOMAIN frames : frames[k].slots <= top + 1
    BY <1>1, CurrentFrame
  <2> QED
    BY <1>2, <2>1 DEF IInv, FramesOK
<1>7. ClosuresExist'
  <2>1. ASSUME NEW slot \in 1..top', slots'[slot] \in Closure
        PROVE  slots'[slot] \in DOMAIN captured'
    <3>1. slot \in 1..top \/ slot = top'
      BY <1>1, <1>2
    <3> QED
      BY <1>4, <2>1, <3>1 DEF IInv, ClosuresExist
  <2>2. \A u \in Upvalue : closed'[u] \in Closure => closed'[u] \in DOMAIN captured'
    BY <1>2 DEF IInv, ClosuresExist
  <2> QED
    BY <2>1, <2>2 DEF ClosuresExist
<1> QED
  BY <1>2, <1>3, <1>4, <1>5, <1>6, <1>7

\* What is temporary can be dropped.
LEMMA DropKeeps ==
  ASSUME IInv, Running, IsTemporary(top), top' = top - 1, UNCHANGED <<slots, frames, upvalues, captured>>
  PROVE  top' \in 0..MaxStack /\ GoesDown' /\ FramesOK' /\ ClosuresExist'
<1>1. top \in 2..MaxStack /\ MaxStack \in Nat
  BY TopIsTemporary, UpvaluesAssumption
<1>2. UNCHANGED <<slots, frames, location, closed, openUpvalues, captured>>
  BY DEF upvalues
<1>3. GoesDown'
  BY <1>1, <1>2, TopIsTemporary DEF IInv, GoesDown
<1>4. FramesOK'
  <2>1. \A k \in DOMAIN frames : frames[k].slots <= top - 1
    BY TopIsTemporary, CurrentFrame DEF Running
  <2> QED
    BY <1>2, <2>1 DEF IInv, FramesOK
<1>5. ClosuresExist'
  BY <1>1, <1>2 DEF IInv, ClosuresExist
<1> QED
  BY <1>1, <1>3, <1>4, <1>5

\* An assignment changes what one slot holds.
LEMMA AssignKeeps ==
  ASSUME IInv, NEW slot \in 1..top, NEW v \in Item, v \in Closure => v \in DOMAIN captured,
         slots' = [slots EXCEPT ![slot] = v],
         UNCHANGED <<top, frames, location, closed, openUpvalues, captured>>
  PROVE  slots' \in [1..MaxStack -> Item] /\ GoesDown' /\ FramesOK' /\ ClosuresExist'
<1>1. top \in Nat /\ top <= MaxStack /\ MaxStack \in Nat
  BY UpvaluesAssumption DEF IInv, TypeOK
<1>2. slots' \in [1..MaxStack -> Item]
  BY DEF IInv, TypeOK
<1>3. GoesDown' /\ FramesOK'
  BY DEF IInv, GoesDown, FramesOK
<1>4. \A n \in 1..top : slots'[n] = IF n = slot THEN v ELSE slots[n]
  BY <1>1 DEF IInv, TypeOK
<1>5. ClosuresExist'
  BY <1>4 DEF IInv, ClosuresExist
<1> QED
  BY <1>2, <1>3, <1>5

\* What the list of open upvalues promises to closures depends on nothing else.
LEMMA UpvaluesKeep ==
  ASSUME IInv, UNCHANGED <<location, openUpvalues, captured>>
  PROVE  OpenAreListed' /\ OpenAreHeld'
BY DEF IInv, OpenAreListed, OpenAreHeld

\* A closure comes to hold one more upvalue.
LEMMA HoldKeeps ==
  ASSUME IInv, filling, NEW u \in Upvalue, Hold(u)
  PROVE  /\ DOMAIN captured' = DOMAIN captured
         /\ \A f \in DOMAIN captured :
              captured'[f] = IF f = slots[top] THEN captured[f] \cup {u} ELSE captured[f]
         /\ slots[top] \in DOMAIN captured
         /\ DOMAIN captured' \subseteq Closure
         /\ \A f \in DOMAIN captured' : captured'[f] \subseteq Upvalue
         /\ \A f \in DOMAIN captured' : \A w \in captured'[f] :
              w = u \/ \E g \in DOMAIN captured : w \in captured[g]
<1>1. slots[top] \in DOMAIN captured
  BY DEF IInv, FillingOK
<1>2. captured' = [captured EXCEPT ![slots[top]] = captured[slots[top]] \cup {u}]
  BY DEF Hold
<1>3. DOMAIN captured' = DOMAIN captured
  BY <1>2
<1>4. \A f \in DOMAIN captured :
        captured'[f] = IF f = slots[top] THEN captured[f] \cup {u} ELSE captured[f]
  BY <1>2
<1>5. DOMAIN captured \subseteq Closure /\ \A f \in DOMAIN captured : captured[f] \subseteq Upvalue
  BY DEF IInv, TypeOK
<1> QED
  BY <1>1, <1>3, <1>4, <1>5

\* The upvalues keep their promises when those from a slot on are closed.
LEMMA CloseKeeps ==
  ASSUME IInv, NEW last \in 1..MaxStack, ClosedFrom(last), UNCHANGED captured,
         top' \in 0..MaxStack, last - 1 <= top'
  PROVE  /\ location' \in [Upvalue -> 0..MaxStack] /\ closed' \in [Upvalue -> Item]
         /\ openUpvalues' \in Seq(Upvalue)
         /\ GoesDown' /\ OpenAreListed' /\ OpenAreHeld'
         /\ \A u \in Upvalue : closed'[u] \in Closure => closed'[u] \in DOMAIN captured
<1>1. MaxStack \in Nat /\ last \in Nat /\ last # 0 /\ top' \in Nat
  BY UpvaluesAssumption
<1>2. ASSUME NEW u \in Upvalue, location[u] >= last
      PROVE  /\ slots[location[u]] \in Item
             /\ slots[location[u]] \in Closure => slots[location[u]] \in DOMAIN captured
  <2>1. location[u] # 0
    BY <1>1, <1>2
  <2> QED
    BY <2>1, ListIsExact, ReadableExists
<1>3. closed' \in [Upvalue -> Item]
  BY <1>2 DEF ClosedFrom, IInv, TypeOK
<1>4. \A u \in Upvalue : closed'[u] \in Closure => closed'[u] \in DOMAIN captured
  BY <1>2 DEF ClosedFrom, IInv, ClosuresExist
<1>5. location' \in [Upvalue -> 0..MaxStack]
  BY <1>1 DEF ClosedFrom, IInv, TypeOK
<1>6. GoesDown'
  <2>1. \A j \in DOMAIN openUpvalues' : location'[openUpvalues'[j]] \in 1..(last - 1)
    BY DEF ClosedFrom
  <2>2. \A j \in DOMAIN openUpvalues' : location'[openUpvalues'[j]] \in 1..top'
    BY <1>1, <2>1
  <2> QED
    BY <2>2 DEF ClosedFrom, GoesDown
<1>7. OpenAreListed'
  BY DEF ClosedFrom, OpenAreListed, IInv, TypeOK
<1>8. OpenAreHeld'
  BY DEF ClosedFrom, OpenAreHeld, IInv
<1> QED
  BY <1>3, <1>4, <1>5, <1>6, <1>7, <1>8 DEF ClosedFrom

LEMMA NextIInv == IInv /\ [Next]_vars => IInv'
<1> SUFFICES ASSUME IInv, [Next]_vars  PROVE IInv'
  OBVIOUS
<1>1. CASE Push
  <2>1. PICK v \in Value \cup {slots[i] : i \in Locals}
                     \cup {ValueOf(u) : u \in captured[Frame.closure]} : PushValue(v)
    BY <1>1 DEF Push
  <2>2. Running /\ frames # <<>> /\ ~ filling /\ UNCHANGED <<frames, upvalues, captured, filling>>
    BY <1>1 DEF Push, Running
  <2>3. Locals \subseteq 1..top /\ captured[Frame.closure] \subseteq Upvalue
    BY <2>2, CurrentFrame
  <2>4. v \in Item /\ (v \in Closure => v \in DOMAIN captured)
    BY <2>3, ReadableExists, UpvaluesAssumption DEF Item
  <2>5. /\ slots' \in [1..MaxStack -> Item] /\ top' \in 1..MaxStack
        /\ GoesDown' /\ FramesOK' /\ ClosuresExist'
    BY <2>1, <2>2, <2>4, PushKeeps
  <2>6. OpenAreListed' /\ OpenAreHeld'
    BY <2>2, UpvaluesKeep DEF upvalues
  <2>7. TypeOK' /\ FillingOK'
    BY <2>2, <2>5 DEF IInv, TypeOK, FillingOK, upvalues
  <2> QED
    BY <2>5, <2>6, <2>7 DEF IInv
<1>2. CASE Pop
  <2>1. /\ Running /\ ~ filling /\ IsTemporary(top) /\ top' = top - 1
        /\ UNCHANGED <<slots, frames, upvalues, captured, filling>>
    BY <1>2 DEF Pop, Running
  <2>2. top' \in 0..MaxStack /\ GoesDown' /\ FramesOK' /\ ClosuresExist'
    BY <2>1, DropKeeps
  <2>3. OpenAreListed' /\ OpenAreHeld'
    BY <2>1, UpvaluesKeep DEF upvalues
  <2>4. TypeOK' /\ FillingOK'
    BY <2>1, <2>2 DEF IInv, TypeOK, FillingOK, upvalues
  <2> QED
    BY <2>2, <2>3, <2>4 DEF IInv
<1>3. CASE SetLocal
  <2>1. /\ Running /\ frames # <<>> /\ ~ filling /\ IsTemporary(top)
        /\ UNCHANGED <<top, frames, location, closed, openUpvalues, captured, filling>>
    BY <1>3 DEF SetLocal, Running, upvalues
  <2>2. PICK slot \in Locals : slots' = [slots EXCEPT ![slot] = slots[top]]
    BY <1>3 DEF SetLocal
  <2>3. slot \in 1..top /\ top \in 1..top
    BY <2>1, <2>2, CurrentFrame DEF IsTemporary
  <2>4. slots' \in [1..MaxStack -> Item] /\ GoesDown' /\ FramesOK' /\ ClosuresExist'
    BY <2>1, <2>2, <2>3, ReadableExists, AssignKeeps
  <2>5. OpenAreListed' /\ OpenAreHeld'
    BY <2>1, UpvaluesKeep
  <2>6. TypeOK' /\ FillingOK'
    BY <2>1, <2>4 DEF IInv, TypeOK, FillingOK
  <2> QED
    BY <2>4, <2>5, <2>6 DEF IInv
<1>4. CASE SetUpvalue
  <2>1. /\ Running /\ frames # <<>> /\ ~ filling /\ IsTemporary(top)
        /\ UNCHANGED <<top, frames, location, openUpvalues, captured, filling>>
    BY <1>4 DEF SetUpvalue, Running
  <2>2. PICK u \in captured[Frame.closure] :
          IF location[u] = 0
          THEN closed' = [closed EXCEPT ![u] = slots[top]] /\ UNCHANGED slots
          ELSE slots' = [slots EXCEPT ![location[u]] = slots[top]] /\ UNCHANGED closed
    BY <1>4 DEF SetUpvalue
  <2>3. u \in Upvalue /\ top \in 1..top
    BY <2>1, <2>2, CurrentFrame DEF IsTemporary
  <2>4. slots[top] \in Item /\ (slots[top] \in Closure => slots[top] \in DOMAIN captured)
    BY <2>3, ReadableExists
  <2>5. OpenAreListed' /\ OpenAreHeld'
    BY <2>1, UpvaluesKeep
  <2>6. FillingOK'
    BY <2>1 DEF FillingOK
  <2>7. CASE location[u] = 0
    <3>1. closed' = [closed EXCEPT ![u] = slots[top]] /\ UNCHANGED slots
      BY <2>2, <2>7
    <3>2. closed' \in [Upvalue -> Item]
      BY <2>3, <2>4, <3>1 DEF IInv, TypeOK
    <3>3. GoesDown' /\ FramesOK'
      BY <2>1, <3>1 DEF IInv, GoesDown, FramesOK
    <3>4. \A w \in Upvalue : closed'[w] = IF w = u THEN slots[top] ELSE closed[w]
      BY <3>1 DEF IInv, TypeOK
    <3>5. ClosuresExist'
      BY <2>1, <2>4, <3>1, <3>4 DEF IInv, ClosuresExist
    <3> QED
      BY <2>1, <2>5, <2>6, <3>1, <3>2, <3>3, <3>5 DEF IInv, TypeOK
  <2>8. CASE location[u] # 0
    <3>1. slots' = [slots EXCEPT ![location[u]] = slots[top]] /\ UNCHANGED closed
      BY <2>2, <2>8
    <3>2. location[u] \in 1..top
      BY <2>3, <2>8, ListIsExact
    <3>3. slots' \in [1..MaxStack -> Item] /\ GoesDown' /\ FramesOK' /\ ClosuresExist'
      BY <2>1, <2>4, <3>1, <3>2, AssignKeeps
    <3> QED
      BY <2>1, <2>5, <2>6, <3>1, <3>3 DEF IInv, TypeOK
  <2> QED
    BY <2>7, <2>8
<1>5. CASE NewClosure
  <2>1. /\ Running /\ frames # <<>> /\ ~ filling /\ filling' = TRUE /\ UNCHANGED <<frames, upvalues>>
    BY <1>5 DEF NewClosure, Running
  <2>2. PICK f \in Closure \ DOMAIN captured :
          /\ PushValue(f)
          /\ captured' = [g \in DOMAIN captured \cup {f} |-> IF g = f THEN {} ELSE captured[g]]
    BY <1>5 DEF NewClosure
  <2>3. /\ DOMAIN captured' = DOMAIN captured \cup {f}
        /\ captured'[f] = {} /\ \A g \in DOMAIN captured : captured'[g] = captured[g]
    BY <2>2
  <2>4. f \in Item
    BY DEF Item
  <2>5. /\ slots' \in [1..MaxStack -> Item] /\ top' \in 1..MaxStack /\ top' = top + 1
        /\ slots'[top'] = f
        /\ GoesDown' /\ FramesOK' /\ ClosuresExist'
    BY <2>1, <2>2, <2>3, <2>4, PushKeeps
  <2>6. OpenAreListed'
    BY <2>1, <2>3 DEF IInv, OpenAreListed, upvalues
  <2>7. OpenAreHeld'
    BY <2>1, <2>3 DEF IInv, OpenAreHeld, upvalues
  <2>8. FillingOK'
    <3>1. \A j \in DOMAIN openUpvalues : location[openUpvalues[j]] # top + 1
      BY <2>1, ListIsExact, CurrentFrame
    <3> QED
      BY <2>1, <2>3, <2>5, <3>1 DEF FillingOK, upvalues
  <2>9. TypeOK'
    BY <2>1, <2>3, <2>5 DEF IInv, TypeOK, upvalues
  <2> QED
    BY <2>5, <2>6, <2>7, <2>8, <2>9 DEF IInv
<1>6. CASE CaptureLocal
  <2>1. /\ filling /\ frames # <<>> /\ UNCHANGED <<slots, top, frames, closed, filling>>
    BY <1>6 DEF CaptureLocal, IInv, FillingOK, stack, upvalues
  <2>2. PICK slot \in Locals :
          IF IsShared(openUpvalues, location, slot)
          THEN Hold(Shared(openUpvalues, location, slot)) /\ UNCHANGED upvalues
          ELSE \E u \in Upvalue \ UNION {captured[f] : f \in DOMAIN captured} :
                 /\ Hold(u)
                 /\ location' = [location EXCEPT ![u] = slot]
                 /\ openUpvalues' = Inserted(openUpvalues, location, slot, u)
                 /\ UNCHANGED closed
    BY <1>6 DEF CaptureLocal
  <2>3. slot \in 1..top /\ top \in Nat /\ top <= MaxStack /\ MaxStack \in Nat
    BY <2>1, CurrentFrame
  <2>4. CASE IsCaptured(slot)
    <3> DEFINE u == Shared(openUpvalues, location, slot)
    <3>1. u \in Upvalue /\ location[u] = slot
      BY <2>3, <2>4, SharedIsTheOne
    <3>2. Hold(u) /\ UNCHANGED <<location, openUpvalues>>
      BY <2>2, <2>3, <2>4, SharedIsTheOne DEF upvalues
    <3> HIDE DEF u
    <3>3. \E j \in DOMAIN openUpvalues : openUpvalues[j] = u
      BY <2>3, <3>1, ListIsExact
    <3>4. TypeOK'
      BY <2>1, <3>1, <3>2, HoldKeeps DEF IInv, TypeOK
    <3>5. GoesDown'
      BY <2>1, <3>2 DEF IInv, GoesDown
    <3>6. OpenAreListed'
      BY <2>1, <3>1, <3>2, <3>3, HoldKeeps DEF IInv, OpenAreListed
    <3>7. FramesOK' /\ ClosuresExist'
      BY <2>1, <3>1, <3>2, HoldKeeps DEF IInv, FramesOK, ClosuresExist
    <3>8. OpenAreHeld'
      BY <2>1, <3>1, <3>2, HoldKeeps DEF IInv, OpenAreHeld
    <3>9. FillingOK'
      BY <2>1, <3>1, <3>2, HoldKeeps DEF IInv, FillingOK
    <3> QED
      BY <3>4, <3>5, <3>6, <3>7, <3>8, <3>9 DEF IInv
  <2>5. CASE ~ IsCaptured(slot)
    <3>1. PICK u \in Upvalue \ UNION {captured[f] : f \in DOMAIN captured} :
            /\ Hold(u)
            /\ location' = [location EXCEPT ![u] = slot]
            /\ openUpvalues' = Inserted(openUpvalues, location, slot, u)
      BY <2>2, <2>3, <2>5, SharedIsTheOne
    <3>2. location[u] = 0 /\ u \in Upvalue
      BY <3>1 DEF IInv, OpenAreHeld
    <3>3. /\ openUpvalues' \in Seq(Upvalue)
          /\ \A j \in DOMAIN openUpvalues' : location'[openUpvalues'[j]] \in 1..top
          /\ \A j, k \in DOMAIN openUpvalues' :
               j < k => location'[openUpvalues'[j]] > location'[openUpvalues'[k]]
          /\ \E j \in DOMAIN openUpvalues' : openUpvalues'[j] = u
          /\ \A k \in DOMAIN openUpvalues :
               \E j \in DOMAIN openUpvalues' : openUpvalues'[j] = openUpvalues[k]
          /\ \A j \in DOMAIN openUpvalues' :
               openUpvalues'[j] = u \/ \E k \in DOMAIN openUpvalues : openUpvalues'[j] = openUpvalues[k]
      BY <2>3, <2>5, <3>1, <3>2, InsertedInOrder
    <3>4. /\ location' \in [Upvalue -> 0..MaxStack] /\ location'[u] = slot
          /\ \A w \in Upvalue : w # u => location'[w] = location[w]
      BY <2>3, <3>1, <3>2 DEF IInv, TypeOK
    <3>5. TypeOK'
      BY <2>1, <3>1, <3>2, <3>3, <3>4, HoldKeeps DEF IInv, TypeOK
    <3>held. slots[top] \in DOMAIN captured' /\ u \in captured'[slots[top]]
      <4>1. /\ DOMAIN captured' = DOMAIN captured /\ slots[top] \in DOMAIN captured
            /\ \A f \in DOMAIN captured :
                 captured'[f] = IF f = slots[top] THEN captured[f] \cup {u} ELSE captured[f]
        BY <2>1, <3>1, <3>2, HoldKeeps
      <4> QED
        BY <4>1
    <3>6. GoesDown'
      BY <2>1, <3>3 DEF GoesDown
    <3>7. OpenAreListed'
      <4> SUFFICES ASSUME NEW f \in DOMAIN captured', NEW w \in captured'[f], location'[w] # 0
                   PROVE  \E j \in DOMAIN openUpvalues' : openUpvalues'[j] = w
        BY DEF OpenAreListed
      <4>1. CASE w = u
        BY <3>3, <4>1
      <4>2. CASE w # u
        <5>1. PICK g \in DOMAIN captured : w \in captured[g]
          BY <2>1, <3>1, <3>2, <4>2, HoldKeeps
        <5>2. w \in Upvalue /\ location[w] # 0
          BY <3>4, <4>2, <5>1 DEF IInv, TypeOK
        <5>3. PICK k \in DOMAIN openUpvalues : openUpvalues[k] = w
          BY <5>2, ListIsExact
        <5> QED
          BY <3>3, <5>3
      <4> QED
        BY <4>1, <4>2
    <3>8. FramesOK' /\ ClosuresExist'
      BY <2>1, <3>1, <3>2, HoldKeeps DEF IInv, FramesOK, ClosuresExist
    <3>9. OpenAreHeld'
      <4> SUFFICES ASSUME NEW w \in Upvalue, location'[w] # 0
                   PROVE  \E f \in DOMAIN captured' : w \in captured'[f]
        BY DEF OpenAreHeld
      <4>1. CASE w = u
        BY <3>held, <4>1
      <4>2. CASE w # u
        <5>1. PICK g \in DOMAIN captured : w \in captured[g]
          BY <3>4, <4>2 DEF IInv, OpenAreHeld
        <5> QED
          BY <2>1, <3>1, <3>2, <5>1, HoldKeeps
      <4> QED
        BY <4>1, <4>2
    <3>10. FillingOK'
      <4>1. top > 0 /\ slots[top] \in DOMAIN captured'
        BY <2>1, <3>1, <3>2, HoldKeeps DEF IInv, FillingOK
      <4>2. ASSUME NEW j \in DOMAIN openUpvalues', location'[openUpvalues'[j]] = top
            PROVE  openUpvalues'[j] \in captured'[slots[top]]
        <5>1. CASE openUpvalues'[j] = u
          BY <3>held, <5>1
        <5>2. CASE openUpvalues'[j] # u
          <6>1. PICK k \in DOMAIN openUpvalues : openUpvalues'[j] = openUpvalues[k]
            BY <3>3, <5>2
          <6>2. location[openUpvalues[k]] = top
            BY <3>4, <4>2, <5>2, <6>1, ListIsExact
          <6>3. openUpvalues[k] \in captured[slots[top]]
            BY <2>1, <6>2 DEF IInv, FillingOK
          <6> QED
            BY <2>1, <3>1, <3>2, <6>1, <6>3, HoldKeeps
        <5> QED
          BY <5>1, <5>2
      <4> QED
        BY <2>1, <4>1, <4>2 DEF FillingOK
    <3> QED
      BY <3>5, <3>6, <3>7, <3>8, <3>9, <3>10 DEF IInv
  <2> QED
    BY <2>4, <2>5
<1>7. CASE CaptureUpvalue
  <2>1. /\ filling /\ frames # <<>>
        /\ UNCHANGED <<slots, top, frames, location, closed, openUpvalues, filling>>
    BY <1>7 DEF CaptureUpvalue, IInv, FillingOK, stack, upvalues
  <2>2. PICK u \in captured[Frame.closure] : Hold(u)
    BY <1>7 DEF CaptureUpvalue
  <2>3. u \in Upvalue /\ Frame.closure \in DOMAIN captured
    BY <2>1, <2>2, CurrentFrame
  <2>4. TypeOK'
    BY <2>1, <2>2, <2>3, HoldKeeps DEF IInv, TypeOK
  <2>5. GoesDown'
    BY <2>1 DEF IInv, GoesDown
  <2>6. OpenAreListed'
    BY <2>1, <2>2, <2>3, HoldKeeps DEF IInv, OpenAreListed
  <2>7. FramesOK' /\ ClosuresExist'
    BY <2>1, <2>2, <2>3, HoldKeeps DEF IInv, FramesOK, ClosuresExist
  <2>8. OpenAreHeld'
    BY <2>1, <2>2, <2>3, HoldKeeps DEF IInv, OpenAreHeld
  <2>9. FillingOK'
    BY <2>1, <2>2, <2>3, HoldKeeps DEF IInv, FillingOK
  <2> QED
    BY <2>4, <2>5, <2>6, <2>7, <2>8, <2>9 DEF IInv
<1>8. CASE CaptureDone
  <2>1. ~ filling' /\ filling' \in BOOLEAN
    BY <1>8 DEF CaptureDone
  <2>2. UNCHANGED <<slots, top, frames, location, closed, openUpvalues, captured>>
    BY <1>8 DEF CaptureDone, stack, upvalues
  <2> QED
    BY <2>1, <2>2
    DEF IInv, TypeOK, GoesDown, OpenAreListed, FramesOK, ClosuresExist, OpenAreHeld, FillingOK
<1>9. CASE CloseUpvalue
  <2>1. /\ Running /\ frames # <<>> /\ ~ filling /\ top \in Locals /\ CloseUpvalues(top)
        /\ top' = top - 1 /\ UNCHANGED <<slots, frames, captured, filling>>
    BY <1>9 DEF CloseUpvalue, Running
  <2>2. /\ top \in 2..MaxStack /\ MaxStack \in Nat /\ Frame.slots \in Nat /\ Frame.slots < top
    BY <2>1, CurrentFrame DEF Locals
  <2>3. ClosedFrom(top)
    BY <2>1, <2>2, ClosedFromLastOn
  <2>4. /\ location' \in [Upvalue -> 0..MaxStack] /\ closed' \in [Upvalue -> Item]
        /\ openUpvalues' \in Seq(Upvalue)
        /\ GoesDown' /\ OpenAreListed' /\ OpenAreHeld'
        /\ \A u \in Upvalue : closed'[u] \in Closure => closed'[u] \in DOMAIN captured
    BY <2>1, <2>2, <2>3, CloseKeeps
  <2>5. TypeOK'
    BY <2>1, <2>2, <2>4 DEF IInv, TypeOK
  <2>6. FramesOK'
    <3>1. \A k \in DOMAIN frames : frames[k].slots <= top - 1
      BY <2>1, <2>2, CurrentFrame
    <3> QED
      BY <2>1, <3>1 DEF IInv, FramesOK
  <2>7. ClosuresExist'
    BY <2>1, <2>2, <2>4 DEF IInv, ClosuresExist
  <2> QED
    BY <2>1, <2>4, <2>5, <2>6, <2>7 DEF IInv, FillingOK
<1>10. CASE Call
  <2>1. /\ Running /\ frames # <<>> /\ ~ filling /\ Len(frames) < FramesMax
        /\ UNCHANGED <<slots, top, location, closed, openUpvalues, captured, filling>>
    BY <1>10 DEF Call, Running, stack, upvalues
  <2>2. PICK argCount \in 0..(top - 1) :
          /\ \A slot \in (top - argCount)..top : IsTemporary(slot)
          /\ slots[top - argCount] \in Closure
          /\ frames' = Append(frames, [closure |-> slots[top - argCount], slots |-> top - argCount])
    BY <1>10 DEF Call
  <2> DEFINE callee == top - argCount
             frame  == [closure |-> slots[callee], slots |-> callee]
  <2>3. top \in Nat /\ top <= MaxStack /\ MaxStack \in Nat /\ callee \in 1..top
    BY <2>1, CurrentFrame
  <2>4. Frame.slots < callee
    <3>1. callee \in callee..top
      BY <2>3
    <3>2. callee \in Locals
      BY <2>2, <3>1 DEF IsTemporary
    <3> QED
      BY <2>1, <2>3, <3>2, CurrentFrame DEF Locals
  <2>5. slots[callee] \in DOMAIN captured /\ slots[callee] \in Closure
    BY <2>2, <2>3, ReadableExists
  <2>6. frame \in [closure : Closure, slots : 1..MaxStack]
    BY <2>3, <2>5
  <2>7. /\ frames \in Seq([closure : Closure, slots : 1..MaxStack])
        /\ frames' = Append(frames, frame)
    BY <2>2 DEF IInv, TypeOK
  <2>8. frame.slots = callee /\ frame.closure = slots[callee]
    OBVIOUS
  <2> HIDE DEF frame, callee
  <2>9. /\ frames' \in Seq([closure : Closure, slots : 1..MaxStack])
        /\ Len(frames') = Len(frames) + 1
        /\ \A k \in 1..Len(frames) : frames'[k] = frames[k]
        /\ frames'[Len(frames) + 1] = frame
    BY <2>6, <2>7, AppendProperties
  <2>10. Len(frames) \in Nat \ {0} /\ DOMAIN frames' = 1..(Len(frames) + 1) /\ FramesMax \in Nat
    BY <2>1, <2>9, CurrentFrame
  <2>11. TypeOK'
    BY <2>1, <2>9, <2>10 DEF IInv, TypeOK
  <2>12. FramesOK'
    <3>1. frames'[1].slots = 1
      BY <2>1, <2>9, <2>10 DEF IInv, FramesOK
    <3>2. ASSUME NEW k \in 1..(Len(frames) + 1)
          PROVE  frames'[k].closure \in DOMAIN captured /\ frames'[k].slots <= top
      <4>1. CASE k = Len(frames) + 1
        BY <2>3, <2>5, <2>8, <2>9, <4>1
      <4>2. CASE k \in 1..Len(frames)
        BY <2>1, <2>9, <4>2, CurrentFrame DEF IInv, FramesOK
      <4> QED
        BY <2>10, <4>1, <4>2
    <3>3. ASSUME NEW k \in 1..(Len(frames) + 1), NEW m \in 1..(Len(frames) + 1), k < m
          PROVE  frames'[k].slots < frames'[m].slots
      <4>1. CASE m = Len(frames) + 1
        <5>1. k \in 1..Len(frames)
          BY <2>10, <3>3, <4>1
        <5>2. frames[k].slots <= Frame.slots /\ frames[k].slots \in Nat /\ Frame.slots \in Nat
          BY <2>1, <5>1, CurrentFrame
        <5> QED
          BY <2>3, <2>4, <2>8, <2>9, <4>1, <5>1, <5>2
      <4>2. CASE m \in 1..Len(frames)
        <5>1. k \in 1..Len(frames) /\ DOMAIN frames = 1..Len(frames)
          BY <2>1, <2>10, <3>3, <4>2, CurrentFrame
        <5> QED
          BY <2>9, <3>3, <4>2, <5>1 DEF IInv, FramesOK
      <4> QED
        BY <2>10, <4>1, <4>2
    <3> QED
      BY <2>1, <2>10, <3>1, <3>2, <3>3 DEF FramesOK
  <2>13. GoesDown' /\ OpenAreListed' /\ OpenAreHeld' /\ ClosuresExist' /\ FillingOK'
    BY <2>1 DEF IInv, GoesDown, OpenAreListed, OpenAreHeld, ClosuresExist, FillingOK
  <2> QED
    BY <2>11, <2>12, <2>13 DEF IInv
<1>11. CASE OpReturn
  <2>1. /\ Running /\ frames # <<>> /\ ~ filling /\ IsTemporary(top) /\ CloseUpvalues(Frame.slots)
        /\ frames' = SubSeq(frames, 1, Len(frames) - 1)
        /\ UNCHANGED <<captured, filling>>
    BY <1>11 DEF OpReturn, Running
  <2>2. IF Len(frames) = 1
        THEN top = Frame.slots + 1 /\ top' = 0 /\ UNCHANGED slots
        ELSE top' = Frame.slots /\ slots' = [slots EXCEPT ![Frame.slots] = slots[top]]
    BY <1>11 DEF OpReturn
  <2>3. /\ top \in Nat /\ top <= MaxStack /\ MaxStack \in Nat
        /\ Frame.slots \in 1..top /\ Frame.slots \in 1..MaxStack
        /\ Len(frames) \in Nat \ {0} /\ Len(frames) <= FramesMax /\ FramesMax \in Nat
    BY <2>1, CurrentFrame
  <2>4. ClosedFrom(Frame.slots)
    BY <2>1, <2>3, ClosedFromLastOn
  <2>5. Len(frames) = 1 => Frame.slots = 1
    BY <2>1 DEF IInv, FramesOK, Frame
  <2>6. top' \in 0..MaxStack /\ Frame.slots - 1 <= top'
    BY <2>2, <2>3, <2>5
  <2>7. /\ location' \in [Upvalue -> 0..MaxStack] /\ closed' \in [Upvalue -> Item]
        /\ openUpvalues' \in Seq(Upvalue)
        /\ GoesDown' /\ OpenAreListed' /\ OpenAreHeld'
        /\ \A u \in Upvalue : closed'[u] \in Closure => closed'[u] \in DOMAIN captured
    BY <2>1, <2>3, <2>4, <2>6, CloseKeeps
  <2>8. slots[top] \in Item /\ (slots[top] \in Closure => slots[top] \in DOMAIN captured)
    <3>1. top \in 1..top
      BY <2>3
    <3> QED
      BY <3>1, ReadableExists
  <2>9. slots' \in [1..MaxStack -> Item]
    BY <2>2, <2>3, <2>8 DEF IInv, TypeOK
  <2>10. /\ frames' \in Seq([closure : Closure, slots : 1..MaxStack])
         /\ Len(frames') = Len(frames) - 1
         /\ \A k \in 1..(Len(frames) - 1) : frames'[k] = frames[k]
    <3>1. frames \in Seq([closure : Closure, slots : 1..MaxStack])
      BY DEF IInv, TypeOK
    <3>2. \A k \in 1..(Len(frames) - 1) : frames[k] \in [closure : Closure, slots : 1..MaxStack]
      <4> SUFFICES ASSUME NEW k \in 1..(Len(frames) - 1)
                   PROVE  frames[k] \in [closure : Closure, slots : 1..MaxStack]
        OBVIOUS
      <4>1. k \in 1..Len(frames)
        BY <2>3
      <4> QED
        BY <3>1, <4>1, ElementOfSeq
    <3> QED
      <4> DEFINE m == Len(frames) - 1
      <4>1. m \in Nat /\ frames' = SubSeq(frames, 1, m)
        BY <2>1, <2>3
      <4>2. \A k \in 1..m : frames[k] \in [closure : Closure, slots : 1..MaxStack]
        BY <3>2
      <4> HIDE DEF m
      <4>3. /\ SubSeq(frames, 1, m) \in Seq([closure : Closure, slots : 1..MaxStack])
            /\ Len(SubSeq(frames, 1, m)) = m
            /\ \A k \in 1..m : SubSeq(frames, 1, m)[k] = frames[k]
        BY <4>1, <4>2, SubSeqProperties
      <4> QED
        BY <4>1, <4>3 DEF m
  <2>11. DOMAIN frames' = 1..(Len(frames) - 1)
    BY <2>10
  <2>12. TypeOK'
    BY <2>1, <2>3, <2>6, <2>7, <2>9, <2>10 DEF IInv, TypeOK
  <2>13. FramesOK'
    <3>1. frames' # <<>> => frames'[1].slots = 1
      BY <2>1, <2>3, <2>10, <2>11 DEF IInv, FramesOK
    <3>2. ASSUME NEW k \in 1..(Len(frames) - 1)
          PROVE  frames'[k].closure \in DOMAIN captured /\ frames'[k].slots <= top'
      <4>1. k \in 1..Len(frames) /\ DOMAIN frames = 1..Len(frames) /\ Len(frames) # 1
        BY <2>1, <2>3, CurrentFrame
      <4>2. top' = Frame.slots
        BY <2>2, <4>1
      <4> QED
        BY <2>1, <2>10, <4>1, <4>2, CurrentFrame DEF IInv, FramesOK
    <3>3. ASSUME NEW k \in 1..(Len(frames) - 1), NEW m \in 1..(Len(frames) - 1), k < m
          PROVE  frames'[k].slots < frames'[m].slots
      <4>1. k \in 1..Len(frames) /\ m \in 1..Len(frames) /\ DOMAIN frames = 1..Len(frames)
        BY <2>1, <2>3, CurrentFrame
      <4> QED
        BY <2>10, <3>3, <4>1 DEF IInv, FramesOK
    <3> QED
      BY <2>1, <2>11, <3>1, <3>2, <3>3 DEF FramesOK
  <2>14. ClosuresExist'
    <3>1. ASSUME NEW slot \in 1..top', slots'[slot] \in Closure
          PROVE  slots'[slot] \in DOMAIN captured
      <4>1. Len(frames) # 1 /\ top' = Frame.slots /\ slots' = [slots EXCEPT ![Frame.slots] = slots[top]]
        BY <2>2
      <4>2. slots'[slot] = IF slot = Frame.slots THEN slots[top] ELSE slots[slot]
        BY <2>3, <4>1 DEF IInv, TypeOK
      <4>3. slot \in 1..top
        BY <2>3, <4>1
      <4> QED
        BY <2>8, <3>1, <4>2, <4>3, ReadableExists
    <3> QED
      BY <2>1, <2>7, <3>1 DEF ClosuresExist
  <2> QED
    BY <2>1, <2>7, <2>12, <2>13, <2>14 DEF IInv, FillingOK
<1>12. CASE UNCHANGED vars
  BY <1>12 DEF vars, IInv, TypeOK, GoesDown, OpenAreListed, FramesOK, ClosuresExist, OpenAreHeld, FillingOK
<1> QED
  BY <1>1, <1>2, <1>3, <1>4, <1>5, <1>6, <1>7, <1>8, <1>9, <1>10, <1>11, <1>12 DEF Next

\* The inductive invariant holds in every reachable state.
THEOREM Inductive == Spec => []IInv
BY InitIInv, NextIInv, PTL DEF Spec

\* Every variable has its type, however deep the stack and however many upvalues.
THEOREM TypesHold == Spec => []TypeOK
<1>1. IInv => TypeOK
  BY DEF IInv
<1> QED
  BY <1>1, Inductive, PTL

\* The list of open upvalues is always strictly in the order of the slots that its
\* members refer to, and none refers to a slot that has been given up.
THEOREM ListGoesDown == Spec => []GoesDown
<1>1. IInv => GoesDown
  BY DEF IInv
<1> QED
  BY <1>1, Inductive, PTL

\* No closure holds an open upvalue that closeUpvalues() would not find.
THEOREM NoneIsMissed == Spec => []OpenAreListed
<1>1. IInv => OpenAreListed
  BY DEF IInv
<1> QED
  BY <1>1, Inductive, PTL

----------------------------------------------------------------------------
(***************************************************************************)
(* A captured variable is a cell.                                          *)
(***************************************************************************)

\* What the abstract state is, whichever way the list is ordered.
Shown ==
  /\ Env \in Seq(Item \cup Upvalue) /\ Len(Env) = top /\ DOMAIN Env = 1..top /\ top \in Nat
  /\ Store \in [Upvalue -> Item]
  /\ \A u \in Upvalue : location[u] # 0 => location[u] \in 1..top /\ Env[location[u]] = u
  /\ \A i \in 1..top : (\A u \in Upvalue : location[u] # i) => Env[i] = slots[i]
  /\ \A i \in 1..top : Env[i] \in Upvalue => location[Env[i]] = i
  /\ \A i \in 1..top : Env[i] \notin Upvalue => Env[i] = slots[i]
  /\ \A u \in Upvalue : Store[u] = ValueOf(u)
  /\ \A i \in 1..top : slots[i] \in Item

LEMMA EnvIsShown == IInv => Shown
<1> SUFFICES ASSUME IInv  PROVE Shown
  OBVIOUS
<1>1. top \in Nat /\ \A i \in 1..top : slots[i] \in Item
  BY ReadableExists, UpvaluesAssumption DEF IInv, TypeOK
<1>2. \A i \in 1..top : IsCaptured(i) => CellAt(i) \in Upvalue /\ location[CellAt(i)] = i
  <2> SUFFICES ASSUME NEW i \in 1..top, IsCaptured(i)
               PROVE  CellAt(i) \in Upvalue /\ location[CellAt(i)] = i
    OBVIOUS
  <2> DEFINE j == CHOOSE j \in DOMAIN openUpvalues : location[openUpvalues[j]] = i
  <2>1. j \in DOMAIN openUpvalues /\ location[openUpvalues[j]] = i
    BY DEF IsCaptured
  <2> QED
    BY <2>1, ListIsExact DEF CellAt
<1>3. \A i \in 1..top : ~ IsCaptured(i) => \A u \in Upvalue : location[u] # i
  <2> SUFFICES ASSUME NEW i \in 1..top, NEW u \in Upvalue, location[u] = i  PROVE IsCaptured(i)
    OBVIOUS
  <2>1. PICK j \in DOMAIN openUpvalues : openUpvalues[j] = u
    BY <1>1, ListIsExact
  <2> QED
    BY <2>1 DEF IsCaptured
<1>4. \A i \in 1..top : Env[i] = IF IsCaptured(i) THEN CellAt(i) ELSE slots[i]
  BY DEF Env
<1>5. \A i \in 1..top : Env[i] \in Item \cup Upvalue
  BY <1>1, <1>2, <1>4
<1>6. Env \in Seq(Item \cup Upvalue) /\ Len(Env) = top /\ DOMAIN Env = 1..top
  <2>1. Env \in [1..top -> Item \cup Upvalue]
    BY <1>5 DEF Env
  <2> QED
    BY <1>1, <2>1
<1>7. \A u \in Upvalue : Store[u] = ValueOf(u) /\ Store[u] \in Item
  BY ReadableExists DEF Store
<1>8. Store \in [Upvalue -> Item]
  BY <1>7 DEF Store
<1>9. \A u \in Upvalue : location[u] # 0 => location[u] \in 1..top /\ Env[location[u]] = u
  <2> SUFFICES ASSUME NEW u \in Upvalue, location[u] # 0
               PROVE  location[u] \in 1..top /\ Env[location[u]] = u
    OBVIOUS
  <2>1. location[u] \in 1..top
    BY ListIsExact
  <2>2. IsCaptured(location[u])
    BY <1>3, <2>1
  <2>3. CellAt(location[u]) \in Upvalue /\ location[CellAt(location[u])] = location[u]
    BY <1>2, <2>1, <2>2
  <2>4. CellAt(location[u]) = u
    BY <2>3, ListIsExact
  <2> QED
    BY <1>4, <2>1, <2>2, <2>4
<1>10. \A i \in 1..top : (\A u \in Upvalue : location[u] # i) => Env[i] = slots[i]
  BY <1>2, <1>4
<1>11. Item \cap Upvalue = {}
  BY UpvaluesAssumption DEF Item
<1>12. \A i \in 1..top : Env[i] \in Upvalue => location[Env[i]] = i
  BY <1>1, <1>2, <1>4, <1>11
<1>13. \A i \in 1..top : Env[i] \notin Upvalue => Env[i] = slots[i]
  BY <1>2, <1>4
<1> QED
  BY <1>1, <1>6, <1>7, <1>8, <1>9, <1>10, <1>12, <1>13 DEF Shown

\* What an instruction can read, a program of the abstract machine can.
LEMMA ReadableIsShown ==
  ASSUME IInv
  PROVE  /\ \A i \in 1..top : Abstract!Contents(Env[i]) = slots[i]
         /\ \A i \in 1..top : slots[i] \in Abstract!Readable
         /\ \A f \in DOMAIN captured : captured[f] \subseteq Abstract!Used
         /\ \A u \in Abstract!Used : u \in Upvalue /\ ValueOf(u) \in Abstract!Readable
         /\ Value \subseteq Abstract!Readable
<1>1. Shown
  BY EnvIsShown
<1>2. ASSUME NEW i \in 1..top  PROVE Abstract!Contents(Env[i]) = slots[i]
  <2>1. CASE Env[i] \in Upvalue
    <3>1. location[Env[i]] = i /\ i # 0
      BY <1>1, <2>1 DEF Shown
    <3>2. Store[Env[i]] = slots[i]
      BY <1>1, <2>1, <3>1 DEF Shown, ValueOf
    <3> QED
      BY <2>1, <3>2 DEF Abstract!Contents
  <2>2. CASE Env[i] \notin Upvalue
    BY <1>1, <2>2 DEF Shown, Abstract!Contents
  <2> QED
    BY <2>1, <2>2
<1>3. \A i \in 1..top : slots[i] \in Abstract!Readable
  <2>1. DOMAIN Env = 1..top
    BY <1>1 DEF Shown
  <2> QED
    BY <1>2, <2>1 DEF Abstract!Readable
<1>4. \A f \in DOMAIN captured : captured[f] \subseteq Abstract!Used
  BY DEF Abstract!Used
<1>5. \A u \in Abstract!Used : u \in Upvalue
  BY DEF Abstract!Used, IInv, TypeOK
<1>6. \A u \in Abstract!Used : ValueOf(u) \in Abstract!Readable
  <2>1. \A u \in Abstract!Used : Store[u] = ValueOf(u)
    BY <1>1, <1>5 DEF Shown
  <2> QED
    BY <2>1 DEF Abstract!Readable
<1> QED
  BY <1>2, <1>3, <1>4, <1>5, <1>6 DEF Abstract!Readable

LEMMA InitRefines == Init => Abstract!Init
<1> SUFFICES ASSUME Init  PROVE Abstract!Init
  OBVIOUS
<1>1. Shown /\ top = 1 /\ slots[1] = Script
  BY InitIInv, EnvIsShown, UpvaluesAssumption DEF Init
<1>2. \A u \in Upvalue : location[u] = 0 /\ closed[u] = Nil
  BY DEF Init
<1>3. Env[1] = Script
  BY <1>1, <1>2 DEF Shown
<1>4. Env = <<Script>>
  BY <1>1, <1>3 DEF Shown
<1>5. Store \in [Upvalue -> Value]
  BY <1>2, UpvaluesAssumption DEF Store, ValueOf
<1> QED
  BY <1>4, <1>5, UpvaluesAssumption DEF Init, Abstract!Init

\* A slot shows what it did when its upvalue is the same and nothing was written to it.
LEMMA SlotKept ==
  ASSUME Shown, Shown', NEW i \in 1..top, i \in 1..top',
         \A u \in Upvalue : location'[u] = i <=> location[u] = i,
         Env[i] \in Upvalue \/ slots'[i] = slots[i]
  PROVE  Env'[i] = Env[i]
<1>1. i # 0
  BY DEF Shown
<1>2. CASE Env[i] \in Upvalue
  <2>1. location[Env[i]] = i
    BY <1>2 DEF Shown
  <2>2. location'[Env[i]] = i
    BY <1>2, <2>1
  <2> QED
    BY <1>1, <1>2, <2>2 DEF Shown
<1>3. CASE Env[i] \notin Upvalue
  <2>1. \A u \in Upvalue : location[u] # i
    BY <1>1, <1>3 DEF Shown
  <2>2. Env[i] = slots[i] /\ Env'[i] = slots'[i]
    BY <2>1 DEF Shown
  <2> QED
    BY <1>3, <2>2
<1> QED
  BY <1>2, <1>3

LEMMA StoreKept ==
  ASSUME Shown, Shown', \A u \in Upvalue : ValueOf(u)' = ValueOf(u)
  PROVE  Store' = Store
BY DEF Store

\* Two stacks of the same height that show the same are the same.
LEMMA EnvKept ==
  ASSUME Shown, Shown', top' = top, \A i \in 1..top : Env'[i] = Env[i]
  PROVE  Env' = Env
<1>1. /\ Env \in Seq(Item \cup Upvalue) /\ Len(Env) = top
      /\ Env' \in Seq(Item \cup Upvalue) /\ Len(Env') = top
  BY DEF Shown
<1> QED
  BY <1>1, SeqEqual

\* One value more.
LEMMA EnvGrows ==
  ASSUME Shown, Shown', NEW v \in Item, top' = top + 1, Env'[top + 1] = v,
         \A i \in 1..top : Env'[i] = Env[i]
  PROVE  Env' = Append(Env, v)
<1> DEFINE T == Item \cup Upvalue
           e == Append(Env, v)
<1>1. /\ Env \in Seq(T) /\ Len(Env) = top /\ top \in Nat
      /\ Env' \in Seq(T) /\ Len(Env') = top + 1 /\ v \in T
  BY DEF Shown
<1> HIDE DEF T
<1>2. /\ e \in Seq(T) /\ Len(e) = top + 1
      /\ \A i \in 1..top : e[i] = Env[i]
      /\ e[top + 1] = v
  BY <1>1, AppendProperties
<1> HIDE DEF e
<1>3. \A i \in 1..(top + 1) : Env'[i] = e[i]
  <2>1. \A i \in 1..(top + 1) : i \in 1..top \/ i = top + 1
    BY <1>1
  <2> QED
    BY <1>2, <2>1
<1>4. Env' = e
  BY <1>1, <1>2, <1>3, SeqEqual
<1> QED
  BY <1>4 DEF e

\* The slots from n + 1 on are gone.
LEMMA EnvShrinks ==
  ASSUME Shown, Shown', NEW n \in 0..top, top' = n, \A i \in 1..n : Env'[i] = Env[i]
  PROVE  Env' = SubSeq(Env, 1, n)
<1> DEFINE T == Item \cup Upvalue
           e == SubSeq(Env, 1, n)
<1>1. /\ Env \in Seq(T) /\ Len(Env) = top /\ top \in Nat /\ n \in Nat /\ n <= top
      /\ Env' \in Seq(T) /\ Len(Env') = n
  BY DEF Shown
<1> HIDE DEF T
<1>2. \A i \in 1..n : Env[i] \in T
  BY <1>1, ElementOfSeq
<1>3. e \in Seq(T) /\ Len(e) = n /\ \A i \in 1..n : e[i] = Env[i]
  BY <1>1, <1>2, SubSeqProperties
<1> HIDE DEF e
<1>4. Env' = e
  BY <1>1, <1>3, SeqEqual
<1> QED
  BY <1>4 DEF e

\* The slots from n on are gone, but for a result in the first of them.
LEMMA EnvReturns ==
  ASSUME Shown, Shown', NEW n \in 1..top, NEW v \in Item, top' = n, Env'[n] = v,
         \A i \in 1..(n - 1) : Env'[i] = Env[i]
  PROVE  Env' = Append(SubSeq(Env, 1, n - 1), v)
<1> DEFINE T == Item \cup Upvalue
           m == n - 1
           r == SubSeq(Env, 1, m)
           e == Append(r, v)
<1>1. /\ Env \in Seq(T) /\ Len(Env) = top /\ top \in Nat /\ m \in Nat /\ m <= top /\ n = m + 1
      /\ Env' \in Seq(T) /\ Len(Env') = n /\ v \in T
  BY DEF Shown
<1> HIDE DEF T
<1>2. \A i \in 1..m : Env[i] \in T /\ Env'[i] = Env[i]
  BY <1>1, ElementOfSeq
<1> HIDE DEF m
<1>3. r \in Seq(T) /\ Len(r) = m /\ \A i \in 1..m : r[i] = Env[i]
  BY <1>1, <1>2, SubSeqProperties
<1> HIDE DEF r
<1>4. /\ e \in Seq(T) /\ Len(e) = m + 1
      /\ \A i \in 1..m : e[i] = r[i]
      /\ e[m + 1] = v
  BY <1>1, <1>3, AppendProperties
<1> HIDE DEF e
<1>5. \A i \in 1..n : Env'[i] = e[i]
  <2>1. \A i \in 1..n : i \in 1..m \/ i = m + 1
    BY <1>1
  <2> QED
    BY <1>1, <1>2, <1>3, <1>4, <2>1
<1>6. Env' = e
  BY <1>1, <1>4, <1>5, SeqEqual
<1> QED
  BY <1>6 DEF e, r, m

\* A write through an upvalue, or to a slot, is a write to the cell if there is one.
LEMMA EnvAssigned ==
  ASSUME Shown, Shown', NEW slot \in 1..top, NEW v \in Item,
         slots' = [slots EXCEPT ![slot] = v], slots \in [1..MaxStack -> Item], top <= MaxStack, MaxStack \in Nat,
         UNCHANGED <<top, location, closed>>
  PROVE  IF Env[slot] \in Upvalue
         THEN Store' = [Store EXCEPT ![Env[slot]] = v] /\ Env' = Env
         ELSE Env' = [Env EXCEPT ![slot] = v] /\ Store' = Store
<1>1. \A i \in 1..top : slots'[i] = IF i = slot THEN v ELSE slots[i]
  BY DEF Shown
<1>2. \A i \in 1..top : i # slot => Env'[i] = Env[i]
  BY <1>1, SlotKept
<1>3. slot # 0 /\ top' = top
  BY DEF Shown
<1>4. CASE Env[slot] \in Upvalue
  <2>1. location[Env[slot]] = slot /\ Env'[slot] = Env[slot]
    BY <1>4, SlotKept DEF Shown
  <2>2. Env' = Env
    BY <1>2, <1>3, <2>1, EnvKept
  <2>3. ASSUME NEW u \in Upvalue
        PROVE  Store'[u] = IF u = Env[slot] THEN v ELSE Store[u]
    <3>1. Store'[u] = ValueOf(u)' /\ Store[u] = ValueOf(u)
      BY DEF Shown
    <3>2. CASE u = Env[slot]
      BY <1>1, <1>3, <2>1, <3>1, <3>2 DEF ValueOf
    <3>3. CASE u # Env[slot]
      <4>1. location[u] # slot
        BY <1>3, <3>3 DEF Shown
      <4>2. location[u] # 0 => location[u] \in 1..top
        BY DEF Shown
      <4> QED
        BY <1>1, <3>1, <3>3, <4>1, <4>2 DEF ValueOf
    <3> QED
      BY <3>2, <3>3
  <2>4. Store' = [Store EXCEPT ![Env[slot]] = v]
    BY <1>4, <2>3 DEF Shown
  <2> QED
    BY <1>4, <2>2, <2>4
<1>5. CASE Env[slot] \notin Upvalue
  <2>1. \A u \in Upvalue : location[u] # slot
    BY <1>3, <1>5 DEF Shown
  <2>2. Env'[slot] = v
    BY <1>1, <1>3, <2>1 DEF Shown
  <2>3. Env' \in [1..top -> Item \cup Upvalue] /\ Env \in [1..top -> Item \cup Upvalue]
    BY <1>3 DEF Shown
  <2>4. Env' = [Env EXCEPT ![slot] = v]
    BY <1>2, <2>2, <2>3
  <2>5. ASSUME NEW u \in Upvalue  PROVE ValueOf(u)' = ValueOf(u)
    <3>1. location[u] # slot /\ (location[u] # 0 => location[u] \in 1..top)
      BY <2>1 DEF Shown
    <3> QED
      BY <1>1, <3>1 DEF ValueOf
  <2>6. Store' = Store
    BY <2>5, StoreKept
  <2> QED
    BY <1>5, <2>4, <2>6
<1> QED
  BY <1>4, <1>5

\* The end of a scope or of a call changes no cell, and nothing below it.
LEMMA ClosingIsSilent ==
  ASSUME IInv, Shown, Shown', NEW last \in 1..top, ClosedFrom(last), top' \in 0..last,
         \A i \in 1..(last - 1) : slots'[i] = slots[i]
  PROVE  /\ Store' = Store
         /\ \A i \in 1..(last - 1) : i <= top' => Env'[i] = Env[i]
         /\ top' = last => Env'[last] = slots'[last]
<1>1. /\ location' = [u \in Upvalue |-> IF location[u] >= last THEN 0 ELSE location[u]]
      /\ closed' = [u \in Upvalue |-> IF location[u] >= last THEN slots[location[u]] ELSE closed[u]]
      /\ last \in Nat /\ last > 0 /\ top \in Nat /\ top' \in Nat
  BY DEF ClosedFrom, Shown
<1>2. \A u \in Upvalue : location[u] # 0 => location[u] \in 1..top
  BY DEF Shown
<1>3. ASSUME NEW u \in Upvalue  PROVE ValueOf(u)' = ValueOf(u)
  <2>1. CASE location[u] = 0
    BY <1>1, <2>1 DEF ValueOf
  <2>2. CASE location[u] # 0 /\ location[u] >= last
    BY <1>1, <1>2, <2>2 DEF ValueOf
  <2>3. CASE location[u] # 0 /\ ~ (location[u] >= last)
    <3>1. location[u] \in 1..(last - 1) /\ location'[u] = location[u]
      BY <1>1, <1>2, <2>3
    <3> QED
      BY <2>3, <3>1 DEF ValueOf
  <2> QED
    BY <2>1, <2>2, <2>3
<1>4. ASSUME NEW i \in 1..(last - 1), i <= top'  PROVE Env'[i] = Env[i]
  <2>1. i \in 1..top /\ i \in 1..top'
    BY <1>1, <1>4
  <2>2. \A u \in Upvalue : location'[u] = i <=> location[u] = i
    BY <1>1, <1>2
  <2> QED
    BY <2>1, <2>2, SlotKept
<1>5. ASSUME top' = last  PROVE Env'[last] = slots'[last]
  <2>1. \A u \in Upvalue : location'[u] # last
    BY <1>1, <1>2
  <2> QED
    BY <1>1, <1>5, <2>1 DEF Shown
<1> QED
  BY <1>3, <1>4, <1>5, StoreKept

\* A push of what can be read.
LEMMA PushIsShown ==
  ASSUME Shown, Shown', NEW v \in Item, top' = top + 1, slots'[top'] = v,
         \A i \in 1..top : slots'[i] = slots[i], UNCHANGED <<location, closed>>
  PROVE  Env' = Append(Env, v) /\ Store' = Store
<1>1. /\ top \in Nat /\ top + 1 \in 1..top' /\ top' = top + 1
      /\ \A i \in 1..top : i \in 1..top'
  BY DEF Shown
<1>2. \A i \in 1..top : Env'[i] = Env[i]
  BY <1>1, SlotKept
<1>3. \A u \in Upvalue : location[u] # top + 1
  BY <1>1 DEF Shown
<1>4. Env'[top + 1] = v
  BY <1>1, <1>3 DEF Shown
<1>5. \A u \in Upvalue : ValueOf(u)' = ValueOf(u)
  BY DEF Shown, ValueOf
<1> QED
  BY <1>2, <1>4, <1>5, EnvGrows, StoreKept

LEMMA StepRefines == IInv /\ IInv' /\ [Next]_vars => [Abstract!Next]_(Abstract!vars)
<1> SUFFICES ASSUME IInv, IInv', [Next]_vars
             PROVE  Abstract!Next \/ UNCHANGED <<Env, Store, captured>>
  BY DEF Abstract!vars
<1>0. Shown /\ Shown'
  <2>1. Shown
    BY EnvIsShown
  <2>2. IInv' => Shown'
    BY EnvIsShown, PTL
  <2> QED
    BY <2>1, <2>2
<1>a. top \in Nat /\ top <= MaxStack /\ MaxStack \in Nat /\ slots \in [1..MaxStack -> Item]
  BY UpvaluesAssumption DEF IInv, TypeOK
<1>1. CASE UNCHANGED vars
  BY <1>1 DEF vars, Env, Store, IsCaptured, CellAt, ValueOf
<1>2. CASE Push
  <2>1. /\ Running /\ frames # <<>>
        /\ UNCHANGED <<frames, location, closed, openUpvalues, captured, filling>>
    BY <1>2 DEF Push, Running, upvalues
  <2>2. PICK v \in Value \cup {slots[i] : i \in Locals} \cup {ValueOf(u) : u \in captured[Frame.closure]} :
          PushValue(v)
    BY <1>2 DEF Push
  <2>3. v \in Abstract!Readable /\ v \in Item
    <3>1. Locals \subseteq 1..top /\ Frame.closure \in DOMAIN captured
      BY <2>1, CurrentFrame
    <3>2. captured[Frame.closure] \subseteq Abstract!Used /\ captured[Frame.closure] \subseteq Upvalue
      BY <2>1, <3>1, CurrentFrame, ReadableIsShown
    <3> QED
      BY <2>2, <3>1, <3>2, ReadableIsShown, ReadableExists DEF Item
  <2>4. top' = top + 1 /\ slots'[top'] = v /\ \A i \in 1..top : slots'[i] = slots[i]
    BY <1>a, <2>2 DEF PushValue, Room
  <2>5. Env' = Append(Env, v) /\ Store' = Store
    BY <1>0, <2>1, <2>3, <2>4, PushIsShown
  <2>6. Abstract!Push
    BY <2>1, <2>3, <2>5 DEF Abstract!Push
  <2> QED
    BY <2>6 DEF Abstract!Next
<1>3. CASE Pop
  <2>1. /\ Running /\ IsTemporary(top) /\ top' = top - 1
        /\ UNCHANGED <<slots, location, closed, captured>>
    BY <1>3 DEF Pop, upvalues
  <2>2. top - 1 \in 0..top /\ top - 1 \in 0..(Len(Env) - 1) /\ \A i \in 1..(top - 1) : i \in 1..top
    BY <1>0, <2>1, TopIsTemporary DEF Shown
  <2>3. \A i \in 1..(top - 1) : Env'[i] = Env[i]
    BY <1>0, <2>1, <2>2, SlotKept
  <2>4. Env' = SubSeq(Env, 1, top - 1)
    BY <1>0, <2>1, <2>2, <2>3, EnvShrinks
  <2>5. Store' = Store
    BY <2>1 DEF Store, ValueOf
  <2>6. Abstract!Leave
    BY <2>1, <2>2, <2>4, <2>5 DEF Abstract!Leave
  <2> QED
    BY <2>6 DEF Abstract!Next
<1>4. CASE SetLocal
  <2>1. /\ Running /\ frames # <<>> /\ IsTemporary(top)
        /\ UNCHANGED <<top, location, closed, captured>>
    BY <1>4 DEF SetLocal, Running, upvalues
  <2>2. PICK slot \in Locals : slots' = [slots EXCEPT ![slot] = slots[top]]
    BY <1>4 DEF SetLocal
  <2>3. slot \in 1..top /\ top \in 1..top
    BY <2>1, TopIsTemporary, CurrentFrame
  <2>4. slots[top] \in Item /\ slots[top] \in Abstract!Readable
    BY <2>3, ReadableIsShown, ReadableExists
  <2>5. IF Env[slot] \in Upvalue
        THEN Store' = [Store EXCEPT ![Env[slot]] = slots[top]] /\ Env' = Env
        ELSE Env' = [Env EXCEPT ![slot] = slots[top]] /\ Store' = Store
    BY <1>0, <1>a, <2>1, <2>2, <2>3, <2>4, EnvAssigned
  <2>6. slot \in DOMAIN Env
    BY <1>0, <2>3 DEF Shown
  <2>7. Abstract!Assign
    BY <2>1, <2>4, <2>5, <2>6 DEF Abstract!Assign
  <2> QED
    BY <2>7 DEF Abstract!Next
<1>5. CASE SetUpvalue
  <2>1. /\ Running /\ frames # <<>> /\ IsTemporary(top)
        /\ UNCHANGED <<top, location, captured>>
    BY <1>5 DEF SetUpvalue, Running
  <2>2. PICK u \in captured[Frame.closure] :
          IF location[u] = 0
          THEN closed' = [closed EXCEPT ![u] = slots[top]] /\ UNCHANGED slots
          ELSE slots' = [slots EXCEPT ![location[u]] = slots[top]] /\ UNCHANGED closed
    BY <1>5 DEF SetUpvalue
  <2>3. u \in Upvalue /\ u \in Abstract!Used
    BY <2>1, <2>2, CurrentFrame, ReadableIsShown
  <2>4. slots[top] \in Item /\ slots[top] \in Abstract!Readable
    <3>1. top \in 1..top
      BY <2>1, TopIsTemporary
    <3> QED
      BY <3>1, ReadableIsShown, ReadableExists
  <2>5. Store' = [Store EXCEPT ![u] = slots[top]] /\ Env' = Env
    <3>1. CASE location[u] = 0
      <4>1. closed' = [closed EXCEPT ![u] = slots[top]] /\ UNCHANGED slots
        BY <2>2, <3>1
      <4>2. Env' = Env
        <5>1. \A i \in 1..top : Env'[i] = Env[i]
          BY <1>0, <2>1, <4>1, SlotKept
        <5> QED
          BY <1>0, <2>1, <5>1, EnvKept
      <4>3. ASSUME NEW w \in Upvalue
            PROVE  Store'[w] = IF w = u THEN slots[top] ELSE Store[w]
        <5>1. Store'[w] = ValueOf(w)' /\ Store[w] = ValueOf(w)
          BY <1>0 DEF Shown
        <5> QED
          BY <2>1, <2>3, <3>1, <4>1, <5>1 DEF ValueOf, IInv, TypeOK
      <4> QED
        BY <1>0, <4>2, <4>3 DEF Shown
    <3>2. CASE location[u] # 0
      <4>1. location[u] \in 1..top /\ Env[location[u]] = u
        BY <1>0, <2>3, <3>2 DEF Shown
      <4>2. slots' = [slots EXCEPT ![location[u]] = slots[top]] /\ UNCHANGED closed
        BY <2>2, <3>2
      <4> QED
        BY <1>0, <1>a, <2>1, <2>3, <2>4, <4>1, <4>2, EnvAssigned
    <3> QED
      BY <3>1, <3>2
  <2>6. Abstract!AssignHeld
    BY <2>1, <2>3, <2>4, <2>5 DEF Abstract!AssignHeld
  <2> QED
    BY <2>6 DEF Abstract!Next
<1>6. CASE NewClosure
  <2>1. Running /\ UNCHANGED <<location, closed>>
    BY <1>6 DEF NewClosure, upvalues
  <2>2. PICK f \in Closure \ DOMAIN captured :
          /\ PushValue(f)
          /\ captured' = [g \in DOMAIN captured \cup {f} |-> IF g = f THEN {} ELSE captured[g]]
    BY <1>6 DEF NewClosure
  <2>3. top' = top + 1 /\ slots'[top'] = f /\ \A i \in 1..top : slots'[i] = slots[i]
    BY <1>a, <2>2 DEF PushValue, Room
  <2>4. f \in Item
    BY DEF Item
  <2>5. Env' = Append(Env, f) /\ Store' = Store
    BY <1>0, <2>1, <2>3, <2>4, PushIsShown
  <2>6. Abstract!MakeClosure
    BY <2>2, <2>5 DEF Abstract!MakeClosure
  <2> QED
    BY <2>6 DEF Abstract!Next
\* OP_CLOSURE fills the array of the closure on top of the stack.
<1>7. ASSUME filling
      PROVE  /\ slots[top] \in DOMAIN captured
             /\ Env[Len(Env)] = slots[top] \/ Env[Len(Env)] \in captured[slots[top]]
             /\ frames # <<>> /\ top \in 1..top /\ Len(Env) = top
  <2>1. top \in 1..top /\ Len(Env) = top /\ frames # <<>> /\ slots[top] \in DOMAIN captured
    BY <1>0, <1>a, <1>7 DEF Shown, IInv, FillingOK
  <2>2. CASE Env[top] \in Upvalue
    <3>1. location[Env[top]] = top /\ top # 0
      BY <1>0, <2>1, <2>2 DEF Shown
    <3>2. PICK j \in DOMAIN openUpvalues : openUpvalues[j] = Env[top]
      BY <2>2, <3>1, ListIsExact
    <3> QED
      BY <1>7, <2>1, <3>1, <3>2 DEF IInv, FillingOK
  <2>3. CASE Env[top] \notin Upvalue
    BY <1>0, <2>1, <2>3 DEF Shown
  <2> QED
    BY <2>1, <2>2, <2>3
<1>8. CASE CaptureLocal
  <2>1. filling /\ UNCHANGED <<slots, top, frames, filling>>
    BY <1>8 DEF CaptureLocal, stack
  <2>2. PICK slot \in Locals :
          IF IsShared(openUpvalues, location, slot)
          THEN Hold(Shared(openUpvalues, location, slot)) /\ UNCHANGED upvalues
          ELSE \E u \in Upvalue \ UNION {captured[f] : f \in DOMAIN captured} :
                 /\ Hold(u)
                 /\ location' = [location EXCEPT ![u] = slot]
                 /\ openUpvalues' = Inserted(openUpvalues, location, slot, u)
                 /\ UNCHANGED closed
    BY <1>8 DEF CaptureLocal
  <2>3. slot \in 1..top /\ slot \in DOMAIN Env /\ slot # 0
    BY <1>0, <1>7, <2>1, CurrentFrame DEF Shown
  <2>4. CASE IsShared(openUpvalues, location, slot)
    <3> DEFINE u == Shared(openUpvalues, location, slot)
    <3>1. Hold(u) /\ UNCHANGED <<location, closed, openUpvalues>>
      BY <2>2, <2>4 DEF upvalues
    <3>2. u \in Upvalue /\ location[u] = slot
      BY <2>3, <2>4, SharedIsTheOne
    <3> HIDE DEF u
    <3>3. Env[slot] = u
      BY <1>0, <2>3, <3>2 DEF Shown
    <3>4. UNCHANGED <<Env, Store>>
      BY <2>1, <3>1 DEF Env, Store, IsCaptured, CellAt, ValueOf
    <3>5. captured' = [captured EXCEPT ![slots[top]] = @ \cup {Env[slot]}]
      BY <3>1, <3>3 DEF Hold
    <3>6. Abstract!Capture
      BY <1>7, <2>1, <2>3, <3>2, <3>3, <3>4, <3>5 DEF Abstract!Capture
    <3> QED
      BY <3>6 DEF Abstract!Next
  <2>5. CASE ~ IsShared(openUpvalues, location, slot)
    <3>1. PICK u \in Upvalue \ UNION {captured[f] : f \in DOMAIN captured} :
            /\ Hold(u)
            /\ location' = [location EXCEPT ![u] = slot]
            /\ UNCHANGED closed
      BY <2>2, <2>5
    <3>2. location[u] = 0
      BY <3>1 DEF IInv, OpenAreHeld
    <3>3. /\ location'[u] = slot
          /\ \A w \in Upvalue : w # u => location'[w] = location[w]
      BY <3>1 DEF IInv, TypeOK
    <3>4. \A w \in Upvalue : location[w] # slot
      <4>1. ~ IsCaptured(slot)
        BY <2>3, <2>5, SharedIsTheOne
      <4> QED
        BY <2>3, <4>1, ListIsExact DEF IsCaptured
    <3>5. Env[slot] = slots[slot] /\ Env[slot] \notin Upvalue
      BY <1>0, <2>3, <3>4 DEF Shown
    <3>6. Env' = [Env EXCEPT ![slot] = u]
      <4>1. Env'[slot] = u
        BY <1>0, <2>3, <3>3 DEF Shown
      <4>2. ASSUME NEW i \in 1..top, i # slot  PROVE Env'[i] = Env[i]
        <5>1. i \in 1..top' /\ slots'[i] = slots[i]
          BY <2>1
        <5>2. \A w \in Upvalue : location'[w] = i <=> location[w] = i
          BY <1>a, <3>2, <3>3, <4>2
        <5> QED
          BY <1>0, <5>1, <5>2, SlotKept
      <4>3. Env \in [1..top -> Item \cup Upvalue] /\ Env' \in [1..top -> Item \cup Upvalue]
        BY <1>0, <2>1 DEF Shown
      <4> QED
        BY <2>3, <4>1, <4>2, <4>3
    <3>7. Store' = [Store EXCEPT ![u] = Env[slot]]
      <4>1. ASSUME NEW w \in Upvalue
            PROVE  Store'[w] = IF w = u THEN slots[slot] ELSE Store[w]
        <5>1. Store'[w] = ValueOf(w)' /\ Store[w] = ValueOf(w)
          BY <1>0 DEF Shown
        <5> QED
          BY <2>1, <2>3, <3>1, <3>3, <5>1 DEF ValueOf
      <4> QED
        BY <1>0, <3>5, <4>1 DEF Shown
    <3>8. u \in Upvalue \ Abstract!Used
      BY <3>1 DEF Abstract!Used
    <3>9. captured' = [captured EXCEPT ![slots[top]] = @ \cup {u}]
      BY <3>1 DEF Hold
    <3>10. Abstract!Capture
      BY <1>7, <2>1, <2>3, <3>5, <3>6, <3>7, <3>8, <3>9 DEF Abstract!Capture
    <3> QED
      BY <3>10 DEF Abstract!Next
  <2> QED
    BY <2>4, <2>5
<1>9. CASE CaptureUpvalue
  <2>1. filling /\ frames # <<>>
    BY <1>7, <1>9 DEF CaptureUpvalue
  <2>2. UNCHANGED <<Env, Store>>
    BY <1>9 DEF CaptureUpvalue, stack, upvalues, Env, Store, IsCaptured, CellAt, ValueOf
  <2>3. PICK u \in captured[Frame.closure] : Hold(u)
    BY <1>9 DEF CaptureUpvalue
  <2>4. u \in Abstract!Used
    BY <2>1, <2>3, CurrentFrame, ReadableIsShown
  <2>5. captured' = [captured EXCEPT ![slots[top]] = @ \cup {u}]
    BY <2>3 DEF Hold
  <2>6. Abstract!Capture
    BY <1>7, <2>1, <2>2, <2>4, <2>5 DEF Abstract!Capture
  <2> QED
    BY <2>6 DEF Abstract!Next
<1>10. CASE CaptureDone \/ Call
  BY <1>10 DEF CaptureDone, Call, stack, upvalues, Env, Store, IsCaptured, CellAt, ValueOf
<1>11. CASE CloseUpvalue
  <2>1. /\ Running /\ frames # <<>> /\ top \in Locals /\ CloseUpvalues(top)
        /\ top' = top - 1 /\ UNCHANGED <<slots, captured>>
    BY <1>11 DEF CloseUpvalue, Running
  <2>2. top \in 2..top /\ top \in 1..top /\ top \in 1..MaxStack /\ top' \in 0..top
    BY <1>a, <2>1, CurrentFrame
  <2>3. ClosedFrom(top)
    BY <2>1, <2>2, ClosedFromLastOn
  <2>4. Store' = Store /\ \A i \in 1..(top - 1) : i <= top' => Env'[i] = Env[i]
    BY <1>0, <2>1, <2>2, <2>3, ClosingIsSilent
  <2>5. \A i \in 1..(top - 1) : Env'[i] = Env[i]
    BY <1>a, <2>1, <2>4
  <2>6. Env' = SubSeq(Env, 1, top - 1)
    BY <1>0, <2>1, <2>2, <2>5, EnvShrinks
  <2>7. top - 1 \in 0..(Len(Env) - 1)
    BY <1>0, <2>2 DEF Shown
  <2>8. Abstract!Leave
    BY <2>1, <2>4, <2>6, <2>7 DEF Abstract!Leave
  <2> QED
    BY <2>8 DEF Abstract!Next
<1>12. CASE OpReturn
  <2>1. /\ Running /\ frames # <<>> /\ IsTemporary(top) /\ CloseUpvalues(Frame.slots)
        /\ UNCHANGED captured
    BY <1>12 DEF OpReturn, Running
  <2>2. IF Len(frames) = 1
        THEN top = Frame.slots + 1 /\ top' = 0 /\ UNCHANGED slots
        ELSE top' = Frame.slots /\ slots' = [slots EXCEPT ![Frame.slots] = slots[top]]
    BY <1>12 DEF OpReturn
  <2> DEFINE base == Frame.slots
  <2>3. base \in 1..top /\ base \in 1..MaxStack /\ base \in Nat /\ top \in 1..top
    BY <1>a, <2>1, CurrentFrame
  <2>4. ClosedFrom(base)
    BY <2>1, <2>3, ClosedFromLastOn
  <2>5. /\ \A i \in 1..(base - 1) : slots'[i] = slots[i]
        /\ top' \in 0..base
    BY <1>a, <2>2, <2>3
  <2> HIDE DEF base
  <2>6. /\ Store' = Store
        /\ \A i \in 1..(base - 1) : i <= top' => Env'[i] = Env[i]
        /\ top' = base => Env'[base] = slots'[base]
    BY <1>0, <2>3, <2>4, <2>5, ClosingIsSilent
  <2>7. Len(Env) = top
    BY <1>0 DEF Shown
  <2>8. CASE Len(frames) = 1
    <3>1. top' = 0 /\ 0 \in 0..top /\ \A i \in 1..0 : Env'[i] = Env[i]
      BY <1>a, <2>2, <2>8
    <3>2. Env' = SubSeq(Env, 1, 0)
      BY <1>0, <3>1, EnvShrinks
    <3>3. 0 \in 0..(Len(Env) - 1)
      BY <2>3, <2>7
    <3>4. Abstract!Leave
      BY <2>1, <2>6, <3>2, <3>3 DEF Abstract!Leave
    <3> QED
      BY <3>4 DEF Abstract!Next
  <2>9. CASE Len(frames) # 1
    <3>1. top' = base /\ slots'[base] = slots[top]
      BY <1>a, <2>2, <2>3, <2>9 DEF base
    <3>2. slots[top] \in Item /\ Abstract!Contents(Env[top]) = slots[top]
      BY <2>3, ReadableIsShown, ReadableExists
    <3>3. Env'[base] = slots[top] /\ \A i \in 1..(base - 1) : Env'[i] = Env[i]
      BY <2>3, <2>6, <3>1
    <3>4. Env' = Append(SubSeq(Env, 1, base - 1), slots[top])
      BY <1>0, <2>3, <3>1, <3>2, <3>3, EnvReturns
    <3>5. base - 1 \in 0..(Len(Env) - 1)
      BY <2>3, <2>7
    <3>6. Abstract!Leave
      BY <2>1, <2>6, <2>7, <3>2, <3>4, <3>5 DEF Abstract!Leave
    <3> QED
      BY <3>6 DEF Abstract!Next
  <2> QED
    BY <2>8, <2>9
<1> QED
  BY <1>1, <1>2, <1>3, <1>4, <1>5, <1>6, <1>8, <1>9, <1>10, <1>11, <1>12 DEF Next

\* A program cannot tell upvalues from cells: a captured variable is one place,
\* however many closures share it, on the stack and after it has left the stack.
THEOREM Refinement == Spec => Implements
<1>1. Init /\ [][Next]_vars /\ []IInv => Abstract!Init /\ [][Abstract!Next]_(Abstract!vars)
  BY InitRefines, StepRefines, PTL
<1> QED
  BY <1>1, Inductive, PTL DEF Spec, Implements, Abstract!Spec

=============================================================================
