-------------------------- MODULE LevelListProofs ---------------------------
(***************************************************************************)
(* For every capacity, every set of ids and every set of levels: between   *)
(* two calls each level's list is the same forwards and backwards, and     *)
(* order_index finds every order of the arena.  A call is several writes,  *)
(* and the lists are torn between them; the invariant reads the links as   *)
(* the call will have left them, which makes remove_order's first write    *)
(* the removal and its second no change at all.  Walked from the head, the *)
(* lists are the queues of LevelQueues.                                    *)
(***************************************************************************)
EXTENDS LevelList, SequencesExt, FiniteSetTheorems, SequenceTheorems, WellFoundedInduction, TLAPS

(***************************************************************************)
(* The arena: its free list threads exactly the free slots, and it         *)
(* implements the plain map ArenaMap.                                      *)
(***************************************************************************)
LEMMA OccupiedFinite ==
  TypeOK => /\ IsFiniteSet(Occupied)
            /\ Cardinality(Occupied) \in Nat
<1>1. IsFiniteSet(Slots)
  BY ArenaAssumption, FS_Interval DEF Slots
<1>2. Occupied \subseteq Slots
  BY DEF Occupied
<1>3. QED
  BY <1>1, <1>2, FS_Subset, FS_CardinalityType

\* What an allocation finds at the head of the list: a slot nobody holds.
LEMMA HeadIsFree ==
  ASSUME TypeOK, FreeListThreadsFreeSlots, free_head # FREE_LIST_END
  PROVE  free_head \in Slots \ Occupied
<1>1. PICK n \in 0 .. Capacity : \E f \in [1 .. n -> Slots] : IsFreeList(f, n)
  BY DEF FreeListThreadsFreeSlots
<1>2. PICK f \in [1 .. n -> Slots] : IsFreeList(f, n)
  BY <1>1
<1>3. n # 0 /\ free_head = f[1]
  BY <1>2 DEF IsFreeList
<1>4. 1 \in 1 .. n
  BY <1>3
<1>5. QED
  BY <1>2, <1>3, <1>4 DEF IsFreeList

\* An empty list means that every slot is occupied.
LEMMA EmptyListMeansFull ==
  ASSUME TypeOK, FreeListThreadsFreeSlots, free_head = FREE_LIST_END
  PROVE  Occupied = Slots
<1>1. PICK n \in 0 .. Capacity : \E f \in [1 .. n -> Slots] : IsFreeList(f, n)
  BY DEF FreeListThreadsFreeSlots
<1>2. PICK f \in [1 .. n -> Slots] : IsFreeList(f, n)
  BY <1>1
<1>3. n = 0
  <2> SUFFICES ASSUME n # 0 PROVE FALSE
    OBVIOUS
  <2>1. f[1] \in Slots /\ free_head = f[1]
    BY <1>2 DEF IsFreeList
  <2>2. QED
    BY <2>1, ArenaAssumption DEF Slots
<1>4. QED
  BY <1>2, <1>3 DEF IsFreeList, Occupied

LEMMA TypeStep == TypeOK /\ FreeListThreadsFreeSlots /\ LenCountsOccupied /\ [Next]_vars => TypeOK'
<1> SUFFICES ASSUME TypeOK, FreeListThreadsFreeSlots, LenCountsOccupied, [Next]_vars PROVE TypeOK'
  OBVIOUS
<1> USE DEF TypeOK
<1>1. CASE AllocFull
  BY <1>1, ArenaAssumption DEF AllocFull, Links
<1>2. ASSUME NEW o \in Orders, Alloc(o) PROVE TypeOK'
  <2>1. free_head \in Slots
    BY <1>2, HeadIsFree DEF Alloc
  <2>2. QED
    BY <1>2, <2>1, ArenaAssumption DEF Alloc, Links, Bump
<1>3. ASSUME NEW i \in Slots, Free(i) PROVE TypeOK'
  <2>1. len # 0
    <3>1. IsFiniteSet(Occupied)
      BY OccupiedFinite
    <3>2. Occupied # {}
      BY <1>3 DEF Free
    <3>3. QED
      BY <3>1, <3>2, FS_EmptySet DEF LenCountsOccupied
  <2>2. len' \in Nat
    BY <1>3, <2>1 DEF Free
  <2>3. QED
    BY <1>3, <2>2, ArenaAssumption DEF Free, Links, Bump
<1>4. ASSUME NEW i \in Slots, NEW o \in Orders, GetMut(i, o) PROVE TypeOK'
  BY <1>4 DEF GetMut
<1>5. CASE UNCHANGED vars
  BY <1>5 DEF vars
<1>6. QED
  BY <1>1, <1>2, <1>3, <1>4, <1>5 DEF Next

\* Which slots are occupied after each operation.
LEMMA OccupiedAfterAlloc ==
  ASSUME TypeOK, FreeListThreadsFreeSlots, NEW o \in Orders, Alloc(o)
  PROVE  Occupied' = Occupied \cup {free_head}
<1>1. free_head \in Slots
  BY HeadIsFree DEF Alloc
<1>2. QED
  BY <1>1, ArenaAssumption DEF Alloc, Occupied, TypeOK

LEMMA OccupiedAfterFree ==
  ASSUME TypeOK, NEW i \in Slots, Free(i)
  PROVE  Occupied' = Occupied \ {i}
BY ArenaAssumption DEF Free, Occupied, TypeOK

LEMMA OccupiedAfterGetMut ==
  ASSUME TypeOK, NEW i \in Slots, NEW o \in Orders, GetMut(i, o)
  PROVE  Occupied' = Occupied
BY ArenaAssumption DEF GetMut, Occupied, TypeOK

\* alloc takes the first element of the list away: the rest is the new list.
LEMMA AllocKeepsList ==
  ASSUME TypeOK, FreeListThreadsFreeSlots, NEW o \in Orders, Alloc(o)
  PROVE  FreeListThreadsFreeSlots'
<1>1. PICK n \in 0 .. Capacity : \E f \in [1 .. n -> Slots] : IsFreeList(f, n)
  BY DEF FreeListThreadsFreeSlots
<1>2. PICK f \in [1 .. n -> Slots] : IsFreeList(f, n)
  BY <1>1
<1>3. n \in 1 .. Capacity /\ free_head = f[1]
  BY <1>2, ArenaAssumption DEF IsFreeList, Alloc
<1> DEFINE m == n - 1
           g == [i \in 1 .. m |-> f[i + 1]]
<1>4. m \in 0 .. Capacity /\ \A i \in 1 .. m : i + 1 \in 1 .. n /\ g[i] = f[i + 1]
  BY <1>3, ArenaAssumption
<1>5. g \in [1 .. m -> Slots]
  BY <1>4
<1>6. Occupied' = Occupied \cup {f[1]}
  BY <1>3, OccupiedAfterAlloc
<1>7. \A i, j \in 1 .. m : g[i] = g[j] => i = j
  <2> TAKE i, j \in 1 .. m
  <2> HAVE g[i] = g[j]
  <2>1. i + 1 = j + 1
    BY <1>2, <1>4 DEF IsFreeList
  <2>2. QED
    BY <2>1
<1>8. \A i \in 1 .. m : g[i] \notin Occupied'
  <2> TAKE i \in 1 .. m
  <2>1. f[i + 1] \notin Occupied
    BY <1>2, <1>4 DEF IsFreeList
  <2>2. f[i + 1] # f[1]
    <3>1. 1 \in 1 .. n /\ i + 1 # 1
      BY <1>3
    <3>2. QED
      BY <1>2, <1>4, <3>1 DEF IsFreeList
  <2>3. QED
    BY <1>4, <1>6, <2>1, <2>2
<1>9. \A s \in Slots \ Occupied' : \E i \in 1 .. m : g[i] = s
  <2> TAKE s \in Slots \ Occupied'
  <2>1. PICK j \in 1 .. n : f[j] = s
    BY <1>2, <1>6 DEF IsFreeList
  <2>2. j # 1
    BY <1>6, <2>1
  <2>3. j - 1 \in 1 .. m /\ g[j - 1] = f[j]
    BY <1>4, <2>2
  <2>4. QED
    BY <2>1, <2>3
<1>10. free_head' = IF m = 0 THEN FREE_LIST_END ELSE g[1]
  <2>1. free_head' = IF n = 1 THEN FREE_LIST_END ELSE f[2]
    BY <1>2, <1>3 DEF IsFreeList, Alloc
  <2>2. m # 0 => g[1] = f[2]
    BY <1>4
  <2>3. QED
    BY <2>1, <2>2
<1>11. \A i \in 1 .. m : next_free'[g[i]] = IF i = m THEN FREE_LIST_END ELSE g[i + 1]
  <2> TAKE i \in 1 .. m
  <2>1. next_free[f[i + 1]] = IF i + 1 = n THEN FREE_LIST_END ELSE f[i + 2]
    <3>1. next_free[f[i + 1]] = IF i + 1 = n THEN FREE_LIST_END ELSE f[(i + 1) + 1]
      BY <1>2, <1>4 DEF IsFreeList
    <3>2. (i + 1) + 1 = i + 2
      OBVIOUS
    <3>3. QED
      BY <3>1, <3>2
  <2>2. i # m => g[i + 1] = f[i + 2]
    <3> HAVE i # m
    <3>1. i + 1 \in 1 .. m /\ (i + 1) + 1 = i + 2
      BY <1>4
    <3>2. QED
      BY <1>4, <3>1
  <2>3. next_free' = next_free
    BY DEF Alloc
  <2>4. QED
    BY <1>4, <2>1, <2>2, <2>3
<1>12. IsFreeList(g, m)'
  BY <1>7, <1>8, <1>9, <1>10, <1>11 DEF IsFreeList
<1>13. QED
  BY <1>4, <1>5, <1>12 DEF FreeListThreadsFreeSlots

\* free pushes the slot in front of the list.
LEMMA FreeKeepsList ==
  ASSUME TypeOK, FreeListThreadsFreeSlots, NEW k \in Slots, Free(k)
  PROVE  FreeListThreadsFreeSlots'
<1>1. PICK n \in 0 .. Capacity : \E f \in [1 .. n -> Slots] : IsFreeList(f, n)
  BY DEF FreeListThreadsFreeSlots
<1>2. PICK f \in [1 .. n -> Slots] : IsFreeList(f, n)
  BY <1>1
<1> DEFINE m == n + 1
           g == [i \in 1 .. m |-> IF i = 1 THEN k ELSE f[i - 1]]
<1>3. m \in Nat /\ 1 \in 1 .. m /\ g[1] = k
  BY ArenaAssumption
<1>4. \A i \in 2 .. m : i - 1 \in 1 .. n /\ i \in 1 .. m /\ g[i] = f[i - 1]
  BY ArenaAssumption
<1>5. g \in [1 .. m -> Slots]
  BY <1>3, <1>4
<1>6. Occupied' = Occupied \ {k}
  BY OccupiedAfterFree
<1>7. k \in Occupied
  BY DEF Free
<1>8. \A i \in 2 .. m : g[i] \notin Occupied /\ g[i] # k
  BY <1>2, <1>4, <1>7 DEF IsFreeList
<1>9. \A i, j \in 1 .. m : g[i] = g[j] => i = j
  <2> TAKE i, j \in 1 .. m
  <2> HAVE g[i] = g[j]
  <2>1. CASE i = 1 \/ j = 1
    <3>1. (i = 1 \/ i \in 2 .. m) /\ (j = 1 \/ j \in 2 .. m)
      OBVIOUS
    <3>2. QED
      BY <1>3, <1>8, <2>1, <3>1
  <2>2. CASE i # 1 /\ j # 1
    <3>1. i \in 2 .. m /\ j \in 2 .. m
      BY <2>2
    <3>2. i - 1 = j - 1
      BY <1>2, <1>4, <3>1 DEF IsFreeList
    <3>3. QED
      BY <3>2
  <2>3. QED
    BY <2>1, <2>2
<1>10. m \in 0 .. Capacity
  <2> SUFFICES ASSUME m > Capacity PROVE FALSE
    BY <1>3, ArenaAssumption
  <2>1. m = Capacity + 1
    BY ArenaAssumption
  <2>2. /\ IsFiniteSet(1 .. m) /\ Cardinality(1 .. m) = m
        /\ IsFiniteSet(Slots) /\ Cardinality(Slots) = Capacity
    BY <1>3, ArenaAssumption, FS_Interval DEF Slots
  <2>3. g \in Injection(1 .. m, Slots)
    BY <1>5, <1>9 DEF Injection, IsInjective
  <2>4. QED
    BY <2>1, <2>2, <2>3, FS_Injection, ArenaAssumption
<1>11. \A i \in 1 .. m : g[i] \notin Occupied'
  <2> TAKE i \in 1 .. m
  <2>1. i = 1 \/ i \in 2 .. m
    OBVIOUS
  <2>2. QED
    BY <1>3, <1>6, <1>8, <2>1
<1>12. \A s \in Slots \ Occupied' : \E i \in 1 .. m : g[i] = s
  <2> TAKE s \in Slots \ Occupied'
  <2>1. CASE s = k
    BY <1>3, <2>1
  <2>2. CASE s # k
    <3>1. PICK j \in 1 .. n : f[j] = s
      BY <1>2, <1>6, <2>2 DEF IsFreeList
    <3>2. j + 1 \in 2 .. m /\ (j + 1) - 1 = j
      OBVIOUS
    <3>3. QED
      BY <1>4, <3>1, <3>2
  <2>3. QED
    BY <2>1, <2>2
<1>13. free_head' = IF m = 0 THEN FREE_LIST_END ELSE g[1]
  BY <1>3 DEF Free
<1>14. \A i \in 1 .. m : next_free'[g[i]] = IF i = m THEN FREE_LIST_END ELSE g[i + 1]
  <2> TAKE i \in 1 .. m
  <2>1. CASE i = 1
    <3>1. next_free'[k] = IF n = 0 THEN FREE_LIST_END ELSE f[1]
      BY <1>2 DEF Free, IsFreeList, TypeOK
    <3>2. n # 0 => g[2] = f[1]
      BY <1>4
    <3>3. QED
      BY <1>3, <2>1, <3>1, <3>2
  <2>2. CASE i # 1
    <3>1. i \in 2 .. m
      BY <2>2
    <3>2. next_free'[g[i]] = next_free[f[i - 1]]
      BY <1>4, <1>5, <1>8, <3>1 DEF Free, TypeOK
    <3>3. next_free[f[i - 1]] = IF i - 1 = n THEN FREE_LIST_END ELSE f[(i - 1) + 1]
      BY <1>2, <1>4, <3>1 DEF IsFreeList
    <3>4. i # m => i + 1 \in 2 .. m /\ (i + 1) - 1 = i /\ (i - 1) + 1 = i
      BY <3>1
    <3>5. i # m => g[i + 1] = f[(i - 1) + 1]
      BY <1>4, <3>4
    <3>6. QED
      BY <3>1, <3>2, <3>3, <3>5
  <2>3. QED
    BY <2>1, <2>2
<1>15. IsFreeList(g, m)'
  BY <1>9, <1>11, <1>12, <1>13, <1>14 DEF IsFreeList
<1>16. QED
  BY <1>5, <1>10, <1>15 DEF FreeListThreadsFreeSlots

\* A step that leaves the links and the set of occupied slots alone keeps the list.
LEMMA SameLinksKeepList ==
  ASSUME FreeListThreadsFreeSlots, Occupied' = Occupied,
         UNCHANGED <<next_free, free_head>>
  PROVE  FreeListThreadsFreeSlots'
BY DEF FreeListThreadsFreeSlots, IsFreeList

LEMMA InitInv == New => Inv
<1> SUFFICES ASSUME New PROVE Inv
  OBVIOUS
<1>1. TypeOK
  BY ArenaAssumption DEF New, TypeOK, Links, Slots
<1>2. Occupied = {}
  BY DEF New, Occupied
<1>3. FreeListThreadsFreeSlots
  <2> DEFINE f == [i \in 1 .. Capacity |-> i - 1]
  <2>1. f \in [1 .. Capacity -> Slots]
    BY ArenaAssumption DEF Slots
  <2>2. \A s \in Slots : s + 1 \in 1 .. Capacity /\ f[s + 1] = s
    BY ArenaAssumption DEF Slots
  <2>3. \A i \in 1 .. Capacity : next_free[f[i]] = IF i = Capacity THEN FREE_LIST_END ELSE f[i + 1]
    <3> TAKE i \in 1 .. Capacity
    <3>1. f[i] = i - 1 /\ i - 1 \in Slots
      BY ArenaAssumption DEF Slots
    <3>2. next_free[i - 1] = IF i < Capacity THEN i ELSE FREE_LIST_END
      BY <3>1, ArenaAssumption DEF New
    <3>3. i # Capacity => f[i + 1] = i /\ i < Capacity
      BY ArenaAssumption
    <3>4. QED
      BY <3>1, <3>2, <3>3, ArenaAssumption
  <2>4. free_head = IF Capacity = 0 THEN FREE_LIST_END ELSE f[1]
    BY ArenaAssumption DEF New
  <2>5. \A i, j \in 1 .. Capacity : f[i] = f[j] => i = j
    OBVIOUS
  <2>6. IsFreeList(f, Capacity)
    BY <1>2, <2>2, <2>3, <2>4, <2>5 DEF IsFreeList
  <2>7. QED
    BY <2>1, <2>6, ArenaAssumption DEF FreeListThreadsFreeSlots
<1>4. LenCountsOccupied
  BY <1>2, FS_EmptySet DEF New, LenCountsOccupied
<1>5. GenerationTellsOccupied
  BY <1>2 DEF New, GenerationTellsOccupied
<1>6. QED
  BY <1>1, <1>3, <1>4, <1>5 DEF Inv

LEMMA CountStep ==
  ASSUME Inv, [Next]_vars
  PROVE  LenCountsOccupied'
<1> USE DEF Inv
<1>1. IsFiniteSet(Occupied)
  BY OccupiedFinite
<1>2. CASE AllocFull \/ UNCHANGED vars
  BY <1>2 DEF AllocFull, vars, LenCountsOccupied, Occupied
<1>3. ASSUME NEW o \in Orders, Alloc(o) PROVE LenCountsOccupied'
  <2>1. free_head \notin Occupied
    BY <1>3, HeadIsFree DEF Alloc
  <2>2. Occupied' = Occupied \cup {free_head}
    BY <1>3, OccupiedAfterAlloc
  <2>3. Cardinality(Occupied') = Cardinality(Occupied) + 1
    BY <1>1, <2>1, <2>2, FS_AddElement
  <2>4. QED
    BY <1>3, <2>3 DEF Alloc, LenCountsOccupied
<1>4. ASSUME NEW i \in Slots, Free(i) PROVE LenCountsOccupied'
  <2>1. Cardinality(Occupied') = Cardinality(Occupied) - 1
    BY <1>1, <1>4, OccupiedAfterFree, FS_RemoveElement DEF Free
  <2>2. QED
    BY <1>4, <2>1 DEF Free, LenCountsOccupied
<1>5. ASSUME NEW i \in Slots, NEW o \in Orders, GetMut(i, o) PROVE LenCountsOccupied'
  BY <1>5, OccupiedAfterGetMut DEF GetMut, LenCountsOccupied
<1>6. QED
  BY <1>2, <1>3, <1>4, <1>5 DEF Next

LEMMA GenerationStep ==
  ASSUME Inv, [Next]_vars
  PROVE  GenerationTellsOccupied'
<1> USE DEF Inv
<1>1. CASE AllocFull \/ UNCHANGED vars
  BY <1>1 DEF AllocFull, vars, GenerationTellsOccupied, Occupied
<1>2. \A g \in Nat : (g % 2 = 0 => Bump(g) % 2 = 1) /\ (g % 2 = 1 => Bump(g) % 2 = 0)
  BY ArenaAssumption DEF Bump
<1>3. ASSUME NEW o \in Orders, Alloc(o) PROVE GenerationTellsOccupied'
  <2>1. free_head \in Slots /\ free_head \notin Occupied
    BY <1>3, HeadIsFree DEF Alloc
  <2>2. Occupied' = Occupied \cup {free_head}
    BY <1>3, OccupiedAfterAlloc
  <2>3. generation'[free_head] % 2 = 1
    BY <1>2, <1>3, <2>1 DEF Alloc, TypeOK, GenerationTellsOccupied
  <2>4. \A j \in Slots : j # free_head => generation'[j] = generation[j]
    BY <1>3 DEF Alloc, TypeOK
  <2>5. QED
    BY <2>1, <2>2, <2>3, <2>4 DEF GenerationTellsOccupied
<1>4. ASSUME NEW i \in Slots, Free(i) PROVE GenerationTellsOccupied'
  <2>1. i \in Occupied /\ Occupied' = Occupied \ {i}
    BY <1>4, OccupiedAfterFree DEF Free
  <2>2. generation'[i] % 2 = 0
    BY <1>2, <1>4, <2>1 DEF Free, TypeOK, GenerationTellsOccupied
  <2>3. \A j \in Slots : j # i => generation'[j] = generation[j]
    BY <1>4 DEF Free, TypeOK
  <2>4. QED
    BY <2>1, <2>2, <2>3 DEF GenerationTellsOccupied
<1>5. ASSUME NEW i \in Slots, NEW o \in Orders, GetMut(i, o) PROVE GenerationTellsOccupied'
  BY <1>5, OccupiedAfterGetMut DEF GetMut, GenerationTellsOccupied
<1>6. QED
  BY <1>1, <1>3, <1>4, <1>5 DEF Next

LEMMA InvStep == Inv /\ [Next]_vars => Inv'
<1> SUFFICES ASSUME Inv, [Next]_vars PROVE Inv'
  OBVIOUS
<1> USE DEF Inv
<1>1. TypeOK'
  BY TypeStep
<1>2. FreeListThreadsFreeSlots'
  <2>1. CASE AllocFull \/ UNCHANGED vars
    BY <2>1, SameLinksKeepList DEF AllocFull, vars, Occupied
  <2>2. ASSUME NEW o \in Orders, Alloc(o) PROVE FreeListThreadsFreeSlots'
    BY <2>2, AllocKeepsList
  <2>3. ASSUME NEW i \in Slots, Free(i) PROVE FreeListThreadsFreeSlots'
    BY <2>3, FreeKeepsList
  <2>4. ASSUME NEW i \in Slots, NEW o \in Orders, GetMut(i, o) PROVE FreeListThreadsFreeSlots'
    BY <2>4, OccupiedAfterGetMut, SameLinksKeepList DEF GetMut
  <2>5. QED
    BY <2>1, <2>2, <2>3, <2>4 DEF Next
<1>3. LenCountsOccupied' /\ GenerationTellsOccupied'
  BY CountStep, GenerationStep
<1>4. QED
  BY <1>1, <1>2, <1>3

\* For every capacity and every sequence of alloc, free and get_mut calls that
\* respects the callers' contract, the list that starts at free_head threads
\* exactly the free slots, len counts the occupied ones and the debug generation
\* counter tells the two apart (lib.rs:56-132).
THEOREM ArenaInvariant == Spec => []Inv
<1>1. New => Inv
  BY InitInv
<1>2. Inv /\ [Next]_vars => Inv'
  BY InvStep
<1>3. QED
  BY <1>1, <1>2, PTL DEF Spec

\* Every step of the free-list arena is a step of the plain map or leaves the
\* map alone, so for every capacity alloc never hands out a slot in use, fails
\* only when every slot is, and no call disturbs the order of another slot.
THEOREM ArenaImplementsMap == Spec => ImplementsMap
<1> DEFINE st == [i \in Occupied |-> data[i]]
<1>1. New => Map!MapInit
  BY DEF New, Occupied, Map!MapInit
<1>2. Inv /\ [Next]_vars => [Map!MapNext]_<<st, returned>>
  <2> SUFFICES ASSUME Inv, [Next]_vars PROVE Map!MapNext \/ UNCHANGED <<st, returned>>
    OBVIOUS
  <2> USE DEF Inv
  <2>0. CASE UNCHANGED vars
    BY <2>0 DEF vars, Occupied
  <2>1. ASSUME AllocFull PROVE Map!MapNext
    <3>1. Occupied = Slots
      BY <2>1, EmptyListMeansFull DEF AllocFull
    <3>2. st' = st /\ DOMAIN st = Occupied
      BY <2>1 DEF AllocFull, Occupied
    <3>3. QED
      BY <2>1, <3>1, <3>2 DEF AllocFull, Map!MapNext, Map!MapFull, Map!Slots, Slots
  <2>2. ASSUME NEW o \in Orders, Alloc(o) PROVE Map!MapNext
    <3>1. free_head \in Slots \ Occupied
      BY <2>2, HeadIsFree DEF Alloc
    <3>2. Occupied' = Occupied \cup {free_head}
      BY <2>2, OccupiedAfterAlloc
    <3>3. st' = [x \in Occupied \cup {free_head} |-> IF x = free_head THEN o ELSE st[x]]
      BY <2>2, <3>1, <3>2 DEF Alloc, TypeOK, Occupied
    <3>4. DOMAIN st = Occupied
      OBVIOUS
    <3>5. Map!MapAlloc(free_head, o)
      BY <2>2, <3>1, <3>3, <3>4 DEF Alloc, Map!MapAlloc, Map!Bind, Map!Slots, Slots
    <3>6. QED
      BY <3>1, <3>5 DEF Map!MapNext, Map!Slots, Slots
  <2>3. ASSUME NEW i \in Slots, Free(i) PROVE Map!MapNext
    <3>1. i \in Occupied /\ Occupied' = Occupied \ {i}
      BY <2>3, OccupiedAfterFree DEF Free
    <3>2. st' = [x \in Occupied \ {i} |-> st[x]]
      BY <2>3, <3>1 DEF Free, TypeOK, Occupied
    <3>3. Map!MapFree(i)
      BY <2>3, <3>1, <3>2 DEF Free, Map!MapFree
    <3>4. QED
      BY <3>3 DEF Map!MapNext, Map!Slots, Slots
  <2>4. ASSUME NEW i \in Slots, NEW o \in Orders, GetMut(i, o) PROVE Map!MapNext
    <3>1. i \in Occupied /\ Occupied' = Occupied
      BY <2>4, OccupiedAfterGetMut DEF GetMut
    <3>2. st' = [st EXCEPT ![i] = o]
      BY <2>4, <3>1 DEF GetMut, TypeOK, Occupied
    <3>3. Map!MapWrite(i, o)
      BY <2>4, <3>1, <3>2 DEF GetMut, Map!MapWrite
    <3>4. QED
      BY <3>3 DEF Map!MapNext, Map!Slots, Slots
  <2>5. QED
    BY <2>0, <2>1, <2>2, <2>3, <2>4 DEF Next
<1>3. QED
  BY <1>1, <1>2, ArenaInvariant, PTL DEF Spec, ImplementsMap, Map!MapSpec
-----------------------------------------------------------------------------
(***************************************************************************)
(* The lists and the index.                                                *)
(***************************************************************************)
\* The slots in the lists: the one a call works on is not in them, or no longer.
Linked == IF step = "idle" THEN Occupied ELSE Occupied \ {slot}

\* Links as they are once the call in progress has written them all: remove_order takes
\* the order out of its list with its first write, and the second catches up.
PrevOf(s) ==
  IF step = "unlink_next" /\ s = data[slot].next THEN data[slot].prev ELSE data[s].prev

TailOf(l) ==
  IF step = "unlink_next" /\ data[slot].next = ARENA_NULL /\ l = data[slot].level
  THEN data[slot].prev ELSE tail[l]

ListTypeOK ==
  /\ head \in [Levels -> Links]
  /\ tail \in [Levels -> Links]
  /\ order_index \in [Ids -> Links]
  /\ step \in {"idle", "set_links", "link_at_tail", "unlink_next", "free"}
  /\ step # "idle" => slot \in Occupied
  /\ step = "link_at_tail" =>
       /\ data[slot].prev = tail[data[slot].level]
       /\ data[slot].next = ARENA_NULL

NeighboursAgree ==
  \A s \in Linked :
    /\ IF PrevOf(s) = ARENA_NULL THEN head[data[s].level] = s
       ELSE /\ PrevOf(s) \in Linked
            /\ data[PrevOf(s)].next = s
            /\ data[PrevOf(s)].level = data[s].level
    /\ IF data[s].next = ARENA_NULL THEN TailOf(data[s].level) = s
       ELSE /\ data[s].next \in Linked
            /\ PrevOf(data[s].next) = s

EndsAreEnds ==
  \A l \in Levels :
    /\ (head[l] = ARENA_NULL) = (TailOf(l) = ARENA_NULL)
    /\ head[l] # ARENA_NULL =>
         /\ head[l] \in Linked
         /\ data[head[l]].level = l
         /\ PrevOf(head[l]) = ARENA_NULL
    /\ TailOf(l) # ARENA_NULL =>
         /\ TailOf(l) \in Linked
         /\ data[TailOf(l)].level = l
         /\ data[TailOf(l)].next = ARENA_NULL

\* The index is right in the middle of a call too.
IndexExact ==
  /\ \A id \in Ids : order_index[id] # ARENA_NULL =>
       order_index[id] \in Occupied /\ data[order_index[id]].id = id
  /\ \A s \in Occupied : order_index[data[s].id] = s

\* What a write does to the lists.  Nothing:
ListsStay ==
  /\ Linked' = Linked /\ head' = head
  /\ \A s \in Linked :
       /\ data'[s].id = data[s].id
       /\ data'[s].level = data[s].level
       /\ data'[s].next = data[s].next

\* order o, of level l, enters behind t, or as the first if t is null;
OrderEnters(o, l, t) ==
  /\ o \in Occupied \ Linked /\ l \in Levels /\ data[o].level = l /\ data[o].next = ARENA_NULL
  /\ t = TailOf(l)
  /\ Linked' = Linked \cup {o}
  /\ head' = IF t = ARENA_NULL THEN [head EXCEPT ![l] = o] ELSE head
  /\ \A s \in Linked' :
       /\ data'[s].id = data[s].id
       /\ data'[s].level = data[s].level
       /\ data'[s].next = IF s = t THEN o ELSE data[s].next

\* order o, of level l, leaves from between p and n.
OrderLeaves(o, l, p, n) ==
  /\ o \in Linked /\ l \in Levels /\ data[o].level = l /\ data[o].next = n
  /\ p = PrevOf(o)
  /\ Linked' = Linked \ {o}
  /\ head' = IF p = ARENA_NULL THEN [head EXCEPT ![l] = n] ELSE head
  /\ \A s \in Linked :
       /\ data'[s].id = data[s].id
       /\ data'[s].level = data[s].level
       /\ data'[s].next = IF s = p THEN n ELSE data[s].next

\* The inductive invariant of the list calls, on top of the arena's own.
ListInv == ListTypeOK /\ NeighboursAgree /\ EndsAreEnds /\ IndexExact

-----------------------------------------------------------------------------
LEMMA NullIsNoSlot == ARENA_NULL \in Links /\ ARENA_NULL \notin Slots
BY ArenaAssumption DEF ARENA_NULL, Links, Slots

\* An occupied slot holds an order, and its fields have their types.
LEMMA OccupiedHoldsOrder ==
  ASSUME TypeOK, NEW s \in Occupied
  PROVE  /\ s \in Slots
         /\ data[s] \in Orders
         /\ data[s].id \in Ids
         /\ data[s].level \in Levels
         /\ data[s].prev \in Links
         /\ data[s].next \in Links
<1>1. s \in Slots /\ data[s] \in Orders
  BY DEF TypeOK, Occupied
<1>2. data[s] \in [id : Ids, level : Levels, prev : Links, next : Links]
  BY <1>1, LevelAssumption
<1>3. QED
  BY <1>1, <1>2

\* A non-null link is a slot.
LEMMA LinkIsSlot == \A x \in Links : x # ARENA_NULL => x \in Slots
BY DEF Links, ARENA_NULL

\* The order a list step stores is an order.
LEMMA OrderWithLinks ==
  ASSUME NEW o \in Orders, NEW p \in Links, NEW n \in Links
  PROVE  /\ [o EXCEPT !.prev = p] \in Orders
         /\ [o EXCEPT !.next = n] \in Orders
         /\ [o EXCEPT !.prev = p, !.next = n] \in Orders
<1>1. o \in [id : Ids, level : Levels, prev : Links, next : Links]
  BY LevelAssumption
<1>2. /\ [o EXCEPT !.prev = p] \in [id : Ids, level : Levels, prev : Links, next : Links]
      /\ [o EXCEPT !.next = n] \in [id : Ids, level : Levels, prev : Links, next : Links]
      /\ [o EXCEPT !.prev = p, !.next = n]
           \in [id : Ids, level : Levels, prev : Links, next : Links]
  BY <1>1
<1>3. QED
  BY <1>2, LevelAssumption

\* Every step of insert_order and remove_order is one call of the arena, or none.
LEMMA ListStepIsArenaStep ==
  ASSUME TypeOK, ListTypeOK, IndexExact, [ListNext]_listVars
  PROVE  [Next]_vars
<1> USE DEF ListTypeOK
<1>1. ASSUME NEW id \in Ids, InsertRefused(id) PROVE Next
  BY <1>1 DEF InsertRefused, Next
<1>2. ASSUME NEW id \in Ids, NEW l \in Levels, InsertAlloc(id, l) PROVE Next
  <2>1. [id |-> id, level |-> l, prev |-> ARENA_NULL, next |-> ARENA_NULL] \in Orders
    BY LevelAssumption, NullIsNoSlot
  <2>2. QED
    BY <1>2, <2>1 DEF InsertAlloc, Next
<1>3. ASSUME InsertSetLinks PROVE Next
  <2>1. slot \in Occupied
    BY <1>3 DEF InsertSetLinks
  <2>2. slot \in Slots /\ data[slot] \in Orders /\ tail[data[slot].level] \in Links
    BY <2>1, OccupiedHoldsOrder
  <2>3. [data[slot] EXCEPT !.prev = tail[data[slot].level], !.next = ARENA_NULL] \in Orders
    BY <2>2, OrderWithLinks, NullIsNoSlot
  <2>4. QED
    BY <1>3, <2>2, <2>3 DEF InsertSetLinks, Next
<1>4. ASSUME InsertLinkAtTail PROVE [Next]_vars
  <2> DEFINE t == tail[data[slot].level]
  <2>1. slot \in Occupied
    BY <1>4 DEF InsertLinkAtTail
  <2>2. slot \in Slots /\ slot \in Links /\ t \in Links
    BY <2>1, OccupiedHoldsOrder DEF Links
  <2>3. CASE t = ARENA_NULL
    BY <1>4, <2>3 DEF InsertLinkAtTail
  <2>4. CASE t # ARENA_NULL
    <3>1. GetMut(t, [data[t] EXCEPT !.next = slot])
      BY <1>4, <2>4 DEF InsertLinkAtTail
    <3>2. t \in Occupied
      BY <3>1 DEF GetMut
    <3>3. t \in Slots /\ data[t] \in Orders
      BY <3>2, OccupiedHoldsOrder
    <3>4. [data[t] EXCEPT !.next = slot] \in Orders
      BY <2>2, <3>3, OrderWithLinks
    <3>5. QED
      BY <3>1, <3>3, <3>4 DEF Next
  <2>5. QED
    BY <2>3, <2>4
<1>5. ASSUME NEW id \in Ids, RemoveUnlinkPrev(id) PROVE [Next]_vars
  <2> DEFINE o == data[order_index[id]]
  <2>1. order_index[id] \in Occupied
    BY <1>5 DEF RemoveUnlinkPrev, IndexExact
  <2>2. o \in Orders /\ o.prev \in Links /\ o.next \in Links
    BY <2>1, OccupiedHoldsOrder
  <2>3. CASE o.prev = ARENA_NULL
    BY <1>5, <2>3 DEF RemoveUnlinkPrev
  <2>4. CASE o.prev # ARENA_NULL
    <3>1. GetMut(o.prev, [data[o.prev] EXCEPT !.next = o.next])
      BY <1>5, <2>4 DEF RemoveUnlinkPrev
    <3>2. o.prev \in Occupied
      BY <3>1 DEF GetMut
    <3>3. o.prev \in Slots /\ data[o.prev] \in Orders
      BY <3>2, OccupiedHoldsOrder
    <3>4. [data[o.prev] EXCEPT !.next = o.next] \in Orders
      BY <2>2, <3>3, OrderWithLinks
    <3>5. QED
      BY <3>1, <3>3, <3>4 DEF Next
  <2>5. QED
    BY <2>3, <2>4
<1>6. ASSUME RemoveUnlinkNext PROVE [Next]_vars
  <2> DEFINE o == data[slot]
  <2>1. slot \in Occupied
    BY <1>6 DEF RemoveUnlinkNext
  <2>2. o \in Orders /\ o.prev \in Links /\ o.next \in Links
    BY <2>1, OccupiedHoldsOrder
  <2>3. CASE o.next = ARENA_NULL
    BY <1>6, <2>3 DEF RemoveUnlinkNext
  <2>4. CASE o.next # ARENA_NULL
    <3>1. GetMut(o.next, [data[o.next] EXCEPT !.prev = o.prev])
      BY <1>6, <2>4 DEF RemoveUnlinkNext
    <3>2. o.next \in Occupied
      BY <3>1 DEF GetMut
    <3>3. o.next \in Slots /\ data[o.next] \in Orders
      BY <3>2, OccupiedHoldsOrder
    <3>4. [data[o.next] EXCEPT !.prev = o.prev] \in Orders
      BY <2>2, <3>3, OrderWithLinks
    <3>5. QED
      BY <3>1, <3>3, <3>4 DEF Next
  <2>5. QED
    BY <2>3, <2>4
<1>7. ASSUME RemoveFree PROVE Next
  BY <1>7, OccupiedHoldsOrder DEF RemoveFree, Next
<1>8. CASE UNCHANGED listVars
  BY <1>8 DEF listVars, vars
<1>9. QED
  BY <1>1, <1>2, <1>3, <1>4, <1>5, <1>6, <1>7, <1>8 DEF ListNext

-----------------------------------------------------------------------------
\* What a write of one link changes: that link.
LEMMA WriteNext ==
  ASSUME TypeOK, NEW i, NEW n \in Links, GetMut(i, [data[i] EXCEPT !.next = n])
  PROVE  /\ i \in Occupied
         /\ Occupied' = Occupied
         /\ \A s \in Occupied :
              /\ data'[s].id = data[s].id
              /\ data'[s].level = data[s].level
              /\ data'[s].prev = data[s].prev
              /\ data'[s].next = IF s = i THEN n ELSE data[s].next
<1> DEFINE o == [data[i] EXCEPT !.next = n]
<1>1. i \in Occupied
  BY DEF GetMut
<1>2. i \in Slots /\ data[i] \in Orders
  BY <1>1, OccupiedHoldsOrder
<1>3. o \in Orders
  BY <1>2, OrderWithLinks
<1>4. Occupied' = Occupied
  BY <1>2, <1>3, OccupiedAfterGetMut
<1>5. data[i] \in [id : Ids, level : Levels, prev : Links, next : Links]
  BY <1>2, LevelAssumption
<1>6. o.id = data[i].id /\ o.level = data[i].level /\ o.prev = data[i].prev /\ o.next = n
  BY <1>5
<1>7. data'[i] = o /\ \A s \in Occupied : s # i => data'[s] = data[s]
  BY <1>2 DEF GetMut, TypeOK, Occupied
<1>8. QED
  BY <1>1, <1>4, <1>6, <1>7

LEMMA WritePrev ==
  ASSUME TypeOK, NEW i, NEW p \in Links, GetMut(i, [data[i] EXCEPT !.prev = p])
  PROVE  /\ i \in Occupied
         /\ Occupied' = Occupied
         /\ \A s \in Occupied :
              /\ data'[s].id = data[s].id
              /\ data'[s].level = data[s].level
              /\ data'[s].prev = IF s = i THEN p ELSE data[s].prev
              /\ data'[s].next = data[s].next
<1> DEFINE o == [data[i] EXCEPT !.prev = p]
<1>1. i \in Occupied
  BY DEF GetMut
<1>2. i \in Slots /\ data[i] \in Orders
  BY <1>1, OccupiedHoldsOrder
<1>3. o \in Orders
  BY <1>2, OrderWithLinks
<1>4. Occupied' = Occupied
  BY <1>2, <1>3, OccupiedAfterGetMut
<1>5. data[i] \in [id : Ids, level : Levels, prev : Links, next : Links]
  BY <1>2, LevelAssumption
<1>6. o.id = data[i].id /\ o.level = data[i].level /\ o.prev = p /\ o.next = data[i].next
  BY <1>5
<1>7. data'[i] = o /\ \A s \in Occupied : s # i => data'[s] = data[s]
  BY <1>2 DEF GetMut, TypeOK, Occupied
<1>8. QED
  BY <1>1, <1>4, <1>6, <1>7

\* A step that leaves ids and index alone keeps the index exact.
LEMMA SameIdsKeepIndex ==
  ASSUME ListTypeOK, IndexExact, Occupied' = Occupied, order_index' = order_index,
         \A s \in Occupied : data'[s].id = data[s].id
  PROVE  IndexExact'
BY DEF ListTypeOK, IndexExact

\* A step that leaves alone what the call in progress makes of the links keeps the lists.
LEMMA SameViewKeepsLists ==
  ASSUME TypeOK, NeighboursAgree, EndsAreEnds, Linked' = Linked, head' = head,
         \A s \in Linked : /\ PrevOf(s)' = PrevOf(s)
                           /\ data'[s].next = data[s].next
                           /\ data'[s].level = data[s].level,
         \A k \in Levels : TailOf(k)' = TailOf(k)
  PROVE  NeighboursAgree' /\ EndsAreEnds'
<1>1. \A s \in Linked : data[s].level \in Levels
  BY OccupiedHoldsOrder DEF Linked
<1>2. NeighboursAgree'
  BY <1>1 DEF NeighboursAgree
<1>3. EndsAreEnds'
  BY DEF EndsAreEnds
<1>4. QED
  BY <1>2, <1>3

\* insert_order, the allocation: the new order is in the arena and in the index, and in
\* no list yet.
LEMMA InsertAllocStep ==
  ASSUME TypeOK, FreeListThreadsFreeSlots, ListInv,
         NEW id \in Ids, NEW l \in Levels, InsertAlloc(id, l)
  PROVE  ListInv' /\ ListsStay
<1> USE DEF ListInv
<1> DEFINE o == [id |-> id, level |-> l, prev |-> ARENA_NULL, next |-> ARENA_NULL]
<1>1. o \in Orders
  BY LevelAssumption, NullIsNoSlot
<1>2. Alloc(o) /\ free_head # ARENA_NULL
  BY DEF InsertAlloc, Alloc, ARENA_NULL
<1>3. free_head \in Slots /\ free_head \notin Occupied
  BY <1>2, HeadIsFree DEF ARENA_NULL
<1>4. Occupied' = Occupied \cup {free_head}
  BY <1>1, <1>2, OccupiedAfterAlloc
<1>5. data'[free_head] = o /\ \A s \in Occupied : data'[s] = data[s]
  BY <1>2, <1>3 DEF Alloc, TypeOK, Occupied
<1>6. /\ step = "idle" /\ step' = "set_links" /\ slot' = free_head
      /\ order_index' = [order_index EXCEPT ![id] = free_head]
      /\ order_index[id] = ARENA_NULL
      /\ head' = head /\ tail' = tail
  BY DEF InsertAlloc
<1>7. Linked = Occupied /\ Linked' = Occupied
  BY <1>3, <1>4, <1>6 DEF Linked
<1>8. /\ \A s \in Occupied : PrevOf(s)' = data[s].prev /\ PrevOf(s) = data[s].prev
      /\ \A k \in Levels : TailOf(k)' = tail[k] /\ TailOf(k) = tail[k]
  BY <1>5, <1>6 DEF PrevOf, TailOf
<1>9. ListTypeOK'
  BY <1>3, <1>4, <1>6 DEF ListTypeOK, Links
<1>10. NeighboursAgree' /\ EndsAreEnds'
  BY <1>5, <1>6, <1>7, <1>8, SameViewKeepsLists
<1>11. IndexExact'
  <2>1. \A s \in Occupied : data[s].id # id
    BY <1>6, NullIsNoSlot, OccupiedHoldsOrder DEF IndexExact
  <2>2. \A s \in Occupied : data[s].id \in Ids
    BY OccupiedHoldsOrder
  <2>3. o.id = id
    OBVIOUS
  <2> HIDE DEF o
  <2>4. /\ order_index'[id] = free_head
        /\ \A k \in Ids : k # id => order_index'[k] = order_index[k]
    BY <1>6 DEF ListTypeOK
  <2>5. QED
    BY <1>3, <1>4, <1>5, <2>1, <2>2, <2>3, <2>4 DEF IndexExact
<1>12. ListsStay
  BY <1>5, <1>6, <1>7 DEF ListsStay
<1>13. QED
  BY <1>9, <1>10, <1>11, <1>12

\* insert_order gives the new order its links; it is still in no list.
LEMMA InsertSetLinksStep ==
  ASSUME TypeOK, ListInv, InsertSetLinks
  PROVE  ListInv' /\ ListsStay
<1> USE DEF ListInv
<1> DEFINE o == [data[slot] EXCEPT !.prev = tail[data[slot].level], !.next = ARENA_NULL]
<1>1. slot \in Occupied /\ GetMut(slot, o)
  BY DEF InsertSetLinks, ListTypeOK
<1>2. slot \in Slots /\ data[slot] \in Orders /\ tail[data[slot].level] \in Links
  BY <1>1, OccupiedHoldsOrder DEF ListTypeOK
<1>3. o \in Orders
  BY <1>2, OrderWithLinks, NullIsNoSlot
<1>4. Occupied' = Occupied
  BY <1>1, <1>2, <1>3, OccupiedAfterGetMut
<1>5. data'[slot] = o /\ \A s \in Occupied : s # slot => data'[s] = data[s]
  BY <1>1, <1>2 DEF GetMut, TypeOK, Occupied
<1>6. data[slot] \in [id : Ids, level : Levels, prev : Links, next : Links]
  BY <1>2, LevelAssumption
<1>7. /\ o.id = data[slot].id /\ o.level = data[slot].level
      /\ o.prev = tail[data[slot].level] /\ o.next = ARENA_NULL
  BY <1>6
<1> HIDE DEF o
<1>8. /\ step = "set_links" /\ step' = "link_at_tail" /\ slot' = slot
      /\ head' = head /\ tail' = tail /\ order_index' = order_index
  BY DEF InsertSetLinks
<1>9. Linked = Occupied \ {slot} /\ Linked' = Linked
  BY <1>4, <1>8 DEF Linked
<1>10. /\ \A s \in Linked : PrevOf(s)' = data[s].prev /\ PrevOf(s) = data[s].prev
       /\ \A k \in Levels : TailOf(k)' = tail[k] /\ TailOf(k) = tail[k]
       /\ \A s \in Linked : data'[s] = data[s]
  BY <1>5, <1>8, <1>9 DEF PrevOf, TailOf
<1>11. ListTypeOK'
  BY <1>1, <1>4, <1>5, <1>7, <1>8 DEF ListTypeOK
<1>12. NeighboursAgree' /\ EndsAreEnds'
  BY <1>8, <1>9, <1>10, SameViewKeepsLists
<1>13. IndexExact'
  BY <1>4, <1>5, <1>7, <1>8, SameIdsKeepIndex
<1>14. ListsStay
  BY <1>8, <1>9, <1>10 DEF ListsStay
<1>15. QED
  BY <1>11, <1>12, <1>13, <1>14

\* insert_order links the order behind the last one of its level, and it is in the list.
LEMMA InsertLinkAtTailStep ==
  ASSUME TypeOK, ListInv, InsertLinkAtTail
  PROVE  ListInv' /\ OrderEnters(slot, data[slot].level, tail[data[slot].level])
<1> USE DEF ListInv
<1> DEFINE l == data[slot].level
           t == tail[l]
<1>1. /\ step = "link_at_tail" /\ step' = "idle" /\ slot' = slot
      /\ tail' = [tail EXCEPT ![l] = slot] /\ order_index' = order_index
  BY DEF InsertLinkAtTail
<1>2. /\ slot \in Occupied /\ l \in Levels /\ t \in Links /\ slot \in Links
      /\ data[slot].prev = t /\ data[slot].next = ARENA_NULL /\ slot # ARENA_NULL
  BY <1>1, OccupiedHoldsOrder, NullIsNoSlot DEF ListTypeOK, Links
<1>3. Linked = Occupied \ {slot}
  BY <1>1 DEF Linked
<1>4. /\ \A s \in Linked : PrevOf(s) = data[s].prev
      /\ \A k \in Levels : TailOf(k) = tail[k]
  BY <1>1 DEF PrevOf, TailOf
<1>5. /\ Occupied' = Occupied
      /\ \A s \in Occupied :
           /\ data'[s].id = data[s].id
           /\ data'[s].level = data[s].level
           /\ data'[s].prev = data[s].prev
           /\ data'[s].next = IF s = t THEN slot ELSE data[s].next
      /\ head' = IF t = ARENA_NULL THEN [head EXCEPT ![l] = slot] ELSE head
  <2>1. CASE t = ARENA_NULL
    <3>1. t \notin Occupied
      BY <2>1, NullIsNoSlot DEF Occupied
    <3>2. UNCHANGED vars /\ head' = [head EXCEPT ![l] = slot]
      BY <2>1 DEF InsertLinkAtTail
    <3>3. QED
      BY <2>1, <3>1, <3>2 DEF vars, Occupied
  <2>2. CASE t # ARENA_NULL
    <3>1. GetMut(t, [data[t] EXCEPT !.next = slot]) /\ head' = head
      BY <2>2 DEF InsertLinkAtTail
    <3>2. QED
      BY <1>2, <2>2, <3>1, WriteNext
  <2>3. QED
    BY <2>1, <2>2
<1>6. Linked' = Occupied
  BY <1>1, <1>5 DEF Linked
<1>7. /\ \A s \in Occupied : PrevOf(s)' = data[s].prev
      /\ \A k \in Levels : TailOf(k)' = IF k = l THEN slot ELSE tail[k]
      /\ \A k \in Levels : head'[k] = IF k = l /\ t = ARENA_NULL THEN slot ELSE head[k]
  BY <1>1, <1>2, <1>5 DEF PrevOf, TailOf, ListTypeOK
<1>8. t # ARENA_NULL =>
        t \in Linked /\ data[t].level = l /\ data[t].next = ARENA_NULL
  BY <1>2, <1>4 DEF EndsAreEnds
<1>9. \A s \in Occupied : data[s].level \in Levels /\ s # ARENA_NULL
  BY OccupiedHoldsOrder, NullIsNoSlot
<1> HIDE DEF l, t
<1>10. ListTypeOK'
  BY <1>1, <1>2, <1>5 DEF ListTypeOK
<1>11. NeighboursAgree'
  <2> SUFFICES ASSUME NEW s \in Occupied
               PROVE  /\ IF PrevOf(s)' = ARENA_NULL THEN head'[data'[s].level] = s
                         ELSE /\ PrevOf(s)' \in Occupied
                              /\ data'[PrevOf(s)'].next = s
                              /\ data'[PrevOf(s)'].level = data'[s].level
                      /\ IF data'[s].next = ARENA_NULL THEN TailOf(data[s].level)' = s
                         ELSE /\ data'[s].next \in Occupied
                              /\ PrevOf(data[s].next)' = s
    BY <1>6 DEF NeighboursAgree
  <2>1. CASE s = slot
    <3>1. s # t
      BY <1>3, <1>8, <1>9, <2>1
    <3>2. data'[s].level = l /\ data[s].level = l /\ l \in Levels
      BY <1>2, <1>5, <2>1 DEF l
    <3>3. TailOf(data[s].level)' = slot
      BY <1>7, <3>2
    <3>4. QED
      BY <1>2, <1>3, <1>5, <1>7, <1>8, <2>1, <3>1, <3>2, <3>3
  <2>2. CASE s # slot
    <3>1. s \in Linked
      BY <1>3, <2>2
    <3>2. /\ IF data[s].prev = ARENA_NULL THEN head[data[s].level] = s
             ELSE /\ data[s].prev \in Linked
                  /\ data[data[s].prev].next = s
                  /\ data[data[s].prev].level = data[s].level
          /\ IF data[s].next = ARENA_NULL THEN tail[data[s].level] = s
             ELSE data[s].next \in Linked /\ data[data[s].next].prev = s
      BY <1>4, <1>9, <3>1 DEF NeighboursAgree
    <3>3. data[s].next = ARENA_NULL /\ data[s].level = l => s = t
      BY <3>2 DEF t
    <3>5. /\ PrevOf(s)' = data[s].prev
          /\ IF data[s].prev = ARENA_NULL THEN head'[data'[s].level] = s
             ELSE /\ data[s].prev \in Occupied
                  /\ data'[data[s].prev].next = s
                  /\ data'[data[s].prev].level = data'[s].level
      <4>1. data[s].prev # ARENA_NULL => data[s].prev # t
        BY <1>8, <1>9, <3>1, <3>2
      <4>2. data[s].prev = ARENA_NULL /\ data[s].level = l => t # ARENA_NULL
        <5>1. head[data[s].level] # ARENA_NULL => TailOf(data[s].level) # ARENA_NULL
          BY <1>9 DEF EndsAreEnds
        <5>2. QED
          BY <1>4, <1>9, <3>2, <5>1 DEF t
      <4>3. QED
        BY <1>3, <1>5, <1>7, <1>9, <3>2, <4>1, <4>2
    <3>6. IF data'[s].next = ARENA_NULL THEN TailOf(data[s].level)' = s
          ELSE data'[s].next \in Occupied /\ PrevOf(data[s].next)' = s
      <4>1. CASE s = t
        <5>1. data'[s].next = slot
          BY <1>5, <4>1
        <5>2. PrevOf(data[s].next)' = data[slot].prev
          BY <1>2, <1>7, <5>1
        <5>3. QED
          BY <1>2, <4>1, <5>1, <5>2
      <4>2. CASE s # t
        <5>1. data'[s].next = data[s].next
          BY <1>5, <4>2
        <5>2. CASE data[s].next = ARENA_NULL
          <6>1. data'[s].level = data[s].level /\ data[s].level # l
            BY <1>5, <3>3, <4>2, <5>2
          <6>2. TailOf(data[s].level)' = tail[data[s].level]
            BY <1>7, <1>9, <6>1
          <6>3. QED
            BY <3>2, <5>1, <5>2, <6>2
        <5>3. CASE data[s].next # ARENA_NULL
          <6>1. data[s].next \in Occupied
            BY <1>3, <3>2, <5>3
          <6>2. PrevOf(data[s].next)' = data[data[s].next].prev
            BY <1>7, <5>1, <6>1
          <6>3. QED
            BY <3>2, <5>1, <5>3, <6>1, <6>2
        <5>4. QED
          BY <5>2, <5>3
      <4>3. QED
        BY <4>1, <4>2
    <3>7. QED
      BY <3>5, <3>6
  <2>3. QED
    BY <2>1, <2>2
<1>12. EndsAreEnds'
  <2> SUFFICES ASSUME NEW k \in Levels
               PROVE  /\ (head'[k] = ARENA_NULL) = (TailOf(k)' = ARENA_NULL)
                      /\ head'[k] # ARENA_NULL =>
                           /\ head'[k] \in Occupied
                           /\ data'[head'[k]].level = k
                           /\ PrevOf(head[k])' = ARENA_NULL
                      /\ TailOf(k)' # ARENA_NULL =>
                           /\ TailOf(k)' \in Occupied
                           /\ data'[TailOf(k)'].level = k
                           /\ data'[TailOf(k)'].next = ARENA_NULL
    BY <1>6 DEF EndsAreEnds
  <2>1. /\ (head[k] = ARENA_NULL) = (tail[k] = ARENA_NULL)
        /\ head[k] # ARENA_NULL =>
             head[k] \in Linked /\ data[head[k]].level = k /\ data[head[k]].prev = ARENA_NULL
        /\ tail[k] # ARENA_NULL =>
             tail[k] \in Linked /\ data[tail[k]].level = k /\ data[tail[k]].next = ARENA_NULL
    BY <1>4 DEF EndsAreEnds
  <2>2. k = l => tail[k] = t /\ data[slot].level = k
    BY DEF t, l
  <2>3. k # l /\ tail[k] # ARENA_NULL => tail[k] # t
    BY <1>8, <1>9, <2>1
  <2>4. (head'[k] = ARENA_NULL) = (TailOf(k)' = ARENA_NULL)
    BY <1>2, <1>7, <2>1, <2>2
  <2>5. head'[k] # ARENA_NULL =>
          /\ head'[k] \in Occupied
          /\ data'[head'[k]].level = k
          /\ PrevOf(head[k])' = ARENA_NULL
    <3> SUFFICES ASSUME head'[k] # ARENA_NULL
                 PROVE  /\ head'[k] \in Occupied
                        /\ data'[head'[k]].level = k
                        /\ PrevOf(head[k])' = ARENA_NULL
      OBVIOUS
    <3>1. /\ head'[k] \in Occupied
          /\ data[head'[k]].level = k
          /\ data[head'[k]].prev = ARENA_NULL
      BY <1>2, <1>3, <1>7, <2>1, <2>2
    <3>2. QED
      BY <1>5, <1>7, <3>1
  <2>6. TailOf(k)' # ARENA_NULL =>
          /\ TailOf(k)' \in Occupied
          /\ data'[TailOf(k)'].level = k
          /\ data'[TailOf(k)'].next = ARENA_NULL
    <3>1. k = l => slot # t
      BY <1>3, <1>8, <1>9, <1>2
    <3>2. QED
      BY <1>2, <1>3, <1>5, <1>7, <2>1, <2>2, <2>3, <3>1
  <2>7. QED
    BY <2>4, <2>5, <2>6
<1>13. IndexExact'
  BY <1>1, <1>5, SameIdsKeepIndex
<1>14. OrderEnters(slot, l, t)
  BY <1>2, <1>3, <1>4, <1>5, <1>6 DEF OrderEnters, l, t
<1>15. QED
  BY <1>10, <1>11, <1>12, <1>13, <1>14 DEF l, t

\* remove_order, the first write: the order is out of its list.
LEMMA RemoveUnlinkPrevStep ==
  ASSUME TypeOK, ListInv, NEW id \in Ids, RemoveUnlinkPrev(id)
  PROVE  /\ ListInv'
         /\ LET o == order_index[id]
            IN  OrderLeaves(o, data[o].level, data[o].prev, data[o].next)
<1> USE DEF ListInv
<1> DEFINE o == order_index[id]
           p == data[o].prev
           n == data[o].next
           l == data[o].level
<1>1. /\ step = "idle" /\ step' = "unlink_next" /\ slot' = o /\ o # ARENA_NULL
      /\ tail' = tail /\ order_index' = order_index
  BY DEF RemoveUnlinkPrev
<1>2. o \in Occupied /\ l \in Levels /\ p \in Links /\ n \in Links
  <2>1. o \in Occupied
    BY <1>1 DEF IndexExact
  <2>2. QED
    BY <2>1, OccupiedHoldsOrder
<1>3. Linked = Occupied
  BY <1>1 DEF Linked
<1>4. /\ \A s \in Occupied : PrevOf(s) = data[s].prev
      /\ \A k \in Levels : TailOf(k) = tail[k]
  BY <1>1 DEF PrevOf, TailOf
<1>5. \A s \in Occupied : data[s].level \in Levels /\ s # ARENA_NULL
  BY OccupiedHoldsOrder, NullIsNoSlot
<1>6. /\ Occupied' = Occupied
      /\ \A s \in Occupied :
           /\ data'[s].id = data[s].id
           /\ data'[s].level = data[s].level
           /\ data'[s].prev = data[s].prev
           /\ data'[s].next = IF s = p THEN n ELSE data[s].next
      /\ head' = IF p = ARENA_NULL THEN [head EXCEPT ![l] = n] ELSE head
  <2>1. CASE p = ARENA_NULL
    <3>1. UNCHANGED vars /\ head' = [head EXCEPT ![l] = n]
      BY <2>1 DEF RemoveUnlinkPrev
    <3>2. QED
      BY <1>5, <2>1, <3>1 DEF vars, Occupied
  <2>2. CASE p # ARENA_NULL
    <3>1. GetMut(p, [data[p] EXCEPT !.next = n]) /\ head' = head
      BY <2>2 DEF RemoveUnlinkPrev
    <3>2. QED
      BY <1>2, <2>2, <3>1, WriteNext
  <2>3. QED
    BY <2>1, <2>2
\* every neighbour relation of the old lists, and o's own
<1>7. \A s \in Occupied :
        /\ IF data[s].prev = ARENA_NULL THEN head[data[s].level] = s
           ELSE /\ data[s].prev \in Occupied
                /\ data[data[s].prev].next = s
                /\ data[data[s].prev].level = data[s].level
        /\ IF data[s].next = ARENA_NULL THEN tail[data[s].level] = s
           ELSE data[s].next \in Occupied /\ data[data[s].next].prev = s
  BY <1>3, <1>4, <1>5 DEF NeighboursAgree
<1>8. \A k \in Levels :
        /\ (head[k] = ARENA_NULL) = (tail[k] = ARENA_NULL)
        /\ head[k] # ARENA_NULL =>
             head[k] \in Occupied /\ data[head[k]].level = k /\ data[head[k]].prev = ARENA_NULL
        /\ tail[k] # ARENA_NULL =>
             tail[k] \in Occupied /\ data[tail[k]].level = k /\ data[tail[k]].next = ARENA_NULL
  BY <1>3, <1>4 DEF EndsAreEnds
<1>9. /\ p = ARENA_NULL => head[l] = o
      /\ p # ARENA_NULL => p \in Occupied /\ data[p].next = o /\ data[p].level = l
      /\ n = ARENA_NULL => tail[l] = o
      /\ n # ARENA_NULL => n \in Occupied /\ data[n].prev = o /\ data[n].level = l
  BY <1>2, <1>5, <1>7
<1>10. data'[o].next = n /\ data'[o].prev = p /\ data'[o].level = l
  BY <1>2, <1>6
<1> HIDE DEF o, p, n, l
<1>11. Linked' = Occupied \ {o}
  BY <1>1, <1>6 DEF Linked
<1>12. /\ \A s \in Occupied : PrevOf(s)' = IF s = n THEN p ELSE data[s].prev
       /\ \A k \in Levels : TailOf(k)' = IF n = ARENA_NULL /\ k = l THEN p ELSE tail[k]
       /\ \A k \in Levels : head'[k] = IF p = ARENA_NULL /\ k = l THEN n ELSE head[k]
  BY <1>1, <1>6, <1>10 DEF PrevOf, TailOf, ListTypeOK
\* o is nobody's neighbour any more
<1>13. \A s \in Occupied \ {o} :
         /\ data[s].prev = o => s = n
         /\ data[s].next = o => s = p
  <2> TAKE s \in Occupied \ {o}
  <2>1. data[s].prev = o => s = n
    BY <1>2, <1>5, <1>7 DEF n
  <2>2. data[s].next = o => s = p
    BY <1>2, <1>5, <1>7 DEF p
  <2>3. QED
    BY <2>1, <2>2
<1>14. (p = o) = (n = o)
  BY <1>2, <1>5, <1>9 DEF p, n
<1>15. ListTypeOK'
  BY <1>1, <1>2, <1>6 DEF ListTypeOK
<1>16. ASSUME NEW s \in Occupied \ {o}
       PROVE  IF PrevOf(s)' = ARENA_NULL THEN head'[data'[s].level] = s
              ELSE /\ PrevOf(s)' \in Occupied \ {o}
                   /\ data'[PrevOf(s)'].next = s
                   /\ data'[PrevOf(s)'].level = data'[s].level
  <2>1. data'[s].level = data[s].level /\ data[s].level \in Levels
    BY <1>5, <1>6
  <2>2. CASE s = n
    <3>1. PrevOf(s)' = p /\ data[s].level = l /\ n # ARENA_NULL /\ p # o
      BY <1>5, <1>9, <1>12, <1>14, <2>2
    <3>2. CASE p = ARENA_NULL
      BY <1>12, <2>1, <2>2, <3>1, <3>2
    <3>3. CASE p # ARENA_NULL
      BY <1>6, <1>9, <2>1, <2>2, <3>1, <3>3
    <3>4. QED
      BY <3>2, <3>3
  <2>3. CASE s # n
    <3>1. PrevOf(s)' = data[s].prev /\ data[s].prev # o
      BY <1>12, <1>13, <2>3
    <3>2. CASE data[s].prev = ARENA_NULL
      <4>1. head[data[s].level] = s
        BY <1>7, <3>2
      <4>2. ~(p = ARENA_NULL /\ data[s].level = l)
        BY <1>9, <4>1
      <4>3. QED
        BY <1>12, <2>1, <3>1, <3>2, <4>1, <4>2
    <3>3. CASE data[s].prev # ARENA_NULL
      <4> DEFINE q == data[s].prev
      <4>1. q \in Occupied \ {o} /\ data[q].next = s /\ data[q].level = data[s].level
        BY <1>7, <3>1, <3>3
      <4>2. q # p
        BY <1>9, <3>3, <4>1
      <4>3. QED
        BY <1>6, <2>1, <3>1, <3>3, <4>1, <4>2
    <3>4. QED
      BY <3>2, <3>3
  <2>4. QED
    BY <2>2, <2>3
<1>17. ASSUME NEW s \in Occupied \ {o}
       PROVE  IF data'[s].next = ARENA_NULL THEN TailOf(data[s].level)' = s
              ELSE data'[s].next \in Occupied \ {o} /\ PrevOf(data[s].next)' = s
  <2>1. data'[s].level = data[s].level /\ data[s].level \in Levels
    BY <1>5, <1>6
  <2>2. CASE s = p
    <3>1. data'[s].next = n /\ data[s].level = l /\ p # ARENA_NULL /\ n # o
      BY <1>5, <1>6, <1>9, <1>14, <2>2
    <3>2. n # ARENA_NULL => n \in Occupied \ {o}
      BY <1>9, <3>1
    <3>3. n = ARENA_NULL => TailOf(data[s].level)' = s
      BY <1>12, <2>1, <2>2, <3>1
    <3>4. n # ARENA_NULL => PrevOf(data[s].next)' = s
      BY <1>12, <2>2, <3>1, <3>2
    <3>5. QED
      BY <3>1, <3>2, <3>3, <3>4
  <2>3. CASE s # p
    <3>1. data'[s].next = data[s].next /\ data[s].next # o
      BY <1>6, <1>13, <2>3
    <3>2. CASE data[s].next = ARENA_NULL
      <4>1. tail[data[s].level] = s
        BY <1>7, <3>2
      <4>2. ~(n = ARENA_NULL /\ data[s].level = l)
        BY <1>9, <4>1
      <4>3. TailOf(data[s].level)' = s
        BY <1>12, <2>1, <4>1, <4>2
      <4>4. QED
        BY <3>1, <3>2, <4>3
    <3>3. CASE data[s].next # ARENA_NULL
      <4> DEFINE m == data[s].next
      <4>1. m \in Occupied \ {o} /\ data[m].prev = s
        BY <1>7, <3>1, <3>3
      <4>2. m # n
        BY <1>9, <3>3, <4>1
      <4>3. PrevOf(data[s].next)' = s
        BY <1>12, <3>1, <4>1, <4>2
      <4>4. QED
        BY <3>1, <3>3, <4>1, <4>3
    <3>4. QED
      BY <3>2, <3>3
  <2>4. QED
    BY <2>2, <2>3
<1>18. NeighboursAgree'
  BY <1>11, <1>16, <1>17 DEF NeighboursAgree
<1>19. EndsAreEnds'
  <2> SUFFICES ASSUME NEW k \in Levels
               PROVE  /\ (head'[k] = ARENA_NULL) = (TailOf(k)' = ARENA_NULL)
                      /\ head'[k] # ARENA_NULL =>
                           /\ head'[k] \in Occupied \ {o}
                           /\ data'[head'[k]].level = k
                           /\ PrevOf(head[k])' = ARENA_NULL
                      /\ TailOf(k)' # ARENA_NULL =>
                           /\ TailOf(k)' \in Occupied \ {o}
                           /\ data'[TailOf(k)'].level = k
                           /\ data'[TailOf(k)'].next = ARENA_NULL
    BY <1>11 DEF EndsAreEnds
  <2> DEFINE h == head'[k]
             u == TailOf(k)'
  <2>1. /\ h = IF p = ARENA_NULL /\ k = l THEN n ELSE head[k]
        /\ u = IF n = ARENA_NULL /\ k = l THEN p ELSE tail[k]
    BY <1>12
  <2>2. /\ (h = ARENA_NULL) = (u = ARENA_NULL)
        /\ h # ARENA_NULL =>
             /\ h \in Occupied \ {o}
             /\ data[h].level = k
             /\ (IF h = n THEN p ELSE data[h].prev) = ARENA_NULL
        /\ u # ARENA_NULL =>
             /\ u \in Occupied \ {o}
             /\ data[u].level = k
             /\ (IF u = p THEN n ELSE data[u].next) = ARENA_NULL
    <3> HIDE DEF h, u
    <3>0. data[o].level = l /\ data[o].prev = p /\ data[o].next = n /\ o # ARENA_NULL
      BY <1>1 DEF l, p, n
    <3>1. CASE k # l
      BY <1>8, <1>9, <2>1, <3>0, <3>1
    <3>2. CASE k = l /\ p = ARENA_NULL
      BY <1>8, <1>9, <1>14, <2>1, <3>0, <3>2
    <3>3. CASE k = l /\ p # ARENA_NULL
      BY <1>8, <1>9, <1>14, <2>1, <3>0, <3>3
    <3>4. QED
      BY <3>1, <3>2, <3>3
  <2>3. h # ARENA_NULL => PrevOf(head[k])' = ARENA_NULL
    BY <1>12, <2>2
  <2>4. QED
    BY <1>6, <2>2, <2>3
<1>20. IndexExact'
  BY <1>1, <1>6, SameIdsKeepIndex
<1>21. OrderLeaves(o, l, p, n)
  BY <1>2, <1>3, <1>4, <1>6, <1>11 DEF OrderLeaves, l, p, n
<1>22. QED
  BY <1>15, <1>18, <1>19, <1>20, <1>21 DEF o, l, p, n

\* remove_order, the second write: nothing changes but the field that had to catch up.
LEMMA RemoveUnlinkNextStep ==
  ASSUME TypeOK, ListInv, RemoveUnlinkNext
  PROVE  ListInv' /\ ListsStay
<1> USE DEF ListInv
<1> DEFINE p == data[slot].prev
           n == data[slot].next
           l == data[slot].level
<1>1. /\ step = "unlink_next" /\ step' = "free" /\ slot' = slot
      /\ head' = head /\ order_index' = order_index
  BY DEF RemoveUnlinkNext
<1>2. slot \in Occupied /\ l \in Levels /\ p \in Links /\ n \in Links
  <2>1. slot \in Occupied
    BY <1>1 DEF ListTypeOK
  <2>2. QED
    BY <2>1, OccupiedHoldsOrder
<1>3. /\ Occupied' = Occupied
      /\ \A s \in Occupied :
           /\ data'[s].id = data[s].id
           /\ data'[s].level = data[s].level
           /\ data'[s].prev = IF s = n THEN p ELSE data[s].prev
           /\ data'[s].next = data[s].next
      /\ tail' = IF n = ARENA_NULL THEN [tail EXCEPT ![l] = p] ELSE tail
  <2>1. CASE n = ARENA_NULL
    <3>1. n \notin Occupied
      BY <2>1, NullIsNoSlot DEF Occupied
    <3>2. UNCHANGED vars /\ tail' = [tail EXCEPT ![l] = p]
      BY <2>1 DEF RemoveUnlinkNext
    <3>3. QED
      BY <2>1, <3>1, <3>2 DEF vars, Occupied
  <2>2. CASE n # ARENA_NULL
    <3>1. GetMut(n, [data[n] EXCEPT !.prev = p]) /\ tail' = tail
      BY <2>2 DEF RemoveUnlinkNext
    <3>2. QED
      BY <1>2, <2>2, <3>1, WritePrev
  <2>3. QED
    BY <2>1, <2>2
<1>4. Linked = Occupied \ {slot} /\ Linked' = Linked
  BY <1>1, <1>3 DEF Linked
<1>5. /\ \A s \in Linked : PrevOf(s)' = PrevOf(s)
      /\ \A k \in Levels : TailOf(k)' = TailOf(k)
  BY <1>1, <1>2, <1>3, <1>4 DEF PrevOf, TailOf, ListTypeOK
<1>6. ListTypeOK'
  BY <1>1, <1>2, <1>3 DEF ListTypeOK
<1>7. NeighboursAgree' /\ EndsAreEnds'
  BY <1>1, <1>3, <1>4, <1>5, SameViewKeepsLists
<1>8. IndexExact'
  BY <1>1, <1>3, SameIdsKeepIndex
<1>9. ListsStay
  BY <1>1, <1>3, <1>4 DEF ListsStay
<1>10. QED
  BY <1>6, <1>7, <1>8, <1>9

\* remove_order gives the id and the slot back; no list had them any more.
LEMMA RemoveFreeStep ==
  ASSUME TypeOK, ListInv, RemoveFree
  PROVE  ListInv' /\ ListsStay
<1> USE DEF ListInv
<1>1. /\ step = "free" /\ step' = "idle" /\ slot' = slot /\ Free(slot)
      /\ order_index' = [order_index EXCEPT ![data[slot].id] = ARENA_NULL]
      /\ head' = head /\ tail' = tail
  BY DEF RemoveFree
<1>2. slot \in Occupied /\ slot \in Slots /\ data[slot].id \in Ids
  BY <1>1, OccupiedHoldsOrder DEF ListTypeOK
<1>3. Occupied' = Occupied \ {slot}
  BY <1>1, <1>2, OccupiedAfterFree
<1>4. \A s \in Occupied' : data'[s] = data[s]
  BY <1>1, <1>2, <1>3 DEF Free, TypeOK, Occupied
<1>5. Linked = Occupied' /\ Linked' = Linked
  BY <1>1, <1>3 DEF Linked
<1>6. /\ \A s \in Linked : PrevOf(s)' = PrevOf(s)
      /\ \A k \in Levels : TailOf(k)' = TailOf(k)
  BY <1>1, <1>4, <1>5 DEF PrevOf, TailOf
<1>7. ListTypeOK'
  BY <1>1, <1>2, NullIsNoSlot DEF ListTypeOK
<1>8. NeighboursAgree' /\ EndsAreEnds'
  BY <1>1, <1>4, <1>5, <1>6, SameViewKeepsLists
<1>9. IndexExact'
  <2>1. \A s \in Occupied' : data[s].id # data[slot].id
    BY <1>2, <1>3 DEF IndexExact
  <2>2. \A s \in Occupied' : data[s].id \in Ids
    BY <1>3, OccupiedHoldsOrder
  <2>3. /\ order_index'[data[slot].id] = ARENA_NULL
        /\ \A k \in Ids : k # data[slot].id => order_index'[k] = order_index[k]
    BY <1>1, <1>2 DEF ListTypeOK
  <2>4. \A k \in Ids : order_index[k] = slot => k = data[slot].id
    BY NullIsNoSlot, <1>2 DEF IndexExact
  <2>5. QED
    BY <1>3, <1>4, <2>1, <2>2, <2>3, <2>4 DEF IndexExact
<1>10. ListsStay
  BY <1>1, <1>4, <1>5 DEF ListsStay
<1>11. QED
  BY <1>7, <1>8, <1>9, <1>10

LEMMA ListInit == Init => ListInv
<1> SUFFICES ASSUME Init PROVE ListInv
  OBVIOUS
<1>1. Occupied = {}
  BY DEF Init, New, Occupied
<1>2. ListTypeOK
  BY NullIsNoSlot DEF Init, ListTypeOK
<1>3. NeighboursAgree /\ EndsAreEnds
  BY <1>1 DEF Init, NeighboursAgree, EndsAreEnds, Linked, TailOf
<1>4. IndexExact
  BY <1>1 DEF Init, IndexExact
<1>5. QED
  BY <1>2, <1>3, <1>4 DEF ListInv

LEMMA SameListsKeepInv ==
  ASSUME TypeOK, ListInv, UNCHANGED <<data, head, tail, order_index, step, slot>>
  PROVE  ListInv' /\ ListsStay
<1> USE DEF ListInv
<1>1. Occupied' = Occupied
  BY DEF Occupied
<1>2. Linked' = Linked
  BY <1>1 DEF Linked
<1>3. /\ \A s \in Linked : PrevOf(s)' = PrevOf(s)
      /\ \A k \in Levels : TailOf(k)' = TailOf(k)
  BY DEF PrevOf, TailOf
<1>4. NeighboursAgree' /\ EndsAreEnds'
  BY <1>2, <1>3, SameViewKeepsLists
<1>5. ListTypeOK' /\ IndexExact'
  BY <1>1 DEF ListTypeOK, IndexExact
<1>6. ListsStay
  BY <1>2 DEF ListsStay
<1>7. QED
  BY <1>4, <1>5, <1>6

LEMMA ListStep == TypeOK /\ FreeListThreadsFreeSlots /\ ListInv /\ [ListNext]_listVars => ListInv'
<1> SUFFICES ASSUME TypeOK, FreeListThreadsFreeSlots, ListInv, [ListNext]_listVars
             PROVE  ListInv'
  OBVIOUS
<1>1. ASSUME NEW id \in Ids, InsertRefused(id) PROVE ListInv'
  <2>1. UNCHANGED <<data, head, tail, order_index, step, slot>>
    BY <1>1 DEF InsertRefused, AllocFull
  <2>2. QED
    BY <2>1, SameListsKeepInv
<1>2. ASSUME NEW id \in Ids, NEW l \in Levels, InsertAlloc(id, l) PROVE ListInv'
  BY <1>2, InsertAllocStep
<1>3. CASE InsertSetLinks
  BY <1>3, InsertSetLinksStep
<1>4. CASE InsertLinkAtTail
  BY <1>4, InsertLinkAtTailStep
<1>5. ASSUME NEW id \in Ids, RemoveUnlinkPrev(id) PROVE ListInv'
  BY <1>5, RemoveUnlinkPrevStep
<1>6. CASE RemoveUnlinkNext
  BY <1>6, RemoveUnlinkNextStep
<1>7. CASE RemoveFree
  BY <1>7, RemoveFreeStep
<1>8. CASE UNCHANGED listVars
  BY <1>8, SameListsKeepInv DEF listVars, vars
<1>9. QED
  BY <1>1, <1>2, <1>3, <1>4, <1>5, <1>6, <1>7, <1>8 DEF ListNext

LEMMA ListInvariant == ListSpec => [](Inv /\ ListInv)
<1>1. Init => Inv /\ ListInv
  BY InitInv, ListInit DEF Init
<1>2. Inv /\ ListInv /\ [ListNext]_listVars => (Inv /\ ListInv)'
  <2> SUFFICES ASSUME Inv, ListInv, [ListNext]_listVars PROVE Inv' /\ ListInv'
    OBVIOUS
  <2>1. [Next]_vars
    BY ListStepIsArenaStep DEF Inv, ListInv
  <2>2. Inv'
    BY <2>1, InvStep
  <2>3. ListInv'
    BY ListStep DEF Inv
  <2>4. QED
    BY <2>2, <2>3
<1>3. QED
  BY <1>1, <1>2, PTL DEF ListSpec

\* The book calls the arena as the arena demands: insert_order and remove_order free,
\* read and write occupied slots only, so the lists run on an arena that behaves as a plain
\* map and their next_free chain, len and debug generations stay right (book lib.rs:274-304,
\* 452-473 on arena lib.rs:56-132).
THEOREM ListsRunOnAMap == ListSpec => [](Inv) /\ ImplementsMap
<1>1. Init => New
  BY DEF Init
<1>2. Inv /\ ListInv /\ [ListNext]_listVars => [Next]_vars
  BY ListStepIsArenaStep DEF Inv, ListInv
<1>3. ListSpec => Spec
  BY <1>1, <1>2, ListInvariant, PTL DEF ListSpec, Spec
<1>4. QED
  BY <1>3, ListInvariant, ArenaImplementsMap, PTL

\* For every capacity and any sequence of insert_order and remove_order calls, prev is the
\* mirror of next and tail of head between two calls: remove_order, which trusts all four,
\* never cuts off a part of a level (book lib.rs:291-304, 452-466).
THEOREM ListsMirror == ListSpec => []BackLinksMirror
<1>1. TypeOK /\ ListInv => BackLinksMirror
  <2> SUFFICES ASSUME TypeOK, ListInv, step = "idle" PROVE BackLinksMirror
    BY DEF BackLinksMirror
  <2>1. /\ Linked = Occupied
        /\ \A s \in Occupied : PrevOf(s) = data[s].prev
        /\ \A l \in Levels : TailOf(l) = tail[l]
        /\ \A s \in Occupied : data[s].level \in Levels
    BY OccupiedHoldsOrder DEF Linked, PrevOf, TailOf
  <2>2. \A l \in Levels : (head[l] = ARENA_NULL) = (tail[l] = ARENA_NULL)
    BY <2>1 DEF ListInv, EndsAreEnds
  <2>3. QED
    BY <2>1, <2>2 DEF ListInv, NeighboursAgree, BackLinksMirror
<1>2. QED
  BY <1>1, ListInvariant, PTL DEF Inv

\* Cancelling by id finds the order's slot as long as the order rests, and never another's:
\* the index and the arena are each other's inverse, between calls and between the link
\* writes of one (book lib.rs:288-289, 472-473).
THEOREM IndexIsExact == ListSpec => []IndexFindsEveryOrder
<1>1. ListInv => IndexFindsEveryOrder
  BY DEF ListInv, IndexExact, IndexFindsEveryOrder
<1>2. QED
  BY <1>1, ListInvariant, PTL

-----------------------------------------------------------------------------
(***************************************************************************)
(* The lists as queues: the orders of a level, from its head along next.   *)
(***************************************************************************)
\* q names the orders of level l, each once, in the order in which they are linked.
IsChain(q, n, l) ==
  /\ q \in [1 .. n -> Linked]
  /\ \A i, j \in 1 .. n : q[i] = q[j] => i = j
  /\ \A i \in 1 .. n : data[q[i]].level = l
  /\ \A s \in Linked : data[s].level = l => \E i \in 1 .. n : q[i] = s
  /\ head[l] = IF n = 0 THEN ARENA_NULL ELSE q[1]
  /\ \A i \in 1 .. n : data[q[i]].next = IF i = n THEN ARENA_NULL ELSE q[i + 1]

LevelsAreChains == \A l \in Levels : \E n \in Nat : \E q : IsChain(q, n, l)

\* What a walk over such a level yields.
IdsOf(q, n) == [i \in 1 .. n |-> data[q[i]].id]

\* Induction over the natural numbers, as a statement about sets.
LEMMA NaturalsFrom ==
  ASSUME NEW P \in SUBSET Nat, 0 \in P, \A n \in P : n + 1 \in P
  PROVE  P = Nat
<1> DEFINE R == OpToRel(<, Nat)
           T == Nat \ P
<1>1. IsWellFoundedOn(R, Nat)
  BY NatLessThanWellFounded
<1>2. SUFFICES ASSUME T # {} PROVE FALSE
  OBVIOUS
<1>3. PICK x \in T : \A y \in T : ~(<<y, x>> \in R)
  <2>1. T \subseteq Nat
    OBVIOUS
  <2> HIDE DEF R, T
  <2>2. QED
    BY <1>1, <1>2, <2>1, WFMin
<1>4. x \in Nat /\ x # 0 /\ x - 1 \in Nat /\ x - 1 < x /\ (x - 1) + 1 = x
  OBVIOUS
<1>5. x - 1 \notin P
  BY <1>4
<1>6. <<x - 1, x>> \in R
  BY <1>4 DEF OpToRel
<1>7. QED
  BY <1>3, <1>4, <1>5, <1>6

\* The recursion of Walk, over the number of orders it may still meet.
WalkFrom(f, n) ==
  [s \in Links |-> IF n = 0 \/ s \notin Occupied THEN <<>>
                   ELSE <<data[s].id>> \o f[n - 1][data[s].next]]

Walking(f, N) == f = [n \in 0 .. N |-> WalkFrom(f, n)]

LEMMA WalkingExists == \A N \in Nat : \E f : Walking(f, N)
<1> DEFINE P == {N \in Nat : \E f : Walking(f, N)}
<1>1. 0 \in P
  <2> DEFINE f == [n \in 0 .. 0 |-> WalkFrom(<<>>, n)]
  <2>1. \A n \in 0 .. 0 : WalkFrom(f, n) = WalkFrom(<<>>, n)
    BY DEF WalkFrom
  <2>2. Walking(f, 0)
    BY <2>1 DEF Walking
  <2>3. QED
    BY <2>2
<1>2. ASSUME NEW N \in P PROVE N + 1 \in P
  <2>1. PICK f : Walking(f, N)
    OBVIOUS
  <2> DEFINE g == [n \in 0 .. N + 1 |-> WalkFrom(f, n)]
  <2>2. \A n \in 0 .. N : f[n] = WalkFrom(f, n)
    BY <2>1 DEF Walking
  <2>3. \A n \in 0 .. N + 1 : WalkFrom(g, n) = WalkFrom(f, n)
    <3> TAKE n \in 0 .. N + 1
    <3>1. CASE n = 0
      BY <3>1 DEF WalkFrom
    <3>2. CASE n # 0
      <4>1. n - 1 \in 0 .. N /\ n - 1 \in 0 .. N + 1
        BY <3>2
      <4>2. g[n - 1] = f[n - 1]
        BY <2>2, <4>1
      <4> HIDE DEF g
      <4>3. QED
        BY <4>2 DEF WalkFrom
    <3>3. QED
      BY <3>1, <3>2
  <2>4. Walking(g, N + 1)
    BY <2>3 DEF Walking
  <2>5. QED
    BY <2>4
<1>3. P \in SUBSET Nat
  OBVIOUS
<1>4. P = Nat
  <2> HIDE DEF P
  <2>1. QED
    BY <1>1, <1>2, <1>3, NaturalsFrom
<1>5. QED
  BY <1>4

LEMMA ConsIs ==
  ASSUME NEW S, NEW x \in S, NEW j \in Nat, NEW r \in [1 .. j -> S]
  PROVE  <<x>> \o r = [i \in 1 .. j + 1 |-> IF i = 1 THEN x ELSE r[i - 1]]
<1>1. r \in Seq(S) /\ Len(r) = j /\ <<x>> \in Seq(S) /\ Len(<<x>>) = 1
  OBVIOUS
<1>2. /\ Len(<<x>> \o r) = 1 + j
      /\ \A i \in 1 .. 1 + j : (<<x>> \o r)[i] = IF i = 1 THEN x ELSE r[i - 1]
      /\ <<x>> \o r \in Seq(S)
  BY <1>1
<1>3. QED
  BY <1>2

\* A list is no longer than the arena.
LEMMA ChainFits ==
  \A q : \A n \in Nat : \A l : IsChain(q, n, l) => n <= Capacity
<1> SUFFICES ASSUME NEW q, NEW n \in Nat, NEW l, IsChain(q, n, l), n > Capacity PROVE FALSE
  BY ArenaAssumption
<1>1. /\ IsFiniteSet(1 .. n) /\ Cardinality(1 .. n) = n
      /\ IsFiniteSet(Slots) /\ Cardinality(Slots) = Capacity
  <2>1. IsFiniteSet(1 .. n) /\ Cardinality(1 .. n) = n
    BY FS_Interval
  <2>2. IsFiniteSet(Slots) /\ Cardinality(Slots) = Capacity
    <3>1. 0 \in Int /\ Capacity - 1 \in Int /\ Slots = 0 .. Capacity - 1
      BY ArenaAssumption DEF Slots
    <3>2. IsFiniteSet(Slots) /\ Cardinality(Slots) = IF 0 > Capacity - 1 THEN 0 ELSE (Capacity - 1) - 0 + 1
      BY <3>1, FS_Interval
    <3>3. QED
      BY <3>2, ArenaAssumption
  <2>3. QED
    BY <2>1, <2>2
<1>2. Linked \subseteq Slots
  BY DEF Linked, Occupied
<1>3. q \in Injection(1 .. n, Slots)
  BY <1>2 DEF IsChain, Injection, IsInjective
<1>4. QED
  BY <1>1, <1>3, FS_Injection, ArenaAssumption

\* Walking a level that is a chain meets the chain.
LEMMA ChainIsWalked ==
  \A q : \A n \in Nat : \A l \in Levels :
    TypeOK /\ IsChain(q, n, l) => Walk(l) = IdsOf(q, n)
<1> SUFFICES ASSUME NEW q, NEW n \in Nat, NEW l \in Levels, TypeOK, IsChain(q, n, l)
             PROVE  Walk(l) = IdsOf(q, n)
  OBVIOUS
<1> DEFINE f == CHOOSE g : Walking(g, Capacity)
<1>1. Walk(l) = f[Capacity][head[l]]
  BY DEF Walk, Walking, WalkFrom
<1>2. Walking(f, Capacity)
  BY WalkingExists, ArenaAssumption
<1> HIDE DEF f
<1>3. n <= Capacity
  BY ChainFits
<1>4. \A i \in 1 .. n : q[i] \in Occupied /\ q[i] \in Links /\ data[q[i]].id \in Ids
  BY OccupiedHoldsOrder DEF IsChain, Linked, Links
<1>5. \A i \in 1 .. n : data[q[i]].next = IF i = n THEN ARENA_NULL ELSE q[i + 1]
  BY DEF IsChain
<1> DEFINE at(j) == IF j = 0 THEN ARENA_NULL ELSE q[(n - j) + 1]
           last(j) == [i \in 1 .. j |-> data[q[(n - j) + i]].id]
           P == {j \in Nat : j <= n => \A m \in j .. Capacity : f[m][at(j)] = last(j)}
<1>6. \A m \in 0 .. Capacity : f[m] = WalkFrom(f, m)
  BY <1>2 DEF Walking
<1>7. 0 \in P
  <2>1. \A m \in 0 .. Capacity : f[m][ARENA_NULL] = <<>>
    BY <1>6, NullIsNoSlot DEF WalkFrom, Occupied
  <2>2. last(0) = <<>>
    OBVIOUS
  <2>3. QED
    BY <2>1, <2>2
<1>8. ASSUME NEW j \in P PROVE j + 1 \in P
  <2> SUFFICES ASSUME j + 1 <= n, NEW m \in j + 1 .. Capacity
               PROVE  f[m][at(j + 1)] = last(j + 1)
    OBVIOUS
  <2> DEFINE k == n - j
             s == q[k]
  <2>1. k \in 1 .. n /\ (n - (j + 1)) + 1 = k /\ at(j + 1) = s
    OBVIOUS
  <2>2. s \in Occupied /\ s \in Links /\ data[s].id \in Ids
    BY <1>4, <2>1
  <2>3. data[s].next = at(j)
    <3>1. (k = n) = (j = 0)
      OBVIOUS
    <3>2. QED
      BY <1>5, <2>1, <3>1
  <2>4. m \in 0 .. Capacity /\ m # 0 /\ m - 1 \in j .. Capacity
    BY ArenaAssumption
  <2>5. f[m - 1][at(j)] = last(j)
    BY <2>4
  <2> HIDE DEF at, last, k
  <2>6. f[m][s] = <<data[s].id>> \o last(j)
    <3> HIDE DEF s
    <3>1. f[m] = WalkFrom(f, m)
      BY <1>6, <2>4
    <3>2. WalkFrom(f, m)[s] = <<data[s].id>> \o f[m - 1][data[s].next]
      BY <2>2, <2>4 DEF WalkFrom
    <3>3. QED
      BY <2>3, <2>5, <3>1, <3>2
  <2>7. last(j) \in [1 .. j -> Ids]
    BY <1>4 DEF last
  <2>8. <<data[s].id>> \o last(j)
          = [i \in 1 .. j + 1 |-> IF i = 1 THEN data[s].id ELSE last(j)[i - 1]]
    BY <2>2, <2>7, ConsIs
  <2>9. \A i \in 1 .. j + 1 :
          (IF i = 1 THEN data[s].id ELSE last(j)[i - 1]) = data[q[(n - (j + 1)) + i]].id
    <3> TAKE i \in 1 .. j + 1
    <3>1. CASE i = 1
      BY <2>1, <3>1
    <3>2. CASE i # 1
      <4>1. i - 1 \in 1 .. j /\ (n - j) + (i - 1) = (n - (j + 1)) + i
        BY <3>2
      <4>2. QED
        BY <3>2, <4>1 DEF last
    <3>3. QED
      BY <3>1, <3>2
  <2>10. last(j + 1) = [i \in 1 .. j + 1 |-> data[q[(n - (j + 1)) + i]].id]
    BY DEF last
  <2>11. QED
    BY <2>1, <2>6, <2>8, <2>9, <2>10
<1>9. n \in P
  <2>1. P \in SUBSET Nat
    OBVIOUS
  <2> HIDE DEF P
  <2>2. QED
    BY <1>7, <1>8, <2>1, NaturalsFrom
<1>10. f[Capacity][at(n)] = last(n)
  BY <1>3, <1>9, ArenaAssumption
<1>11. at(n) = head[l]
  BY DEF IsChain
<1>12. last(n) = IdsOf(q, n)
  BY DEF IdsOf
<1>13. QED
  BY <1>1, <1>10, <1>11, <1>12

LEMMA ChainIsWalkedNext ==
  (\A q : \A n \in Nat : \A l \in Levels :
     TypeOK /\ IsChain(q, n, l) => Walk(l) = IdsOf(q, n))'
BY ChainIsWalked, PTL

\* A write that changes no list changes no walk.
LEMMA ListsStayChains ==
  ASSUME TypeOK, TypeOK', ListTypeOK, LevelsAreChains, ListsStay
  PROVE  LevelsAreChains' /\ \A l \in Levels : Walk(l)' = Walk(l)
<1> SUFFICES ASSUME NEW l \in Levels
             PROVE  (\E n \in Nat : \E q : IsChain(q, n, l)') /\ Walk(l)' = Walk(l)
  BY DEF LevelsAreChains
<1>1. PICK n \in Nat : \E q : IsChain(q, n, l)
  BY DEF LevelsAreChains
<1>2. PICK q : IsChain(q, n, l)
  BY <1>1
<1>3. \A i \in 1 .. n : q[i] \in Linked
  BY <1>2 DEF IsChain
<1>4. IsChain(q, n, l)'
  BY <1>2, <1>3 DEF IsChain, ListsStay
<1>5. Walk(l) = IdsOf(q, n)
  BY <1>2, ChainIsWalked
<1>6. Walk(l)' = IdsOf(q, n)'
  BY <1>4, ChainIsWalkedNext
<1>7. IdsOf(q, n)' = IdsOf(q, n)
  BY <1>3 DEF IdsOf, ListsStay
<1>8. QED
  BY <1>4, <1>5, <1>6, <1>7

\* The list of another level keeps its chain when a write touches one list only.
LEMMA OtherChainStays ==
  ASSUME TypeOK, TypeOK', NEW k \in Levels, NEW q, NEW n \in Nat, IsChain(q, n, k),
         head'[k] = head[k],
         \A s \in Linked : data[s].level = k =>
           s \in Linked' /\ data'[s].id = data[s].id /\ data'[s].level = k /\ data'[s].next = data[s].next,
         \A s \in Linked' : data'[s].level = k => s \in Linked /\ data[s].level = k
  PROVE  IsChain(q, n, k)' /\ Walk(k)' = Walk(k)
<1>1. \A i \in 1 .. n : q[i] \in Linked /\ data[q[i]].level = k
  BY DEF IsChain
<1>2. q \in [1 .. n -> Linked']
  BY <1>1 DEF IsChain
<1>3. IsChain(q, n, k)'
  BY <1>1, <1>2 DEF IsChain
<1>4. Walk(k) = IdsOf(q, n)
  BY ChainIsWalked
<1>5. Walk(k)' = IdsOf(q, n)'
  BY <1>3, ChainIsWalkedNext
<1>6. IdsOf(q, n)' = IdsOf(q, n)
  BY <1>1 DEF IdsOf
<1>7. QED
  BY <1>3, <1>4, <1>5, <1>6

\* The queues the refinement reads from the lists.
Walks == [l \in Levels |-> Walk(l)]

\* The last write of an insertion puts the order at the end of the walk.
LEMMA EnteringChains ==
  ASSUME TypeOK, TypeOK', ListInv, LevelsAreChains,
         NEW o, NEW l, NEW t, OrderEnters(o, l, t)
  PROVE  LevelsAreChains' /\ Queues!Enqueue(data[o].id, l)
<1> USE DEF ListInv
<1>1. /\ o \in Occupied /\ o \notin Linked /\ l \in Levels /\ data[o].level = l
      /\ data[o].next = ARENA_NULL /\ t = TailOf(l)
      /\ Linked' = Linked \cup {o}
      /\ head' = IF t = ARENA_NULL THEN [head EXCEPT ![l] = o] ELSE head
  BY DEF OrderEnters
<1>2. \A s \in Linked \cup {o} :
        /\ data'[s].id = data[s].id
        /\ data'[s].level = data[s].level
        /\ data'[s].next = IF s = t THEN o ELSE data[s].next
  BY <1>1 DEF OrderEnters
<1>3. /\ (head[l] = ARENA_NULL) = (t = ARENA_NULL)
      /\ t # ARENA_NULL => t \in Linked /\ data[t].level = l /\ data[t].next = ARENA_NULL
  BY <1>1 DEF EndsAreEnds
<1>4. o # ARENA_NULL /\ \A s \in Linked : s \in Occupied /\ s # ARENA_NULL /\ data[s].id \in Ids
  BY <1>1, OccupiedHoldsOrder, NullIsNoSlot DEF Linked
<1>5. /\ \A k \in Levels : k # l => head'[k] = head[k]
      /\ head'[l] = IF t = ARENA_NULL THEN o ELSE head[l]
  BY <1>1 DEF ListTypeOK
<1>6. ASSUME NEW k \in Levels, k # l, NEW q, NEW n \in Nat, IsChain(q, n, k)
      PROVE  IsChain(q, n, k)' /\ Walk(k)' = Walk(k)
  <2>1. \A s \in Linked : data[s].level = k => s # t
    BY <1>3, <1>4, <1>6
  <2>2. /\ \A s \in Linked : data[s].level = k =>
             s \in Linked' /\ data'[s].id = data[s].id /\ data'[s].level = k /\ data'[s].next = data[s].next
        /\ \A s \in Linked' : data'[s].level = k => s \in Linked /\ data[s].level = k
    BY <1>1, <1>2, <1>6, <2>1
  <2>3. head'[k] = head[k]
    BY <1>5, <1>6
  <2>4. QED
    BY <1>6, <2>2, <2>3, OtherChainStays
<1>7. PICK n \in Nat : \E q : IsChain(q, n, l)
  BY <1>1 DEF LevelsAreChains
<1>8. PICK q : IsChain(q, n, l)
  BY <1>7
<1> DEFINE r == [i \in 1 .. n + 1 |-> IF i = n + 1 THEN o ELSE q[i]]
<1>9. /\ n + 1 \in 1 .. n + 1 /\ r[n + 1] = o
      /\ \A i \in 1 .. n : i \in 1 .. n + 1 /\ r[i] = q[i]
      /\ \A i \in 1 .. n + 1 : i = n + 1 \/ i \in 1 .. n
      /\ DOMAIN r = 1 .. n + 1
      /\ r = [i \in 1 .. n + 1 |-> r[i]]
  OBVIOUS
<1> HIDE DEF r
<1>10. \A i \in 1 .. n : q[i] \in Linked /\ data[q[i]].level = l
  BY <1>8 DEF IsChain
\* the tail is the end of the chain
<1>11. IF n = 0 THEN t = ARENA_NULL ELSE t = q[n]
  <2>1. CASE n = 0
    BY <1>3, <1>8, <2>1 DEF IsChain
  <2>2. CASE n # 0
    <3>1. n \in 1 .. n
      BY <2>2
    <3>2. data[q[n]].next = ARENA_NULL
      BY <1>8, <3>1 DEF IsChain
    <3>3. TailOf(data[q[n]].level) = q[n]
      BY <1>10, <3>1, <3>2 DEF NeighboursAgree
    <3>4. QED
      BY <1>1, <1>10, <2>2, <3>1, <3>3
  <2>3. QED
    BY <2>1, <2>2
<1>12. IsChain(r, n + 1, l)'
  <2>1. r \in [1 .. n + 1 -> Linked']
    <3>1. \A i \in 1 .. n + 1 : r[i] \in Linked'
      BY <1>1, <1>9, <1>10
    <3>2. QED
      BY <1>9, <3>1
  <2>2. \A i, j \in 1 .. n + 1 : r[i] = r[j] => i = j
    <3>1. \A i, j \in 1 .. n : q[i] = q[j] => i = j
      BY <1>8 DEF IsChain
    <3>2. QED
      BY <1>1, <1>9, <1>10, <3>1
  <2>3. \A i \in 1 .. n + 1 : data'[r[i]].level = l
    <3> TAKE i \in 1 .. n + 1
    <3>1. r[i] \in Linked \cup {o} /\ data[r[i]].level = l
      BY <1>1, <1>9, <1>10
    <3>2. QED
      BY <1>2, <3>1
  <2>4. \A s \in Linked' : data'[s].level = l => \E i \in 1 .. n + 1 : r[i] = s
    <3> TAKE s \in Linked'
    <3> HAVE data'[s].level = l
    <3>1. s = o \/ (s \in Linked /\ data[s].level = l)
      BY <1>1, <1>2
    <3>2. s # o => \E i \in 1 .. n : q[i] = s
      BY <1>8, <3>1 DEF IsChain
    <3>3. QED
      BY <1>9, <3>1, <3>2
  <2>5. head'[l] = IF n + 1 = 0 THEN ARENA_NULL ELSE r[1]
    <3>1. CASE n = 0
      BY <1>5, <1>9, <1>11, <3>1
    <3>2. CASE n # 0
      <4>1. 1 \in 1 .. n /\ n \in 1 .. n
        BY <3>2
      <4>2. t # ARENA_NULL
        BY <1>4, <1>10, <1>11, <3>2, <4>1
      <4>3. head[l] = q[1]
        BY <1>8, <3>2 DEF IsChain
      <4>4. QED
        BY <1>5, <1>9, <4>1, <4>2, <4>3
    <3>3. QED
      BY <3>1, <3>2
  <2>6. \A i \in 1 .. n + 1 : data'[r[i]].next = IF i = n + 1 THEN ARENA_NULL ELSE r[i + 1]
    <3>1. \A i \in 1 .. n : data[q[i]].next = IF i = n THEN ARENA_NULL ELSE q[i + 1]
      BY <1>8 DEF IsChain
    <3>2. \A i \in 1 .. n : q[i] = t => i = n
      <4> TAKE i \in 1 .. n
      <4>1. n # 0 /\ n \in 1 .. n
        OBVIOUS
      <4>2. t = q[n]
        BY <1>11, <4>1
      <4>3. QED
        BY <1>8, <4>1, <4>2 DEF IsChain
    <3> TAKE i \in 1 .. n + 1
    <3>3. CASE i = n + 1
      <4>1. o # t
        BY <1>1, <1>3, <1>4
      <4>2. QED
        BY <1>1, <1>2, <1>9, <3>3, <4>1
    <3>4. CASE i = n /\ n # 0
      <4>1. data'[r[i]].next = o
        BY <1>1, <1>2, <1>9, <1>10, <1>11, <3>4
      <4>2. i # n + 1 /\ r[i + 1] = o
        BY <1>9, <3>4
      <4>3. QED
        BY <4>1, <4>2
    <3>5. CASE i # n + 1 /\ i # n
      <4>1. i \in 1 .. n /\ i + 1 \in 1 .. n
        BY <3>5
      <4>2. data'[r[i]].next = q[i + 1]
        <5>1. r[i] = q[i] /\ q[i] \in Linked /\ q[i] # t
          BY <1>9, <1>10, <3>2, <3>5, <4>1
        <5>2. data'[q[i]].next = data[q[i]].next
          BY <1>2, <5>1
        <5>3. data[q[i]].next = q[i + 1]
          BY <3>1, <3>5, <4>1
        <5>4. QED
          BY <5>1, <5>2, <5>3
      <4>3. r[i + 1] = q[i + 1]
        BY <1>9, <4>1
      <4>4. QED
        BY <3>5, <4>2, <4>3
    <3>6. QED
      BY <3>3, <3>4, <3>5
  <2>7. QED
    BY <2>1, <2>2, <2>3, <2>4, <2>5, <2>6 DEF IsChain
<1>13. LevelsAreChains'
  <2> SUFFICES ASSUME NEW k \in Levels PROVE \E m \in Nat : \E p : IsChain(p, m, k)'
    BY DEF LevelsAreChains
  <2>1. CASE k = l
    <3>1. n + 1 \in Nat
      OBVIOUS
    <3>2. QED
      BY <1>12, <2>1, <3>1
  <2>2. CASE k # l
    BY <1>6, <2>2 DEF LevelsAreChains
  <2>3. QED
    BY <2>1, <2>2
\* nobody has the id yet, and the walk goes on to it
<1>14. ASSUME NEW k \in Levels PROVE ~Contains(Walks[k], data[o].id)
  <2>1. PICK m \in Nat : \E p : IsChain(p, m, k)
    BY DEF LevelsAreChains
  <2>2. PICK p : IsChain(p, m, k)
    BY <2>1
  <2>3. Walks[k] = IdsOf(p, m)
    BY <2>2, ChainIsWalked DEF Walks
  <2>4. \A i \in 1 .. m : data[p[i]].id # data[o].id
    <3>1. \A i \in 1 .. m : p[i] \in Linked
      BY <2>2 DEF IsChain
    <3>2. \A s \in Linked : data[s].id # data[o].id
      BY <1>1, <1>4 DEF IndexExact
    <3>3. QED
      BY <3>1, <3>2
  <2>5. Len(IdsOf(p, m)) = m /\ \A i \in 1 .. m : IdsOf(p, m)[i] = data[p[i]].id
    BY DEF IdsOf
  <2>6. QED
    BY <2>3, <2>4, <2>5 DEF Contains
<1>15. Walk(l)' = Append(Walk(l), data[o].id)
  <2>1. Walk(l) = IdsOf(q, n) /\ Walk(l)' = IdsOf(r, n + 1)'
    BY <1>1, <1>8, <1>12, ChainIsWalked, ChainIsWalkedNext
  <2>2. IdsOf(q, n) \in Seq(Ids) /\ Len(IdsOf(q, n)) = n /\ data[o].id \in Ids
    BY <1>1, <1>4, <1>10, OccupiedHoldsOrder DEF IdsOf
  <2>3. IdsOf(r, n + 1)' = [i \in 1 .. n + 1 |-> IF i = n + 1 THEN data[o].id ELSE IdsOf(q, n)[i]]
    <3>1. \A i \in 1 .. n + 1 : data'[r[i]].id = IF i = n + 1 THEN data[o].id ELSE IdsOf(q, n)[i]
      <4> TAKE i \in 1 .. n + 1
      <4>1. CASE i = n + 1
        BY <1>2, <1>9, <4>1
      <4>2. CASE i # n + 1
        <5>1. i \in 1 .. n /\ r[i] = q[i] /\ q[i] \in Linked
          BY <1>9, <1>10, <4>2
        <5>2. QED
          BY <1>2, <4>2, <5>1 DEF IdsOf
      <4>3. QED
        BY <4>1, <4>2
    <3>2. QED
      BY <3>1 DEF IdsOf
  <2> DEFINE w == IdsOf(q, n)
  <2> HIDE DEF w
  <2>4. w \in Seq(Ids) /\ Len(w) = n
    BY <2>2 DEF w
  <2>5. Append(w, data[o].id) = [i \in 1 .. n + 1 |-> IF i = n + 1 THEN data[o].id ELSE w[i]]
    BY <2>2, <2>4
  <2>6. QED
    BY <2>1, <2>3, <2>5 DEF w
<1>16. Walks' = [Walks EXCEPT ![l] = Append(@, data[o].id)]
  <2>1. \A k \in Levels : k # l => Walk(k)' = Walk(k)
    BY <1>6 DEF LevelsAreChains
  <2>2. QED
    BY <1>1, <1>15, <2>1 DEF Walks
<1>17. Queues!Enqueue(data[o].id, l)
  BY <1>14, <1>16 DEF Queues!Enqueue, Walks, Queues!Contains, Contains
<1>18. QED
  BY <1>13, <1>17

\* Removing one position of a queue.
LEMMA RemoveAtProperties ==
  ASSUME NEW S, NEW q \in Seq(S), NEW k \in 1 .. Len(q)
  PROVE  /\ RemoveAt(q, k) \in Seq(S)
         /\ Len(RemoveAt(q, k)) = Len(q) - 1
         /\ \A i \in 1 .. Len(q) - 1 : RemoveAt(q, k)[i] = IF i < k THEN q[i] ELSE q[i + 1]
<1> DEFINE a == SubSeq(q, 1, k - 1)
           b == SubSeq(q, k + 1, Len(q))
<1>1. Len(q) \in Nat /\ \A i \in 1 .. Len(q) : q[i] \in S
  OBVIOUS
<1>2. a \in Seq(S) /\ Len(a) = k - 1 /\ \A i \in 1 .. k - 1 : a[i] = q[i]
  <2>1. \A i \in 1 .. k - 1 : q[i] \in S
    BY <1>1
  <2>2. /\ a \in Seq(S) /\ Len(a) = IF 1 <= k - 1 THEN k - 1 - 1 + 1 ELSE 0
        /\ \A i \in 1 .. k - 1 - 1 + 1 : a[i] = q[1 + i - 1]
    BY <1>1, <2>1, SubSeqProperties
  <2> HIDE DEF a
  <2>3. QED
    BY <1>1, <2>2
<1>3. b \in Seq(S) /\ Len(b) = Len(q) - k /\ \A i \in 1 .. Len(q) - k : b[i] = q[k + i]
  <2>1. \A i \in k + 1 .. Len(q) : q[i] \in S
    BY <1>1
  <2>2. /\ b \in Seq(S) /\ Len(b) = IF k + 1 <= Len(q) THEN Len(q) - (k + 1) + 1 ELSE 0
        /\ \A i \in 1 .. Len(q) - (k + 1) + 1 : b[i] = q[k + 1 + i - 1]
    BY <1>1, <2>1, SubSeqProperties
  <2> HIDE DEF b
  <2>3. QED
    BY <1>1, <2>2
<1> HIDE DEF a, b
<1>4. /\ a \o b \in Seq(S) /\ Len(a \o b) = Len(a) + Len(b)
      /\ \A i \in 1 .. Len(a) + Len(b) : (a \o b)[i] = IF i <= Len(a) THEN a[i] ELSE b[i - Len(a)]
  BY <1>2, <1>3, ConcatProperties
<1>5. RemoveAt(q, k) = a \o b
  BY DEF RemoveAt, a, b
<1>6. ASSUME NEW i \in 1 .. Len(q) - 1
      PROVE  (a \o b)[i] = IF i < k THEN q[i] ELSE q[i + 1]
  <2>1. CASE i < k
    BY <1>1, <1>2, <1>3, <1>4, <2>1
  <2>2. CASE ~(i < k)
    <3>1. i - (k - 1) \in 1 .. Len(q) - k /\ k + (i - (k - 1)) = i + 1
      BY <1>1, <2>2
    <3>2. (a \o b)[i] = b[i - (k - 1)]
      BY <1>1, <1>2, <1>3, <1>4, <2>2
    <3>3. QED
      BY <1>3, <2>2, <3>1, <3>2
  <2>3. QED
    BY <2>1, <2>2
<1>7. a \o b \in Seq(S) /\ Len(a \o b) = Len(q) - 1
  BY <1>1, <1>2, <1>3, <1>4
<1>8. QED
  BY <1>5, <1>6, <1>7

\* The first write of a removal takes the order out of the walk, wherever it stands.
LEMMA LeavingChains ==
  ASSUME TypeOK, TypeOK', ListInv, LevelsAreChains,
         NEW o, NEW l, NEW p, NEW nx, OrderLeaves(o, l, p, nx)
  PROVE  LevelsAreChains' /\ \E i \in DOMAIN Walks[l] : Queues!Leave(l, i)
<1> USE DEF ListInv
<1>1. /\ o \in Linked /\ l \in Levels /\ data[o].level = l /\ data[o].next = nx
      /\ p = PrevOf(o)
      /\ Linked' = Linked \ {o}
      /\ head' = IF p = ARENA_NULL THEN [head EXCEPT ![l] = nx] ELSE head
  BY DEF OrderLeaves
<1>2. \A s \in Linked :
        /\ data'[s].id = data[s].id
        /\ data'[s].level = data[s].level
        /\ data'[s].next = IF s = p THEN nx ELSE data[s].next
  BY DEF OrderLeaves
<1>3. \A s \in Linked : s \in Occupied /\ s # ARENA_NULL /\ data[s].id \in Ids
  BY OccupiedHoldsOrder, NullIsNoSlot DEF Linked
<1>4. p # ARENA_NULL => p \in Linked /\ data[p].level = l
  BY <1>1 DEF NeighboursAgree
<1>5. /\ \A k \in Levels : k # l => head'[k] = head[k]
      /\ head'[l] = IF p = ARENA_NULL THEN nx ELSE head[l]
  BY <1>1 DEF ListTypeOK
<1>6. ASSUME NEW k \in Levels, k # l, NEW q, NEW n \in Nat, IsChain(q, n, k)
      PROVE  IsChain(q, n, k)' /\ Walk(k)' = Walk(k)
  <2>1. \A s \in Linked : data[s].level = k => s # p /\ s # o
    BY <1>1, <1>3, <1>4, <1>6
  <2>2. /\ \A s \in Linked : data[s].level = k =>
             s \in Linked' /\ data'[s].id = data[s].id /\ data'[s].level = k /\ data'[s].next = data[s].next
        /\ \A s \in Linked' : data'[s].level = k => s \in Linked /\ data[s].level = k
    BY <1>1, <1>2, <1>6, <2>1
  <2>3. head'[k] = head[k]
    BY <1>5, <1>6
  <2>4. QED
    BY <1>6, <2>2, <2>3, OtherChainStays
<1>7. PICK n \in Nat : \E q : IsChain(q, n, l)
  BY <1>1 DEF LevelsAreChains
<1>8. PICK q : IsChain(q, n, l)
  BY <1>7
<1>9. /\ q \in [1 .. n -> Linked]
      /\ \A j, k \in 1 .. n : q[j] = q[k] => j = k
      /\ \A j \in 1 .. n : q[j] \in Linked /\ data[q[j]].level = l
      /\ \A s \in Linked : data[s].level = l => \E j \in 1 .. n : q[j] = s
      /\ head[l] = IF n = 0 THEN ARENA_NULL ELSE q[1]
      /\ \A j \in 1 .. n : data[q[j]].next = IF j = n THEN ARENA_NULL ELSE q[j + 1]
  BY <1>8 DEF IsChain
<1>10. PICK i \in 1 .. n : q[i] = o
  BY <1>1, <1>9
\* its neighbours are the neighbours in the chain
<1>11. nx = IF i = n THEN ARENA_NULL ELSE q[i + 1]
  BY <1>1, <1>9, <1>10
<1>12. i = 1 => p = ARENA_NULL
  <2> HAVE i = 1
  <2>1. head[l] = o /\ o # ARENA_NULL
    BY <1>1, <1>3, <1>9, <1>10
  <2>2. QED
    BY <1>1, <2>1 DEF EndsAreEnds
<1>13. i # 1 => i - 1 \in 1 .. n /\ p = q[i - 1] /\ p # ARENA_NULL
  <2> HAVE i # 1
  <2>1. i - 1 \in 1 .. n /\ i - 1 # n /\ (i - 1) + 1 = i
    OBVIOUS
  <2>2. data[q[i - 1]].next = o /\ q[i - 1] \in Linked
    BY <1>9, <1>10, <2>1
  <2>3. PrevOf(data[q[i - 1]].next) = q[i - 1]
    BY <1>1, <1>3, <2>2 DEF NeighboursAgree
  <2>4. QED
    BY <1>1, <1>3, <2>1, <2>2, <2>3
<1> DEFINE m == n - 1
           at(j) == IF j < i THEN j ELSE j + 1
           r == [j \in 1 .. m |-> q[at(j)]]
<1>14. /\ m \in Nat /\ m + 1 = n
       /\ \A j \in 1 .. m : at(j) \in 1 .. n /\ at(j) # i
       /\ \A j, k \in 1 .. m : at(j) = at(k) => j = k
       /\ \A j \in 1 .. n : j # i => \E k \in 1 .. m : at(k) = j
  <2>1. m \in Nat /\ m + 1 = n
    OBVIOUS
  <2>2. /\ \A j \in 1 .. m : at(j) \in 1 .. n /\ at(j) # i
        /\ \A j, k \in 1 .. m : at(j) = at(k) => j = k
    OBVIOUS
  <2>3. ASSUME NEW j \in 1 .. n, j # i PROVE \E k \in 1 .. m : at(k) = j
    <3>1. CASE j < i
      <4>1. j \in 1 .. m /\ at(j) = j
        BY <3>1
      <4>2. QED
        BY <4>1
    <3>2. CASE ~(j < i)
      <4>1. j - 1 \in 1 .. m /\ at(j - 1) = j
        BY <2>3, <3>2
      <4>2. QED
        BY <4>1
    <3>3. QED
      BY <3>1, <3>2
  <2>4. QED
    BY <2>1, <2>2, <2>3
<1>15. /\ \A j \in 1 .. m : r[j] = q[at(j)]
       /\ DOMAIN r = 1 .. m /\ r = [j \in 1 .. m |-> r[j]]
  OBVIOUS
<1> HIDE DEF r
<1>16. \A j \in 1 .. m : r[j] \in Linked /\ r[j] # o /\ data[r[j]].level = l
  <2> HIDE DEF at
  <2>1. QED
    BY <1>9, <1>10, <1>14, <1>15
<1>17. IsChain(r, m, l)'
  <2>1. r \in [1 .. m -> Linked']
    <3>1. \A j \in 1 .. m : r[j] \in Linked'
      BY <1>1, <1>16
    <3> HIDE DEF m
    <3>2. QED
      BY <1>15, <3>1
  <2>2. \A j, k \in 1 .. m : r[j] = r[k] => j = k
    <3> HIDE DEF at, m
    <3>1. QED
      BY <1>9, <1>14, <1>15
  <2>3. \A j \in 1 .. m : data'[r[j]].level = l
    BY <1>2, <1>16
  <2>4. \A s \in Linked' : data'[s].level = l => \E j \in 1 .. m : r[j] = s
    <3> TAKE s \in Linked'
    <3> HAVE data'[s].level = l
    <3>1. s \in Linked /\ s # o /\ data[s].level = l
      BY <1>1, <1>2
    <3>2. PICK j \in 1 .. n : q[j] = s
      BY <1>9, <3>1
    <3>3. j # i
      BY <1>10, <3>1, <3>2
    <3> HIDE DEF at, m
    <3>4. QED
      BY <1>14, <1>15, <3>2, <3>3
  <2>5. head'[l] = IF m = 0 THEN ARENA_NULL ELSE r[1]
    <3>1. CASE i = 1
      <4>1. head'[l] = nx
        BY <1>5, <1>12, <3>1
      <4>2. m # 0 => r[1] = q[2]
        BY <1>15, <3>1
      <4>3. QED
        BY <1>11, <3>1, <4>1, <4>2
    <3>2. CASE i # 1
      <4>1. head'[l] = q[1]
        BY <1>5, <1>9, <1>13, <3>2
      <4>2. m # 0 /\ r[1] = q[1]
        BY <1>15, <3>2
      <4>3. QED
        BY <4>1, <4>2
    <3>3. QED
      BY <3>1, <3>2
  <2>6. \A j \in 1 .. m : data'[r[j]].next = IF j = m THEN ARENA_NULL ELSE r[j + 1]
    <3> TAKE j \in 1 .. m
    <3>1. data'[r[j]].next = IF r[j] = p THEN nx ELSE data[r[j]].next
      BY <1>2, <1>16
    <3>2. r[j] = p => i # 1 /\ at(j) = i - 1
      <4> HAVE r[j] = p
      <4>1. p # ARENA_NULL
        BY <1>3, <1>16
      <4>2. i # 1
        BY <1>12, <4>1
      <4>3. q[at(j)] = q[i - 1] /\ at(j) \in 1 .. n /\ i - 1 \in 1 .. n
        BY <1>13, <1>14, <1>15, <4>2
      <4>4. QED
        BY <1>9, <4>2, <4>3
    <3>3. i # 1 /\ j = i - 1 => r[j] = p
      BY <1>13, <1>15
    <3>4. CASE j < i - 1
      <4>1. j \in 1 .. n /\ j + 1 \in 1 .. m /\ at(j) = j /\ at(j + 1) = j + 1 /\ j # n /\ j # m /\ j # i - 1
        BY <3>4
      <4>2. data'[r[j]].next = data[q[j]].next
        BY <1>15, <3>1, <3>2, <4>1
      <4>3. data[q[j]].next = q[j + 1]
        BY <1>9, <4>1
      <4>4. r[j + 1] = q[j + 1]
        BY <1>15, <4>1
      <4>5. QED
        BY <4>1, <4>2, <4>3, <4>4
    <3>5. CASE j = i - 1
      <4>1. data'[r[j]].next = nx
        BY <3>1, <3>3, <3>5
      <4>2. (i = n) = (j = m)
        BY <3>5
      <4>3. j # m => r[j + 1] = q[i + 1]
        <5> HAVE j # m
        <5>1. j + 1 \in 1 .. m /\ at(j + 1) = i + 1
          BY <3>5
        <5>2. QED
          BY <1>15, <5>1
      <4>4. QED
        BY <1>11, <4>1, <4>2, <4>3
    <3>6. CASE j > i - 1
      <4>1. at(j) = j + 1 /\ j + 1 \in 1 .. n /\ j + 1 # i - 1 /\ (j + 1 = n) = (j = m)
        BY <3>6
      <4>2. data'[r[j]].next = data[q[j + 1]].next
        BY <1>15, <3>1, <3>2, <4>1
      <4>3. data[q[j + 1]].next = IF j + 1 = n THEN ARENA_NULL ELSE q[(j + 1) + 1]
        BY <1>9, <4>1
      <4>4. j # m => r[j + 1] = q[(j + 1) + 1]
        <5> HAVE j # m
        <5>1. j + 1 \in 1 .. m /\ at(j + 1) = (j + 1) + 1
          BY <3>6
        <5>2. QED
          BY <1>15, <5>1
      <4>5. QED
        BY <4>1, <4>2, <4>3, <4>4
    <3>7. QED
      BY <3>4, <3>5, <3>6
  <2> HIDE DEF m
  <2>7. QED
    BY <2>1, <2>2, <2>3, <2>4, <2>5, <2>6 DEF IsChain
<1>18. LevelsAreChains'
  <2> SUFFICES ASSUME NEW k \in Levels PROVE \E j \in Nat : \E c : IsChain(c, j, k)'
    BY DEF LevelsAreChains
  <2>1. CASE k = l
    BY <1>14, <1>17, <2>1
  <2>2. CASE k # l
    BY <1>6, <2>2 DEF LevelsAreChains
  <2>3. QED
    BY <2>1, <2>2
<1> DEFINE w == IdsOf(q, n)
<1>19. Walks[l] = w /\ DOMAIN w = 1 .. n
  BY <1>1, <1>8, ChainIsWalked DEF Walks, IdsOf
<1>20. Walk(l)' = RemoveAt(w, i)
  <2>1. Walk(l)' = IdsOf(r, m)'
    BY <1>1, <1>14, <1>17, ChainIsWalkedNext
  <2>2. w \in Seq(Ids) /\ Len(w) = n /\ \A j \in 1 .. n : w[j] = data[q[j]].id
    BY <1>3, <1>9 DEF IdsOf
  <2>3. \A j \in 1 .. m : data'[r[j]].id = w[at(j)]
    <3> TAKE j \in 1 .. m
    <3>1. data'[r[j]].id = data[r[j]].id /\ r[j] = q[at(j)] /\ at(j) \in 1 .. n
      BY <1>2, <1>14, <1>15, <1>16
    <3>2. QED
      BY <2>2, <3>1
  <2>4. IdsOf(r, m)' = [j \in 1 .. m |-> w[at(j)]]
    BY <2>3 DEF IdsOf
  <2> HIDE DEF w
  <2>5. /\ RemoveAt(w, i) \in Seq(Ids) /\ Len(RemoveAt(w, i)) = m
        /\ \A j \in 1 .. m : RemoveAt(w, i)[j] = w[at(j)]
    BY <2>2, RemoveAtProperties
  <2>6. RemoveAt(w, i) = [j \in 1 .. m |-> w[at(j)]]
    BY <2>5
  <2>7. QED
    BY <2>1, <2>4, <2>6
<1>21. Walks' = [Walks EXCEPT ![l] = RemoveAt(@, i)]
  <2>1. \A k \in Levels : k # l => Walk(k)' = Walk(k)
    BY <1>6 DEF LevelsAreChains
  <2>2. QED
    BY <1>1, <1>19, <1>20, <2>1 DEF Walks
<1>22. Queues!Leave(l, i)
  BY <1>21 DEF Queues!Leave, Walks, Queues!RemoveAt, RemoveAt
<1>23. QED
  BY <1>18, <1>19, <1>22

LEMMA ChainStep ==
  ASSUME Inv, TypeOK', ListInv, LevelsAreChains, [ListNext]_listVars
  PROVE  LevelsAreChains' /\ (Queues!QueuesNext \/ UNCHANGED Walks)
<1> USE DEF Inv
<1>1. ListTypeOK /\ IndexExact
  BY DEF ListInv
<1>2. ASSUME ListsStay PROVE LevelsAreChains' /\ UNCHANGED Walks
  BY <1>1, <1>2, ListsStayChains DEF Walks
<1>3. ASSUME NEW id \in Ids, InsertRefused(id) PROVE ListsStay
  <2>1. UNCHANGED <<data, head, tail, order_index, step, slot>>
    BY <1>3 DEF InsertRefused, AllocFull
  <2>2. QED
    BY <2>1, SameListsKeepInv
<1>4. ASSUME NEW id \in Ids, NEW l \in Levels, InsertAlloc(id, l) PROVE ListsStay
  BY <1>4, InsertAllocStep
<1>5. CASE InsertSetLinks
  BY <1>2, <1>5, InsertSetLinksStep
<1>6. CASE InsertLinkAtTail
  <2> DEFINE l == data[slot].level
  <2>1. OrderEnters(slot, l, tail[l])
    BY <1>6, InsertLinkAtTailStep
  <2>2. l \in Levels /\ data[slot].id \in Ids
    BY <2>1, OccupiedHoldsOrder DEF OrderEnters
  <2> HIDE DEF l
  <2>3. LevelsAreChains' /\ Queues!Enqueue(data[slot].id, l)
    BY <2>1, EnteringChains
  <2>4. QED
    BY <2>2, <2>3 DEF Queues!QueuesNext
<1>7. ASSUME NEW id \in Ids, RemoveUnlinkPrev(id)
      PROVE  LevelsAreChains' /\ Queues!QueuesNext
  <2> DEFINE o == order_index[id]
             l == data[o].level
  <2>1. OrderLeaves(o, l, data[o].prev, data[o].next)
    BY <1>7, RemoveUnlinkPrevStep
  <2>2. l \in Levels
    BY <2>1 DEF OrderLeaves
  <2> HIDE DEF l, o
  <2>3. LevelsAreChains' /\ \E i \in DOMAIN Walks[l] : Queues!Leave(l, i)
    BY <2>1, LeavingChains
  <2>4. QED
    BY <2>2, <2>3 DEF Queues!QueuesNext, Walks
<1>8. CASE RemoveUnlinkNext
  BY <1>2, <1>8, RemoveUnlinkNextStep
<1>9. CASE RemoveFree
  BY <1>2, <1>9, RemoveFreeStep
<1>10. CASE UNCHANGED listVars
  <2>1. UNCHANGED <<data, head, tail, order_index, step, slot>>
    BY <1>10 DEF listVars, vars
  <2>2. QED
    BY <1>2, <2>1, SameListsKeepInv
<1>11. QED
  BY <1>2, <1>3, <1>4, <1>5, <1>6, <1>7, <1>8, <1>9, <1>10 DEF ListNext

LEMMA EmptyChain == \A q : \A l : Linked = {} /\ head[l] = ARENA_NULL => IsChain(<<>>, 0, l)
BY DEF IsChain

LEMMA ChainInit == Init => LevelsAreChains /\ Queues!QueuesInit
<1> SUFFICES ASSUME Init PROVE LevelsAreChains /\ Queues!QueuesInit
  OBVIOUS
<1>1. Inv /\ ListInv
  BY InitInv, ListInit DEF Init
<1>2. Linked = {}
  BY DEF Init, New, Linked, Occupied
<1>3. \A l \in Levels : IsChain(<<>>, 0, l)
  BY <1>2, EmptyChain DEF Init
<1>4. \A l \in Levels : Walk(l) = IdsOf(<<>>, 0)
  BY <1>1, <1>3, ChainIsWalked DEF Inv
<1>5. IdsOf(<<>>, 0) = <<>>
  BY DEF IdsOf
<1>6. QED
  BY <1>3, <1>4, <1>5 DEF LevelsAreChains, Queues!QueuesInit

LEMMA ChainInvariant == ListSpec => [](Inv /\ ListInv /\ LevelsAreChains)
<1>1. Init => LevelsAreChains
  BY ChainInit
<1>2. Inv /\ Inv' /\ ListInv /\ LevelsAreChains /\ [ListNext]_listVars => LevelsAreChains'
  BY ChainStep DEF Inv
<1>3. QED
  BY <1>1, <1>2, ListInvariant, PTL DEF ListSpec

\* For every capacity, set of ids and set of levels: one write of insert_order puts the
\* order at the end of its level's queue, one of remove_order takes it out from wherever it
\* stands, and no other write is seen by a walk (book lib.rs:291-304, 452-466).  OrderBook
\* takes levels to be such queues.
THEOREM ListsImplementQueues == ListSpec => ImplementsQueues
<1>1. Init => Queues!QueuesInit
  BY ChainInit
<1>2. Inv /\ Inv' /\ ListInv /\ LevelsAreChains /\ [ListNext]_listVars
        => [Queues!QueuesNext]_([l \in Levels |-> Walk(l)])
  BY ChainStep DEF Inv, Walks
<1>3. QED
  BY <1>1, <1>2, ChainInvariant, PTL DEF ListSpec, ImplementsQueues, Queues!QueuesSpec

\* Between calls the walk of a level meets all its orders and no other: links that mirror
\* each other would also allow a ring beside the list (book lib.rs:291-304, 452-466).
THEOREM WalksAreComplete == ListSpec => []WalksMeetEveryOrder
<1>1. Inv /\ ListInv /\ LevelsAreChains => WalksMeetEveryOrder
  <2> SUFFICES ASSUME Inv, LevelsAreChains, step = "idle", NEW l \in Levels
               PROVE  {Walk(l)[i] : i \in DOMAIN Walk(l)}
                        = {data[s].id : s \in {s \in Occupied : data[s].level = l}}
    BY DEF WalksMeetEveryOrder
  <2>1. PICK n \in Nat : \E q : IsChain(q, n, l)
    BY DEF LevelsAreChains
  <2>2. PICK q : IsChain(q, n, l)
    BY <2>1
  <2>3. Walk(l) = IdsOf(q, n)
    BY <2>2, ChainIsWalked DEF Inv
  <2>4. /\ \A i \in 1 .. n : q[i] \in Occupied /\ data[q[i]].level = l
        /\ \A s \in Occupied : data[s].level = l => \E i \in 1 .. n : q[i] = s
    BY <2>2 DEF IsChain, Linked
  <2>5. DOMAIN IdsOf(q, n) = 1 .. n /\ \A i \in 1 .. n : IdsOf(q, n)[i] = data[q[i]].id
    BY DEF IdsOf
  <2>6. QED
    BY <2>3, <2>4, <2>5
<1>2. QED
  BY <1>1, ChainInvariant, PTL

\* Both together: each level is one list that holds its orders and reads the same from both
\* ends (book lib.rs:291-304, 452-466).
THEOREM LevelsStayLists == ListSpec => []LevelsAreLists
BY ListsMirror, WalksAreComplete, PTL DEF LevelsAreLists
=============================================================================
