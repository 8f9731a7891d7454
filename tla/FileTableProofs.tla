-------------------------- MODULE FileTableProofs --------------------------
(* Theorems about FileTable, for any number of callers, files and slots.   *)
EXTENDS FileTableImpl, FiniteSetTheorems, TLAPS

\* The mutex is kept across steps exactly by the caller that evicts.
LockOwner == \A c \in Callers : pc[c] \in {"evfree", "swap"} <=> lock = c

\* Only a full table is evicted from.
LockFull == lock # NoCaller => len = Cap

\* Pointers that matter are not NULL.
Pointers ==
  /\ \A c \in Callers : pc[c] \in Held \cup {"free"} => f[c] \in Objs
  /\ \A i \in Entries : files[i] \in Objs

\* Owned files are allocated.
Live == \A o \in Objs : refcnt[o] > 0 => o \in alive

\* A file about to be freed is allocated, unowned and has one freer.
Freeing ==
  \A o \in Objs : \A c \in Freers(o) :
    o \in alive /\ refcnt[o] = 0 /\ \A d \in Freers(o) : d = c

\* The inductive invariant.
IInv ==
  /\ TypeOK
  /\ LockOwner
  /\ LockFull
  /\ Pointers
  /\ RefcntExact
  /\ Live
  /\ Freeing
  /\ NeverLeaked

One(b) == IF b THEN 1 ELSE 0

-----------------------------------------------------------------------------
(* Counting.                                                               *)

\* What moving one element into or out of a finite set does to its size.
LEMMA CountMove ==
  ASSUME NEW S, IsFiniteSet(S), NEW x, NEW T, NEW b \in BOOLEAN,
         T = IF b THEN S \cup {x} ELSE S \ {x}
  PROVE  /\ IsFiniteSet(T)
         /\ Cardinality(S) \in Nat
         /\ Cardinality(T) = Cardinality(S) - One(x \in S) + One(b)
<1>1. Cardinality(S) \in Nat
  BY FS_CardinalityType
<1>2. CASE b
  BY <1>1, <1>2, FS_AddElement DEF One
<1>3. CASE ~b
  BY <1>1, <1>3, FS_RemoveElement DEF One
<1> QED
  BY <1>1, <1>2, <1>3

\* The sets that are counted are finite.
LEMMA CountedFinite ==
  ASSUME TypeOK, NEW o
  PROVE  /\ IsFiniteSet(Users(o)) /\ IsFiniteSet(Inserters(o)) /\ IsFiniteSet(SlotsOf(o))
         /\ Cardinality(Users(o)) \in Nat
         /\ Cardinality(Inserters(o)) \in Nat
         /\ Cardinality(SlotsOf(o)) \in Nat
<1>1. IsFiniteSet(Users(o)) /\ IsFiniteSet(Inserters(o))
  <2>1. Users(o) \subseteq Callers /\ Inserters(o) \subseteq Callers
    BY DEF Users, Inserters
  <2> QED
    BY <2>1, FS_Subset, FileTableAssumption
<1>2. IsFiniteSet(SlotsOf(o))
  <2>1. IsFiniteSet(0 .. len - 1)
    BY FS_Interval DEF TypeOK
  <2>2. SlotsOf(o) \subseteq 0 .. len - 1
    BY DEF SlotsOf, Entries
  <2> QED
    BY <2>1, <2>2, FS_Subset
<1> QED
  BY <1>1, <1>2, FS_CardinalityType

\* How the number of users and of inserters of o changes when caller c moves
\* to "to" with file g.
Moved(c, to, g, o) ==
  /\ Cardinality(Users(o)') = Cardinality(Users(o))
       - One(pc[c] \in Held /\ f[c] = o) + One(to \in Held /\ g = o)
  /\ Cardinality(Inserters(o)') = Cardinality(Inserters(o))
       - One(pc[c] \in {"insert", "evfree", "swap"} /\ f[c] = o)
       + One(to \in {"insert", "evfree", "swap"} /\ g = o)

LEMMA CountCallers ==
  ASSUME TypeOK, NEW c \in Callers, NEW to, NEW g, NEW o,
         pc' = [pc EXCEPT ![c] = to], f' = [f EXCEPT ![c] = g]
  PROVE  Moved(c, to, g, o)
<1> DEFINE I == {"insert", "evfree", "swap"}
           bu == to \in Held /\ g = o
           bi == to \in I /\ g = o
<1>1. Users(o)' = IF bu THEN Users(o) \cup {c} ELSE Users(o) \ {c}
  BY DEF TypeOK, Users, Held
<1>2. Inserters(o)' = IF bi THEN Inserters(o) \cup {c} ELSE Inserters(o) \ {c}
  BY DEF TypeOK, Inserters
<1>3. (c \in Users(o)) = (pc[c] \in Held /\ f[c] = o)
  BY DEF Users
<1>4. (c \in Inserters(o)) = (pc[c] \in I /\ f[c] = o)
  BY DEF Inserters
<1>5. IsFiniteSet(Users(o)) /\ IsFiniteSet(Inserters(o))
  BY CountedFinite
<1>6. bu \in BOOLEAN /\ bi \in BOOLEAN
  OBVIOUS
<1> HIDE DEF bu, bi, I
<1>7. Cardinality(Users(o)') = Cardinality(Users(o)) - One(c \in Users(o)) + One(bu)
  BY <1>1, <1>5, <1>6, CountMove
<1>8. Cardinality(Inserters(o)') = Cardinality(Inserters(o)) - One(c \in Inserters(o)) + One(bi)
  BY <1>2, <1>5, <1>6, CountMove
<1> QED
  BY <1>3, <1>4, <1>7, <1>8 DEF bu, bi, I, Moved

-----------------------------------------------------------------------------
(* Types, the mutex and the pointers.                                      *)

Shape == TypeOK /\ LockOwner /\ LockFull /\ Pointers

LEMMA ShapeInit == Init => Shape
<1> SUFFICES ASSUME Init PROVE Shape
  OBVIOUS
<1>1. TypeOK
  BY FileTableAssumption DEF Init, TypeOK, Slots, Times, PCs
<1> QED
  BY <1>1, FileTableAssumption
  DEF Init, Shape, LockOwner, LockFull, Pointers, Held, Entries

LEMMA ShapeStep ==
  ASSUME Shape, NEW c \in Callers, Step(c)
  PROVE  Shape'
<1> USE FileTableAssumption
<1> USE DEF Shape, TypeOK, LockOwner, LockFull, Pointers, Held, Entries, Goto,
            table, heap, callers, Slots, PCs
<1>1. CASE LookupHit(c)
  BY <1>1 DEF Get, LookupHit, FirstMatch
<1>2. CASE LookupMiss(c)
  BY <1>2 DEF LookupMiss
<1>3. CASE Stat(c)
  BY <1>3 DEF Stat
<1>4. CASE OpenOk(c)
  BY <1>4 DEF FirstRefs, OpenOk
<1>5. CASE OpenFail(c)
  BY <1>5 DEF OpenFail
<1>6. CASE InsertAppend(c)
  BY <1>6 DEF HasSpace, InsertAppend
<1>7. CASE InsertEvict(c)
  BY <1>7 DEF HasSpace, WasLast, InsertEvict
<1>8. CASE EvictFree(c)
  BY <1>8 DEF EvictFree
<1>9. CASE InsertSwap(c)
  BY <1>9 DEF InsertSwap
<1>10. CASE Put(c)
  BY <1>10 DEF WasLast, Put
<1>11. CASE PutFree(c)
  BY <1>11 DEF PutFree
<1>12. CASE Forget(c)
  BY <1>12 DEF Forget
<1> QED
  BY <1>1, <1>2, <1>3, <1>4, <1>5, <1>6, <1>7, <1>8, <1>9, <1>10, <1>11, <1>12 DEF Step

LEMMA ShapeOther ==
  ASSUME Shape,
         (\E c \in Callers, p \in Paths : Call(c, p)) \/ Tick \/ UNCHANGED vars
  PROVE  Shape'
<1> USE DEF Shape, TypeOK, LockOwner, LockFull, Pointers, Held, Entries, Goto,
            table, heap, callers, vars, Slots, PCs, Times
<1>1. CASE \E c \in Callers, p \in Paths : Call(c, p)
  BY <1>1 DEF Call
<1>2. CASE Tick
  BY <1>2, FileTableAssumption DEF Tick
<1>3. CASE UNCHANGED vars
  BY <1>3
<1> QED
  BY <1>1, <1>2, <1>3

\* Spec keeps the types: every variable stays in its domain, whatever the
\* callers, files and slots are.
THEOREM TypeCorrect == Spec => []TypeOK
<1>1. Shape /\ [Next]_vars => Shape'
  BY ShapeStep, ShapeOther DEF Next
<1>2. Shape => TypeOK
  BY DEF Shape
<1> QED
  BY ShapeInit, <1>1, <1>2, PTL DEF Spec

-----------------------------------------------------------------------------
(* Reference counts.                                                       *)

\* How the slots that own o change.
LEMMA CountSlots ==
  ASSUME Shape, NEW c \in Callers, NEW o
  PROVE  /\ UNCHANGED table => Cardinality(SlotsOf(o)') = Cardinality(SlotsOf(o))
         /\ InsertAppend(c) =>
              Cardinality(SlotsOf(o)') = Cardinality(SlotsOf(o)) + One(f[c] = o)
         /\ InsertEvict(c) =>
              /\ slot' \in Entries
              /\ Cardinality(SlotsOf(o)') =
                   Cardinality(SlotsOf(o)) - One(files[slot'] = o)
         /\ InsertSwap(c) =>
              Cardinality(SlotsOf(o)') = Cardinality(SlotsOf(o)) + One(f[c] = o)
<1> DEFINE b == f[c] = o
<1>0. IsFiniteSet(SlotsOf(o)) /\ Cardinality(SlotsOf(o)) \in Nat /\ TypeOK
  BY CountedFinite DEF Shape
<1>1. ASSUME UNCHANGED table
      PROVE  Cardinality(SlotsOf(o)') = Cardinality(SlotsOf(o))
  <2>1. SlotsOf(o)' = SlotsOf(o)
    BY <1>1 DEF table, SlotsOf, Vacant, Entries
  <2> QED
    BY <2>1
<1>2. ASSUME InsertAppend(c)
      PROVE  Cardinality(SlotsOf(o)') = Cardinality(SlotsOf(o)) + One(f[c] = o)
  <2>1. SlotsOf(o)' = IF b THEN SlotsOf(o) \cup {len} ELSE SlotsOf(o) \ {len}
    BY <1>2, <1>0, FileTableAssumption
    DEF HasSpace, InsertAppend, TypeOK, SlotsOf, Vacant, Entries, Slots
  <2>2. len \notin SlotsOf(o)
    BY <1>0 DEF TypeOK, SlotsOf, Entries
  <2>3. b \in BOOLEAN
    OBVIOUS
  <2> HIDE DEF b
  <2>4. Cardinality(SlotsOf(o)') =
          Cardinality(SlotsOf(o)) - One(len \in SlotsOf(o)) + One(b)
    BY <1>0, <2>1, <2>3, CountMove
  <2> QED
    BY <2>2, <2>4, <1>0 DEF One, b
<1>3. ASSUME InsertEvict(c)
      PROVE  /\ slot' \in Entries
             /\ Cardinality(SlotsOf(o)') =
                  Cardinality(SlotsOf(o)) - One(files[slot'] = o)
  <2>1. slot' \in Entries /\ lock = NoCaller /\ lock' = c /\ UNCHANGED <<files, len>>
    BY <1>3 DEF HasSpace, WasLast, InsertEvict
  <2>2. SlotsOf(o)' = SlotsOf(o) \ {slot'}
    BY <2>1, FileTableAssumption DEF SlotsOf, Vacant, Entries
  <2>3. slot' \in SlotsOf(o) <=> files[slot'] = o
    BY <2>1 DEF SlotsOf, Vacant
  <2>4. Cardinality(SlotsOf(o) \ {slot'}) =
          IF slot' \in SlotsOf(o) THEN Cardinality(SlotsOf(o)) - 1
                                  ELSE Cardinality(SlotsOf(o))
    BY <1>0, FS_RemoveElement
  <2> QED
    BY <2>1, <2>2, <2>3, <2>4, <1>0 DEF One
<1>4. ASSUME InsertSwap(c)
      PROVE  Cardinality(SlotsOf(o)') = Cardinality(SlotsOf(o)) + One(f[c] = o)
  <2>1. lock = c /\ lock # NoCaller /\ len = Cap /\ slot \in Entries
    BY <1>4, <1>0, FileTableAssumption
    DEF InsertSwap, Shape, LockOwner, LockFull, TypeOK, Entries, Slots
  <2>2. SlotsOf(o)' = IF b THEN SlotsOf(o) \cup {slot} ELSE SlotsOf(o) \ {slot}
    BY <1>4, <1>0, <2>1 DEF InsertSwap, TypeOK, SlotsOf, Vacant, Entries, Slots
  <2>3. slot \notin SlotsOf(o)
    BY <2>1 DEF SlotsOf, Vacant
  <2>4. b \in BOOLEAN
    OBVIOUS
  <2> HIDE DEF b
  <2>5. Cardinality(SlotsOf(o)') =
          Cardinality(SlotsOf(o)) - One(slot \in SlotsOf(o)) + One(b)
    BY <1>0, <2>2, <2>4, CountMove
  <2> QED
    BY <2>3, <2>5, <1>0 DEF One, b
<1> QED
  BY <1>1, <1>2, <1>3, <1>4

LEMMA RefcntInit == Init => RefcntExact
<1> SUFFICES ASSUME Init, NEW o \in Objs
             PROVE  refcnt[o] = Cardinality(Users(o)) + Cardinality(Inserters(o))
                                  + Cardinality(SlotsOf(o)) + lost[o]
  BY DEF RefcntExact
<1>1. Users(o) = {} /\ Inserters(o) = {} /\ SlotsOf(o) = {}
  BY DEF Init, Users, Inserters, SlotsOf, Entries, Held
<1> QED
  BY <1>1, FS_EmptySet DEF Init

LEMMA RefcntStep ==
  ASSUME Shape, RefcntExact, Live, NEW c \in Callers, Step(c)
  PROVE  RefcntExact'
<1> SUFFICES ASSUME NEW o \in Objs
             PROVE  refcnt'[o] = Cardinality(Users(o)') + Cardinality(Inserters(o)')
                                   + Cardinality(SlotsOf(o)') + lost'[o]
  BY DEF RefcntExact
<1>0. /\ TypeOK
      /\ refcnt[o] = Cardinality(Users(o)) + Cardinality(Inserters(o))
                       + Cardinality(SlotsOf(o)) + lost[o]
      /\ Cardinality(Users(o)) \in Nat /\ Cardinality(Inserters(o)) \in Nat
      /\ Cardinality(SlotsOf(o)) \in Nat /\ lost[o] \in Nat
  BY CountedFinite DEF Shape, RefcntExact, TypeOK
<1>m. ASSUME NEW to, NEW g, pc' = [pc EXCEPT ![c] = to], f' = [f EXCEPT ![c] = g]
      PROVE  Moved(c, to, g, o)
  BY <1>0, <1>m, CountCallers
<1>k. ASSUME NEW to, pc' = [pc EXCEPT ![c] = to], UNCHANGED f
      PROVE  Moved(c, to, f[c], o)
  <2>1. f' = [f EXCEPT ![c] = f[c]]
    BY <1>0, <1>k DEF TypeOK
  <2> QED
    BY <1>k, <1>m, <2>1
<1>t. UNCHANGED table => Cardinality(SlotsOf(o)') = Cardinality(SlotsOf(o))
  BY CountSlots
<1> USE DEF Goto
<1>1. CASE LookupHit(c)
  <2>1. PICK i \in Entries :
          /\ refcnt' = [refcnt EXCEPT ![files[i]] = @ + 1]
          /\ f' = [f EXCEPT ![c] = files[i]]
    BY <1>1 DEF Get, LookupHit
  <2>2. pc[c] = "lookup" /\ pc' = [pc EXCEPT ![c] = "stat"] /\ UNCHANGED <<table, lost>>
    BY <1>1 DEF Get, LookupHit
  <2>3. Moved(c, "stat", files[i], o)
    BY <1>m, <2>1, <2>2
  <2> QED
    BY <1>0, <1>t, <2>1, <2>2, <2>3 DEF Moved, One, Held, TypeOK
<1>2. CASE LookupMiss(c)
  <2>1. /\ pc[c] = "lookup" /\ pc' = [pc EXCEPT ![c] = "open"]
        /\ UNCHANGED <<table, lost, refcnt, f>>
    BY <1>2 DEF LookupMiss, heap
  <2>2. Moved(c, "open", f[c], o)
    BY <1>k, <2>1
  <2> QED
    BY <1>0, <1>t, <2>1, <2>2 DEF Moved, One, Held
<1>3. CASE Stat(c)
  <2>1. PICK next \in {"held", "put"} : pc' = [pc EXCEPT ![c] = next]
    BY <1>3 DEF Stat
  <2>2. pc[c] = "stat" /\ UNCHANGED <<table, lost, refcnt, f>>
    BY <1>3 DEF Stat, heap
  <2>3. Moved(c, next, f[c], o)
    BY <1>k, <2>1, <2>2
  <2> QED
    BY <1>0, <1>t, <2>1, <2>2, <2>3 DEF Moved, One, Held
<1>4. CASE OpenOk(c)
  <2>1. PICK g \in Objs \ alive :
          /\ refcnt' = [refcnt EXCEPT ![g] = 2]
          /\ f' = [f EXCEPT ![c] = g]
    BY <1>4 DEF FirstRefs, OpenOk
  <2>2. pc[c] = "open" /\ pc' = [pc EXCEPT ![c] = "insert"] /\ UNCHANGED <<table, lost>>
    BY <1>4 DEF FirstRefs, OpenOk
  <2>3. o = g => refcnt[o] = 0
    BY <1>0, <2>1 DEF Live
  <2>4. Moved(c, "insert", g, o)
    BY <1>m, <2>1, <2>2
  <2> QED
    BY <1>0, <1>t, <2>1, <2>2, <2>3, <2>4 DEF Moved, One, Held, TypeOK
<1>5. CASE OpenFail(c)
  <2>1. /\ pc[c] = "open" /\ pc' = [pc EXCEPT ![c] = "idle"]
        /\ UNCHANGED <<table, lost, refcnt, f>>
    BY <1>5 DEF OpenFail, heap
  <2>2. Moved(c, "idle", f[c], o)
    BY <1>k, <2>1
  <2> QED
    BY <1>0, <1>t, <2>1, <2>2 DEF Moved, One, Held
<1>6. CASE InsertAppend(c)
  <2>1. /\ pc[c] = "insert" /\ pc' = [pc EXCEPT ![c] = "held"]
        /\ UNCHANGED <<lost, refcnt, f>>
    BY <1>6 DEF HasSpace, InsertAppend
  <2>2. Moved(c, "held", f[c], o)
    BY <1>k, <2>1
  <2>3. Cardinality(SlotsOf(o)') = Cardinality(SlotsOf(o)) + One(f[c] = o)
    BY <1>6, CountSlots
  <2> QED
    BY <1>0, <2>1, <2>2, <2>3 DEF Moved, One, Held
<1>7. CASE InsertEvict(c)
  <2>1. PICK i \in Entries :
          /\ slot' = i
          /\ refcnt' = [refcnt EXCEPT ![files[i]] = @ - 1]
          /\ pc' = [pc EXCEPT ![c] = IF refcnt[files[i]] = 1 THEN "evfree" ELSE "swap"]
    BY <1>7 DEF HasSpace, WasLast, InsertEvict
  <2>2. pc[c] = "insert" /\ UNCHANGED <<lost, f>>
    BY <1>7 DEF HasSpace, WasLast, InsertEvict
  <2>3. Cardinality(SlotsOf(o)') = Cardinality(SlotsOf(o)) - One(files[i] = o)
    BY <1>7, <2>1, CountSlots
  <2>4. Moved(c, "evfree", f[c], o) \/ Moved(c, "swap", f[c], o)
    BY <1>k, <2>1, <2>2
  <2> QED
    BY <1>0, <2>1, <2>2, <2>3, <2>4 DEF Moved, One, Held, TypeOK
<1>8. CASE EvictFree(c)
  <2>1. /\ pc[c] = "evfree" /\ pc' = [pc EXCEPT ![c] = "swap"]
        /\ UNCHANGED <<table, lost, refcnt, f>>
    BY <1>8 DEF EvictFree
  <2>2. Moved(c, "swap", f[c], o)
    BY <1>k, <2>1
  <2> QED
    BY <1>0, <1>t, <2>1, <2>2 DEF Moved, One, Held
<1>9. CASE InsertSwap(c)
  <2>1. /\ pc[c] = "swap" /\ pc' = [pc EXCEPT ![c] = "held"]
        /\ UNCHANGED <<lost, refcnt, f>>
    BY <1>9 DEF InsertSwap, heap
  <2>2. Moved(c, "held", f[c], o)
    BY <1>k, <2>1
  <2>3. Cardinality(SlotsOf(o)') = Cardinality(SlotsOf(o)) + One(f[c] = o)
    BY <1>9, CountSlots
  <2> QED
    BY <1>0, <2>1, <2>2, <2>3 DEF Moved, One, Held
<1>10. CASE Put(c)
  <2>1. /\ pc[c] \in {"held", "put"}
        /\ pc' = [pc EXCEPT ![c] = IF refcnt[f[c]] = 1 THEN "free" ELSE "idle"]
        /\ refcnt' = [refcnt EXCEPT ![f[c]] = @ - 1]
        /\ UNCHANGED <<table, lost, f>>
    BY <1>10 DEF WasLast, Put
  <2>2. Moved(c, "free", f[c], o) \/ Moved(c, "idle", f[c], o)
    BY <1>k, <2>1
  <2> QED
    BY <1>0, <1>t, <2>1, <2>2 DEF Moved, One, Held, TypeOK
<1>11. CASE PutFree(c)
  <2>1. /\ pc[c] = "free" /\ pc' = [pc EXCEPT ![c] = "idle"]
        /\ UNCHANGED <<table, lost, refcnt, f>>
    BY <1>11 DEF PutFree
  <2>2. Moved(c, "idle", f[c], o)
    BY <1>k, <2>1
  <2> QED
    BY <1>0, <1>t, <2>1, <2>2 DEF Moved, One, Held
<1>12. CASE Forget(c)
  <2>1. /\ pc[c] = "held" /\ pc' = [pc EXCEPT ![c] = "idle"]
        /\ lost' = [lost EXCEPT ![f[c]] = @ + 1]
        /\ UNCHANGED <<table, refcnt, f>>
    BY <1>12 DEF Forget, heap
  <2>2. Moved(c, "idle", f[c], o)
    BY <1>k, <2>1
  <2> QED
    BY <1>0, <1>t, <2>1, <2>2 DEF Moved, One, Held, TypeOK
<1> QED
  BY <1>1, <1>2, <1>3, <1>4, <1>5, <1>6, <1>7, <1>8, <1>9, <1>10, <1>11, <1>12 DEF Step

-----------------------------------------------------------------------------
(* Allocation.                                                             *)

\* An exact count is at least what any one owner contributes.
LEMMA OwnersCounted ==
  ASSUME Shape, RefcntExact, NEW o \in Objs
  PROVE  /\ refcnt[o] \in Nat
         /\ Users(o) # {} => refcnt[o] >= 1
         /\ Inserters(o) # {} => refcnt[o] >= 2
         /\ SlotsOf(o) # {} => refcnt[o] >= 1
<1>1. /\ refcnt[o] = Cardinality(Users(o)) + Cardinality(Inserters(o))
                       + Cardinality(SlotsOf(o)) + lost[o]
      /\ lost[o] \in Nat
  BY DEF RefcntExact, Shape, TypeOK
<1>2. /\ IsFiniteSet(Users(o)) /\ IsFiniteSet(Inserters(o)) /\ IsFiniteSet(SlotsOf(o))
      /\ Cardinality(Users(o)) \in Nat
      /\ Cardinality(Inserters(o)) \in Nat
      /\ Cardinality(SlotsOf(o)) \in Nat
  BY CountedFinite DEF Shape
<1>3. /\ Users(o) # {} => Cardinality(Users(o)) # 0
      /\ Inserters(o) # {} => Cardinality(Inserters(o)) # 0
      /\ SlotsOf(o) # {} => Cardinality(SlotsOf(o)) # 0
  BY <1>2, FS_EmptySet
<1>4. Inserters(o) # {} => Users(o) # {}
  BY DEF Inserters, Users, Held
<1> QED
  BY <1>1, <1>2, <1>3, <1>4

LEMMA HeapStep ==
  ASSUME IInv, NEW c \in Callers, Step(c)
  PROVE  Live' /\ Freeing' /\ NeverLeaked'
<1>0. Shape /\ TypeOK /\ RefcntExact /\ Live /\ Freeing /\ NeverLeaked
  BY DEF IInv, Shape
<1>a. \A o \in Objs : /\ refcnt[o] \in Nat
                      /\ Users(o) # {} => refcnt[o] >= 1
                      /\ SlotsOf(o) # {} => refcnt[o] >= 1
  BY <1>0, OwnersCounted
<1>b. pc[c] \in Held => f[c] \in Objs /\ refcnt[f[c]] >= 1
  BY <1>0, <1>a DEF Shape, Pointers, Users
<1>c. ASSUME NEW i \in Entries, lock = NoCaller
      PROVE  files[i] \in Objs /\ refcnt[files[i]] >= 1
  BY <1>0, <1>a, <1>c DEF Shape, Pointers, SlotsOf, Vacant
<1> USE DEF Live, Freeing, NeverLeaked, TypeOK, Goto
<1>q. ASSUME UNCHANGED <<alive, refcnt>>, \A o \in Objs : Freers(o)' = Freers(o)
      PROVE  Live' /\ Freeing' /\ NeverLeaked'
  BY <1>0, <1>q
<1>1. CASE LookupHit(c)
  <2>1. PICK i \in Entries : refcnt' = [refcnt EXCEPT ![files[i]] = @ + 1]
    BY <1>1 DEF Get, LookupHit
  <2>2. \A o \in Objs : Freers(o)' \subseteq Freers(o) /\ Freers(o) \subseteq Freers(o)'
    BY <1>0, <1>1 DEF Get, LookupHit, Freers, table, Shape, LockOwner
  <2>3. refcnt[files[i]] >= 1 /\ lock = NoCaller /\ files[i] \in Objs /\ UNCHANGED alive
    BY <1>1, <1>c DEF Get, LookupHit
  <2> QED
    BY <1>0, <1>a, <2>1, <2>2, <2>3
<1>2. CASE LookupMiss(c)
  BY <1>0, <1>2, <1>q DEF LookupMiss, Freers, table, heap
<1>3. CASE Stat(c)
  BY <1>0, <1>3, <1>q DEF Stat, Freers, table, heap
<1>4. CASE OpenOk(c)
  <2>1. PICK g \in Objs \ alive :
          /\ alive' = alive \cup {g}
          /\ refcnt' = [refcnt EXCEPT ![g] = 2]
    BY <1>4 DEF FirstRefs, OpenOk
  <2>2. \A o \in Objs : Freers(o)' = Freers(o)
    BY <1>0, <1>4 DEF FirstRefs, OpenOk, Freers, table
  <2> QED
    BY <1>0, <2>1, <2>2
<1>5. CASE OpenFail(c)
  BY <1>0, <1>5, <1>q DEF OpenFail, Freers, table, heap
<1>6. CASE InsertAppend(c)
  <2>1. \A o \in Objs : Freers(o)' = Freers(o)
    BY <1>0, <1>6, FileTableAssumption DEF HasSpace, InsertAppend, Freers, Shape, LockOwner
  <2> QED
    BY <1>6, <1>q, <2>1 DEF HasSpace, InsertAppend
<1>7. CASE InsertEvict(c)
  <2>1. PICK i \in Entries :
          /\ slot' = i
          /\ refcnt' = [refcnt EXCEPT ![files[i]] = @ - 1]
          /\ pc' = [pc EXCEPT ![c] = IF refcnt[files[i]] = 1 THEN "evfree" ELSE "swap"]
    BY <1>7 DEF HasSpace, WasLast, InsertEvict
  <2>2. lock = NoCaller /\ UNCHANGED <<files, alive, f>> /\ pc[c] = "insert"
    BY <1>7 DEF HasSpace, WasLast, InsertEvict
  <2>3. PICK v \in Objs : v = files[i] /\ refcnt[v] >= 1
    BY <1>c, <2>2
  <2>4. /\ refcnt' = [refcnt EXCEPT ![v] = refcnt[v] - 1]
        /\ refcnt[v] \in Nat
        /\ v \in alive
    BY <1>0, <1>a, <2>1, <2>3
  <2>5. Freers(v) = {}
    BY <1>0, <2>3
  <2>6. ASSUME NEW o \in Objs
        PROVE  Freers(o)' = IF o = v /\ refcnt[o] = 1
                              THEN Freers(o) \cup {c} ELSE Freers(o)
    BY <1>0, <2>1, <2>2, <2>3, FileTableAssumption DEF Freers, Shape, LockOwner
  <2>7. UNCHANGED alive
    BY <2>2
  <2>8. Live'
    BY <1>0, <2>4, <2>7
  <2>9. ASSUME NEW o \in Objs, NEW d \in Freers(o)'
        PROVE  o \in alive' /\ refcnt'[o] = 0 /\ \A e \in Freers(o)' : e = d
    <3>1. CASE o = v
      BY <1>0, <2>4, <2>5, <2>6, <2>7, <2>9, <3>1
    <3>2. CASE o # v
      BY <1>0, <2>4, <2>6, <2>7, <2>9, <3>2
    <3> QED
      BY <3>1, <3>2
  <2>10. ASSUME NEW o \in alive'
         PROVE  refcnt'[o] > 0 \/ Freers(o)' # {}
    <3>1. CASE o = v
      <4>1. refcnt[v] = 1 => c \in Freers(v)'
        BY <2>6
      <4>2. refcnt[v] # 1 => refcnt'[v] > 0
        BY <1>0, <2>3, <2>4
      <4> QED
        BY <3>1, <4>1, <4>2
    <3>2. CASE o # v
      BY <1>0, <2>4, <2>6, <2>7, <2>10, <3>2
    <3> QED
      BY <3>1, <3>2
  <2>11. Freeing'
    BY <2>9, Zenon
  <2>12. NeverLeaked'
    BY <2>10, Zenon
  <2> QED
    BY <2>8, <2>11, <2>12
<1>8. CASE EvictFree(c)
  <2>1. /\ pc[c] = "evfree" /\ pc' = [pc EXCEPT ![c] = "swap"]
        /\ alive' = alive \ {files[slot]}
        /\ UNCHANGED <<files, slot, refcnt, f>>
    BY <1>8 DEF EvictFree, table
  <2>2. c \in Freers(files[slot]) /\ files[slot] \in Objs
    BY <1>0, <2>1, FileTableAssumption
    DEF Freers, Shape, Pointers, LockOwner, LockFull, Entries, Slots
  <2>3. \A o \in Objs : Freers(o)' = Freers(o) \ {c}
    BY <1>0, <2>1 DEF Freers
  <2>4. \A o \in Objs : c \in Freers(o) => o = files[slot]
    BY <2>1 DEF Freers
  <2> QED
    BY <1>0, <2>1, <2>2, <2>3, <2>4
<1>9. CASE InsertSwap(c)
  <2>1. \A o \in Objs : Freers(o)' = Freers(o)
    BY <1>0, <1>9, FileTableAssumption DEF InsertSwap, Freers, Shape, LockOwner
  <2> QED
    BY <1>9, <1>q, <2>1 DEF InsertSwap, heap
<1>10. CASE Put(c)
  <2>1. /\ pc[c] \in {"held", "put"}
        /\ pc' = [pc EXCEPT ![c] = IF refcnt[f[c]] = 1 THEN "free" ELSE "idle"]
        /\ refcnt' = [refcnt EXCEPT ![f[c]] = @ - 1]
        /\ UNCHANGED <<files, slot, alive, f>>
    BY <1>10 DEF WasLast, Put, table
  <2>3. PICK v \in Objs : v = f[c] /\ refcnt[v] >= 1
    BY <1>b, <2>1 DEF Held
  <2>4. /\ refcnt' = [refcnt EXCEPT ![v] = refcnt[v] - 1]
        /\ refcnt[v] \in Nat
        /\ v \in alive
    BY <1>0, <1>a, <2>1, <2>3
  <2>5. Freers(v) = {}
    BY <1>0, <2>3
  <2>6. ASSUME NEW o \in Objs
        PROVE  Freers(o)' = IF o = v /\ refcnt[o] = 1
                              THEN Freers(o) \cup {c} ELSE Freers(o)
    BY <1>0, <2>1, <2>3 DEF Freers
  <2>7. UNCHANGED alive
    BY <2>1
  <2>8. Live'
    BY <1>0, <2>4, <2>7
  <2>9. ASSUME NEW o \in Objs, NEW d \in Freers(o)'
        PROVE  o \in alive' /\ refcnt'[o] = 0 /\ \A e \in Freers(o)' : e = d
    <3>1. CASE o = v
      BY <1>0, <2>4, <2>5, <2>6, <2>7, <2>9, <3>1
    <3>2. CASE o # v
      BY <1>0, <2>4, <2>6, <2>7, <2>9, <3>2
    <3> QED
      BY <3>1, <3>2
  <2>10. ASSUME NEW o \in alive'
         PROVE  refcnt'[o] > 0 \/ Freers(o)' # {}
    <3>1. CASE o = v
      <4>1. refcnt[v] = 1 => c \in Freers(v)'
        BY <2>6
      <4>2. refcnt[v] # 1 => refcnt'[v] > 0
        BY <1>0, <2>3, <2>4
      <4> QED
        BY <3>1, <4>1, <4>2
    <3>2. CASE o # v
      BY <1>0, <2>4, <2>6, <2>7, <2>10, <3>2
    <3> QED
      BY <3>1, <3>2
  <2>11. Freeing'
    BY <2>9, Zenon
  <2>12. NeverLeaked'
    BY <2>10, Zenon
  <2> QED
    BY <2>8, <2>11, <2>12
<1>11. CASE PutFree(c)
  <2>1. /\ pc[c] = "free" /\ pc' = [pc EXCEPT ![c] = "idle"]
        /\ alive' = alive \ {f[c]}
        /\ UNCHANGED <<files, slot, refcnt, f>>
    BY <1>11 DEF PutFree, table
  <2>2. c \in Freers(f[c]) /\ f[c] \in Objs
    BY <1>0, <2>1 DEF Freers, Shape, Pointers
  <2>3. \A o \in Objs : Freers(o)' = Freers(o) \ {c}
    BY <1>0, <2>1 DEF Freers
  <2>4. \A o \in Objs : c \in Freers(o) => o = f[c]
    BY <2>1 DEF Freers
  <2> QED
    BY <1>0, <2>1, <2>2, <2>3, <2>4
<1>12. CASE Forget(c)
  BY <1>0, <1>12, <1>q DEF Forget, Freers, table, heap
<1> QED
  BY <1>1, <1>2, <1>3, <1>4, <1>5, <1>6, <1>7, <1>8, <1>9, <1>10, <1>11, <1>12 DEF Step

LEMMA IInvInit == Init => IInv
<1>1. Init => Live /\ Freeing /\ NeverLeaked
  BY DEF Init, Live, Freeing, NeverLeaked, Freers
<1> QED
  BY <1>1, ShapeInit, RefcntInit DEF IInv, Shape

LEMMA IInvStep == IInv /\ [Next]_vars => IInv'
<1> SUFFICES ASSUME IInv, [Next]_vars PROVE IInv'
  OBVIOUS
<1>1. ASSUME NEW c \in Callers, Step(c)
      PROVE  IInv'
  BY <1>1, ShapeStep, RefcntStep, HeapStep DEF IInv, Shape
<1>2. ASSUME (\E c \in Callers, p \in Paths : Call(c, p)) \/ Tick \/ UNCHANGED vars
      PROVE  IInv'
  <2>1. Shape'
    BY <1>2, ShapeOther DEF IInv, Shape
  <2>2. UNCHANGED <<table, heap, lost, f>>
    BY <1>2 DEF Call, Tick, vars, callers
  <2>3. \A c \in Callers : pc'[c] = pc[c] \/ (pc[c] = "idle" /\ pc'[c] = "lookup")
    BY <1>2 DEF Call, Tick, vars, callers, Goto, IInv, TypeOK
  <2>4. ASSUME NEW o
        PROVE  /\ Users(o)' = Users(o) /\ Inserters(o)' = Inserters(o)
               /\ SlotsOf(o)' = SlotsOf(o) /\ Freers(o)' = Freers(o)
    BY <2>2, <2>3 DEF Users, Inserters, SlotsOf, Freers, Held, Vacant, Entries, table
  <2>5. RefcntExact' /\ Live' /\ Freeing' /\ NeverLeaked'
    BY <2>2, <2>4 DEF IInv, RefcntExact, Live, Freeing, NeverLeaked, heap
  <2> QED
    BY <2>1, <2>5 DEF IInv, Shape
<1> QED
  BY <1>1, <1>2 DEF Next

LEMMA IInvAlways == Spec => []IInv
  BY IInvInit, IInvStep, PTL DEF Spec

\* Every reference count is exactly the number of owners of the file, in
\* every interleaving of the lookups, insertions, evictions and puts of any
\* number of workers.
THEOREM CountsExact == Spec => []RefcntExact
<1>1. IInv => RefcntExact
  BY DEF IInv
<1> QED
  BY IInvAlways, <1>1, PTL

LEMMA PointersFollowed == IInv => NoDangling
<1> SUFFICES ASSUME IInv PROVE NoDangling
  OBVIOUS
<1>0. Shape /\ RefcntExact /\ Live /\ Freeing
  BY DEF IInv, Shape
<1>1. ASSUME NEW c \in Callers, pc[c] \in Held
      PROVE  f[c] \in alive
  <2>1. c \in Users(f[c]) /\ f[c] \in Objs
    BY <1>0, <1>1 DEF Users, Shape, Pointers
  <2> QED
    BY <1>0, <2>1, OwnersCounted DEF Live
<1>2. ASSUME NEW c \in Callers, pc[c] = "free"
      PROVE  f[c] \in alive
  BY <1>0, <1>2 DEF Freers, Freeing, Shape, Pointers
<1>3. ASSUME NEW i \in Entries, ~Vacant(i)
      PROVE  files[i] \in alive
  <2>1. i \in SlotsOf(files[i]) /\ files[i] \in Objs
    BY <1>0, <1>3 DEF SlotsOf, Shape, Pointers
  <2> QED
    BY <1>0, <2>1, OwnersCounted DEF Live
<1>4. ASSUME NEW c \in Callers, pc[c] = "evfree"
      PROVE  files[slot] \in alive
  <2>1. files[slot] \in Objs
    BY <1>0, <1>4, FileTableAssumption
    DEF Shape, TypeOK, Pointers, LockOwner, LockFull, Entries, Slots
  <2> QED
    BY <1>0, <1>4, <2>1 DEF Freers, Freeing
<1> QED
  BY <1>1, <1>2, <1>3, <1>4 DEF NoDangling

\* No pointer that the code will follow is dangling.
THEOREM PointersLive == Spec => []NoDangling
  BY IInvAlways, PointersFollowed, PTL

\* A file is closed and freed by one caller only, and never while it is owned.
THEOREM FreeingUnique == Spec => []FreedOnce
<1>1. IInv => FreedOnce
  <2> SUFFICES ASSUME IInv, NEW o \in Objs, NEW c \in Freers(o)
               PROVE  refcnt[o] = 0 /\ Cardinality(Freers(o)) = 1
    BY DEF FreedOnce
  <2>1. Freers(o) = {c} /\ refcnt[o] = 0
    BY DEF IInv, Freeing
  <2> QED
    BY <2>1, FS_Singleton
<1> QED
  BY IInvAlways, <1>1, PTL

\* An allocated file always has an owner or somebody about to free it.
THEOREM NothingLeaks == Spec => []NeverLeaked
<1>1. IInv => NeverLeaked
  BY DEF IInv
<1> QED
  BY IInvAlways, <1>1, PTL

-----------------------------------------------------------------------------
(* Copies of a path in the table.                                          *)

Inserting == {"insert", "evfree", "swap"}

\* What a caller is about to insert has the path it asked for.
Asked == \A c \in Callers : pc[c] \in Inserting => path[f[c]] = arg[c]

CopiesInv == IInv /\ Asked /\ CopiesBounded

\* Nobody changes the path of an allocated file.
LEMMA PathStands ==
  ASSUME IInv, [Next]_vars, NEW o \in alive PROVE path'[o] = path[o]
<1>1. path \in [Objs -> Paths \cup {NoPath}]
  BY DEF IInv, TypeOK
<1>2. CASE \E c \in Callers : OpenOk(c)
  BY <1>1, <1>2 DEF OpenOk
<1>3. CASE path' = path
  BY <1>3
<1>4. (\E c \in Callers : OpenOk(c)) \/ path' = path
  BY DEF Next, Step, Call, LookupHit, LookupMiss, Stat, OpenFail, InsertAppend, InsertEvict,
     EvictFree, InsertSwap, Put, PutFree, Forget, Tick, vars, heap
<1> QED
  BY <1>2, <1>3, <1>4

LEMMA AskedStep ==
  ASSUME IInv, Asked, [Next]_vars PROVE Asked'
<1> SUFFICES ASSUME NEW d \in Callers, pc'[d] \in Inserting PROVE path'[f'[d]] = arg'[d]
  BY DEF Asked
<1>1. TypeOK /\ NoDangling
  BY PointersFollowed DEF IInv
<1>2. CASE OpenOk(d)
  <2>1. PICK o \in Objs \ alive :
          path' = [path EXCEPT ![o] = arg[d]] /\ f' = [f EXCEPT ![d] = o] /\ arg' = arg
    BY <1>2 DEF OpenOk
  <2> QED
    BY <1>1, <2>1 DEF TypeOK
<1>3. CASE ~OpenOk(d)
  <2>1. pc[d] \in Inserting /\ f'[d] = f[d] /\ arg'[d] = arg[d]
    <3>1. ASSUME NEW c \in Callers, Step(c) PROVE pc[d] \in Inserting /\ f'[d] = f[d] /\ arg'[d] = arg[d]
      BY <1>1, <1>3, <3>1 DEF Step, LookupHit, LookupMiss, Stat, OpenOk, OpenFail, InsertAppend,
         InsertEvict, EvictFree, InsertSwap, Put, PutFree, Forget, Goto, TypeOK, Inserting
    <3>2. ASSUME NEW c \in Callers, NEW p \in Paths, Call(c, p)
          PROVE  pc[d] \in Inserting /\ f'[d] = f[d] /\ arg'[d] = arg[d]
      BY <1>1, <3>2 DEF Call, Goto, TypeOK, Inserting
    <3>3. ASSUME Tick \/ UNCHANGED vars PROVE pc[d] \in Inserting /\ f'[d] = f[d] /\ arg'[d] = arg[d]
      BY <3>3 DEF Tick, vars, callers
    <3> QED
      BY <3>1, <3>2, <3>3 DEF Next
  <2>2. f[d] \in alive
    BY <1>1, <2>1 DEF NoDangling, Held, Inserting
  <2> QED
    BY <2>1, <2>2, PathStands DEF Asked
<1> QED
  BY <1>2, <1>3

LEMMA CopiesFinite ==
  ASSUME TypeOK, NEW p
  PROVE  /\ IsFiniteSet(CopiesOf(p)) /\ IsFiniteSet(OpenersOf(p))
         /\ Cardinality(CopiesOf(p)) \in Nat
         /\ Cardinality(OpenersOf(p)) \in Nat /\ Cardinality(OpenersOf(p)) <= Cardinality(Callers)
<1>1. IsFiniteSet(Entries)
  BY FS_Interval DEF TypeOK, Entries
<1>2. CopiesOf(p) \subseteq Entries /\ OpenersOf(p) \subseteq Callers
  BY DEF CopiesOf, OpenersOf
<1> QED
  BY <1>1, <1>2, FS_Subset, FS_CardinalityType, FileTableAssumption

\* Where no copy and no opener of p is added, the bound stays.
LEMMA CopiesFewer ==
  ASSUME TypeOK, TypeOK', CopiesBounded, NEW p \in Paths,
         CopiesOf(p)' \subseteq CopiesOf(p), OpenersOf(p)' \subseteq OpenersOf(p)
  PROVE  Cardinality(CopiesOf(p)') + Cardinality(OpenersOf(p)') <= Cardinality(Callers)
<1> DEFINE A == CopiesOf(p)
           B == OpenersOf(p)
<1>1. /\ IsFiniteSet(A) /\ IsFiniteSet(B)
      /\ Cardinality(A) \in Nat /\ Cardinality(B) \in Nat
      /\ Cardinality(A) + Cardinality(B) <= Cardinality(Callers)
  BY CopiesFinite DEF CopiesBounded
<1>2. Cardinality(A') <= Cardinality(A) /\ Cardinality(B') <= Cardinality(B)
  BY <1>1, FS_Subset
<1>3. Cardinality(A') \in Nat /\ Cardinality(B') \in Nat
  BY <1>1, FS_Subset, FS_CardinalityType
<1>4. Cardinality(Callers) \in Nat
  BY FS_CardinalityType, FileTableAssumption
<1> HIDE DEF A, B
<1> QED
  BY <1>1, <1>2, <1>3, <1>4 DEF A, B

\* The opener that becomes a copy.
LEMMA CopiesInsert ==
  ASSUME TypeOK, CopiesBounded, NEW p \in Paths, NEW c \in OpenersOf(p), NEW i,
         CopiesOf(p)' = CopiesOf(p) \cup {i}, OpenersOf(p)' = OpenersOf(p) \ {c}
  PROVE  Cardinality(CopiesOf(p)') + Cardinality(OpenersOf(p)') <= Cardinality(Callers)
<1> DEFINE A == CopiesOf(p)
           B == OpenersOf(p)
<1>1. /\ IsFiniteSet(A) /\ IsFiniteSet(B)
      /\ Cardinality(A) \in Nat /\ Cardinality(B) \in Nat
      /\ Cardinality(A) + Cardinality(B) <= Cardinality(Callers)
  BY CopiesFinite DEF CopiesBounded
<1>2. Cardinality(A') = (IF i \in A THEN Cardinality(A) ELSE Cardinality(A) + 1)
  BY <1>1, FS_AddElement
<1>3. Cardinality(B') = Cardinality(B) - 1
  BY <1>1, FS_RemoveElement
<1>4. Cardinality(Callers) \in Nat
  BY FS_CardinalityType, FileTableAssumption
<1> HIDE DEF A, B
<1> QED
  BY <1>1, <1>2, <1>3, <1>4 DEF A, B

LEMMA CopiesStep ==
  ASSUME CopiesInv, [Next]_vars, NEW p \in Paths
  PROVE  Cardinality(CopiesOf(p)') + Cardinality(OpenersOf(p)') <= Cardinality(Callers)
<1>1. TypeOK /\ TypeOK' /\ CopiesBounded /\ NoDangling /\ Shape
  BY IInvStep, PointersFollowed DEF CopiesInv, IInv, Shape
<1>2. ASSUME NEW i \in Entries, ~Vacant(i) PROVE path'[files[i]] = path[files[i]]
  BY <1>1, <1>2, PathStands DEF CopiesInv, NoDangling
<1>3. ASSUME UNCHANGED table PROVE CopiesOf(p)' = CopiesOf(p)
  BY <1>2, <1>3 DEF CopiesOf, Entries, Vacant, table
<1>4. ASSUME NEW c \in Callers, LookupMiss(c)
      PROVE  Cardinality(CopiesOf(p)') + Cardinality(OpenersOf(p)') <= Cardinality(Callers)
  <2>1. CASE arg[c] = p
    <3>1. CopiesOf(p)' = {}
      BY <1>3, <1>4, <2>1 DEF LookupMiss, InTable, CopiesOf
    <3>2. Cardinality(CopiesOf(p)') = 0
      BY <3>1, FS_EmptySet
    <3>3. Cardinality(OpenersOf(p)') \in Nat /\ Cardinality(OpenersOf(p)') <= Cardinality(Callers)
      <4>1. OpenersOf(p)' \subseteq Callers
        BY DEF OpenersOf
      <4> QED
        BY <4>1, FS_Subset, FS_CardinalityType, FileTableAssumption
    <3> QED
      BY <3>2, <3>3
  <2>2. CASE arg[c] # p
    <3>1. OpenersOf(p)' \subseteq OpenersOf(p)
      BY <1>1, <1>4, <2>2 DEF LookupMiss, Goto, OpenersOf, TypeOK
    <3> QED
      BY <1>1, <1>3, <1>4, <3>1, CopiesFewer DEF LookupMiss
  <2> QED
    BY <2>1, <2>2
<1>5. ASSUME NEW c \in Callers, InsertAppend(c)
      PROVE  Cardinality(CopiesOf(p)') + Cardinality(OpenersOf(p)') <= Cardinality(Callers)
  <2>1. /\ pc[c] = "insert" /\ pc' = [pc EXCEPT ![c] = "held"] /\ arg' = arg /\ path' = path
        /\ lock = NoCaller /\ lock' = lock /\ slot' = slot
        /\ files' = [files EXCEPT ![len] = f[c]] /\ len' = len + 1 /\ len \in Nat /\ len < Cap
    BY <1>1, <1>5 DEF InsertAppend, HasSpace, Goto, heap, TypeOK
  <2>2. path[f[c]] = arg[c]
    BY <2>1 DEF CopiesInv, Asked, Inserting
  <2>3. Entries' = Entries \cup {len} /\ len \notin Entries
    BY <2>1 DEF Entries
  <2>4. files'[len] = f[c] /\ \A i \in Entries : files'[i] = files[i]
    BY <1>1, <2>1, <2>3 DEF TypeOK, Slots, Entries
  <2>5. CopiesOf(p)' = IF arg[c] = p THEN CopiesOf(p) \cup {len} ELSE CopiesOf(p)
    BY <2>1, <2>2, <2>3, <2>4 DEF CopiesOf, Vacant
  <2>6. OpenersOf(p)' = OpenersOf(p) \ {c} /\ (arg[c] = p => c \in OpenersOf(p))
    BY <1>1, <2>1 DEF OpenersOf, TypeOK
  <2> QED
    BY <1>1, <2>5, <2>6, CopiesInsert, CopiesFewer
<1>6. ASSUME NEW c \in Callers, InsertSwap(c)
      PROVE  Cardinality(CopiesOf(p)') + Cardinality(OpenersOf(p)') <= Cardinality(Callers)
  <2>1. /\ pc[c] = "swap" /\ pc' = [pc EXCEPT ![c] = "held"] /\ arg' = arg /\ path' = path
        /\ lock = c /\ lock' = NoCaller /\ c # NoCaller /\ slot' = slot /\ len' = len /\ len = Cap
        /\ files' = [files EXCEPT ![slot] = f[c]]
    BY <1>1, <1>6, FileTableAssumption DEF InsertSwap, Goto, heap, Shape, LockOwner, LockFull
  <2>2. path[f[c]] = arg[c]
    BY <2>1 DEF CopiesInv, Asked, Inserting
  <2>3. slot \in Entries /\ Entries' = Entries /\ Entries = Slots
    BY <1>1, <2>1, FileTableAssumption DEF Entries, TypeOK, Slots
  <2>4. files'[slot] = f[c] /\ \A i \in Entries : i # slot => files'[i] = files[i]
    BY <1>1, <2>1, <2>3 DEF TypeOK
  <2>5. CopiesOf(p)' = IF arg[c] = p THEN CopiesOf(p) \cup {slot} ELSE CopiesOf(p)
    BY <2>1, <2>2, <2>3, <2>4 DEF CopiesOf, Vacant
  <2>6. OpenersOf(p)' = OpenersOf(p) \ {c} /\ (arg[c] = p => c \in OpenersOf(p))
    BY <1>1, <2>1 DEF OpenersOf, TypeOK
  <2> QED
    BY <1>1, <2>5, <2>6, CopiesInsert, CopiesFewer
<1>7. ASSUME NEW c \in Callers, InsertEvict(c)
      PROVE  Cardinality(CopiesOf(p)') + Cardinality(OpenersOf(p)') <= Cardinality(Callers)
  <2>1. /\ pc[c] = "insert" /\ arg' = arg /\ path' = path /\ lock = NoCaller
        /\ files' = files /\ len' = len /\ pc' \in {[pc EXCEPT ![c] = "evfree"], [pc EXCEPT ![c] = "swap"]}
    BY <1>7 DEF InsertEvict, Goto
  <2>2. CopiesOf(p)' \subseteq CopiesOf(p) /\ OpenersOf(p)' \subseteq OpenersOf(p)
    BY <1>1, <2>1 DEF CopiesOf, OpenersOf, Vacant, Entries, TypeOK
  <2> QED
    BY <1>1, <2>2, CopiesFewer
<1>8. ASSUME UNCHANGED table, OpenersOf(p)' \subseteq OpenersOf(p)
      PROVE  Cardinality(CopiesOf(p)') + Cardinality(OpenersOf(p)') <= Cardinality(Callers)
  BY <1>1, <1>3, <1>8, CopiesFewer
<1>9. ASSUME NEW c \in Callers,
             LookupHit(c) \/ Stat(c) \/ OpenOk(c) \/ OpenFail(c) \/ EvictFree(c) \/ Put(c)
               \/ PutFree(c) \/ Forget(c) \/ \E q \in Paths : Call(c, q)
      PROVE  UNCHANGED table /\ OpenersOf(p)' \subseteq OpenersOf(p)
  BY <1>1, <1>9 DEF LookupHit, Stat, OpenOk, OpenFail, EvictFree, Put, PutFree, Forget, Call, Goto,
     OpenersOf, TypeOK
<1>10. ASSUME Tick \/ UNCHANGED vars PROVE UNCHANGED table /\ OpenersOf(p)' \subseteq OpenersOf(p)
  BY <1>10 DEF Tick, vars, callers, OpenersOf
<1> QED
  BY <1>4, <1>5, <1>6, <1>7, <1>8, <1>9, <1>10 DEF Next, Step

\* A path is in the table no more often than callers can have missed it
\* together, although the miss and the insertion are critical sections of
\* their own.
THEOREM CopiesStayBounded == Spec => []CopiesBounded
<1>1. Init => CopiesInv
  <2> SUFFICES ASSUME Init PROVE Asked /\ CopiesBounded
    BY IInvInit DEF CopiesInv
  <2>1. Asked
    BY DEF Init, Asked, Inserting
  <2>2. ASSUME NEW p \in Paths PROVE CopiesOf(p) = {} /\ OpenersOf(p) = {}
    BY DEF Init, CopiesOf, OpenersOf, Entries
  <2>3. Cardinality(Callers) \in Nat
    BY FS_CardinalityType, FileTableAssumption
  <2> QED
    BY <2>1, <2>2, <2>3, FS_EmptySet DEF CopiesBounded
<1>2. CopiesInv /\ [Next]_vars => CopiesInv'
  BY IInvStep, AskedStep, CopiesStep DEF CopiesInv, CopiesBounded
<1>3. CopiesInv => CopiesBounded
  BY DEF CopiesInv
<1> QED
  BY <1>1, <1>2, <1>3, PTL DEF Spec

-----------------------------------------------------------------------------
(* The table implements the cache of handles.                              *)

Filled == {i \in Entries : ~Vacant(i)}

\* A file is in one slot at most, and not in one yet while it is inserted.
Distinct ==
  /\ \A i, j \in Filled : files[i] = files[j] => i = j
  /\ \A c \in Callers : pc[c] \in Inserting =>
       /\ \A i \in Filled : files[i] # f[c]
       /\ \A d \in Callers : pc[d] \in Inserting /\ f[d] = f[c] => d = c

\* What FileHandles calls cached and users.
Cached == {o \in Objs : SlotsOf(o) # {}}
Uses   == [o \in Objs |-> Users(o)]

LEMMA DistinctStep ==
  ASSUME IInv, Distinct, [Next]_vars PROVE Distinct'
<1>1. TypeOK /\ NoDangling /\ Shape
  BY PointersFollowed DEF IInv, Shape
<1>2. /\ \A i \in Filled : files[i] \in alive
      /\ \A c \in Callers : pc[c] \in Inserting => f[c] \in alive
  BY <1>1 DEF NoDangling, Filled, Held, Inserting
<1>3. ASSUME NEW c \in Callers, OpenOk(c) PROVE Distinct'
  <2>1. PICK o \in Objs \ alive : f' = [f EXCEPT ![c] = o]
    BY <1>3 DEF OpenOk
  <2>2. UNCHANGED table /\ Filled' = Filled /\ pc' = [pc EXCEPT ![c] = "insert"]
    BY <1>3 DEF OpenOk, table, Filled, Entries, Vacant, Goto
  <2>3. f'[c] = o /\ \A d \in Callers : d # c => f'[d] = f[d] /\ pc'[d] = pc[d]
    BY <1>1, <2>1, <2>2 DEF TypeOK
  <2>4. \A i, j \in Filled' : files'[i] = files'[j] => i = j
    BY <2>2 DEF Distinct, table
  <2>5. ASSUME NEW d \in Callers, pc'[d] \in Inserting
        PROVE  /\ \A i \in Filled' : files'[i] # f'[d]
               /\ \A e \in Callers : pc'[e] \in Inserting /\ f'[e] = f'[d] => e = d
    BY <1>2, <2>2, <2>3, <2>5 DEF Distinct, table
  <2> QED
    BY <2>4, <2>5 DEF Distinct
<1>4. ASSUME NEW c \in Callers, NEW i, pc[c] \in Inserting,
             pc' = [pc EXCEPT ![c] = "held"], f' = f, Filled' = Filled \cup {i},
             files'[i] = f[c], \A j \in Filled : files'[j] = files[j]
      PROVE  Distinct'
  <2>1. \A d \in Callers : pc'[d] \in Inserting => pc[d] \in Inserting /\ d # c
    BY <1>1, <1>4 DEF TypeOK, Inserting
  <2>2. \A j, k \in Filled' : files'[j] = files'[k] => j = k
    BY <1>4 DEF Distinct
  <2>3. ASSUME NEW d \in Callers, pc'[d] \in Inserting
        PROVE  /\ \A j \in Filled' : files'[j] # f'[d]
               /\ \A e \in Callers : pc'[e] \in Inserting /\ f'[e] = f'[d] => e = d
    BY <1>4, <2>1, <2>3 DEF Distinct
  <2> QED
    BY <2>2, <2>3 DEF Distinct
<1>5. ASSUME NEW c \in Callers, InsertAppend(c) PROVE Distinct'
  <2>1. /\ pc[c] = "insert" /\ pc' = [pc EXCEPT ![c] = "held"] /\ f' = f
        /\ lock = NoCaller /\ lock' = lock /\ files' = [files EXCEPT ![len] = f[c]]
        /\ len' = len + 1 /\ len \in Nat /\ len < Cap
    BY <1>1, <1>5 DEF InsertAppend, HasSpace, Goto, TypeOK
  <2>2. Filled = 0 .. len - 1 /\ Filled' = 0 .. len
    BY <2>1 DEF Filled, Vacant, Entries
  <2>3. Filled' = Filled \cup {len} /\ pc[c] \in Inserting
    BY <2>1, <2>2 DEF Inserting
  <2>4. files'[len] = f[c] /\ \A j \in Filled : files'[j] = files[j]
    <3>1. len \in Slots /\ Filled \subseteq Slots /\ len \notin Filled
      BY <2>1, <2>2, FileTableAssumption DEF Slots
    <3> QED
      BY <1>1, <2>1, <3>1 DEF TypeOK
  <2> QED
    BY <1>4, <2>1, <2>3, <2>4, Zenon
<1>6. ASSUME NEW c \in Callers, InsertSwap(c) PROVE Distinct'
  <2>1. /\ pc[c] = "swap" /\ pc' = [pc EXCEPT ![c] = "held"] /\ f' = f
        /\ lock = c /\ lock' = NoCaller /\ c # NoCaller /\ slot' = slot /\ len' = len /\ len = Cap
        /\ files' = [files EXCEPT ![slot] = f[c]]
    BY <1>1, <1>6, FileTableAssumption DEF InsertSwap, Goto, Shape, LockOwner, LockFull
  <2>2. slot \in Slots /\ Entries = Slots /\ Entries' = Entries
    BY <1>1, <2>1, FileTableAssumption DEF Entries, TypeOK, Slots
  <2>3. Filled' = Filled \cup {slot} /\ slot \notin Filled /\ pc[c] \in Inserting
    BY <2>1, <2>2 DEF Filled, Vacant, Inserting
  <2>4. files'[slot] = f[c] /\ \A j \in Filled : files'[j] = files[j]
    BY <1>1, <2>1, <2>2, <2>3 DEF TypeOK, Filled
  <2> QED
    BY <1>4, <2>1, <2>3, <2>4, Zenon
<1>7. ASSUME Filled' \subseteq Filled, files' = files,
             \A c \in Callers : pc'[c] \in Inserting => pc[c] \in Inserting /\ f'[c] = f[c]
      PROVE  Distinct'
  BY <1>7 DEF Distinct
<1>8. ASSUME NEW c \in Callers, InsertEvict(c) PROVE Distinct'
  <2>1. Filled' \subseteq Filled /\ files' = files
    BY <1>8 DEF InsertEvict, Filled, Vacant, Entries
  <2>2. \A d \in Callers : pc'[d] \in Inserting => pc[d] \in Inserting /\ f'[d] = f[d]
    BY <1>1, <1>8 DEF InsertEvict, Goto, TypeOK, Inserting
  <2> QED
    BY <1>7, <2>1, <2>2
<1>9. ASSUME NEW c \in Callers,
             LookupHit(c) \/ LookupMiss(c) \/ Stat(c) \/ OpenFail(c) \/ EvictFree(c) \/ Put(c)
               \/ PutFree(c) \/ Forget(c) \/ \E q \in Paths : Call(c, q)
      PROVE  Distinct'
  <2>1. UNCHANGED table /\ Filled' = Filled
    BY <1>9 DEF LookupHit, LookupMiss, Stat, OpenFail, EvictFree, Put, PutFree, Forget, Call, table,
       Filled, Vacant, Entries
  <2>2. \A d \in Callers : pc'[d] \in Inserting => pc[d] \in Inserting /\ f'[d] = f[d]
    BY <1>1, <1>9 DEF LookupHit, LookupMiss, Stat, OpenFail, EvictFree, Put, PutFree, Forget, Call,
       Goto, TypeOK, Inserting
  <2> QED
    BY <1>7, <2>1, <2>2 DEF table
<1>10. ASSUME Tick \/ UNCHANGED vars PROVE Distinct'
  BY <1>7, <1>10 DEF Tick, vars, callers, table, Filled, Vacant, Entries
<1> QED
  BY <1>3, <1>5, <1>6, <1>8, <1>9, <1>10 DEF Next, Step

\* As many files are cached as slots are filled.
LEMMA CachedCount ==
  ASSUME Shape, Distinct
  PROVE  /\ IsFiniteSet(Cached)
         /\ Cardinality(Cached) = IF lock = NoCaller THEN len ELSE Cap - 1
<1>1. len \in Nat /\ slot \in Slots /\ (lock # NoCaller => len = Cap) /\ \A i \in Filled : files[i] \in Objs
  BY DEF Shape, TypeOK, LockFull, Pointers, Filled
<1>2. IsFiniteSet(Entries) /\ Cardinality(Entries) = len
  BY <1>1, FS_Interval DEF Entries
<1>3. Filled = IF lock = NoCaller THEN Entries ELSE Entries \ {slot}
  BY DEF Filled, Vacant
<1>4. lock # NoCaller => slot \in Entries
  BY <1>1, FileTableAssumption DEF Slots, Entries
<1>5. IsFiniteSet(Filled) /\ Cardinality(Filled) = IF lock = NoCaller THEN len ELSE Cap - 1
  BY <1>1, <1>2, <1>3, <1>4, FS_RemoveElement
<1> DEFINE at == [i \in Filled |-> files[i]]
<1>6. Cached = {o \in Objs : \E i \in Filled : files[i] = o}
  BY DEF Cached, SlotsOf, Filled
<1>7. at \in Bijection(Filled, Cached)
  <2>1. at \in [Filled -> Cached] /\ \A o \in Cached : \E i \in Filled : at[i] = o
    BY <1>1, <1>6
  <2>2. \A i, j \in Filled : at[i] = at[j] => i = j
    BY DEF Distinct
  <2> QED
    BY <2>1, <2>2 DEF Bijection, Injection, Surjection, IsInjective
<1> QED
  BY <1>5, <1>7, FS_Bijection DEF ExistsBijection

\* A file whose count is zero has nobody.
LEMMA Unowned ==
  ASSUME IInv, NEW o \in Objs, refcnt[o] = 0
  PROVE  Users(o) = {} /\ o \notin Cached /\ lost[o] = 0
<1>1. Shape /\ RefcntExact /\ TypeOK /\ lost[o] \in Nat
  BY DEF IInv, Shape, TypeOK
<1>2. Users(o) = {} /\ SlotsOf(o) = {}
  BY <1>1, OwnersCounted
<1>3. lost[o] = 0
  BY <1>1, CountedFinite DEF RefcntExact
<1> QED
  BY <1>2, <1>3 DEF Cached

\* How the users change when a caller gets, loses or keeps a file.
LEMMA UsersGain ==
  ASSUME TypeOK, NEW c \in Callers, NEW o \in Objs, pc[c] \notin Held, NEW to \in Held,
         pc' = [pc EXCEPT ![c] = to], f' = [f EXCEPT ![c] = o]
  PROVE  c \notin Uses[o] /\ Uses' = [Uses EXCEPT ![o] = @ \cup {c}]
<1>1. \A x \in Objs : Users(x)' = IF x = o THEN Users(x) \cup {c} ELSE Users(x)
  BY DEF TypeOK, Users
<1>2. c \notin Users(o)
  BY DEF Users
<1> QED
  BY <1>1, <1>2 DEF Uses

LEMMA UsersLose ==
  ASSUME TypeOK, NEW c \in Callers, pc[c] \in Held, f[c] \in Objs, NEW to, to \notin Held,
         pc' = [pc EXCEPT ![c] = to], f' = f
  PROVE  c \in Uses[f[c]] /\ Uses' = [Uses EXCEPT ![f[c]] = @ \ {c}]
<1>1. \A x \in Objs : Users(x)' = IF x = f[c] THEN Users(x) \ {c} ELSE Users(x)
  BY DEF TypeOK, Users
<1>2. c \in Users(f[c])
  BY DEF Users
<1> QED
  BY <1>1, <1>2 DEF Uses

LEMMA UsersKeep ==
  ASSUME TypeOK, NEW c \in Callers, NEW to, pc[c] \in Held <=> to \in Held,
         pc' = [pc EXCEPT ![c] = to], f' = f
  PROVE  Uses' = Uses
<1>1. \A x \in Objs : Users(x)' = Users(x)
  BY DEF TypeOK, Users
<1> QED
  BY <1>1 DEF Uses

\* FileHandles counts as FiniteSets does.
LEMMA SameCount == ASSUME NEW S PROVE Handles!Cardinality(S) = Cardinality(S)
BY DEF Handles!Cardinality, Cardinality

LEMMA CachedKeeps == ASSUME UNCHANGED table PROVE Cached' = Cached
BY DEF Cached, SlotsOf, Entries, Vacant, table

\* Each step of a caller is a step of the cache, or invisible to it.
LEMMA HandlesStep ==
  ASSUME IInv, Distinct, NEW c \in Callers, Step(c)
  PROVE  [Handles!HNext]_(Handles!hvars)
<1>1. TypeOK /\ Shape /\ NoDangling /\ Freeing
  BY PointersFollowed DEF IInv, Shape
<1>2. ASSUME UNCHANGED <<alive, Cached, Uses, lost>> PROVE UNCHANGED Handles!hvars
  BY <1>2 DEF Handles!hvars, Cached, Uses
<1>3. CASE LookupHit(c)
  <2>1. PICK i \in Entries : f' = [f EXCEPT ![c] = files[i]] /\ lock = NoCaller
    BY <1>3 DEF LookupHit
  <2>2. files[i] \in Objs /\ files[i] \in Cached
    BY <1>1, <2>1 DEF Shape, Pointers, Cached, SlotsOf, Vacant
  <2>3. c \notin Uses[files[i]] /\ Uses' = [Uses EXCEPT ![files[i]] = @ \cup {c}]
    BY <1>1, <1>3, <2>1, <2>2, UsersGain DEF LookupHit, Goto, Held
  <2>4. UNCHANGED <<alive, Cached, lost>>
    BY <1>3, CachedKeeps DEF LookupHit
  <2>5. Handles!Find(c, files[i])
    BY <2>2, <2>3, <2>4 DEF Handles!Find, Handles!Gain, Cached, Uses
  <2> QED
    BY <2>2, <2>5 DEF Handles!HNext
<1>4. CASE LookupMiss(c) \/ Stat(c) \/ OpenFail(c)
  <2>1. UNCHANGED <<alive, table, lost, f>>
    BY <1>4 DEF LookupMiss, Stat, OpenFail, heap
  <2>2. PICK to : (pc[c] \in Held <=> to \in Held) /\ pc' = [pc EXCEPT ![c] = to]
    BY <1>4 DEF LookupMiss, Stat, OpenFail, Goto, Held
  <2>3. Uses' = Uses
    BY <1>1, <2>1, <2>2, UsersKeep
  <2> QED
    BY <1>2, <2>1, <2>3, CachedKeeps
<1>5. CASE OpenOk(c)
  <2>1. PICK o \in Objs \ alive : alive' = alive \cup {o} /\ f' = [f EXCEPT ![c] = o]
    BY <1>5 DEF OpenOk
  <2>2. Uses' = [Uses EXCEPT ![o] = @ \cup {c}] /\ c \notin Uses[o]
    BY <1>1, <1>5, <2>1, UsersGain DEF OpenOk, Goto, Held
  <2>3. UNCHANGED <<Cached, lost>>
    BY <1>5, CachedKeeps DEF OpenOk
  <2>4. Handles!Open(c, o)
    BY <2>1, <2>2, <2>3 DEF Handles!Open, Handles!Gain, Cached, Uses
  <2> QED
    BY <2>4 DEF Handles!HNext
<1>6. ASSUME NEW i, pc[c] \in Inserting, pc' = [pc EXCEPT ![c] = "held"], UNCHANGED <<alive, lost, f>>,
             Filled' = Filled \cup {i}, files'[i] = f[c], \A j \in Filled : files'[j] = files[j],
             Cardinality(Cached) < Cap
      PROVE  Handles!HNext
  <2>1. f[c] \in Objs /\ c \in Uses[f[c]] /\ f[c] \notin Cached
    <3>1. pc[c] \in Held /\ f[c] \in Objs
      BY <1>1, <1>6 DEF Shape, Pointers, Held, Inserting
    <3>2. c \in Uses[f[c]]
      BY <3>1 DEF Uses, Users
    <3>3. SlotsOf(f[c]) = {}
      BY <1>6 DEF SlotsOf, Distinct, Filled
    <3> QED
      BY <3>1, <3>2, <3>3 DEF Cached
  <2>2. Uses' = Uses
    <3>1. pc[c] \in Held <=> "held" \in Held
      BY <1>6 DEF Held, Inserting
    <3> QED
      BY <1>1, <1>6, <3>1, UsersKeep
  <2>3. /\ Cached = {o \in Objs : \E j \in Filled : files[j] = o}
        /\ Cached' = {o \in Objs : \E j \in Filled' : files'[j] = o}
    BY DEF Cached, SlotsOf, Filled
  <2>4. Cached' = Cached \cup {f[c]}
    BY <1>6, <2>1, <2>3
  <2>5. Handles!Admit(c, f[c])
    <3>1. Handles!Cardinality(Cached) < Cap
      BY <1>6, SameCount
    <3> QED
      BY <1>6, <2>1, <2>2, <2>4, <3>1, Zenon DEF Handles!Admit, Cached, Uses
  <2> QED
    BY <2>1, <2>5 DEF Handles!HNext
<1>7. CASE InsertAppend(c)
  <2>1. /\ pc[c] = "insert" /\ pc' = [pc EXCEPT ![c] = "held"] /\ UNCHANGED <<alive, lost, f>>
        /\ lock = NoCaller /\ lock' = lock /\ files' = [files EXCEPT ![len] = f[c]]
        /\ len' = len + 1 /\ len \in Nat /\ len < Cap
    BY <1>1, <1>7 DEF InsertAppend, HasSpace, Goto, TypeOK
  <2>2. Filled = 0 .. len - 1 /\ Filled' = 0 .. len
    BY <2>1 DEF Filled, Vacant, Entries
  <2>3. Filled' = Filled \cup {len} /\ pc[c] \in Inserting
    BY <2>1, <2>2 DEF Inserting
  <2>4. files'[len] = f[c] /\ \A j \in Filled : files'[j] = files[j]
    <3>1. len \in Slots /\ Filled \subseteq Slots /\ len \notin Filled
      BY <2>1, <2>2, FileTableAssumption DEF Slots
    <3> QED
      BY <1>1, <2>1, <3>1 DEF TypeOK
  <2>5. Cardinality(Cached) < Cap
    BY <1>1, <2>1, CachedCount
  <2>6. Handles!HNext
    BY <1>6, <2>1, <2>3, <2>4, <2>5, Zenon
  <2> QED
    BY <2>6
<1>8. CASE InsertEvict(c)
  <2>1. PICK i \in Entries :
          /\ pc[c] = "insert" /\ lock = NoCaller /\ ~HasSpace /\ lock' = c /\ slot' = i
          /\ pc' = [pc EXCEPT ![c] = IF WasLast(files[i]) THEN "evfree" ELSE "swap"]
          /\ UNCHANGED <<files, len, alive, lost, f>>
    BY <1>8 DEF InsertEvict, Goto
  <2>2. lock' # NoCaller /\ len = Cap /\ files[i] \in Objs
    BY <1>1, <2>1, FileTableAssumption DEF HasSpace, Shape, TypeOK, Pointers
  <2>3. Filled = Entries /\ Filled' = Filled \ {i} /\ files' = files
    BY <2>1, <2>2 DEF Filled, Vacant, Entries
  <2>4. /\ Cached = {o \in Objs : \E j \in Filled : files[j] = o}
        /\ Cached' = {o \in Objs : \E j \in Filled' : files'[j] = o}
    BY DEF Cached, SlotsOf, Filled
  <2>5. files[i] \in Cached /\ Cached' = Cached \ {files[i]}
    BY <2>1, <2>2, <2>3, <2>4 DEF Distinct
  <2>6. Cardinality(Cached) = Cap
    BY <1>1, <2>1, <2>2, CachedCount
  <2>7. Uses' = Uses
    <3>1. PICK to : pc' = [pc EXCEPT ![c] = to] /\ (pc[c] \in Held <=> to \in Held)
      BY <2>1 DEF Held
    <3> QED
      BY <1>1, <2>1, <3>1, UsersKeep
  <2>8. Handles!Evict(files[i])
    <3>1. Handles!Cardinality(Cached) = Cap
      BY <2>6, SameCount
    <3> QED
      BY <2>1, <2>5, <2>7, <3>1, Zenon DEF Handles!Evict, Cached, Uses
  <2> QED
    BY <2>2, <2>8 DEF Handles!HNext
<1>9. CASE EvictFree(c)
  <2>1. pc[c] = "evfree" /\ UNCHANGED <<table, lost, f>> /\ pc' = [pc EXCEPT ![c] = "swap"]
        /\ alive' = alive \ {files[slot]}
    BY <1>9 DEF EvictFree, Goto
  <2>2. files[slot] \in Objs /\ files[slot] \in alive /\ refcnt[files[slot]] = 0
    <3>1. files[slot] \in alive
      BY <1>1, <2>1 DEF NoDangling
    <3>2. files[slot] \in Objs /\ c \in Freers(files[slot])
      BY <1>1, <2>1, <3>1 DEF TypeOK, Freers
    <3> QED
      BY <1>1, <3>1, <3>2 DEF Freeing
  <2>3. Users(files[slot]) = {} /\ files[slot] \notin Cached /\ lost[files[slot]] = 0
    BY <2>2, Unowned
  <2>4. Uses' = Uses /\ Cached' = Cached
    <3>1. pc[c] \in Held <=> "swap" \in Held
      BY <2>1 DEF Held
    <3> QED
      BY <1>1, <2>1, <3>1, UsersKeep, CachedKeeps
  <2>5. Handles!Close(files[slot])
    BY <2>1, <2>2, <2>3, <2>4 DEF Handles!Close, Cached, Uses
  <2> QED
    BY <2>2, <2>5 DEF Handles!HNext
<1>10. CASE InsertSwap(c)
  <2>1. /\ pc[c] = "swap" /\ pc' = [pc EXCEPT ![c] = "held"] /\ UNCHANGED <<alive, lost, f>>
        /\ lock = c /\ lock' = NoCaller /\ c # NoCaller /\ slot' = slot /\ len' = len /\ len = Cap
        /\ files' = [files EXCEPT ![slot] = f[c]]
    BY <1>1, <1>10, FileTableAssumption DEF InsertSwap, Goto, Shape, LockOwner, LockFull, heap
  <2>2. slot \in Slots /\ Entries = Slots /\ Entries' = Entries
    BY <1>1, <2>1, FileTableAssumption DEF Entries, TypeOK, Slots
  <2>3. Filled' = Filled \cup {slot} /\ slot \notin Filled /\ pc[c] \in Inserting
    BY <2>1, <2>2 DEF Filled, Vacant, Inserting
  <2>4. files'[slot] = f[c] /\ \A j \in Filled : files'[j] = files[j]
    BY <1>1, <2>1, <2>2, <2>3 DEF TypeOK, Filled
  <2>5. Cardinality(Cached) < Cap
    BY <1>1, <2>1, CachedCount, FileTableAssumption
  <2>6. Handles!HNext
    BY <1>6, <2>1, <2>3, <2>4, <2>5, Zenon
  <2> QED
    BY <2>6
<1>11. CASE Put(c) \/ Forget(c)
  <2>1. PICK to : to \notin Held /\ pc' = [pc EXCEPT ![c] = to]
    BY <1>11 DEF Put, Forget, Goto, Held
  <2>2. pc[c] \in Held /\ f[c] \in Objs /\ UNCHANGED <<table, alive, f>>
    BY <1>1, <1>11 DEF Put, Forget, Held, Shape, Pointers, heap
  <2>3. c \in Uses[f[c]] /\ Uses' = [Uses EXCEPT ![f[c]] = @ \ {c}]
    BY <1>1, <2>1, <2>2, UsersLose
  <2>4. Cached' = Cached
    BY <2>2, CachedKeeps
  <2>5. Handles!Lose(c, f[c])
    BY <2>3 DEF Handles!Lose, Uses
  <2>6. CASE Put(c)
    <3>1. Handles!Release(c, f[c])
      BY <2>2, <2>4, <2>5, <2>6 DEF Put, Handles!Release, Cached
    <3> QED
      BY <2>2, <3>1 DEF Handles!HNext
  <2>7. CASE Forget(c)
    <3>1. Handles!Pin(c, f[c])
      BY <2>2, <2>4, <2>5, <2>7 DEF Forget, Handles!Pin, Cached
    <3> QED
      BY <2>2, <3>1 DEF Handles!HNext
  <2> QED
    BY <1>11, <2>6, <2>7
<1>12. CASE PutFree(c)
  <2>1. pc[c] = "free" /\ UNCHANGED <<table, lost, f>> /\ pc' = [pc EXCEPT ![c] = "idle"]
        /\ alive' = alive \ {f[c]}
    BY <1>12 DEF PutFree, Goto
  <2>2. f[c] \in Objs /\ f[c] \in alive /\ refcnt[f[c]] = 0
    BY <1>1, <2>1 DEF Shape, Pointers, Freeing, Freers, TypeOK
  <2>3. Users(f[c]) = {} /\ f[c] \notin Cached /\ lost[f[c]] = 0
    BY <2>2, Unowned
  <2>4. Uses' = Uses /\ Cached' = Cached
    <3>1. pc[c] \in Held <=> "idle" \in Held
      BY <2>1 DEF Held
    <3> QED
      BY <1>1, <2>1, <3>1, UsersKeep, CachedKeeps
  <2>5. Handles!Close(f[c])
    BY <2>1, <2>2, <2>3, <2>4 DEF Handles!Close, Cached, Uses
  <2> QED
    BY <2>2, <2>5 DEF Handles!HNext
<1> QED
  BY <1>3, <1>4, <1>5, <1>7, <1>8, <1>9, <1>10, <1>11, <1>12 DEF Step

\* The table implements the cache of handles: each step opens, finds, caches,
\* evicts, gives back, forgets or closes one handle as FileHandles allows, or
\* changes none; a handle is closed only when nobody has it, and the cache
\* never holds more than its slots.
THEOREM ImplementsCache == Spec => ImplementsHandles
<1>1. Init => Distinct /\ Handles!HInit
  BY DEF Init, Distinct, Filled, Entries, Inserting, Handles!HInit, SlotsOf, Users, Held
<1>2. IInv /\ Distinct /\ [Next]_vars => Distinct'
  BY DistinctStep
<1>3. IInv /\ Distinct /\ [Next]_vars => [Handles!HNext]_(Handles!hvars)
  <2> SUFFICES ASSUME IInv, Distinct, [Next]_vars PROVE [Handles!HNext]_(Handles!hvars)
    OBVIOUS
  <2>1. ASSUME (\E c \in Callers, p \in Paths : Call(c, p)) \/ Tick \/ UNCHANGED vars
        PROVE  UNCHANGED Handles!hvars
    <3>1. UNCHANGED <<table, alive, lost, f>>
      BY <2>1 DEF Call, Tick, vars, callers, heap
    <3>2. \A c \in Callers : (pc'[c] \in Held) = (pc[c] \in Held)
      BY <2>1 DEF Call, Tick, vars, callers, Goto, IInv, TypeOK, Held
    <3>3. \A o \in Objs : Users(o)' = Users(o)
      BY <3>1, <3>2 DEF Users
    <3>4. Cached' = Cached /\ Uses' = Uses
      BY <3>1, <3>3, CachedKeeps DEF Uses
    <3> QED
      BY <3>1, <3>4 DEF Handles!hvars, Cached, Uses
  <2> QED
    BY <2>1, HandlesStep DEF Next
<1> QED
  BY <1>1, <1>2, <1>3, IInvAlways, PTL DEF Spec, ImplementsHandles, Handles!HSafe
=============================================================================
