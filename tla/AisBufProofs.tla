---------------------------- MODULE AisBufProofs ----------------------------
(* What the operations on a byte buffer do to its bounds, for every buffer *)
(* and every need: appending makes room, keeps the data inside the         *)
(* allocation, and grows the buffer by no more than it must.               *)
EXTENDS AisBuf, FiniteSets, TLAPS, FunctionTheorems, FiniteSetTheorems

-----------------------------------------------------------------------------
(* Induction over numbers. The library's induction theorems have an        *)
(* operator for a parameter; here the property is a set of numbers, which  *)
(* is as good wherever it can be written {n \in Nat : ...}.                *)

\* A set of numbers that has 0, and with each number the next, has them all.
\* Otherwise n -> n + 1 would map the members up to a missing number one to one
\* to themselves without 0, and they are finitely many.
LEMMA SetInduction ==
  ASSUME NEW S, 0 \in S, \A n \in Nat : n \in S => n + 1 \in S
  PROVE  Nat \subseteq S
<1> SUFFICES ASSUME NEW n \in Nat, n \notin S PROVE FALSE
  OBVIOUS
<1> DEFINE T == {m \in 0 .. n : m \in S}
           next == [m \in T |-> m + 1]
<1>1. T \in SUBSET (0 .. n) /\ 0 \in T
  OBVIOUS
<1>2. \A m \in T : m + 1 \in T \ {0}
  OBVIOUS
<1>3. next \in Injection(T, T \ {0})
  BY <1>2 DEF Injection, IsInjective
<1> HIDE DEF T, next
<1>4. IsFiniteSet(0 .. n)
  BY FS_Interval
<1>5. IsFiniteSet(T)
  BY <1>1, <1>4, FS_Subset
<1>6. IsFiniteSet(T \ {0}) /\ Cardinality(T \ {0}) = Cardinality(T) - 1
  BY <1>1, <1>5, FS_RemoveElement
<1>7. Cardinality(T) \in Nat
  BY <1>5, FS_CardinalityType
<1>8. Cardinality(T) <= Cardinality(T \ {0})
  BY <1>3, <1>6, FS_Injection
<1> QED
  BY <1>6, <1>7, <1>8

\* The first number of a set.
THEOREM FirstOf ==
  ASSUME NEW S, NEW n \in Nat, n \in S
  PROVE  \E m \in 0 .. n : m \in S /\ \A k \in 0 .. m - 1 : k \notin S
<1> SUFFICES ASSUME \A m \in 0 .. n : m \in S => \E k \in 0 .. m - 1 : k \in S PROVE FALSE
  OBVIOUS
<1> DEFINE Without == {m \in Nat : m <= n => \A k \in 0 .. m : k \notin S}
<1>1. 0 \in Without
  OBVIOUS
<1>2. ASSUME NEW m \in Nat, m \in Without PROVE m + 1 \in Without
  BY <1>2
<1>3. Nat \subseteq Without
  <2> HIDE DEF Without
  <2> QED
    BY <1>1, <1>2, SetInduction
<1> QED
  BY <1>3

\* A set of positive numbers that has all below each of its members.
LEMMA Prefix ==
  ASSUME NEW n \in Nat, NEW T \in SUBSET (1 .. n), \A i \in T : \A k \in 1 .. i - 1 : k \in T
  PROVE  \E m \in 0 .. n : T = 1 .. m /\ Cardinality(T) = m
<1> DEFINE S == {k \in Nat : k + 1 \notin T}
<1>1. n \in S
  OBVIOUS
<1>2. PICK m \in 0 .. n : m \in S /\ \A k \in 0 .. m - 1 : k \notin S
  <2> HIDE DEF S
  <2> QED
    BY <1>1, FirstOf
<1>3. ASSUME NEW i \in 1 .. m PROVE i \in T
  <2>1. i - 1 \in 0 .. m - 1 /\ i - 1 \in Nat /\ (i - 1) + 1 = i
    BY <1>2, <1>3
  <2> QED
    BY <1>2, <2>1
<1>4. ASSUME NEW i \in T PROVE i \in 1 .. m
  <2>1. m + 1 \notin T /\ m \in Nat /\ i \in Nat /\ i >= 1
    BY <1>2
  <2>2. m + 1 \in 1 .. i - 1 => m + 1 \in T
    OBVIOUS
  <2> QED
    BY <2>1, <2>2
<1>5. T = 1 .. m
  BY <1>3, <1>4
<1>6. Cardinality(1 .. m) = m
  BY <1>2, FS_Interval
<1> QED
  BY <1>5, <1>6

-----------------------------------------------------------------------------
(* Quotients and remainders.                                               *)

LEMMA DivMod ==
  ASSUME NEW d \in Nat \ {0}, NEW p \in Nat
  PROVE  p = d * (p \div d) + (p % d) /\ p % d \in 0 .. d - 1 /\ p \div d \in Nat
OBVIOUS

LEMMA DivModOf ==
  ASSUME NEW d \in Nat \ {0}, NEW p \in Nat, NEW q \in Nat, NEW r \in 0 .. d - 1, p = d * q + r
  PROVE  p \div d = q /\ p % d = r
OBVIOUS

LEMMA TimesNat == ASSUME NEW d \in Nat, NEW q \in Nat PROVE d * q \in Nat
OBVIOUS

LEMMA TimesNext == ASSUME NEW d \in Nat, NEW q \in Int PROVE d * (q + 1) = d * q + d
OBVIOUS

LEMMA TimesLess ==
  ASSUME NEW d \in Nat \ {0}, NEW m \in Int, NEW n \in Int, m < n
  PROVE  d * m + d <= d * n
OBVIOUS

\* n more, short of the next multiple.
LEMMA DivWithin ==
  ASSUME NEW d \in Nat \ {0}, NEW p \in Nat, NEW n \in Nat, n < d - (p % d)
  PROVE  (p + n) \div d = p \div d /\ (p + n) % d = (p % d) + n
<1> DEFINE q == p \div d
           r == p % d
<1>1. q \in Nat /\ r \in 0 .. d - 1 /\ p = d * q + r
  BY DivMod
<1>2. r + n < d
  BY <1>1
<1>3. d * q \in Nat
  BY <1>1, TimesNat
<1> HIDE DEF q, r
<1>4. p + n = d * q + (r + n) /\ r + n \in 0 .. d - 1
  BY <1>1, <1>2, <1>3
<1>5. (p + n) \div d = q /\ (p + n) % d = r + n
  BY <1>1, <1>4, DivModOf
<1> QED
  BY <1>5 DEF q, r

\* Up to the next multiple.
LEMMA DivNext ==
  ASSUME NEW d \in Nat \ {0}, NEW p \in Nat
  PROVE  LET n == p + (d - (p % d)) IN n \div d = (p \div d) + 1 /\ n % d = 0
<1> DEFINE q == p \div d
           r == p % d
<1>1. q \in Nat /\ r \in 0 .. d - 1 /\ p = d * q + r
  BY DivMod
<1>2. d * q \in Nat /\ d * (q + 1) = d * q + d
  BY <1>1, TimesNat, TimesNext
<1> HIDE DEF q, r
<1>3. p + (d - r) = d * (q + 1) + 0
  BY <1>1, <1>2
<1>4. (p + (d - r)) \div d = q + 1 /\ (p + (d - r)) % d = 0
  BY <1>1, <1>3, DivModOf
<1> QED
  BY <1>4 DEF q, r

\* A larger number has no smaller quotient.
LEMMA DivGrows ==
  ASSUME NEW d \in Nat \ {0}, NEW p \in Nat, NEW n \in Nat, p <= n
  PROVE  p \div d <= n \div d
<1> DEFINE q == p \div d
           m == n \div d
<1>1. q \in Nat /\ p % d \in 0 .. d - 1 /\ p = d * q + (p % d)
  BY DivMod
<1>2. m \in Nat /\ n % d \in 0 .. d - 1 /\ n = d * m + (n % d)
  BY DivMod
<1> HIDE DEF q, m
<1>3. d * q \in Nat /\ d * m \in Nat
  BY <1>1, <1>2, TimesNat
<1>4. m < q => d * m + d <= d * q
  BY <1>1, <1>2, TimesLess
<1>5. q <= m
  BY <1>1, <1>2, <1>3, <1>4
<1> QED
  BY <1>5 DEF q, m

\* Below a multiple, and before it.
LEMMA DivBelow ==
  ASSUME NEW d \in Nat \ {0}, NEW p \in Nat, NEW n \in Nat, p <= d * n
  PROVE  p \div d <= n /\ (p < d * n => p \div d < n)
<1> DEFINE q == p \div d
           r == p % d
<1>1. q \in Nat /\ r \in 0 .. d - 1 /\ p = d * q + r
  BY DivMod
<1> HIDE DEF q, r
<1>2. d * q \in Nat /\ d * n \in Nat
  BY <1>1, TimesNat
<1>3. n < q => d * n + d <= d * q
  BY <1>1, TimesLess
<1>4. q <= n
  BY <1>1, <1>2, <1>3
<1>5. ASSUME p < d * n PROVE q # n
  BY <1>1, <1>2, <1>5
<1>6. p < d * n => q < n
  BY <1>1, <1>4, <1>5
<1> QED
  BY <1>4, <1>6 DEF q

-----------------------------------------------------------------------------
(* The buffer.                                                             *)

\* A buffer whose data fits its capacity, which the code asserts.
Fit(b) == b \in Bufs /\ b.len <= b.cap

-----------------------------------------------------------------------------
(* The loop that doubles the capacity.                                     *)

IsDoubling(d, cap, n) ==
  d = [i \in 0 .. n |-> IF i = 0 THEN (cap + 1) * 2 ELSE d[i - 1] * 2]

\* The recursion is well founded, turn by turn.
LEMMA DoublingsExist ==
  ASSUME NEW cap \in Nat, NEW n \in Nat PROVE \E d : IsDoubling(d, cap, n)
<1> DEFINE S == {m \in Nat : \E d : IsDoubling(d, cap, m)}
<1>1. 0 \in S
  <2>1. IsDoubling([i \in 0 .. 0 |-> (cap + 1) * 2], cap, 0)
    BY DEF IsDoubling
  <2> QED
    BY <2>1
<1>2. ASSUME NEW m \in Nat, m \in S PROVE m + 1 \in S
  <2>1. PICK d : IsDoubling(d, cap, m)
    BY <1>2
  <2> DEFINE e == [i \in 0 .. m + 1 |-> IF i = m + 1 THEN d[m] * 2 ELSE d[i]]
  <2>2. \A i \in 0 .. m : d[i] = IF i = 0 THEN (cap + 1) * 2 ELSE d[i - 1] * 2
    BY <2>1 DEF IsDoubling
  <2>3. \A i \in 0 .. m + 1 : e[i] = IF i = 0 THEN (cap + 1) * 2 ELSE e[i - 1] * 2
    BY <2>2
  <2>4. IsDoubling(e, cap, m + 1)
    BY <2>3 DEF IsDoubling
  <2> QED
    BY <2>4
<1> HIDE DEF S
<1>3. Nat \subseteq S
  BY <1>1, <1>2, SetInduction
<1> QED
  BY <1>3 DEF S

LEMMA DoublingsDef ==
  ASSUME NEW cap \in Nat, NEW n \in Nat
  PROVE  /\ Doublings(cap, n)[0] = (cap + 1) * 2
         /\ \A i \in 1 .. n : Doublings(cap, n)[i] = Doublings(cap, n)[i - 1] * 2
<1>1. IsDoubling(Doublings(cap, n), cap, n)
  BY DoublingsExist DEF Doublings, IsDoubling
<1> HIDE DEF Doublings
<1> QED
  BY <1>1 DEF IsDoubling

\* Turn i has brought it beyond i, and beyond what there was.
LEMMA DoublingsGrow ==
  ASSUME NEW cap \in Nat, NEW n \in Nat, NEW i \in 0 .. n
  PROVE  Doublings(cap, n)[i] \in Nat /\ Doublings(cap, n)[i] > i + cap
<1> DEFINE d == Doublings(cap, n)
           S == {m \in Nat : m <= n => d[m] \in Nat /\ d[m] > m + cap}
<1>1. d[0] = (cap + 1) * 2 /\ \A m \in 1 .. n : d[m] = d[m - 1] * 2
  BY DoublingsDef
<1> HIDE DEF d
<1>2. 0 \in S
  BY <1>1
<1>3. ASSUME NEW m \in Nat, m \in S PROVE m + 1 \in S
  <2>1. CASE m + 1 <= n
    <3>1. d[m] \in Nat /\ d[m] > m + cap
      BY <1>3, <2>1
    <3>2. d[m + 1] = d[m] * 2
      BY <1>1, <2>1
    <3> QED
      BY <3>1, <3>2
  <2>2. CASE ~(m + 1 <= n)
    BY <2>2
  <2> QED
    BY <2>1, <2>2
<1> HIDE DEF S
<1>4. Nat \subseteq S
  BY <1>2, <1>3, SetInduction
<1> QED
  BY <1>4 DEF S, d

\* The loop stops, with room for n bytes, with more than there was, and having
\* doubled once, or with less than twice what it had to reach.
THEOREM DoubledFits ==
  ASSUME NEW cap \in Nat, NEW n \in Nat
  PROVE  LET c == DoubledCap(cap, n)
         IN c \in Nat /\ c >= n /\ c > cap /\ (c = (cap + 1) * 2 \/ c < 2 * n)
<1> DEFINE d == Doublings(cap, n)
           Stops(i) == d[i] >= n /\ \A j \in 0 .. i - 1 : d[j] < n
           Enough == {i \in 0 .. n : d[i] >= n}
<1>1. \A i \in 0 .. n : d[i] \in Nat /\ d[i] > i + cap
  BY DoublingsGrow
<1>2. d[0] = (cap + 1) * 2 /\ \A i \in 1 .. n : d[i] = d[i - 1] * 2
  BY DoublingsDef
<1>3. DoubledCap(cap, n) = d[CHOOSE i \in 0 .. n : Stops(i)]
  BY DEF DoubledCap
<1> HIDE DEF d
<1>4. n \in Enough
  BY <1>1
<1>5. \E i \in 0 .. n : i \in Enough /\ \A j \in 0 .. i - 1 : j \notin Enough
  <2> HIDE DEF Enough
  <2> QED
    BY <1>4, FirstOf
<1>6. \E i \in 0 .. n : Stops(i)
  BY <1>1, <1>5
<1>7. PICK i \in 0 .. n : Stops(i) /\ DoubledCap(cap, n) = d[i]
  <2> HIDE DEF Stops
  <2> QED
    BY <1>3, <1>6
<1>8. d[i] \in Nat /\ d[i] >= n /\ d[i] > cap
  BY <1>1, <1>7
<1>9. d[i] = (cap + 1) * 2 \/ d[i] < 2 * n
  <2>1. CASE i = 0
    BY <1>2, <2>1
  <2>2. CASE i # 0
    <3>1. d[i] = d[i - 1] * 2 /\ d[i - 1] < n /\ d[i - 1] \in Nat
      BY <1>1, <1>2, <1>7, <2>2
    <3> QED
      BY <3>1
  <2> QED
    BY <2>1, <2>2
<1> QED
  BY <1>7, <1>8, <1>9

-----------------------------------------------------------------------------
(* The operations.                                                         *)

LEMMA NewBufFits == ASSUME NEW cap \in Nat PROVE Fit(NewBuf(cap)) /\ Inside(NewBuf(cap))
BY DEF NewBuf, Fit, Bufs, Inside

LEMMA SyncFits ==
  ASSUME NEW b, Fit(b)
  PROVE  Fit(Sync(b)) /\ Sync(b).len = b.len /\ Sync(b).off = 0 /\ Inside(Sync(b))
BY DEF Sync, Freed, NewBuf, Fit, Bufs, Inside

\* ais_buf_prepare_need makes room behind the data, which it keeps.
THEOREM PrepareMakesRoom ==
  ASSUME NEW b, Fit(b), NEW need \in Nat
  PROVE  LET p == PrepareNeed(b, need)
         IN Fit(p) /\ p.len = b.len /\ p.off = 0 /\ need <= Room(p)
<1> DEFINE s == Sync(b)
           c == DoubledCap(s.cap, s.len + need)
<1>1. Fit(s) /\ s.len = b.len /\ s.off = 0
  BY SyncFits
<1>2. PrepareNeed(b, need) = IF need <= Room(s) THEN s ELSE SetCap(s, c)
  BY DEF PrepareNeed
<1>3. s.cap \in Nat /\ s.len \in Nat /\ s.len + need \in Nat
  BY <1>1 DEF Fit, Bufs
<1>4. c \in Nat /\ c >= s.len + need
  BY <1>3, DoubledFits
<1> HIDE DEF s, c
<1> QED
  BY <1>1, <1>2, <1>3, <1>4 DEF Fit, Bufs, SetCap, Room

LEMMA AppendFits ==
  ASSUME NEW b, Fit(b), NEW n \in Nat
  PROVE  LET a == AppendTo(b, n) IN Fit(a) /\ a.len = b.len + n /\ a.off = 0 /\ Inside(a)
<1> DEFINE p == PrepareNeed(b, n)
<1>1. Fit(p) /\ p.len = b.len /\ p.off = 0 /\ n <= Room(p)
  BY PrepareMakesRoom
<1>2. AppendTo(b, n) = [p EXCEPT !.len = @ + n]
  BY DEF AppendTo
<1> HIDE DEF p
<1> QED
  BY <1>1, <1>2 DEF Fit, Bufs, Room, Inside

\* Consuming moves the data inside the allocation and never out of it.
LEMMA SoftAdvanceFits ==
  ASSUME NEW b, Fit(b), NEW n \in 0 .. b.len
  PROVE  LET a == SoftAdvance(b, n)
         IN Fit(a) /\ a.len = b.len - n /\ a.off = b.off + n /\ (Inside(b) => Inside(a))
BY DEF SoftAdvance, Fit, Bufs, Inside
=============================================================================
