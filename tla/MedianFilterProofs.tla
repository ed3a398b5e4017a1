------------------------- MODULE MedianFilterProofs -------------------------
(***************************************************************************)
(* Proofs about MedianFilter for every odd window, every set of values and *)
(* of times.  The inductive invariant says which slot of the ring holds    *)
(* which sample of the window (Ring), that the sorted buffer holds the     *)
(* ring's values in order (SameValues, InOrder), and where the last times  *)
(* are (Stamps).                                                           *)
(***************************************************************************)
EXTENDS MedianFilter, FunctionTheorems, FiniteSetTheorems, SequenceTheorems,
        WellFoundedInduction, TLAPS

Around(x) == IF x >= N THEN x - N ELSE x
Back(x) == IF x < 0 THEN x + capacity ELSE x

\* Where the samples of the window are in the ring.
Ring ==
    /\ Len(recent) <= N
    /\ unfilled = N - Len(recent)
    /\ Len(recent) < N => buffer_ptr = N - Len(recent)
    /\ Len(recent) = N => buffer_ptr < N
    /\ \A k \in 1 .. Len(recent) :
        recent[k].val = inbuffer[Around(buffer_ptr + Len(recent) - k)]

\* Each slot of the ring has a slot of its own in the sorted buffer.
Matches(in, sorted, place) ==
    /\ place \in Injection(Slots, Slots)
    /\ \A k \in Slots : in[k] = sorted[place[k]]

SameValues == \E place \in [Slots -> Slots] : Matches(inbuffer, sortbuffer, place)

\* Where the times of the last samples are.
Stamps ==
    /\ count = IF Len(recent) < capacity THEN Len(recent) ELSE capacity
    /\ count > 0 => head = Back(tail - (count - 1))
    /\ \A j \in 0 .. count - 1 : times[Back(tail - j)] = recent[Len(recent) - j].ts

IInv == TypeOK /\ InOrder /\ SameValues /\ Ring /\ Stamps

-----------------------------------------------------------------------------
(* Arithmetic and sets                                                     *)

LEMMA Sizes ==
    /\ median_ptr \in Nat
    /\ N = 2 * median_ptr + 1
    /\ capacity = median_ptr + 1
BY MedianFilterAssumption DEF median_ptr, capacity

\* A set of slots has a last one: the slots of the set from a slot on shrink
\* strictly as the slot grows.
LEMMA Last ==
    ASSUME NEW T \in SUBSET Slots, T # {}
    PROVE  \E x \in T : \A y \in T : y <= x
<1> DEFINE From(x) == {y \in T : y >= x}
           Family == {From(x) : x \in T}
           R == StrictSubsetOrdering(T)
<1>1. N \in Nat /\ T \subseteq Int
  BY MedianFilterAssumption DEF Slots
<1>2. IsFiniteSet(T)
  <2>1. IsFiniteSet(Slots)
    BY <1>1, FS_Interval DEF Slots
  <2> QED BY <2>1, FS_Subset
<1>3. Family \subseteq FiniteSubsetsOf(T) /\ Family # {}
  <2>1. ASSUME NEW x \in T PROVE From(x) \in SUBSET T /\ IsFiniteSet(From(x))
    <3>1. From(x) \in SUBSET T
      OBVIOUS
    <3> QED BY <3>1, <1>2, FS_Subset
  <2> QED BY <2>1 DEF FiniteSubsetsOf
<1>4. IsWellFoundedOn(R, FiniteSubsetsOf(T))
  BY FS_StrictSubsetOrderingWellFounded
<1>5. PICK s \in Family : \A t \in Family : ~ (<<t, s>> \in R)
  <2> HIDE DEF R, Family
  <2> QED BY <1>3, <1>4, WFMin
<1>6. PICK x \in T : s = From(x)
  BY <1>5
<1>7. ASSUME NEW y \in T, ~ (y <= x) PROVE FALSE
  <2>0. x \in Int /\ y \in Int /\ x < y
    BY <1>1, <1>7
  <2>1. From(y) \subseteq From(x) /\ From(y) # From(x)
    <3>1. ASSUME NEW z \in From(y) PROVE z \in From(x)
      BY <1>1, <2>0, <3>1
    <3>2. x \in From(x) /\ x \notin From(y)
      BY <2>0
    <3> QED BY <3>1, <3>2
  <2>2. From(y) \in SUBSET T /\ From(x) \in SUBSET T
    OBVIOUS
  <2>3. <<From(y), From(x)>> \in R
    BY <2>1, <2>2 DEF StrictSubsetOrdering
  <2> QED BY <1>5, <1>6, <2>3
<1> QED BY <1>6, <1>7

\* And a first one: the last of the mirror image.
LEMMA First ==
    ASSUME NEW T \in SUBSET Slots, T # {}
    PROVE  \E x \in T : \A y \in T : x <= y
<1> DEFINE Mirror == {k \in Slots : N - 1 - k \in T}
<1>1. N \in Nat /\ Slots = 0 .. N - 1
  BY MedianFilterAssumption DEF Slots
<1>2. ASSUME NEW y \in T PROVE N - 1 - y \in Mirror
  <2>1. N - 1 - y \in Slots /\ N - 1 - (N - 1 - y) = y
    BY <1>1
  <2> QED BY <2>1
<1>3. PICK m \in Mirror : \A k \in Mirror : k <= m
  BY <1>2, Last
<1>4. ASSUME NEW y \in T PROVE N - 1 - m <= y
  <2>1. N - 1 - y <= m
    BY <1>2, <1>3
  <2> QED BY <1>1, <2>1
<1> QED BY <1>3, <1>4

\* Compositions of injections.
LEMMA Composed ==
    ASSUME NEW f \in Injection(Slots, Slots), NEW g \in Injection(Slots, Slots)
    PROVE  [k \in Slots |-> g[f[k]]] \in Injection(Slots, Slots)
BY DEF Injection, IsInjective

-----------------------------------------------------------------------------
(* The sorted buffer                                                       *)

\* The search finds the value in the last slot that has it.
LEMMA Found ==
    ASSUME sortbuffer \in [Slots -> Values], NEW old,
           \E k \in Slots : sortbuffer[k] = old
    PROVE  LET i == CHOOSE k \in Slots : Finds(k, old)
           IN  i \in Slots /\ sortbuffer[i] = old
<1> DEFINE T == {k \in Slots : sortbuffer[k] = old}
<1>1. PICK x \in T : \A y \in T : y <= x
  BY Last
<1>2. x \in Slots /\ Finds(x, old)
  <2>1. N \in Nat
    BY MedianFilterAssumption
  <2>2. ASSUME NEW k \in x + 1 .. N - 1 PROVE sortbuffer[k] # old
    BY <1>1, <2>1 DEF Slots
  <2> QED BY <1>1, <2>2 DEF Finds
<1>3. ASSUME NEW k \in Slots, Finds(k, old) PROVE sortbuffer[k] = old
  <2>1. PICK y \in Slots : sortbuffer[y] = old
    OBVIOUS
  <2> QED BY <1>3, <2>1, MedianFilterAssumption DEF Finds, Slots
<1> QED BY <1>2, <1>3

\* How a bubble pass moves the values: the one in slot i is replaced, each
\* other keeps a slot of its own.
Moved(i, new, sorted, move) ==
    /\ move \in Injection(Slots, Slots)
    /\ sorted[move[i]] = new
    /\ \A k \in Slots : k # i => sorted[move[k]] = sortbuffer[k]

\* A pass upwards keeps the order and moves each value to one slot.
LEMMA BubbleUp ==
    ASSUME sortbuffer \in [Slots -> Values], InOrder, NEW i \in Slots,
           NEW new \in Values, new > sortbuffer[i]
    PROVE  /\ BubbledUp(i, new) \in [Slots -> Values]
           /\ \A k, q \in Slots : k < q => BubbledUp(i, new)[k] <= BubbledUp(i, new)[q]
           /\ \E move \in [Slots -> Slots] : Moved(i, new, BubbledUp(i, new), move)
<1> DEFINE B == BubbledUp(i, new)
           Passed(k) == PassedUp(i, new, k)
           T == {k \in Slots : k = i \/ Passed(k)}
<1>0. N \in Nat /\ Slots = 0 .. N - 1 /\ Values \subseteq Nat
  BY MedianFilterAssumption DEF Slots
<1>nat. new \in Nat /\ \A a \in Slots : sortbuffer[a] \in Nat
  BY <1>0
<1>ordered. \A a, b \in Slots : a <= b => sortbuffer[a] <= sortbuffer[b]
  <2>1. ASSUME NEW a \in Slots, NEW b \in Slots, a <= b
        PROVE  sortbuffer[a] <= sortbuffer[b]
    <3>1. CASE a = b
      BY <1>nat, <3>1
    <3>2. CASE a # b
      BY <1>0, <2>1, <3>2 DEF InOrder
    <3> QED BY <3>1, <3>2
  <2> QED BY <2>1
<1>1. ASSUME NEW k \in Slots, Passed(k), NEW q \in Slots, q <= k, q > i
      PROVE  Passed(q) /\ sortbuffer[q] < new
  BY <1>0, <1>1 DEF PassedUp
<1>2. ASSUME NEW k \in Slots, k > i, ~ Passed(k)
      PROVE  sortbuffer[k] >= new
  <2>1. PICK q \in i + 1 .. k : ~ (sortbuffer[q] < new)
    BY <1>2 DEF PassedUp
  <2>2. q \in Slots /\ q <= k
    BY <1>0, <2>1
  <2>3. sortbuffer[q] <= sortbuffer[k]
    BY <1>ordered, <2>2
  <2> QED BY <1>nat, <2>1, <2>2, <2>3
<1>3. PICK x \in T : \A y \in T : y <= x
  BY Last
<1>4. ASSUME NEW k \in Slots
      PROVE  B[k] = IF k >= i /\ k < x THEN sortbuffer[k + 1]
                    ELSE IF k = x THEN new ELSE sortbuffer[k]
  <2>1. x \in Slots /\ x >= i
    BY <1>0, <1>3 DEF PassedUp
  <2>2. \A q \in Slots : q > i => (Passed(q) <=> q <= x)
    BY <1>0, <1>1, <1>3, <2>1
  <2>3. \A q \in Slots : Passed(q) => q > i
    BY DEF PassedUp
  <2>4. k >= i /\ k < N - 1 /\ Passed(k + 1) <=> k >= i /\ k < x
    BY <1>0, <2>1, <2>2
  <2>5. k = i \/ Passed(k) <=> k >= i /\ k <= x
    BY <1>0, <2>1, <2>2, <2>3
  <2>6. B[k] = IF k >= i /\ k < N - 1 /\ Passed(k + 1) THEN sortbuffer[k + 1]
               ELSE IF k = i \/ Passed(k) THEN new ELSE sortbuffer[k]
    BY DEF BubbledUp
  <2> QED BY <1>0, <2>1, <2>4, <2>5, <2>6
<1>5. x \in Slots /\ x >= i
  BY <1>0, <1>3 DEF PassedUp
<1>6. B \in [Slots -> Values]
  <2>1. \A k \in Slots : B[k] \in Values
    BY <1>0, <1>4, <1>5
  <2> QED BY <2>1 DEF BubbledUp
<1>7. ASSUME NEW k \in Slots, NEW q \in Slots, k < q PROVE B[k] <= B[q]
  <2>1. \A a \in Slots : a > i /\ a <= x => sortbuffer[a] < new
    BY <1>0, <1>1, <1>3 DEF PassedUp
  <2>2. \A a \in Slots : a > x => sortbuffer[a] >= new
    <3>1. \A a \in Slots : a > x => ~ Passed(a) /\ a > i
      BY <1>0, <1>3, <1>5
    <3> QED BY <1>2, <3>1
  <2>6. CASE q < i
    BY <1>0, <1>4, <1>5, <1>7, <1>ordered, <2>6
  <2>7. CASE q > x
    <3>1. B[q] = sortbuffer[q]
      BY <1>0, <1>4, <1>5, <2>7
    <3>2. CASE k >= i /\ k < x
      BY <1>0, <1>4, <1>5, <1>7, <1>ordered, <2>7, <3>1, <3>2
    <3>3. CASE k = x
      BY <1>0, <1>4, <1>5, <1>7, <2>2, <2>7, <3>1, <3>3
    <3>4. CASE ~ (k >= i /\ k < x) /\ k # x
      BY <1>0, <1>4, <1>5, <1>7, <1>ordered, <2>7, <3>1, <3>4
    <3> QED BY <3>2, <3>3, <3>4
  <2>8. CASE q = x
    <3>1. B[q] = new
      BY <1>0, <1>4, <1>5, <2>8
    <3>2. CASE k >= i
      <4>1. B[k] = sortbuffer[k + 1] /\ k + 1 \in Slots /\ k + 1 > i /\ k + 1 <= x
        BY <1>0, <1>4, <1>5, <1>7, <2>8, <3>2
      <4> QED BY <2>1, <1>nat, <3>1, <4>1
    <3>3. CASE k < i
      <4>1. B[k] = sortbuffer[k]
        BY <1>0, <1>4, <1>5, <1>7, <2>8, <3>3
      <4>2. sortbuffer[k] <= sortbuffer[i]
        BY <1>0, <1>ordered, <3>3
      <4> QED BY <1>nat, <3>1, <4>1, <4>2
    <3> QED BY <1>0, <3>2, <3>3
  <2>9. CASE q >= i /\ q < x
    <3>1. B[q] = sortbuffer[q + 1] /\ q + 1 \in Slots
      BY <1>0, <1>4, <1>5, <2>9
    <3>2. \/ B[k] = sortbuffer[k]
          \/ B[k] = sortbuffer[k + 1] /\ k + 1 \in Slots
      BY <1>0, <1>4, <1>5, <1>7, <2>9
    <3> QED BY <1>0, <1>7, <1>ordered, <3>1, <3>2
  <2> QED BY <1>0, <1>5, <2>6, <2>7, <2>8, <2>9
<1>8. \E move \in [Slots -> Slots] : Moved(i, new, B, move)
  <2> DEFINE move == [k \in Slots |-> IF k = i THEN x
                                      ELSE IF k > i /\ k <= x THEN k - 1 ELSE k]
  <2>1. move \in [Slots -> Slots]
    BY <1>0, <1>5
  <2>2. move \in Injection(Slots, Slots)
    <3>1. ASSUME NEW a \in Slots, NEW b \in Slots, move[a] = move[b] PROVE a = b
      BY <1>0, <1>5, <3>1
    <3> QED BY <2>1, <3>1 DEF Injection, IsInjective
  <2>3. B[move[i]] = new
    BY <1>0, <1>4, <1>5
  <2>4. ASSUME NEW k \in Slots, k # i PROVE B[move[k]] = sortbuffer[k]
    <3> HIDE DEF B
    <3>1. CASE k > i /\ k <= x
      <4>1. move[k] = k - 1 /\ k - 1 \in Slots
        BY <1>0, <1>5, <3>1
      <4> QED BY <1>0, <1>4, <1>5, <3>1, <4>1
    <3>2. CASE ~ (k > i /\ k <= x)
      <4>1. move[k] = k
        BY <2>4, <3>2
      <4> QED BY <1>0, <1>4, <1>5, <2>4, <3>2, <4>1
    <3> QED BY <3>1, <3>2
  <2> QED BY <2>1, <2>2, <2>3, <2>4 DEF Moved
<1> QED BY <1>6, <1>7, <1>8

\* A pass downwards keeps the order and moves each value to one slot.
LEMMA BubbleDown ==
    ASSUME sortbuffer \in [Slots -> Values], InOrder, NEW i \in Slots,
           NEW new \in Values, new < sortbuffer[i]
    PROVE  /\ BubbledDown(i, new) \in [Slots -> Values]
           /\ \A k, q \in Slots :
                k < q => BubbledDown(i, new)[k] <= BubbledDown(i, new)[q]
           /\ \E move \in [Slots -> Slots] : Moved(i, new, BubbledDown(i, new), move)
<1> DEFINE B == BubbledDown(i, new)
           Passed(k) == PassedDown(i, new, k)
           T == {k \in Slots : k = i \/ Passed(k)}
<1>0. N \in Nat /\ Slots = 0 .. N - 1 /\ Values \subseteq Nat
  BY MedianFilterAssumption DEF Slots
<1>nat. new \in Nat /\ \A a \in Slots : sortbuffer[a] \in Nat
  BY <1>0
<1>ordered. \A a, b \in Slots : a <= b => sortbuffer[a] <= sortbuffer[b]
  <2>1. ASSUME NEW a \in Slots, NEW b \in Slots, a <= b
        PROVE  sortbuffer[a] <= sortbuffer[b]
    <3>1. CASE a = b
      BY <1>nat, <3>1
    <3>2. CASE a # b
      BY <1>0, <2>1, <3>2 DEF InOrder
    <3> QED BY <3>1, <3>2
  <2> QED BY <2>1
<1>1. ASSUME NEW k \in Slots, Passed(k), NEW q \in Slots, k <= q, q < i
      PROVE  Passed(q) /\ sortbuffer[q] > new
  BY <1>0, <1>1 DEF PassedDown
<1>2. ASSUME NEW k \in Slots, k < i, ~ Passed(k)
      PROVE  sortbuffer[k] <= new
  <2>1. PICK q \in k .. i - 1 : ~ (sortbuffer[q] > new)
    BY <1>2 DEF PassedDown
  <2>2. q \in Slots /\ k <= q
    BY <1>0, <2>1
  <2>3. sortbuffer[k] <= sortbuffer[q]
    BY <1>ordered, <2>2
  <2> QED BY <1>nat, <2>1, <2>2, <2>3
<1>3. PICK x \in T : \A y \in T : x <= y
  BY First
<1>5. x \in Slots /\ x <= i
  BY <1>0, <1>3 DEF PassedDown
<1>4. ASSUME NEW k \in Slots
      PROVE  B[k] = IF k <= i /\ k > x THEN sortbuffer[k - 1]
                    ELSE IF k = x THEN new ELSE sortbuffer[k]
  <2>2. \A q \in Slots : q < i => (Passed(q) <=> x <= q)
    BY <1>0, <1>1, <1>3, <1>5
  <2>3. \A q \in Slots : Passed(q) => q < i
    BY DEF PassedDown
  <2>4. k <= i /\ k > 0 /\ Passed(k - 1) <=> k <= i /\ k > x
    BY <1>0, <1>5, <2>2
  <2>5. k = i \/ Passed(k) <=> k <= i /\ x <= k
    BY <1>0, <1>5, <2>2, <2>3
  <2>6. B[k] = IF k <= i /\ k > 0 /\ Passed(k - 1) THEN sortbuffer[k - 1]
               ELSE IF k = i \/ Passed(k) THEN new ELSE sortbuffer[k]
    BY DEF BubbledDown
  <2> QED BY <1>0, <1>5, <2>4, <2>5, <2>6
<1>6. B \in [Slots -> Values]
  <2>1. \A k \in Slots : B[k] \in Values
    BY <1>0, <1>4, <1>5
  <2> QED BY <2>1 DEF BubbledDown
<1>7. ASSUME NEW k \in Slots, NEW q \in Slots, k < q PROVE B[k] <= B[q]
  <2>1. \A a \in Slots : a < i /\ x <= a => sortbuffer[a] > new
    BY <1>0, <1>1, <1>3 DEF PassedDown
  <2>2. \A a \in Slots : a < x => sortbuffer[a] <= new
    <3>1. \A a \in Slots : a < x => ~ Passed(a) /\ a < i
      BY <1>0, <1>3, <1>5
    <3> QED BY <1>2, <3>1
  <2>3. CASE k > i
    BY <1>0, <1>4, <1>5, <1>7, <1>ordered, <2>3
  <2>4. CASE k < x
    <3>1. B[k] = sortbuffer[k]
      BY <1>0, <1>4, <1>5, <2>4
    <3>2. CASE q <= i /\ q > x
      BY <1>0, <1>4, <1>5, <1>7, <1>ordered, <2>4, <3>1, <3>2
    <3>3. CASE q = x
      BY <1>0, <1>4, <1>5, <1>7, <2>2, <2>4, <3>1, <3>3
    <3>4. CASE ~ (q <= i /\ q > x) /\ q # x
      BY <1>0, <1>4, <1>5, <1>7, <1>ordered, <2>4, <3>1, <3>4
    <3> QED BY <3>2, <3>3, <3>4
  <2>5. CASE k = x
    <3>1. B[k] = new
      BY <1>0, <1>4, <1>5, <2>5
    <3>2. CASE q <= i
      <4>1. B[q] = sortbuffer[q - 1] /\ q - 1 \in Slots /\ q - 1 < i /\ x <= q - 1
        BY <1>0, <1>4, <1>5, <1>7, <2>5, <3>2
      <4> QED BY <1>nat, <2>1, <3>1, <4>1
    <3>3. CASE q > i
      <4>1. B[q] = sortbuffer[q]
        BY <1>0, <1>4, <1>5, <1>7, <2>5, <3>3
      <4>2. sortbuffer[i] <= sortbuffer[q]
        BY <1>0, <1>ordered, <3>3
      <4> QED BY <1>nat, <3>1, <4>1, <4>2
    <3> QED BY <1>0, <3>2, <3>3
  <2>6. CASE k <= i /\ k > x
    <3>1. B[k] = sortbuffer[k - 1] /\ k - 1 \in Slots
      BY <1>0, <1>4, <1>5, <2>6
    <3>2. \/ B[q] = sortbuffer[q]
          \/ B[q] = sortbuffer[q - 1] /\ q - 1 \in Slots
      BY <1>0, <1>4, <1>5, <1>7, <2>6
    <3> QED BY <1>0, <1>7, <1>ordered, <3>1, <3>2
  <2> QED BY <1>0, <1>5, <2>3, <2>4, <2>5, <2>6
<1>8. \E move \in [Slots -> Slots] : Moved(i, new, B, move)
  <2> DEFINE move == [k \in Slots |-> IF k = i THEN x
                                      ELSE IF k < i /\ x <= k THEN k + 1 ELSE k]
  <2>1. move \in [Slots -> Slots]
    BY <1>0, <1>5
  <2>2. move \in Injection(Slots, Slots)
    <3>1. ASSUME NEW a \in Slots, NEW b \in Slots, move[a] = move[b] PROVE a = b
      BY <1>0, <1>5, <3>1
    <3> QED BY <2>1, <3>1 DEF Injection, IsInjective
  <2>3. B[move[i]] = new
    BY <1>0, <1>4, <1>5
  <2>4. ASSUME NEW k \in Slots, k # i PROVE B[move[k]] = sortbuffer[k]
    <3> HIDE DEF B
    <3>1. CASE k < i /\ x <= k
      <4>1. move[k] = k + 1 /\ k + 1 \in Slots
        BY <1>0, <1>5, <3>1
      <4>2. k + 1 <= i /\ k + 1 > x /\ (k + 1) - 1 = k
        BY <1>0, <1>5, <3>1
      <4>3. B[k + 1] = sortbuffer[(k + 1) - 1]
        BY <1>4, <4>1, <4>2
      <4> QED BY <4>1, <4>2, <4>3
    <3>2. CASE ~ (k < i /\ x <= k)
      <4>1. move[k] = k
        BY <2>4, <3>2
      <4> QED BY <1>0, <1>4, <1>5, <2>4, <3>2, <4>1
    <3> QED BY <3>1, <3>2
  <2> QED BY <2>1, <2>2, <2>3, <2>4 DEF Moved
<1> QED BY <1>6, <1>7, <1>8

-----------------------------------------------------------------------------
(* The steps                                                               *)

LEMMA Begins == Init => IInv
<1> SUFFICES ASSUME Init PROVE IInv
  OBVIOUS
<1>1. N \in Nat \ {0} /\ 0 \in Values /\ capacity \in Nat \ {0}
  BY MedianFilterAssumption, Sizes
<1>2. TypeOK
  <2>1. recent \in Seq([ts : Times, val : Values])
    BY DEF Init
  <2> QED BY <1>1, <2>1 DEF Init, TypeOK, Places
<1>3. InOrder
  BY DEF Init, InOrder
<1>4. SameValues
  <2> DEFINE id == [k \in Slots |-> k]
  <2>1. id \in [Slots -> Slots] /\ Matches(inbuffer, sortbuffer, id)
    BY DEF Matches, Init, Injection, IsInjective
  <2> QED BY <2>1 DEF SameValues
<1>5. Ring /\ Stamps
  <2>1. Len(recent) = 0 /\ N > 0 /\ capacity > 0 /\ 1 .. 0 = {} /\ 0 .. 0 - 1 = {}
    BY <1>1 DEF Init
  <2>2. Ring
    BY <1>1, <2>1 DEF Init, Ring
  <2>3. Stamps
    BY <1>1, <2>1 DEF Init, Stamps
  <2> QED BY <2>2, <2>3
<1> QED BY <1>2, <1>3, <1>4, <1>5 DEF IInv

\* One value: both buffers keep the same values, the sorted one in order.
LEMMA ValueAdded ==
    ASSUME TypeOK, InOrder, SameValues, NEW new \in Values, AddValue(new)
    PROVE  /\ inbuffer' \in [Slots -> Values]
           /\ sortbuffer' \in [Slots -> Values]
           /\ InOrder'
           /\ SameValues'
<1> DEFINE s == NextSlot
           old == inbuffer[s]
           i == CHOOSE k \in Slots : Finds(k, old)
<1>0. N \in Nat \ {0} /\ Slots = 0 .. N - 1 /\ Values \subseteq Nat
  BY MedianFilterAssumption, Sizes DEF Slots
<1>1. s \in Slots /\ inbuffer \in [Slots -> Values] /\ sortbuffer \in [Slots -> Values]
  BY <1>0 DEF TypeOK, NextSlot
<1>2. inbuffer' = [inbuffer EXCEPT ![s] = new] /\ sortbuffer' = Sorted(old, new)
  BY DEF AddValue
<1>3. PICK place \in [Slots -> Slots] : Matches(inbuffer, sortbuffer, place)
  BY DEF SameValues
<1>4. i \in Slots /\ sortbuffer[i] = old
  <2>1. place[s] \in Slots /\ sortbuffer[place[s]] = old
    BY <1>1, <1>3 DEF Matches
  <2> HIDE DEF old
  <2> QED BY <1>1, <2>1, Found
<1>5. inbuffer' \in [Slots -> Values]
  BY <1>1, <1>2
<1> HIDE DEF i, s
<1>6. CASE new = old
  <2>1. inbuffer' = inbuffer /\ sortbuffer' = sortbuffer
    BY <1>1, <1>2, <1>6 DEF Sorted
  <2> QED BY <1>1, <2>1 DEF InOrder, SameValues, Slots
<1>7. CASE new # old
  <2>0. (new > old \/ new < old) /\ (new < old => ~ (new > old))
    <3>1. new \in Nat /\ old \in Nat
      BY <1>0, <1>1
    <3> HIDE DEF old
    <3> QED BY <1>7, <3>1
  <2>1. /\ sortbuffer' \in [Slots -> Values]
        /\ \A k, q \in Slots : k < q => sortbuffer'[k] <= sortbuffer'[q]
        /\ \E move \in [Slots -> Slots] : Moved(i, new, sortbuffer', move)
    <3>1. CASE new > old
      <4>1. sortbuffer' = BubbledUp(i, new)
        BY <1>2, <1>7, <3>1 DEF Sorted, i
      <4> QED BY <1>1, <1>4, <3>1, <4>1, BubbleUp
    <3>2. CASE new < old
      <4>1. sortbuffer' = BubbledDown(i, new)
        BY <1>2, <1>7, <2>0, <3>2 DEF Sorted, i
      <4> QED BY <1>1, <1>4, <3>2, <4>1, BubbleDown
    <3> QED BY <2>0, <3>1, <3>2
  <2>2. PICK move \in [Slots -> Slots] : Moved(i, new, sortbuffer', move)
    BY <2>1
  <2>3. InOrder'
    BY <2>1 DEF InOrder, Slots
  \* The slot that is overwritten and the one that was found exchange places.
  <2> DEFINE through == [k \in Slots |-> IF k = s THEN i
                                         ELSE IF place[k] = i THEN place[s] ELSE place[k]]
             place2 == [k \in Slots |-> move[through[k]]]
  <2>4. through \in Injection(Slots, Slots)
    <3>1. \A a, b \in Slots : place[a] = place[b] => a = b
      BY <1>3 DEF Matches, Injection, IsInjective
    <3>2. through \in [Slots -> Slots]
      BY <1>1, <1>3, <1>4
    <3>3. ASSUME NEW a \in Slots, NEW b \in Slots, through[a] = through[b] PROVE a = b
      BY <1>1, <1>3, <1>4, <3>1, <3>3
    <3> QED BY <3>2, <3>3 DEF Injection, IsInjective
  <2>5. place2 \in Injection(Slots, Slots)
    BY <2>2, <2>4, Composed DEF Moved
  <2>6. ASSUME NEW k \in Slots PROVE inbuffer'[k] = sortbuffer'[place2[k]]
    <3>1. CASE k = s
      <4>1. through[k] = i /\ inbuffer'[k] = new
        BY <1>1, <1>2, <3>1
      <4> QED BY <2>2, <4>1 DEF Moved
    <3>2. CASE k # s
      <4>1. through[k] \in Slots /\ through[k] # i
        BY <1>1, <1>3, <1>4, <3>2 DEF Matches, Injection, IsInjective
      <4>2. inbuffer'[k] = inbuffer[k] /\ inbuffer[k] = sortbuffer[place[k]]
        BY <1>1, <1>2, <1>3, <3>2 DEF Matches
      <4>3. sortbuffer[place[s]] = old
        BY <1>1, <1>3 DEF Matches
      <4>4. sortbuffer[through[k]] = inbuffer[k]
        BY <1>4, <3>2, <4>2, <4>3
      <4> QED BY <2>2, <4>1, <4>2, <4>4 DEF Moved
    <3> QED BY <3>1, <3>2
  <2>7. Matches(inbuffer', sortbuffer', place2) /\ place2 \in [Slots -> Slots]
    BY <2>5, <2>6 DEF Matches, Injection
  <2>8. SameValues'
    <3> HIDE DEF place2
    <3> QED BY <2>7 DEF SameValues, Slots, Matches
  <2> QED BY <1>5, <2>1, <2>3, <2>8
<1> QED BY <1>6, <1>7, <1>5

\* The window after a sample: one longer, or the same length and one later.
LEMMA NextWindow ==
    ASSUME TypeOK, Len(recent) <= N, NEW ts \in Times, NEW new \in Values,
           recent' = Window(Append(recent, [ts |-> ts, val |-> new]))
    PROVE  /\ recent' \in Seq([ts : Times, val : Values])
           /\ LET shift == IF Len(recent) = N THEN 1 ELSE 0
              IN  /\ Len(recent') = Len(recent) + 1 - shift
                  /\ \A k \in 1 .. Len(recent') - 1 : recent'[k] = recent[k + shift]
                  /\ recent'[Len(recent')] = [ts |-> ts, val |-> new]
<1> DEFINE smp == [ts |-> ts, val |-> new]
           app == Append(recent, smp)
<1>1. N \in Nat \ {0} /\ recent \in Seq([ts : Times, val : Values]) /\ Len(recent) \in Nat
  BY MedianFilterAssumption, Sizes DEF TypeOK
<1>2. smp \in [ts : Times, val : Values]
  OBVIOUS
<1> HIDE DEF smp
<1>3. /\ app \in Seq([ts : Times, val : Values])
      /\ Len(app) = Len(recent) + 1
      /\ \A k \in 1 .. Len(recent) : app[k] = recent[k]
      /\ app[Len(recent) + 1] = smp
  BY <1>1, <1>2
<1> HIDE DEF app
<1>4. recent' = IF Len(app) > N THEN Tail(app) ELSE app
  BY DEF Window, app, smp
<1>5. CASE Len(recent) = N
  <2>1. recent' = Tail(app) /\ app # <<>>
    BY <1>1, <1>3, <1>4, <1>5
  <2>2. /\ Len(recent') = Len(recent)
        /\ \A k \in 1 .. Len(recent') : recent'[k] = app[k + 1]
        /\ recent' \in Seq([ts : Times, val : Values])
    <3>1. /\ Tail(app) \in Seq([ts : Times, val : Values])
          /\ Len(Tail(app)) = Len(app) - 1
          /\ \A k \in 1 .. Len(Tail(app)) : Tail(app)[k] = app[k + 1]
      BY <1>3, <2>1, HeadTailProperties
    <3>2. Len(app) - 1 = Len(recent)
      BY <1>1, <1>3
    <3> QED BY <2>1, <3>1, <3>2
  <2>3. \A k \in 1 .. Len(recent') - 1 : recent'[k] = recent[k + 1]
    BY <1>1, <1>3, <2>2
  <2>4. recent'[Len(recent')] = smp
    BY <1>1, <1>3, <1>5, <2>2
  <2> QED BY <1>1, <1>5, <2>2, <2>3, <2>4 DEF smp
<1>6. CASE Len(recent) < N
  <2>1. recent' = app
    BY <1>1, <1>3, <1>4, <1>6
  <2>2. /\ Len(recent') = Len(recent) + 1
        /\ \A k \in 1 .. Len(recent') - 1 : recent'[k] = recent[k]
        /\ recent'[Len(recent')] = smp
    <3>1. Len(app) = Len(recent) + 1 /\ Len(app) - 1 = Len(recent)
      BY <1>1, <1>3
    <3> QED BY <1>3, <2>1, <3>1
  <2>3. \A k \in 1 .. Len(recent') - 1 : k + 0 = k
    OBVIOUS
  <2>4. Len(recent) # N /\ Len(recent) + 1 - 0 = Len(recent) + 1
    BY <1>1, <1>6
  <2> QED BY <1>3, <2>1, <2>2, <2>3, <2>4 DEF smp
<1> QED BY <1>1, <1>5, <1>6

\* One value: each sample of the window stays in its slot.
LEMMA RingKept ==
    ASSUME TypeOK, Ring, NEW ts \in Times, NEW new \in Values, AddRawValue(ts, new)
    PROVE  Ring' /\ buffer_ptr' \in 0 .. N /\ unfilled' \in 0 .. N
<1> DEFINE L == Len(recent)
           shift == IF L = N THEN 1 ELSE 0
<1>1. /\ N \in Nat \ {0} /\ Slots = 0 .. N - 1 /\ L \in 0 .. N
      /\ buffer_ptr \in 0 .. N /\ unfilled \in 0 .. N
  <2>1. L \in Nat
    BY DEF TypeOK
  <2> QED BY <2>1, MedianFilterAssumption, Sizes DEF Slots, TypeOK, Ring
<1>2. /\ Len(recent') = L + 1 - shift
      /\ \A k \in 1 .. Len(recent') - 1 : recent'[k] = recent[k + shift]
      /\ recent'[Len(recent')].val = new
  <2>1. recent' = Window(Append(recent, [ts |-> ts, val |-> new]))
    BY DEF AddRawValue
  <2> QED BY <1>1, <2>1, NextWindow
<1> HIDE DEF L
<1>0. Len(recent') \in 1 .. N /\ (L < N => shift = 0) /\ (L = N => shift = 1)
  BY <1>1, <1>2
<1> HIDE DEF shift
<1>3. /\ unfilled' = StillUnfilled /\ buffer_ptr' = NextSlot
      /\ inbuffer' = [inbuffer EXCEPT ![NextSlot] = new]
      /\ inbuffer \in [Slots -> Values]
  BY DEF AddRawValue, AddValue, TypeOK
<1>4. /\ unfilled = N - L
      /\ L < N => buffer_ptr = N - L
      /\ L = N => buffer_ptr < N
      /\ \A k \in 1 .. L : recent[k].val = inbuffer[Around(buffer_ptr + L - k)]
  BY DEF Ring, L
<1>5. /\ buffer_ptr' \in Slots
      /\ L < N => buffer_ptr' = N - L - 1
      /\ L = N => buffer_ptr' = IF buffer_ptr = 0 THEN N - 1 ELSE buffer_ptr - 1
  BY <1>1, <1>3, <1>4 DEF NextSlot
<1>6. unfilled' = N - Len(recent') /\ unfilled' \in 0 .. N
  BY <1>0, <1>1, <1>2, <1>3, <1>4 DEF StillUnfilled
<1>7. ASSUME NEW k \in 1 .. Len(recent')
      PROVE  recent'[k].val = inbuffer'[Around(buffer_ptr' + Len(recent') - k)]
  <2>1. CASE k = Len(recent')
    <3>1. Around(buffer_ptr' + Len(recent') - k) = buffer_ptr'
      <4>0. buffer_ptr' \in Int /\ Len(recent') \in Int /\ ~ (buffer_ptr' >= N)
        BY <1>0, <1>1, <1>5
      <4>1. buffer_ptr' + Len(recent') - k = buffer_ptr'
        <5>1. \A a, b \in Int : a + b - b = a
          OBVIOUS
        <5> QED BY <4>0, <5>1, <2>1
      <4> QED BY <4>0, <4>1 DEF Around
    <3>2. inbuffer'[buffer_ptr'] = new
      BY <1>3, <1>5
    <3> QED BY <1>2, <2>1, <3>1, <3>2
  <2>2. CASE k < Len(recent')
    <3> DEFINE j == k + shift
               slot == Around(buffer_ptr + L - j)
    <3>1. j \in 1 .. L /\ recent'[k] = recent[j]
      BY <1>0, <1>1, <1>2, <2>2
    <3>2. /\ Around(buffer_ptr' + Len(recent') - k) = slot
          /\ slot \in Slots /\ slot # buffer_ptr'
      <4>1. CASE L < N
        BY <1>1, <1>2, <1>4, <1>5, <2>2, <4>1, <1>0 DEF Around
      <4>2. CASE L = N /\ buffer_ptr = 0
        BY <1>1, <1>2, <1>4, <1>5, <2>2, <4>2, <1>0 DEF Around
      <4>3. CASE L = N /\ buffer_ptr # 0
        BY <1>1, <1>2, <1>4, <1>5, <2>2, <4>3, <1>0 DEF Around
      <4> QED BY <1>1, <4>1, <4>2, <4>3
    <3>3. inbuffer'[slot] = inbuffer[slot]
      BY <1>3, <3>2
    <3>4. recent[j].val = inbuffer[slot]
      BY <1>4, <3>1
    <3> QED BY <3>1, <3>2, <3>3, <3>4
  <2> QED BY <1>0, <2>1, <2>2
<1>8. /\ Len(recent') <= N
      /\ Len(recent') < N => buffer_ptr' = N - Len(recent')
      /\ Len(recent') = N => buffer_ptr' < N
  BY <1>0, <1>1, <1>2, <1>5
<1> QED BY <1>1, <1>5, <1>6, <1>7, <1>8 DEF Ring

\* One sample: the times kept are those of the last samples.
LEMMA StampsKept ==
    ASSUME TypeOK, Ring, Stamps, NEW ts \in Times, NEW new \in Values,
           AddRawValue(ts, new)
    PROVE  /\ Stamps'
           /\ times' \in [Places -> Times \cup {NoTime}]
           /\ head' \in Places /\ tail' \in Places /\ count' \in 0 .. capacity
<1> DEFINE L == Len(recent)
           shift == IF L = N THEN 1 ELSE 0
<1>1. /\ N \in Nat \ {0} /\ capacity \in Nat \ {0} /\ capacity <= N
      /\ Places = 0 .. capacity - 1 /\ L \in 0 .. N
      /\ times \in [Places -> Times \cup {NoTime}]
      /\ head \in Places /\ tail \in Places /\ count \in 0 .. capacity
  BY MedianFilterAssumption, Sizes DEF Places, TypeOK, Ring
<1>2. /\ Len(recent') = L + 1 - shift
      /\ \A k \in 1 .. Len(recent') - 1 : recent'[k] = recent[k + shift]
      /\ recent'[Len(recent')].ts = ts
  <2>1. recent' = Window(Append(recent, [ts |-> ts, val |-> new]))
    BY DEF AddRawValue
  <2> QED BY <1>1, <2>1, NextWindow
<1>3. /\ tail' = Follows(tail)
      /\ times' = [times EXCEPT ![tail'] = ts]
      /\ count = capacity => head' = Follows(head) /\ count' = count
      /\ count # capacity => count' = count + 1 /\ head' = IF count = 0 THEN tail' ELSE head
  BY DEF AddRawValue, Push
<1>4. /\ count = IF L < capacity THEN L ELSE capacity
      /\ count > 0 => head = Back(tail - (count - 1))
      /\ \A j \in 0 .. count - 1 : times[Back(tail - j)] = recent[L - j].ts
  BY DEF Stamps
<1>5. tail' \in Places /\ head' \in Places /\ count' \in 0 .. capacity
  BY <1>1, <1>3 DEF Follows
<1>6. times' \in [Places -> Times \cup {NoTime}]
  BY <1>1, <1>3, <1>5
<1>7. count' = IF Len(recent') < capacity THEN Len(recent') ELSE capacity
  BY <1>1, <1>2, <1>3, <1>4
<1>8. count' > 0 => head' = Back(tail' - (count' - 1))
  <2>1. CASE count = capacity
    <3>1. head = Back(tail - (capacity - 1)) /\ head' = Follows(head) /\ count' = capacity
      <4>1. count > 0
        BY <1>1, <2>1
      <4> QED BY <1>3, <1>4, <2>1, <4>1
    <3> QED BY <1>1, <1>3, <3>1 DEF Back, Follows
  <2>2. CASE count = 0
    BY <1>1, <1>3, <1>5, <2>2 DEF Back
  <2>3. CASE count > 0 /\ count < capacity
    <3>1. head = Back(tail - (count - 1)) /\ head' = head /\ count' = count + 1
      <4>1. count # capacity /\ count # 0
        BY <1>1, <2>3
      <4> QED BY <1>3, <1>4, <2>3, <4>1
    <3> QED BY <1>1, <1>3, <2>3, <3>1 DEF Back, Follows
  <2> QED BY <1>1, <2>1, <2>2, <2>3
<1>9. ASSUME NEW j \in Nat, j < count'
      PROVE  times'[Back(tail' - j)] = recent'[Len(recent') - j].ts
  <2>1. CASE j = 0
    <3>1. Back(tail' - j) = tail' /\ Len(recent') - j = Len(recent')
      <4>1. \A x \in Nat : x - 0 = x /\ ~ (x < 0)
        OBVIOUS
      <4>2. tail' \in Nat /\ Len(recent') \in Nat
        BY <1>1, <1>2, <1>5
      <4> QED BY <2>1, <4>1, <4>2 DEF Back
    <3> QED BY <1>1, <1>2, <1>3, <1>5, <3>1
  <2>2. CASE j > 0
    <3>1. j - 1 \in 0 .. count - 1 /\ j < capacity /\ j < Len(recent')
      <4>2. count' <= capacity /\ count' <= count + 1 /\ count' \in Nat /\ count \in Nat
        BY <1>1, <1>3, <1>5
      <4>3. Len(recent') \in Nat /\ count' <= Len(recent')
        <5>1. Len(recent') \in Nat
          BY <1>1, <1>2
        <5> QED BY <1>1, <1>7, <5>1
      <4>4. capacity \in Nat
        BY <1>1
      <4> QED BY <1>9, <2>2, <4>2, <4>3, <4>4
    <3>2. Back(tail' - j) = Back(tail - (j - 1)) /\ Back(tail' - j) \in Places
      BY <1>1, <1>3, <2>2, <3>1 DEF Back, Follows
    <3>3. Back(tail' - j) # tail'
      BY <1>1, <1>5, <2>2, <3>1 DEF Back
    <3>4. recent'[Len(recent') - j] = recent[L - (j - 1)]
      <4>1. Len(recent') - j \in 1 .. Len(recent') - 1
        BY <1>1, <1>2, <2>2, <3>1
      <4>2. Len(recent') - j + shift = L - (j - 1)
        BY <1>1, <1>2, <3>1
      <4> QED BY <1>2, <4>1, <4>2
    <3>5. times'[Back(tail' - j)] = times[Back(tail' - j)]
      BY <1>1, <1>3, <3>2, <3>3
    <3>6. times[Back(tail - (j - 1))] = recent[L - (j - 1)].ts
      BY <1>4, <3>1
    <3> QED BY <3>2, <3>4, <3>5, <3>6
  <2> QED BY <1>9, <2>1, <2>2
<1>10. \A j \in 0 .. count' - 1 : j \in Nat /\ j < count'
  <2>1. \A n \in Nat : \A j \in 0 .. n - 1 : j \in Nat /\ j < n
    OBVIOUS
  <2>2. count' \in Nat
    BY <1>1, <1>5
  <2> QED BY <2>1, <2>2
<1> QED BY <1>5, <1>6, <1>7, <1>8, <1>9, <1>10 DEF Stamps

LEMMA Steps == IInv /\ [Next]_vars => IInv'
<1> SUFFICES ASSUME IInv, [Next]_vars PROVE IInv'
  OBVIOUS
<1>1. ASSUME NEW ts \in Times, NEW new \in Values, AddRawValue(ts, new) PROVE IInv'
  <2>1. /\ inbuffer' \in [Slots -> Values] /\ sortbuffer' \in [Slots -> Values]
        /\ InOrder' /\ SameValues'
    BY <1>1, ValueAdded DEF IInv, AddRawValue
  <2>2. Ring' /\ buffer_ptr' \in 0 .. N /\ unfilled' \in 0 .. N
    BY <1>1, RingKept DEF IInv
  <2>3. /\ Stamps' /\ times' \in [Places -> Times \cup {NoTime}]
        /\ head' \in Places /\ tail' \in Places /\ count' \in 0 .. capacity
    BY <1>1, StampsKept DEF IInv
  <2>4. recent' \in Seq([ts : Times, val : Values])
    BY <1>1, NextWindow DEF IInv, Ring, AddRawValue
  <2>5. TypeOK'
    BY <2>1, <2>2, <2>3, <2>4 DEF TypeOK, Slots, Places, capacity
  <2> QED BY <2>1, <2>2, <2>3, <2>5 DEF IInv
<1>2. CASE UNCHANGED vars
  BY <1>2 DEF IInv, vars, TypeOK, InOrder, SameValues, Matches, Ring, Stamps, Slots,
     Places, capacity, Around, Back
<1> QED BY <1>1, <1>2 DEF Next

LEMMA Invariant == Spec => []IInv
<1>1. Init => IInv
  BY Begins
<1>2. IInv /\ [Next]_vars => IInv'
  BY Steps
<1> QED BY <1>1, <1>2, PTL DEF Spec

-----------------------------------------------------------------------------
(* What the filter answers                                                 *)

\* The place of each sample of a full window in the sorted buffer.
LEMMA SamplePlaces ==
    ASSUME IInv, IsFilled
    PROVE  /\ Len(recent) = N
           /\ \E pos \in Injection(1 .. N, Slots) :
                \A k \in 1 .. N : recent[k].val = sortbuffer[pos[k]]
<1>1. N \in Nat \ {0} /\ Slots = 0 .. N - 1 /\ Len(recent) \in Nat
  BY MedianFilterAssumption, Sizes DEF Slots, IInv, TypeOK
<1>2. /\ Len(recent) = N /\ buffer_ptr \in Slots
      /\ \A k \in 1 .. N : recent[k].val = inbuffer[Around(buffer_ptr + N - k)]
  <2>1. Len(recent) = N
    BY <1>1 DEF IInv, IsFilled, Ring
  <2> QED BY <1>1, <2>1 DEF IInv, Ring, TypeOK
<1>3. PICK place \in [Slots -> Slots] : Matches(inbuffer, sortbuffer, place)
  BY DEF IInv, SameValues
<1> DEFINE slot(k) == Around(buffer_ptr + N - k)
           pos == [k \in 1 .. N |-> place[slot(k)]]
<1>4. \A k \in 1 .. N : slot(k) \in Slots
  BY <1>1, <1>2 DEF Around
<1>5. \A k, j \in 1 .. N : slot(k) = slot(j) => k = j
  <2>1. ASSUME NEW k \in 1 .. N, NEW j \in 1 .. N, k < j PROVE slot(k) # slot(j)
    <3>1. CASE buffer_ptr + N - k >= N
      BY <1>1, <1>2, <2>1, <3>1 DEF Around
    <3>2. CASE ~ (buffer_ptr + N - k >= N)
      BY <1>1, <1>2, <2>1, <3>2 DEF Around
    <3> QED BY <3>1, <3>2
  <2>2. \A k, j \in 1 .. N : k = j \/ k < j \/ j < k
    BY <1>1
  <2> HIDE DEF slot
  <2> QED BY <2>1, <2>2
<1> HIDE DEF slot
<1>6. pos \in Injection(1 .. N, Slots)
  <2>1. \A a, b \in Slots : place[a] = place[b] => a = b
    BY <1>3 DEF Matches, Injection, IsInjective
  <2>2. pos \in [1 .. N -> Slots]
    BY <1>4
  <2>3. \A k, j \in 1 .. N : pos[k] = pos[j] => k = j
    BY <1>4, <1>5, <2>1
  <2> QED BY <2>2, <2>3 DEF Injection, IsInjective
<1>7. \A k \in 1 .. N : recent[k].val = sortbuffer[pos[k]]
  BY <1>2, <1>3, <1>4 DEF Matches, slot
<1> QED BY <1>2, <1>6, <1>7

\* Samples on one side of the median are in one half of the sorted buffer.
LEMMA HalfTheWindow ==
    ASSUME IInv, IsFilled, NEW A \in SUBSET (1 .. N),
           NEW from \in Slots, NEW to \in Slots \cup {-1},
           to - from + 1 = median_ptr,
           NEW pos \in Injection(1 .. N, Slots),
           \A k \in A : pos[k] \in from .. to
    PROVE  Cardinality(A) <= N \div 2
<1> DEFINE half == [k \in A |-> pos[k]]
<1>1. half \in Injection(A, from .. to)
  BY DEF Injection, IsInjective
<1>2. from \in Int /\ to \in Int /\ median_ptr \in Nat
  BY Sizes, MedianFilterAssumption DEF Slots
<1>3. IsFiniteSet(from .. to) /\ Cardinality(from .. to) = median_ptr
  BY <1>2, FS_Interval
<1>4. Cardinality(A) <= Cardinality(from .. to)
  <2> HIDE DEF half
  <2> QED BY <1>1, <1>3, FS_Injection
<1> QED BY <1>3, <1>4 DEF median_ptr

LEMMA MedianFact == IInv => MedianOfWindow
<1> SUFFICES ASSUME IInv PROVE MedianOfWindow
  OBVIOUS
<1>1. /\ N \in Nat \ {0} /\ Slots = 0 .. N - 1 /\ Values \subseteq Nat
      /\ median_ptr \in Slots /\ N = 2 * median_ptr + 1
      /\ Len(recent) \in Nat /\ sortbuffer \in [Slots -> Values]
  BY MedianFilterAssumption, Sizes DEF Slots, IInv, TypeOK
<1>2. IsFilled <=> Len(recent) = N
  BY <1>1 DEF IsFilled, IInv, Ring
<1>3. ASSUME IsFilled
      PROVE  /\ \E k \in 1 .. N : recent[k].val = Median
             /\ Cardinality({k \in 1 .. N : recent[k].val < Median}) <= N \div 2
             /\ Cardinality({k \in 1 .. N : recent[k].val > Median}) <= N \div 2
  <2>1. PICK pos \in Injection(1 .. N, Slots) :
          \A k \in 1 .. N : recent[k].val = sortbuffer[pos[k]]
    BY <1>3, SamplePlaces
  <2>2. \A k \in 1 .. N : pos[k] \in Slots
    BY <2>1 DEF Injection
  <2>3. \A a, b \in Slots : a < b => sortbuffer[a] <= sortbuffer[b]
    BY DEF IInv, InOrder
  <2>4. \A a \in Slots : sortbuffer[a] \in Nat
    BY <1>1
  <2>5. Cardinality({k \in 1 .. N : recent[k].val < Median}) <= N \div 2
    <3> DEFINE A == {k \in 1 .. N : recent[k].val < Median}
    <3>1. ASSUME NEW k \in A PROVE pos[k] \in 0 .. median_ptr - 1
      <4>1. pos[k] \in Slots /\ sortbuffer[pos[k]] < sortbuffer[median_ptr]
        BY <2>1, <2>2 DEF Median
      <4>2. ~ (median_ptr < pos[k]) /\ median_ptr # pos[k]
        BY <1>1, <2>3, <2>4, <4>1
      <4> QED BY <1>1, <4>1, <4>2
    <3>2. 0 \in Slots /\ median_ptr - 1 \in Slots \cup {-1}
          /\ (median_ptr - 1) - 0 + 1 = median_ptr
      BY <1>1
    <3>3. A \in SUBSET (1 .. N)
      OBVIOUS
    <3> HIDE DEF A
    <3>4. Cardinality(A) <= N \div 2
      BY <1>3, <3>1, <3>2, <3>3, HalfTheWindow
    <3> QED BY <3>4 DEF A
  <2>6. Cardinality({k \in 1 .. N : recent[k].val > Median}) <= N \div 2
    <3> DEFINE A == {k \in 1 .. N : recent[k].val > Median}
    <3>1. ASSUME NEW k \in A PROVE pos[k] \in median_ptr + 1 .. N - 1
      <4>1. pos[k] \in Slots /\ sortbuffer[pos[k]] > sortbuffer[median_ptr]
        BY <2>1, <2>2 DEF Median
      <4>2. ~ (pos[k] < median_ptr) /\ median_ptr # pos[k]
        BY <1>1, <2>3, <2>4, <4>1
      <4> QED BY <1>1, <4>1, <4>2
    <3>2. CASE median_ptr = 0
      <4>1. A = {}
        <5>1. median_ptr + 1 .. N - 1 = {}
          BY <1>1, <3>2
        <5> HIDE DEF A
        <5> QED BY <3>1, <5>1
      <4>2. 0 <= N \div 2
        BY <1>1
      <4> QED BY <4>1, <4>2, FS_EmptySet
    <3>3. CASE median_ptr # 0
      <4>1. median_ptr + 1 \in Slots /\ N - 1 \in Slots \cup {-1}
            /\ (N - 1) - (median_ptr + 1) + 1 = median_ptr
        BY <1>1, <3>3
      <4>2. A \in SUBSET (1 .. N)
        OBVIOUS
      <4> HIDE DEF A
      <4>3. Cardinality(A) <= N \div 2
        BY <1>3, <3>1, <4>1, <4>2, HalfTheWindow
      <4> QED BY <4>3 DEF A
    <3> QED BY <3>2, <3>3
  <2>7. \E k \in 1 .. N : recent[k].val = Median
    <3>1. pos \in Surjection(1 .. N, Slots)
      <4>1. IsFiniteSet(Slots) /\ Cardinality(Slots) = N /\ Cardinality(1 .. N) = N
        <5>1. IsFiniteSet(0 .. N - 1) /\ Cardinality(0 .. N - 1) = N
          BY <1>1, FS_Interval
        <5>2. Cardinality(1 .. N) = N
          BY <1>1, FS_Interval
        <5> QED BY <1>1, <5>1, <5>2
      <4> QED BY <2>1, <4>1, FS_Injection
    <3>2. PICK k \in 1 .. N : pos[k] = median_ptr
      BY <1>1, <3>1 DEF Surjection
    <3> QED BY <2>1, <3>2 DEF Median
  <2> QED BY <2>5, <2>6, <2>7
<1> QED BY <1>2, <1>3 DEF MedianOfWindow

LEMMA TimeFact == IInv => TimeOfTheMiddle
<1> SUFFICES ASSUME IInv, IsFilled PROVE FilterTimestamp = recent[capacity].ts
  BY DEF TimeOfTheMiddle
<1>1. Len(recent) = N
  BY SamplePlaces
<1>2. N \in Nat /\ capacity \in Nat \ {0} /\ N = 2 * capacity - 1
  BY MedianFilterAssumption, Sizes
<1>3. /\ count = capacity
      /\ head = Back(tail - (capacity - 1))
      /\ times[Back(tail - (capacity - 1))] = recent[N - (capacity - 1)].ts
  <2>1. count = capacity
    BY <1>1, <1>2 DEF IInv, Stamps
  <2>2. count > 0 /\ capacity - 1 \in 0 .. count - 1
    BY <1>2, <2>1
  <2> QED BY <1>1, <2>1, <2>2 DEF IInv, Stamps
<1>4. N - (capacity - 1) = capacity
  BY <1>2
<1> QED BY <1>3, <1>4 DEF FilterTimestamp

LEMMA MonotoneFact == IInv => MonotoneAnswersASample
<1> DEFINE Rises == \A k, q \in 1 .. N : k < q => recent[k].val <= recent[q].val
           Falls == \A k, q \in 1 .. N : k < q => recent[k].val >= recent[q].val
           Below == {k \in 1 .. N : recent[k].val < Median}
           Above == {k \in 1 .. N : recent[k].val > Median}
<1> SUFFICES ASSUME IInv, IsFilled, Rises \/ Falls
             PROVE  [ts |-> FilterTimestamp, val |-> Median] = recent[capacity]
  BY DEF MonotoneAnswersASample
<1>1. N \in Nat /\ capacity \in 1 .. N /\ N = 2 * capacity - 1 /\ N \div 2 = capacity - 1
      /\ Values \subseteq Nat
  BY MedianFilterAssumption, Sizes DEF median_ptr
<1>2. \A k \in 1 .. N : recent[k] \in [ts : Times, val : Values]
  <2>1. Len(recent) = N
    BY SamplePlaces
  <2>2. recent \in Seq([ts : Times, val : Values])
    BY DEF IInv, TypeOK
  <2>3. \A k \in 1 .. Len(recent) : recent[k] \in [ts : Times, val : Values]
    BY <2>2, ElementOfSeq
  <2> QED BY <2>1, <2>3
<1>3. /\ Median \in Nat
      /\ Cardinality(Below) <= capacity - 1
      /\ Cardinality(Above) <= capacity - 1
  <2>1. MedianOfWindow
    BY MedianFact
  <2>2. \E k \in 1 .. N : recent[k].val = Median
    BY <2>1 DEF MedianOfWindow
  <2> QED BY <1>1, <1>2, <2>1, <2>2 DEF MedianOfWindow
\* More than half of the window cannot be on one side of the median.
<1>4. ASSUME NEW A \in SUBSET (1 .. N), Cardinality(A) <= capacity - 1,
             NEW a \in 1 .. N, NEW b \in 1 .. N, b - a + 1 = capacity,
             a .. b \subseteq A
      PROVE  FALSE
  <2>0. 1 \in Int /\ N \in Int /\ capacity \in Nat \ {0}
    BY <1>1
  <2>1. IsFiniteSet(1 .. N)
    BY ONLY <2>0, FS_Interval
  <2>2. IsFiniteSet(A)
    BY <2>1, <1>4, FS_Subset
  <2>3. Cardinality(a .. b) = capacity
    <3>1. a \in Int /\ b \in Int /\ ~ (a > b)
      BY <2>0, <1>4
    <3> QED BY ONLY <3>1, <1>4, FS_Interval
  <2>4. Cardinality(a .. b) <= Cardinality(A)
    BY <1>4, <2>2, FS_Subset
  <2>5. Cardinality(A) \in Nat
    BY <2>2, FS_CardinalityType
  <2> QED BY <1>1, <1>4, <2>3, <2>4, <2>5
<1>5. \A k \in 1 .. N : recent[k].val \in Nat
  BY <1>1, <1>2
<1> DEFINE early == 1 .. capacity
           late == capacity .. N
<1>6. capacity \in early \cap late /\ early \subseteq 1 .. N /\ late \subseteq 1 .. N
  BY <1>1
<1>7. /\ Rises => /\ \A k \in early : recent[k].val <= recent[capacity].val
                  /\ \A k \in late : recent[k].val >= recent[capacity].val
      /\ Falls => /\ \A k \in early : recent[k].val >= recent[capacity].val
                  /\ \A k \in late : recent[k].val <= recent[capacity].val
  <2>1. ASSUME NEW k \in early
        PROVE  /\ Rises => recent[k].val <= recent[capacity].val
               /\ Falls => recent[k].val >= recent[capacity].val
    <3>1. k \in 1 .. N /\ capacity \in 1 .. N /\ (k < capacity \/ k = capacity)
      BY <1>1
    <3> QED BY <1>5, <3>1
  <2>2. ASSUME NEW k \in late
        PROVE  /\ Rises => recent[k].val >= recent[capacity].val
               /\ Falls => recent[k].val <= recent[capacity].val
    <3>1. k \in 1 .. N /\ capacity \in 1 .. N /\ (capacity < k \/ k = capacity)
      BY <1>1
    <3> QED BY <1>5, <3>1
  <2> HIDE DEF Rises, Falls
  <2> QED BY <2>1, <2>2
<1>8. ~ (early \subseteq Below) /\ ~ (late \subseteq Below)
      /\ ~ (early \subseteq Above) /\ ~ (late \subseteq Above)
  <2>1. Below \in SUBSET (1 .. N) /\ Above \in SUBSET (1 .. N)
    OBVIOUS
  <2>2. 1 \in 1 .. N /\ N \in 1 .. N /\ capacity - 1 + 1 = capacity
        /\ N - capacity + 1 = capacity
    BY <1>1
  <2> HIDE DEF Below, Above
  <2> QED BY <1>1, <1>3, <1>4, <2>1, <2>2
<1>9. ~ (recent[capacity].val < Median)
  <2>1. ASSUME recent[capacity].val < Median
        PROVE  early \subseteq Below \/ late \subseteq Below
    <3>1. ASSUME NEW k \in 1 .. N, recent[k].val <= recent[capacity].val PROVE k \in Below
      BY <1>3, <1>5, <1>6, <2>1, <3>1
    <3> HIDE DEF Rises, Falls, Below, early, late
    <3> QED BY <1>6, <1>7, <3>1
  <2> QED BY <1>8, <2>1
<1>10. ~ (recent[capacity].val > Median)
  <2>1. ASSUME recent[capacity].val > Median
        PROVE  early \subseteq Above \/ late \subseteq Above
    <3>1. ASSUME NEW k \in 1 .. N, recent[k].val >= recent[capacity].val PROVE k \in Above
      BY <1>3, <1>5, <1>6, <2>1, <3>1
    <3> HIDE DEF Rises, Falls, Above, early, late
    <3> QED BY <1>6, <1>7, <3>1
  <2> QED BY <1>8, <2>1
<1>11. recent[capacity].val = Median
  BY <1>1, <1>3, <1>5, <1>9, <1>10
<1>12. FilterTimestamp = recent[capacity].ts
  BY TimeFact DEF TimeOfTheMiddle
<1> QED BY <1>1, <1>2, <1>11, <1>12

\* Every variable keeps its range, the counters and the indices included.
THEOREM TypeCorrect == Spec => []TypeOK
<1>1. IInv => TypeOK
  BY DEF IInv
<1> QED BY <1>1, Invariant, PTL

\* One bubble pass for each value keeps the buffer of FastRunningMedian sorted.
THEOREM BufferSorted == Spec => []InOrder
<1>1. IInv => InOrder
  BY DEF IInv
<1> QED BY <1>1, Invariant, PTL

\* A filled filter answers with the median of the last N values.
THEOREM MedianCorrect == Spec => []MedianOfWindow
<1> QED BY MedianFact, Invariant, PTL

\* A filled filter answers with the time of the window's middle sample.
THEOREM TimeCorrect == Spec => []TimeOfTheMiddle
<1> QED BY TimeFact, Invariant, PTL

\* On a signal that only rises or only falls the filter answers with the value
\* and the time of one sample.
THEOREM MonotoneCorrect == Spec => []MonotoneAnswersASample
<1> QED BY MonotoneFact, Invariant, PTL
=============================================================================
