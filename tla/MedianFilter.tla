---------------------------- MODULE MedianFilter ----------------------------
(***************************************************************************)
(* The filter between the receiver and the lap detector: MedianFilter of   *)
(* src/node/util/median-filter.h, made of FastRunningMedian (values) and   *)
(* CircularBuffer (times).                                                 *)
(*                                                                         *)
(* FastRunningMedian keeps the last N values twice, in a ring and sorted.  *)
(* A new value overwrites the oldest in the ring and one equal to it in    *)
(* the sorted buffer, and is then bubbled, up or down, to its place.  The  *)
(* times of the last (N+1)/2 samples are kept, so that the first is that   *)
(* of the middle of the window.                                            *)
(***************************************************************************)
EXTENDS Integers, Sequences, FiniteSets

CONSTANTS
    N,          \* SmoothingSamples: 195
    Values,     \* RSSI
    Times,      \* mtime_t
    NoTime      \* a time that was not stored yet

ASSUME MedianFilterAssumption ==
    /\ N \in Nat /\ N % 2 = 1
    /\ Values \subseteq Nat /\ 0 \in Values
    /\ NoTime \notin Times

VARIABLES
    inbuffer,   \* _inbuffer: the ring of values
    sortbuffer, \* _sortbuffer
    buffer_ptr, \* _buffer_ptr: the slot filled last, N before the first
    unfilled,   \* _unfilled
    times, head, tail, count,  \* CircularBuffer timestamps
    recent      \* history: the samples of the window, oldest first

vars == <<inbuffer, sortbuffer, buffer_ptr, unfilled, times, head, tail, count, recent>>

Slots == 0 .. N - 1
median_ptr == N \div 2
capacity == (N + 1) \div 2
Places == 0 .. capacity - 1

Init ==
    /\ inbuffer = [k \in Slots |-> 0]
    /\ sortbuffer = [k \in Slots |-> 0]
    /\ buffer_ptr = N
    /\ unfilled = N
    /\ times = [k \in Places |-> NoTime]
    /\ head = 0 /\ tail = 0 /\ count = 0
    /\ recent = <<>>

-----------------------------------------------------------------------------
(* FastRunningMedian                                                       *)

\* The slot of the oldest value.
NextSlot == IF buffer_ptr = 0 THEN N - 1 ELSE buffer_ptr - 1

\* The search runs from the last slot to slot 0, where it ends in any case.
Finds(i, old) ==
    /\ \A k \in i + 1 .. N - 1 : sortbuffer[k] # old
    /\ i = 0 \/ sortbuffer[i] = old

\* Slots that the value put in slot i has passed on its way up, or down.
PassedUp(i, new, k) == k > i /\ \A q \in i + 1 .. k : sortbuffer[q] < new
PassedDown(i, new, k) == k < i /\ \A q \in k .. i - 1 : sortbuffer[q] > new

\* Faulty variant: one step and not a pass.
SwappedUp(i, new) ==
    [k \in Slots |->
        IF k = i /\ i < N - 1 /\ PassedUp(i, new, i + 1) THEN sortbuffer[i + 1]
        ELSE IF k = i \/ (k = i + 1 /\ PassedUp(i, new, k)) THEN new
        ELSE sortbuffer[k]]

\* Each slot passed gives its value to its neighbour; the last has the new.
BubbledUp(i, new) ==
    [k \in Slots |->
        IF k >= i /\ k < N - 1 /\ PassedUp(i, new, k + 1) THEN sortbuffer[k + 1]
        ELSE IF k = i \/ PassedUp(i, new, k) THEN new
        ELSE sortbuffer[k]]

BubbledDown(i, new) ==
    [k \in Slots |->
        IF k <= i /\ k > 0 /\ PassedDown(i, new, k - 1) THEN sortbuffer[k - 1]
        ELSE IF k = i \/ PassedDown(i, new, k) THEN new
        ELSE sortbuffer[k]]

Sorted(old, new) ==
    LET i == CHOOSE k \in Slots : Finds(k, old)
    IN  IF new = old THEN sortbuffer
        ELSE IF new > old THEN BubbledUp(i, new) ELSE BubbledDown(i, new)

\* Faulty variant: the counter runs below 0.
StillUnfilledWraps == (unfilled - 1) % 256

StillUnfilled == IF unfilled # 0 THEN unfilled - 1 ELSE 0

\* Faulty variant: the slot just filled is filled again.
AddValueInPlace(new) ==
    LET slot == buffer_ptr % N
    IN  /\ unfilled' = StillUnfilled
        /\ buffer_ptr' = slot
        /\ inbuffer' = [inbuffer EXCEPT ![slot] = new]
        /\ sortbuffer' = Sorted(inbuffer[slot], new)

AddValue(new) ==
    /\ unfilled' = StillUnfilled
    /\ buffer_ptr' = NextSlot
    /\ inbuffer' = [inbuffer EXCEPT ![NextSlot] = new]
    /\ sortbuffer' = Sorted(inbuffer[NextSlot], new)

\* Faulty variant: the middle of N - 1.
MedianBelow == sortbuffer[(N - 1) \div 2 - 1]

Median == sortbuffer[median_ptr]
IsFilled == unfilled = 0

-----------------------------------------------------------------------------
(* CircularBuffer and the filter                                           *)

Follows(k) == IF k + 1 = capacity THEN 0 ELSE k + 1

\* Faulty variant: the head stays when the buffer is full.
PushKeepsHead(ts) ==
    /\ tail' = Follows(tail)
    /\ times' = [times EXCEPT ![tail'] = ts]
    /\ IF count = capacity
         THEN UNCHANGED <<head, count>>
         ELSE count' = count + 1 /\ head' = IF count = 0 THEN tail' ELSE head

Push(ts) ==
    /\ tail' = Follows(tail)
    /\ times' = [times EXCEPT ![tail'] = ts]
    /\ IF count = capacity
         THEN head' = Follows(head) /\ count' = count
         ELSE count' = count + 1 /\ head' = IF count = 0 THEN tail' ELSE head

FilterTimestamp == times[head]

Window(s) == IF Len(s) > N THEN Tail(s) ELSE s

AddRawValue(ts, new) ==
    /\ AddValue(new)
    /\ Push(ts)
    /\ recent' = Window(Append(recent, [ts |-> ts, val |-> new]))

Next == \E ts \in Times, new \in Values : AddRawValue(ts, new)

Spec == Init /\ [][Next]_vars

-----------------------------------------------------------------------------
TypeOK ==
    /\ inbuffer \in [Slots -> Values]
    /\ sortbuffer \in [Slots -> Values]
    /\ buffer_ptr \in 0 .. N
    /\ unfilled \in 0 .. N
    /\ times \in [Places -> Times \cup {NoTime}]
    /\ head \in Places /\ tail \in Places /\ count \in 0 .. capacity
    /\ recent \in Seq([ts : Times, val : Values])

\* Before each value the sorted buffer is in order, which getMedian and one
\* bubble pass rely on.
InOrder == \A k, q \in Slots : k < q => sortbuffer[k] <= sortbuffer[q]

\* The filter is filled exactly when N samples came, and answers then with
\* the median of the last N values.
MedianOfWindow ==
    /\ IsFilled <=> Len(recent) = N
    /\ IsFilled =>
        /\ \E k \in 1 .. N : recent[k].val = Median
        /\ Cardinality({k \in 1 .. N : recent[k].val < Median}) <= N \div 2
        /\ Cardinality({k \in 1 .. N : recent[k].val > Median}) <= N \div 2

\* The time the filter answers with is that of the window's middle sample.
TimeOfTheMiddle == IsFilled => FilterTimestamp = recent[capacity].ts

\* While the signal only rises or only falls, the value and the time are
\* those of one sample: neither leads the other.
MonotoneAnswersASample ==
    LET Rises == \A k, q \in 1 .. N : k < q => recent[k].val <= recent[q].val
        Falls == \A k, q \in 1 .. N : k < q => recent[k].val >= recent[q].val
    IN  IsFilled /\ (Rises \/ Falls) =>
            [ts |-> FilterTimestamp, val |-> Median] = recent[capacity]
=============================================================================
