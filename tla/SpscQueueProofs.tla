-------------------------- MODULE SpscQueueProofs --------------------------
(* BoundedSpscQueue implements a bounded FIFO, for every capacity, every size of *)
(* the indices that the capacity divides, and every number of values.            *)
EXTENDS SpscQueue, SequenceTheorems, TLAPS

\* The values of an index.
Positions == 0..Span - 1

\* The cell that lies i places after position a.
Cell(a, i) == Add(a, i) % Capacity

\* The indices are positions, and the sequences hold values.
RingType ==
    /\ head \in Positions /\ tail \in Positions
    /\ headCache \in Positions /\ tailCache \in Positions
    /\ buffer \in [0..Capacity - 1 -> Nat]
    /\ pc \in {"idle", "refresh", "write", "publish"}
    /\ batch \in Seq(Values) /\ done \in Nat /\ sent \in Nat
    /\ cpc \in {"idle", "refresh", "read", "release"}
    /\ want \in Nat /\ out \in Seq(Values)
    /\ taken \in Seq(Values) /\ refused \in Nat /\ items \in Seq(Values)

\* The distance of the indices is the number of values, the cached head_ lags behind
\* head_ by less than a lap and the cached tail_ is between head_ and tail_.
IndexInv ==
    /\ Minus(tail, head) = Len(items)
    /\ Len(items) <= Minus(tail, headCache) /\ Minus(tail, headCache) <= Capacity
    /\ Minus(tailCache, head) <= Len(items)

\* The producer writes only cells that are free, by the cached head_.
ProducerInv ==
    /\ pc \in {"write", "publish"} => /\ Len(batch) + Minus(tail, headCache) <= Capacity
                                      /\ Len(batch) > 0
    /\ pc = "refresh" => Len(batch) > 0 /\ done = 0
    /\ pc = "write" => done < Len(batch)
    /\ pc = "publish" => done = Len(batch)
    /\ pc \in {"write", "publish"} =>
         \A i \in 1..done : buffer[Cell(head, Len(items) + i - 1)] = batch[i]

\* The consumer reads only cells that were published, by the cached tail_.
ConsumerInv ==
    /\ cpc \in {"read", "release"} => /\ want <= Minus(tailCache, head) /\ want > 0
    /\ cpc = "refresh" => Len(out) = 0 /\ want > 0
    /\ cpc = "read" => Len(out) < want
    /\ cpc = "release" => Len(out) = want
    /\ cpc \in {"read", "release"} => \A i \in 1..Len(out) : out[i] = items[i]

\* The cells from head_ on hold the values of the queue, in order.
CellsInv == \A i \in 1..Len(items) : buffer[Cell(head, i - 1)] = items[i]

RingInv == RingType /\ IndexInv /\ ProducerInv /\ ConsumerInv /\ CellsInv

-----------------------------------------------------------------------------
(* Arithmetic of the ring *)

\* A number is a multiple of the divisor and the remainder.
LEMMA QuotientOf ==
  ASSUME NEW a \in Nat, NEW c \in Nat, c > 0
  PROVE  \E q \in Int : a = c * q + (a % c)
  OBVIOUS

\* Indices wrap at most once.
LEMMA AddLinear ==
  ASSUME NEW a \in Positions, NEW n \in Positions
  PROVE  /\ Add(a, n) = IF a + n < Span THEN a + n ELSE a + n - Span
         /\ Add(a, n) \in Positions
  BY RingParameters DEF Add, Positions

\* Distances wrap at most once.
LEMMA MinusLinear ==
  ASSUME NEW a \in Positions, NEW b \in Positions
  PROVE  /\ Minus(a, b) = IF a < b THEN a + Span - b ELSE a - b
         /\ Minus(a, b) \in Positions
  BY RingParameters DEF Minus, Positions

\* Multiples of the capacity that are less than a capacity apart are equal.
LEMMA SameRemainder ==
  ASSUME NEW q \in Int, NEW r \in Int, NEW d \in Int,
         Capacity * q = Capacity * r + d, -Capacity < d, d < Capacity
  PROVE  d = 0
<1>1. CASE q = r
  BY <1>1, RingParameters
<1>2. CASE q > r
  <2>1. Capacity * q >= Capacity * (r + 1)
    BY <1>2, RingParameters
  <2> QED BY <2>1, RingParameters
<1>3. CASE q < r
  <2>1. Capacity * (q + 1) <= Capacity * r
    BY <1>3, RingParameters
  <2> QED BY <2>1, RingParameters
<1> QED BY <1>1, <1>2, <1>3

\* The cell of an index is the cell of the unwrapped position, because the capacity
\* divides the span.
LEMMA AddCell ==
  ASSUME NEW a \in Positions, NEW i \in Positions
  PROVE  \E q \in Int : a + i = Capacity * q + (Add(a, i) % Capacity)
<1>a. /\ Add(a, i) = IF a + i < Span THEN a + i ELSE a + i - Span
      /\ Add(a, i) \in Positions
  BY Zenon, AddLinear
<1>0. /\ Capacity \in Nat /\ Capacity > 0 /\ Span \in Nat /\ Span % Capacity = 0
      /\ a \in Nat /\ i \in Nat /\ Add(a, i) \in Nat
      /\ a + i = Add(a, i) \/ a + i = Add(a, i) + Span
  BY <1>a, RingParameters DEF Positions
<1>1. PICK q \in Int : Add(a, i) = Capacity * q + (Add(a, i) % Capacity)
  BY Zenon, <1>0, QuotientOf
<1>2. PICK k \in Int : Span = Capacity * k + (Span % Capacity)
  BY Zenon, <1>0, QuotientOf
<1>3. Span = Capacity * k
  BY <1>0, <1>2
<1>4. CASE a + i = Add(a, i)
  BY Zenon, <1>1, <1>4
<1>5. CASE a + i = Add(a, i) + Span
  <2>1. a + i = Capacity * (q + k) + (Add(a, i) % Capacity)
    <3> HIDE <1>a
    <3> DEFINE v == Add(a, i)
               m == Add(a, i) % Capacity
    <3>1. v \in Int /\ m \in Int /\ v = Capacity * q + m /\ a + i = v + Span
      BY <1>0, <1>1, <1>5
    <3> HIDE DEF v, m
    <3>2. a + i = Capacity * (q + k) + m
      BY <1>0, <1>3, <3>1
    <3> QED BY Zenon, <3>2 DEF m
  <2> QED BY <2>1
<1> QED BY Zenon, <1>0, <1>4, <1>5

\* Positions less than a lap apart have different cells.
LEMMA CellsDiffer ==
  ASSUME NEW a \in Positions, NEW i \in 0..Capacity - 1, NEW j \in 0..Capacity - 1,
         Add(a, i) % Capacity = Add(a, j) % Capacity
  PROVE  i = j
<1>0. i \in Positions /\ j \in Positions /\ a \in Int
  BY RingParameters DEF Positions
<1>1. PICK q \in Int : a + i = Capacity * q + (Add(a, i) % Capacity)
  BY Zenon, <1>0, AddCell
<1>2. PICK r \in Int : a + j = Capacity * r + (Add(a, j) % Capacity)
  BY Zenon, <1>0, AddCell
<1>3. Add(a, i) % Capacity \in Int /\ Capacity * q \in Int /\ Capacity * r \in Int
  BY <1>0, AddLinear, RingParameters DEF Positions
<1>4. Capacity * q = Capacity * r + (i - j)
  BY <1>0, <1>1, <1>2, <1>3
<1>5. i - j = 0
  BY <1>0, <1>4, SameRemainder, RingParameters
<1> QED BY <1>0, <1>5

-----------------------------------------------------------------------------
(* Distances on the ring *)

\* An index is its distance away from any other.
LEMMA AddMinus ==
  ASSUME NEW a \in Positions, NEW b \in Positions
  PROVE  Add(b, Minus(a, b)) = a
<1>1. /\ Minus(a, b) = IF a < b THEN a + Span - b ELSE a - b
      /\ Minus(a, b) \in Positions
  BY Zenon, MinusLinear
<1>2. Add(b, Minus(a, b)) = IF b + Minus(a, b) < Span THEN b + Minus(a, b) ELSE b + Minus(a, b) - Span
  BY Zenon, <1>1, AddLinear
<1> QED BY <1>1, <1>2, RingParameters DEF Positions

\* Two advances are one.
LEMMA AddAdd ==
  ASSUME NEW a \in Positions, NEW i \in Positions, NEW j \in Positions, i + j \in Positions
  PROVE  Add(Add(a, i), j) = Add(a, i + j)
<1>1. /\ Add(a, i) = IF a + i < Span THEN a + i ELSE a + i - Span
      /\ Add(a, i) \in Positions
  BY Zenon, AddLinear
<1>2. Add(Add(a, i), j) = IF Add(a, i) + j < Span THEN Add(a, i) + j ELSE Add(a, i) + j - Span
  BY Zenon, <1>1, AddLinear
<1>3. Add(a, i + j) = IF a + (i + j) < Span THEN a + (i + j) ELSE a + (i + j) - Span
  BY Zenon, AddLinear
<1> QED BY <1>1, <1>2, <1>3, RingParameters DEF Positions

\* Advancing the first of two indices adds to their distance.
LEMMA MinusAdd ==
  ASSUME NEW a \in Positions, NEW b \in Positions, NEW n \in Positions, Minus(a, b) + n \in Positions
  PROVE  Minus(Add(a, n), b) = Minus(a, b) + n
<1>1. Minus(a, b) = IF a < b THEN a + Span - b ELSE a - b
  BY Zenon, MinusLinear
<1>2. /\ Add(a, n) = IF a + n < Span THEN a + n ELSE a + n - Span
      /\ Add(a, n) \in Positions
  BY Zenon, AddLinear
<1>3. Minus(Add(a, n), b) = IF Add(a, n) < b THEN Add(a, n) + Span - b ELSE Add(a, n) - b
  BY Zenon, <1>2, MinusLinear
<1> QED BY <1>1, <1>2, <1>3, RingParameters DEF Positions

\* Advancing the second one takes away from it.
LEMMA MinusAddRight ==
  ASSUME NEW a \in Positions, NEW b \in Positions, NEW n \in Positions, n <= Minus(a, b)
  PROVE  Minus(a, Add(b, n)) = Minus(a, b) - n
<1>1. Minus(a, b) = IF a < b THEN a + Span - b ELSE a - b
  BY Zenon, MinusLinear
<1>2. /\ Add(b, n) = IF b + n < Span THEN b + n ELSE b + n - Span
      /\ Add(b, n) \in Positions
  BY Zenon, AddLinear
<1>3. Minus(a, Add(b, n)) = IF a < Add(b, n) THEN a + Span - Add(b, n) ELSE a - Add(b, n)
  BY Zenon, <1>2, MinusLinear
<1> QED BY <1>1, <1>2, <1>3, RingParameters DEF Positions

\* The cells of positions less than a lap apart differ, and each is a cell.
LEMMA CellIsCell ==
  ASSUME NEW a \in Positions, NEW i \in Positions
  PROVE  Cell(a, i) \in 0..Capacity - 1
<1>1. Add(a, i) \in Positions
  BY Zenon, AddLinear
<1> QED BY <1>1, RingParameters DEF Cell, Positions

-----------------------------------------------------------------------------
(* The invariant *)

\* Facts about the indices that every step uses.
LEMMA RingFacts ==
  ASSUME RingInv
  PROVE  /\ Minus(tail, headCache) \in Nat /\ Minus(tailCache, head) \in Nat
         /\ Minus(tail, head) \in Nat
         /\ Len(items) \in Nat /\ Len(batch) \in Nat /\ Len(out) \in Nat
         /\ Capacity \in Nat /\ Span \in Nat /\ Capacity < Span
         /\ tail = Add(head, Len(items))
         /\ \A i \in 0..Capacity : i \in Positions
         /\ \A i \in 0..Capacity - Len(items) : Add(tail, i) = Add(head, Len(items) + i)
<1>0. head \in Positions /\ tail \in Positions /\ headCache \in Positions /\ tailCache \in Positions
  BY Zenon DEF RingInv, RingType
<1>1. /\ Minus(tail, headCache) \in Positions /\ Minus(tailCache, head) \in Positions
      /\ Minus(tail, head) \in Positions
  BY Zenon, <1>0, MinusLinear
<1>2. Len(items) \in Nat /\ Len(batch) \in Nat /\ Len(out) \in Nat
  BY Zenon, LenProperties DEF RingInv, RingType
<1>3. \A i \in 0..Capacity : i \in Positions
  BY RingParameters DEF Positions
<1>4. tail = Add(head, Len(items))
  BY Zenon, <1>0, AddMinus DEF RingInv, IndexInv
<1>5. ASSUME NEW i \in 0..Capacity - Len(items) PROVE Add(tail, i) = Add(head, Len(items) + i)
  <2>1. /\ Len(items) <= Capacity
        /\ Len(items) \in 0..Capacity /\ i \in 0..Capacity /\ Len(items) + i \in 0..Capacity
    BY <1>1, <1>2, RingParameters DEF RingInv, IndexInv, Positions
  <2>2. Add(Add(head, Len(items)), i) = Add(head, Len(items) + i)
    BY ZenonT(30), <1>0, <1>3, <2>1, AddAdd
  <2> QED BY Zenon, <1>4, <2>2
<1> QED BY <1>1, <1>2, <1>3, <1>4, <1>5, RingParameters DEF Positions

\* An empty ring satisfies the invariant.
LEMMA InitRing == Init => RingInv
<1> SUFFICES ASSUME Init PROVE RingInv
  BY Zenon
<1>1. Start \in Positions /\ Minus(Start, Start) = 0
  BY MinusLinear, RingParameters DEF Positions
<1>2. RingType
  BY <1>1, RingParameters DEF Init, RingType
<1>3. IndexInv
  BY <1>1, RingParameters DEF Init, IndexInv
<1>4. ProducerInv /\ ConsumerInv /\ CellsInv
  BY DEF Init, ProducerInv, ConsumerInv, CellsInv
<1> QED BY Zenon, <1>2, <1>3, <1>4 DEF RingInv

\* The room that try_push_many computes from a cached head_.
LEMMA RoomLeft ==
  ASSUME NEW h \in Positions, tail \in Positions
  PROVE  /\ Available(h) \in Nat
         /\ Available(h) > 0 => Available(h) + Minus(tail, h) = Capacity
         /\ Available(h) = 0 => Minus(tail, h) >= Capacity
<1>1. Minus(tail, h) \in Positions
  BY Zenon, MinusLinear
<1> QED BY <1>1, RingParameters DEF Available, Positions

\* try_push_many begins: it goes on without a look at head_ when the cached one
\* leaves room for the whole batch.
LEMMA PushBeginKeeps == RingInv /\ PushBegin => RingInv'
<1> SUFFICES ASSUME RingInv, PushBegin PROVE RingInv'
  BY Zenon
<1>0. RingType /\ IndexInv /\ ProducerInv /\ ConsumerInv /\ CellsInv
  BY Zenon DEF RingInv
<1>1. UNCHANGED <<indices, buffer, consumer, taken, refused, items>> /\ done' = 0
  BY Zenon DEF PushBegin
<1>2. PICK n \in 1..MaxBatch : /\ sent + n <= MaxPushes /\ sent' = sent + n
                               /\ batch' = [i \in 1..n |-> sent + i]
                               /\ pc' = IF n > Available(headCache) THEN "refresh" ELSE "write"
  BY Zenon DEF PushBegin
<1>3. batch' \in Seq(Values) /\ Len(batch') = n /\ n \in Nat /\ n > 0
  BY <1>0, <1>2, RingParameters DEF RingType, Values
<1>4. RingType'
  BY <1>0, <1>1, <1>2, <1>3 DEF RingType, indices, consumer
<1>5. IndexInv' /\ ConsumerInv' /\ CellsInv'
  BY Zenon, <1>0, <1>1 DEF IndexInv, ConsumerInv, CellsInv, indices, consumer
<1>6. ProducerInv'
  <2>1. /\ Available(headCache) \in Nat
        /\ Available(headCache) > 0 => Available(headCache) + Minus(tail, headCache) = Capacity
    BY Zenon, <1>0, RoomLeft DEF RingType
  <2>2. CASE n > Available(headCache)
    BY Zenon, <1>1, <1>2, <1>3, <2>2 DEF ProducerInv
  <2>3. CASE ~(n > Available(headCache))
    <3>1. n + Minus(tail, headCache) <= Capacity
      BY <1>3, <2>1, <2>3, RingFacts
    <3> QED BY <1>1, <1>2, <1>3, <2>3, <3>1 DEF ProducerInv, indices
  <2> QED BY Zenon, <2>2, <2>3
<1> QED BY Zenon, <1>4, <1>5, <1>6 DEF RingInv

\* The load of head_ refreshes the cache: the queue is full, or the batch is cut to
\* the room there is.
LEMMA LoadHeadKeeps == RingInv /\ LoadHead => RingInv'
<1> SUFFICES ASSUME RingInv, LoadHead PROVE RingInv'
  BY Zenon
<1>0. RingType /\ IndexInv /\ ProducerInv /\ ConsumerInv /\ CellsInv
  BY Zenon DEF RingInv
<1>1. /\ pc = "refresh" /\ headCache' = head
      /\ UNCHANGED <<head, tail, tailCache, buffer, done, sent, consumer, taken, items>>
  BY Zenon DEF LoadHead
<1>2. /\ Available(head) \in Nat
      /\ Available(head) > 0 => Available(head) + Minus(tail, head) = Capacity
  BY Zenon, <1>0, RoomLeft DEF RingType
<1>3. IndexInv'
  BY <1>0, <1>1, RingFacts DEF IndexInv
<1>4. ConsumerInv' /\ CellsInv'
  BY Zenon, <1>0, <1>1 DEF ConsumerInv, CellsInv, consumer
<1>5. CASE Available(head) = 0
  <2>1. refused' = refused + 1 /\ pc' = "idle" /\ batch' = <<>>
    BY <1>5 DEF LoadHead
  <2>2. RingType'
    BY <1>0, <1>1, <2>1 DEF RingType, consumer
  <2>3. ProducerInv'
    BY Zenon, <2>1 DEF ProducerInv
  <2> QED BY Zenon, <1>3, <1>4, <2>2, <2>3 DEF RingInv
<1>6. CASE Available(head) > 0
  <2> DEFINE m == Lesser(Len(batch), Available(head))
  <2>1. batch' = SubSeq(batch, 1, m) /\ pc' = "write" /\ refused' = refused
    BY <1>2, <1>6 DEF LoadHead
  <2>2. m \in Nat /\ m > 0 /\ m <= Len(batch) /\ m <= Available(head) /\ done = 0
    BY <1>0, <1>1, <1>2, <1>6, RingFacts DEF Lesser, ProducerInv
  <2>3. batch' \in Seq(Values) /\ Len(batch') = m
    BY <1>0, <2>1, <2>2, SubSeqProperties DEF RingType
  <2>4. RingType'
    BY Zenon, <1>0, <1>1, <2>1, <2>3 DEF RingType, consumer
  <2>5. ProducerInv'
    <3>1. m + Minus(tail, head) <= Capacity
      BY <1>2, <1>6, <2>2, RingFacts
    <3> HIDE DEF m
    <3> QED BY <1>1, <2>1, <2>2, <2>3, <3>1 DEF ProducerInv
  <2> QED BY Zenon, <1>3, <1>4, <2>4, <2>5 DEF RingInv
<1> QED BY <1>2, <1>5, <1>6

\* A cell is written only between tail_ and the cached head_, so the values of the
\* queue and the values written before stay as they are.
LEMMA WriteCellKeeps == RingInv /\ WriteCell => RingInv'
<1> SUFFICES ASSUME RingInv, WriteCell PROVE RingInv'
  BY Zenon
<1>0. RingType /\ IndexInv /\ ProducerInv /\ ConsumerInv /\ CellsInv
  BY Zenon DEF RingInv
<1> DEFINE c == Cell(head, Len(items) + done)
<1>1. /\ pc = "write" /\ done' = done + 1
      /\ pc' = IF done + 1 = Len(batch) THEN "publish" ELSE "write"
      /\ UNCHANGED <<indices, batch, sent, consumer, taken, refused, items>>
  BY Zenon DEF WriteCell
<1>2. /\ done \in Nat /\ done < Len(batch) /\ Len(batch) + Minus(tail, headCache) <= Capacity
      /\ Len(items) + done \in 0..Capacity - 1 /\ done \in 0..Capacity - Len(items)
  BY <1>0, <1>1, RingFacts DEF RingType, ProducerInv, IndexInv
<1>3. c = Add(tail, done) % Capacity /\ c \in 0..Capacity - 1
  <2>1. Add(tail, done) = Add(head, Len(items) + done)
    BY Zenon, <1>2, RingFacts
  <2>2. Len(items) + done \in Positions
    BY <1>2, RingFacts
  <2>3. Cell(head, Len(items) + done) \in 0..Capacity - 1
    BY Zenon, <1>0, <2>2, CellIsCell DEF RingType
  <2> QED BY Zenon, <2>1, <2>3 DEF Cell
<1>4. buffer' = [buffer EXCEPT ![c] = batch[done + 1]]
  BY Zenon, <1>3 DEF WriteCell
<1>5. batch[done + 1] \in Nat
  <2>1. done + 1 \in 1..Len(batch) /\ batch \in Seq(Values)
    BY <1>0, <1>2, RingFacts DEF RingType
  <2>2. batch[done + 1] \in Values
    BY Zenon, <2>1, ElementOfSeq
  <2> QED BY <2>2, RingParameters DEF Values
<1>6. \A i \in 0..Capacity - 1 : i # Len(items) + done => Cell(head, i) # c
  BY Zenon, <1>0, <1>2, CellsDiffer DEF RingType, Cell
<1>7. \A i \in 0..Capacity - 1 : Cell(head, i) \in 0..Capacity - 1
  <2>1. \A i \in 0..Capacity - 1 : i \in Positions
    BY RingFacts
  <2> QED BY Zenon, <1>0, <2>1, CellIsCell DEF RingType
<1>8. \A i \in 0..Capacity - 1 : i # Len(items) + done => buffer'[Cell(head, i)] = buffer[Cell(head, i)]
  <2> HIDE DEF c
  <2> QED BY Zenon, <1>0, <1>4, <1>6, <1>7 DEF RingType
<1>9. buffer'[c] = batch[done + 1]
  <2> HIDE DEF c
  <2> QED BY Zenon, <1>0, <1>3, <1>4 DEF RingType
<1>10. RingType'
  <2> HIDE DEF c
  <2> QED BY <1>0, <1>1, <1>2, <1>3, <1>4, <1>5 DEF RingType, indices, consumer
<1>11. IndexInv' /\ ConsumerInv'
  BY Zenon, <1>0, <1>1 DEF IndexInv, ConsumerInv, indices, consumer
<1>12. CellsInv'
  <2>1. \A i \in 1..Len(items) : i - 1 \in 0..Capacity - 1 /\ i - 1 # Len(items) + done
    BY <1>2, RingFacts
  <2>2. head' = head /\ items' = items
    BY Zenon, <1>1 DEF indices
  <2> QED BY Zenon, <1>0, <1>8, <2>1, <2>2 DEF CellsInv
<1>13. ProducerInv'
  <2>0. head' = head /\ items' = items /\ tail' = tail /\ headCache' = headCache /\ batch' = batch
    BY Zenon, <1>1 DEF indices
  <2>1. pc' \in {"write", "publish"} => /\ Len(batch') + Minus(tail, headCache)' <= Capacity
                                        /\ Len(batch') > 0
    BY Zenon, <2>0, <1>1, <1>0 DEF ProducerInv
  <2>2. pc' = "write" => done' < Len(batch')
    BY <2>0, <1>1, <1>2, RingFacts
  <2>3. pc' = "publish" => done' = Len(batch')
    BY Zenon, <2>0, <1>1
  <2>4. ASSUME NEW i \in 1..done' PROVE buffer'[Cell(head', Len(items') + i - 1)] = batch'[i]
    <3>1. CASE i = done + 1
      <4>1. Len(items) + i - 1 = Len(items) + done
        BY <1>2, <3>1, RingFacts
      <4> QED BY Zenon, <2>0, <3>1, <4>1, <1>9
    <3>2. CASE i # done + 1
      <4>1. /\ i \in 1..done /\ Len(items) + i - 1 \in 0..Capacity - 1
            /\ Len(items) + i - 1 # Len(items) + done
        BY SMTT(20), <1>1, <1>2, <3>2, RingFacts
      <4>2. buffer[Cell(head, Len(items) + i - 1)] = batch[i]
        BY Zenon, <1>0, <1>1, <4>1 DEF ProducerInv
      <4> QED BY Zenon, <2>0, <4>1, <4>2, <1>8
    <3> QED BY Zenon, <3>1, <3>2
  <2>5. pc' # "refresh"
    BY Zenon, <1>1
  <2> QED BY Zenon, <2>1, <2>2, <2>3, <2>4, <2>5 DEF ProducerInv, Cell, Add
<1> QED BY Zenon, <1>10, <1>11, <1>12, <1>13 DEF RingInv

\* The store of tail_ publishes the whole batch.
LEMMA StoreTailKeeps == RingInv /\ StoreTail => RingInv'
<1> SUFFICES ASSUME RingInv, StoreTail PROVE RingInv'
  BY Zenon
<1>0. RingType /\ IndexInv /\ ProducerInv /\ ConsumerInv /\ CellsInv
  BY Zenon DEF RingInv
<1>1. /\ pc = "publish" /\ tail' = Add(tail, Len(batch)) /\ items' = items \o batch
      /\ pc' = "idle" /\ batch' = <<>> /\ done' = 0
      /\ UNCHANGED <<head, headCache, tailCache, buffer, sent, consumer, taken, refused>>
  BY Zenon DEF StoreTail
<1>2. /\ done = Len(batch) /\ Len(batch) + Minus(tail, headCache) <= Capacity
      /\ \A i \in 1..done : buffer[Cell(head, Len(items) + i - 1)] = batch[i]
  BY Zenon, <1>0, <1>1 DEF ProducerInv
<1>3. /\ Len(items') = Len(items) + Len(batch) /\ items' \in Seq(Values)
      /\ \A i \in 1..Len(items) + Len(batch) :
            items'[i] = IF i <= Len(items) THEN items[i] ELSE batch[i - Len(items)]
  BY Zenon, <1>0, <1>1, ConcatProperties DEF RingType
<1>4. /\ Len(batch) \in Positions /\ Minus(tail, head) + Len(batch) \in Positions
      /\ Minus(tail, headCache) + Len(batch) \in Positions
  <2>1. /\ Len(batch) \in 0..Capacity /\ Minus(tail, head) + Len(batch) \in 0..Capacity
        /\ Minus(tail, headCache) + Len(batch) \in 0..Capacity
    BY <1>0, <1>2, RingFacts DEF IndexInv
  <2> QED BY Zenon, <2>1, RingFacts
<1>5. /\ Minus(tail', head) = Minus(tail, head) + Len(batch)
      /\ Minus(tail', headCache) = Minus(tail, headCache) + Len(batch)
      /\ tail' \in Positions
  <2>0. head \in Positions /\ tail \in Positions /\ headCache \in Positions
    BY Zenon, <1>0 DEF RingType
  <2>1. Minus(Add(tail, Len(batch)), head) = Minus(tail, head) + Len(batch)
    BY Zenon, <2>0, <1>4, MinusAdd
  <2>2. Minus(Add(tail, Len(batch)), headCache) = Minus(tail, headCache) + Len(batch)
    BY Zenon, <2>0, <1>4, MinusAdd
  <2>3. Add(tail, Len(batch)) \in Positions
    BY Zenon, <2>0, <1>4, AddLinear
  <2> QED BY Zenon, <1>1, <2>1, <2>2, <2>3
<1>6. RingType'
  BY <1>0, <1>1, <1>3, <1>5 DEF RingType, consumer
<1>7. IndexInv'
  <2>1. /\ Minus(tail, head)' = Minus(tail, head) + Len(batch)
        /\ Minus(tail, headCache)' = Minus(tail, headCache) + Len(batch)
        /\ Minus(tailCache, head)' = Minus(tailCache, head)
    BY Zenon, <1>1, <1>5
  <2> QED BY <2>1, <1>0, <1>2, <1>3, RingFacts DEF IndexInv
<1>8. ProducerInv'
  BY Zenon, <1>1 DEF ProducerInv
<1>9. ConsumerInv'
  <2>1. cpc \in {"read", "release"} => \A i \in 1..Len(out) : out[i] = items'[i]
    BY <1>0, <1>3, RingFacts DEF ConsumerInv, IndexInv, RingType
  <2>2. cpc' = cpc /\ want' = want /\ out' = out /\ Minus(tailCache, head)' = Minus(tailCache, head)
    BY Zenon, <1>1 DEF consumer
  <2> QED BY Zenon, <1>0, <2>1, <2>2 DEF ConsumerInv
<1>10. CellsInv'
  <2> SUFFICES ASSUME NEW i \in 1..Len(items') PROVE buffer[Cell(head, i - 1)] = items'[i]
    BY Zenon, <1>1 DEF CellsInv, Cell, Add
  <2>1. CASE i <= Len(items)
    BY SMTT(20), <1>0, <1>3, <2>1, RingFacts DEF CellsInv
  <2>2. CASE ~(i <= Len(items))
    <3>1. /\ i - Len(items) \in 1..done /\ items'[i] = batch[i - Len(items)]
          /\ Len(items) + (i - Len(items)) - 1 = i - 1
      BY <1>2, <1>3, <2>2, RingFacts
    <3> QED BY Zenon, <1>2, <3>1
  <2> QED BY Zenon, <2>1, <2>2
<1> QED BY Zenon, <1>6, <1>7, <1>8, <1>9, <1>10 DEF RingInv

\* try_pop_many begins, and goes on without a look at tail_ when the cached one
\* promises enough values.
LEMMA PopBeginKeeps == RingInv /\ PopBegin => RingInv'
<1> SUFFICES ASSUME RingInv, PopBegin PROVE RingInv'
  BY Zenon
<1>0. RingType /\ IndexInv /\ ProducerInv /\ ConsumerInv /\ CellsInv
  BY Zenon DEF RingInv
<1>1. UNCHANGED <<indices, buffer, producer, taken, refused, items>> /\ out' = <<>>
  BY Zenon DEF PopBegin
<1>2. PICK n \in 1..MaxBatch : /\ want' = n
                               /\ cpc' = IF Minus(tailCache, head) < n THEN "refresh" ELSE "read"
  BY Zenon DEF PopBegin
<1>3. RingType'
  BY <1>0, <1>1, <1>2, RingParameters DEF RingType, indices, producer
<1>4. IndexInv' /\ ProducerInv' /\ CellsInv'
  BY Zenon, <1>0, <1>1 DEF IndexInv, ProducerInv, CellsInv, indices, producer, Cell, Add
<1>5. ConsumerInv'
  <2>1. Minus(tailCache, head)' = Minus(tailCache, head) /\ n \in Nat /\ n > 0
    BY <1>1, RingParameters DEF indices
  <2> QED BY <1>1, <1>2, <2>1, RingFacts DEF ConsumerInv
<1> QED BY Zenon, <1>3, <1>4, <1>5 DEF RingInv

\* The load of tail_ refreshes the cache: the queue is empty, or the pop takes at
\* most the values there are.
LEMMA LoadTailKeeps == RingInv /\ LoadTail => RingInv'
<1> SUFFICES ASSUME RingInv, LoadTail PROVE RingInv'
  BY Zenon
<1>0. RingType /\ IndexInv /\ ProducerInv /\ ConsumerInv /\ CellsInv
  BY Zenon DEF RingInv
<1>1. /\ cpc = "refresh" /\ tailCache' = tail
      /\ cpc' = IF tail = head THEN "idle" ELSE "read"
      /\ want' = Lesser(want, Minus(tail, head))
      /\ UNCHANGED <<head, tail, headCache, buffer, producer, out, taken, refused, items>>
  BY Zenon DEF LoadTail
<1>2. RingType'
  BY Zenon, <1>0, <1>1, RingFacts DEF RingType, producer, Lesser
<1>3. IndexInv'
  BY <1>0, <1>1, RingFacts DEF IndexInv
<1>4. ProducerInv' /\ CellsInv'
  BY Zenon, <1>0, <1>1 DEF ProducerInv, CellsInv, producer, Cell, Add
<1>5. ConsumerInv'
  <2>1. Len(out) = 0 /\ want > 0 /\ want \in Nat
    BY Zenon, <1>0, <1>1 DEF ConsumerInv, RingType
  <2>2. tail # head => Minus(tail, head) > 0
    <3>1. head \in Positions /\ tail \in Positions
      BY Zenon, <1>0 DEF RingType
    <3>2. Minus(tail, head) = IF tail < head THEN tail + Span - head ELSE tail - head
      BY Zenon, <3>1, MinusLinear
    <3> QED BY <3>1, <3>2, RingParameters DEF Positions
  <2>3. Minus(tailCache, head)' = Minus(tail, head)
    BY Zenon, <1>1
  <2> QED BY <1>1, <2>1, <2>2, <2>3, RingFacts DEF ConsumerInv, Lesser
<1> QED BY Zenon, <1>2, <1>3, <1>4, <1>5 DEF RingInv

\* The consumer reads the next value of the queue.
LEMMA ReadCellKeeps == RingInv /\ ReadCell => RingInv'
<1> SUFFICES ASSUME RingInv, ReadCell PROVE RingInv'
  BY Zenon
<1>0. RingType /\ IndexInv /\ ProducerInv /\ ConsumerInv /\ CellsInv
  BY Zenon DEF RingInv
<1>1. /\ cpc = "read" /\ out' = Append(out, buffer[Cell(head, Len(out))])
      /\ cpc' = IF Len(out) + 1 = want THEN "release" ELSE "read"
      /\ UNCHANGED <<indices, buffer, producer, want, taken, refused, items>>
  BY Zenon DEF ReadCell, Cell
<1>2. /\ Len(out) < want /\ want <= Minus(tailCache, head) /\ want > 0 /\ want \in Nat
      /\ Len(out) + 1 \in 1..Len(items)
  BY <1>0, <1>1, RingFacts DEF ConsumerInv, IndexInv, RingType
<1>3. buffer[Cell(head, Len(out))] = items[Len(out) + 1] /\ items[Len(out) + 1] \in Values
  <2>1. Len(out) + 1 - 1 = Len(out)
    BY RingFacts
  <2>2. buffer[Cell(head, Len(out) + 1 - 1)] = items[Len(out) + 1]
    BY <1>0, <1>2 DEF CellsInv
  <2>3. items[Len(out) + 1] \in Values
    BY Zenon, <1>0, <1>2, ElementOfSeq DEF RingType
  <2> QED BY Zenon, <2>1, <2>2, <2>3
<1>4. out' = Append(out, items[Len(out) + 1])
  BY Zenon, <1>1, <1>3
<1>5. /\ out' \in Seq(Values) /\ Len(out') = Len(out) + 1
      /\ \A i \in 1..Len(out) : out'[i] = out[i]
      /\ out'[Len(out) + 1] = items[Len(out) + 1]
  BY <1>0, <1>3, <1>4, AppendProperties DEF RingType
<1>6. RingType'
  BY Zenon, <1>0, <1>1, <1>5 DEF RingType, indices, producer
<1>7. IndexInv' /\ ProducerInv' /\ CellsInv'
  BY Zenon, <1>0, <1>1 DEF IndexInv, ProducerInv, CellsInv, indices, producer, Cell, Add
<1>8. ConsumerInv'
  <2>1. Minus(tailCache, head)' = Minus(tailCache, head) /\ want' = want /\ items' = items
    BY Zenon, <1>1 DEF indices
  <2>2. \A i \in 1..Len(out') : out'[i] = items[i]
    <3>1. \A i \in 1..Len(out') : i \in 1..Len(out) \/ i = Len(out) + 1
      BY <1>5, RingFacts
    <3> QED BY Zenon, <1>0, <1>1, <1>5, <3>1 DEF ConsumerInv
  <2>3. /\ cpc' = "read" => Len(out') < want
        /\ cpc' = "release" => Len(out') = want
        /\ cpc' # "refresh"
    BY <1>1, <1>2, <1>5, RingFacts
  <2> QED BY Zenon, <1>2, <2>1, <2>2, <2>3 DEF ConsumerInv
<1> QED BY Zenon, <1>6, <1>7, <1>8 DEF RingInv

\* What is left of a sequence after its first n elements.
LEMMA SuffixOf ==
  ASSUME NEW S, NEW s \in Seq(S), NEW n \in Nat, n <= Len(s)
  PROVE  /\ SubSeq(s, n + 1, Len(s)) \in Seq(S)
         /\ Len(SubSeq(s, n + 1, Len(s))) = Len(s) - n
         /\ \A i \in 1..Len(s) - n : SubSeq(s, n + 1, Len(s))[i] = s[n + i]
<1>0. Len(s) \in Nat
  BY Zenon, LenProperties
<1>1. n + 1 \in 1..Len(s) + 1 /\ Len(s) \in 0..Len(s)
  BY <1>0
<1>2. /\ SubSeq(s, n + 1, Len(s)) \in Seq(S)
      /\ Len(SubSeq(s, n + 1, Len(s))) = IF n + 1 <= Len(s) THEN Len(s) - (n + 1) + 1 ELSE 0
      /\ \A i \in 1..Len(s) - (n + 1) + 1 : SubSeq(s, n + 1, Len(s))[i] = s[n + 1 + i - 1]
  BY <1>1, SubSeqProperties
<1>3. Len(s) - (n + 1) + 1 = Len(s) - n
  BY <1>0
<1>4. \A i \in 1..Len(s) - n : n + 1 + i - 1 = n + i
  BY <1>0
<1>5. Len(SubSeq(s, n + 1, Len(s))) = Len(s) - n
  BY <1>0, <1>2
<1> QED BY Zenon, <1>2, <1>3, <1>4, <1>5

\* The store of head_ gives the cells that were read back to the producer.
LEMMA StoreHeadKeeps == RingInv /\ StoreHead => RingInv'
<1> SUFFICES ASSUME RingInv, StoreHead PROVE RingInv'
  BY Zenon
<1>0. RingType /\ IndexInv /\ ProducerInv /\ ConsumerInv /\ CellsInv
  BY Zenon DEF RingInv
<1>1. /\ cpc = "release" /\ head' = Add(head, want) /\ taken' = taken \o out
      /\ items' = SubSeq(items, want + 1, Len(items))
      /\ cpc' = "idle" /\ want' = 0 /\ out' = <<>>
      /\ UNCHANGED <<tail, headCache, tailCache, buffer, producer, refused>>
  BY Zenon DEF StoreHead
<1>2. /\ want \in Nat /\ want > 0 /\ want <= Minus(tailCache, head) /\ want <= Len(items)
      /\ want <= Minus(tail, head) /\ want \in 0..Capacity /\ Len(items) <= Capacity
  BY <1>0, <1>1, RingFacts DEF ConsumerInv, IndexInv, RingType
<1>3. /\ items' \in Seq(Values) /\ Len(items') = Len(items) - want
      /\ \A i \in 1..Len(items) - want : items'[i] = items[want + i]
  BY Zenon, <1>0, <1>1, <1>2, RingFacts, SuffixOf DEF RingType
<1>4. taken' \in Seq(Values)
  BY Zenon, <1>0, <1>1, ConcatProperties DEF RingType
<1>5. /\ Minus(tail, head') = Minus(tail, head) - want
      /\ Minus(tailCache, head') = Minus(tailCache, head) - want
      /\ head' \in Positions
  <2>0. head \in Positions /\ tail \in Positions /\ tailCache \in Positions /\ want \in Positions
    BY Zenon, <1>0, <1>2, RingFacts DEF RingType
  <2>1. Minus(tail, Add(head, want)) = Minus(tail, head) - want
    BY Zenon, <2>0, <1>2, MinusAddRight
  <2>2. Minus(tailCache, Add(head, want)) = Minus(tailCache, head) - want
    BY Zenon, <2>0, <1>2, MinusAddRight
  <2>3. Add(head, want) \in Positions
    BY Zenon, <2>0, AddLinear
  <2> QED BY Zenon, <1>1, <2>1, <2>2, <2>3
<1>6. ASSUME NEW i \in Nat, want + i \in 0..Capacity PROVE Cell(head', i) = Cell(head, want + i)
  <2>1. head \in Positions /\ want \in Positions /\ i \in Positions /\ want + i \in Positions
    <3>1. i \in 0..Capacity
      BY <1>2, <1>6, RingFacts
    <3> QED BY Zenon, <1>0, <1>2, <1>6, <3>1, RingFacts DEF RingType
  <2>2. Add(Add(head, want), i) = Add(head, want + i)
    BY Zenon, <2>1, AddAdd
  <2> QED BY Zenon, <1>1, <2>2 DEF Cell
<1>7. RingType'
  BY <1>0, <1>1, <1>3, <1>4, <1>5 DEF RingType, producer
<1>8. IndexInv'
  <2>1. /\ Minus(tail, head)' = Minus(tail, head) - want
        /\ Minus(tail, headCache)' = Minus(tail, headCache)
        /\ Minus(tailCache, head)' = Minus(tailCache, head) - want
    BY Zenon, <1>1, <1>5
  <2> QED BY <2>1, <1>0, <1>2, <1>3, RingFacts DEF IndexInv
<1>9. ConsumerInv'
  BY Zenon, <1>1 DEF ConsumerInv
<1>10. CellsInv'
  <2> SUFFICES ASSUME NEW i \in 1..Len(items') PROVE buffer[Cell(head', i - 1)] = items'[i]
    BY Zenon, <1>1 DEF CellsInv, Cell, Add
  <2> DEFINE k == want + i
  <2>1. /\ i - 1 \in Nat /\ want + (i - 1) \in 0..Capacity /\ k \in 1..Len(items)
        /\ want + (i - 1) = k - 1 /\ i \in 1..Len(items) - want
    BY <1>2, <1>3, RingFacts
  <2>2. Cell(head', i - 1) = Cell(head, want + (i - 1))
    BY Zenon, <1>6, <2>1
  <2>3. items'[i] = items[k]
    BY Zenon, <1>3, <2>1
  <2> HIDE DEF k
  <2>4. buffer[Cell(head, k - 1)] = items[k]
    BY Zenon, <1>0, <2>1 DEF CellsInv
  <2> QED BY Zenon, <2>1, <2>2, <2>3, <2>4
<1>11. ProducerInv'
  <2>0. /\ pc' = pc /\ batch' = batch /\ done' = done /\ buffer' = buffer
        /\ Minus(tail, headCache)' = Minus(tail, headCache)
    BY Zenon, <1>1 DEF producer
  <2>1. ASSUME pc \in {"write", "publish"}, NEW i \in 1..done
        PROVE  buffer[Cell(head', Len(items') + i - 1)] = batch[i]
    <3>1. /\ Len(items') + i - 1 \in Nat /\ want + (Len(items') + i - 1) \in 0..Capacity
          /\ want + (Len(items') + i - 1) = Len(items) + i - 1
      BY SMTT(20), <1>0, <1>2, <1>3, <2>1, RingFacts DEF ProducerInv, RingType, IndexInv
    <3>2. Cell(head', Len(items') + i - 1) = Cell(head, Len(items) + i - 1)
      BY Zenon, <1>6, <3>1
    <3> QED BY Zenon, <1>0, <2>1, <3>2 DEF ProducerInv
  <2>2. /\ pc \in {"write", "publish"} => Len(batch) + Minus(tail, headCache) <= Capacity /\ Len(batch) > 0
        /\ pc = "refresh" => Len(batch) > 0 /\ done = 0
        /\ pc = "write" => done < Len(batch)
        /\ pc = "publish" => done = Len(batch)
    BY Zenon, <1>0 DEF ProducerInv
  <2> QED BY Zenon, <2>0, <2>1, <2>2 DEF ProducerInv, Cell, Add
<1> QED BY Zenon, <1>7, <1>8, <1>9, <1>10, <1>11 DEF RingInv

\* Every step of the producer and of the consumer keeps the ring invariant.
LEMMA RingStep == RingInv /\ [Next]_vars => RingInv'
<1>1. RingInv /\ UNCHANGED vars => RingInv'
  BY Zenon DEF vars, indices, producer, consumer, RingInv, RingType, IndexInv, ProducerInv, ConsumerInv,
       CellsInv, Cell, Add, Minus
<1> QED BY Zenon, <1>1, PushBeginKeeps, LoadHeadKeeps, WriteCellKeeps, StoreTailKeeps, PopBeginKeeps,
       LoadTailKeeps, ReadCellKeeps, StoreHeadKeeps DEF Next, try_push_many, try_pop_many

\* The ring invariant holds in every state of try_push_many and try_pop_many.
LEMMA RingAlways == Spec => []RingInv
  BY InitRing, RingStep, PTL DEF Spec

\* The producer never writes a cell that the consumer may still read, for every
\* capacity and however the indices have wrapped.
THEOREM WritesFreeCellsThm == Spec => []WritesFreeCells
<1>1. RingInv => WritesFreeCells
  <2> SUFFICES ASSUME RingInv, pc = "write" PROVE Minus(Add(tail, done), head) < Capacity
    BY Zenon DEF WritesFreeCells
  <2>1. /\ done \in 0..Capacity /\ Minus(tail, head) + done \in 0..Capacity
        /\ Minus(tail, head) + done < Capacity /\ tail \in Positions /\ head \in Positions
    BY SMTT(20), RingFacts DEF RingInv, RingType, ProducerInv, IndexInv
  <2>2. done \in Positions /\ Minus(tail, head) + done \in Positions
    BY Zenon, <2>1, RingFacts
  <2>3. Minus(Add(tail, done), head) = Minus(tail, head) + done
    BY Zenon, <2>1, <2>2, MinusAdd
  <2> QED BY Zenon, <2>1, <2>3
<1> QED BY <1>1, RingAlways, PTL

-----------------------------------------------------------------------------
(* The ring implements a bounded FIFO *)

\* A sequence of values as places of the FIFO.
Entries(s) == [i \in DOMAIN s |-> [value |-> s[i], published |-> TRUE]]

\* The places of a sequence of values are a sequence of the same length.
LEMMA EntriesSeq ==
  ASSUME NEW s \in Seq(Values)
  PROVE  /\ Entries(s) \in Seq([value : Values, published : BOOLEAN])
         /\ Len(Entries(s)) = Len(s) /\ DOMAIN Entries(s) = 1..Len(s)
         /\ \A i \in 1..Len(s) : Entries(s)[i] = [value |-> s[i], published |-> TRUE]
<1>1. Len(s) \in Nat /\ DOMAIN s = 1..Len(s) /\ \A i \in 1..Len(s) : s[i] \in Values
  BY Zenon, LenProperties, ElementOfSeq
<1>2. Entries(s) = [i \in 1..Len(s) |-> [value |-> s[i], published |-> TRUE]]
  BY Zenon, <1>1 DEF Entries
<1> QED BY <1>1, <1>2

\* The places of a concatenation.
LEMMA EntriesConcat ==
  ASSUME NEW s \in Seq(Values), NEW t \in Seq(Values)
  PROVE  Entries(s \o t) = Entries(s) \o Entries(t)
<1> DEFINE R == [value : Values, published : BOOLEAN]
<1>1. /\ s \o t \in Seq(Values) /\ Len(s \o t) = Len(s) + Len(t)
      /\ \A i \in 1..Len(s) + Len(t) : (s \o t)[i] = IF i <= Len(s) THEN s[i] ELSE t[i - Len(s)]
  BY Zenon, ConcatProperties
<1>2. /\ Entries(s) \in Seq(R) /\ Len(Entries(s)) = Len(s)
      /\ Entries(t) \in Seq(R) /\ Len(Entries(t)) = Len(t)
      /\ Entries(s \o t) \in Seq(R) /\ Len(Entries(s \o t)) = Len(s) + Len(t)
      /\ \A i \in 1..Len(s) : Entries(s)[i] = [value |-> s[i], published |-> TRUE]
      /\ \A i \in 1..Len(t) : Entries(t)[i] = [value |-> t[i], published |-> TRUE]
      /\ \A i \in 1..Len(s) + Len(t) : Entries(s \o t)[i] = [value |-> (s \o t)[i], published |-> TRUE]
  BY Zenon, <1>1, EntriesSeq
<1> HIDE DEF R
<1>3. /\ Entries(s) \o Entries(t) \in Seq(R) /\ Len(Entries(s) \o Entries(t)) = Len(s) + Len(t)
      /\ \A i \in 1..Len(s) + Len(t) :
           (Entries(s) \o Entries(t))[i] = IF i <= Len(s) THEN Entries(s)[i] ELSE Entries(t)[i - Len(s)]
  <2> DEFINE a == Entries(s)
             b == Entries(t)
  <2>1. a \in Seq(R) /\ b \in Seq(R) /\ Len(a) = Len(s) /\ Len(b) = Len(t)
    BY Zenon, <1>2
  <2> HIDE DEF a, b
  <2>2. /\ a \o b \in Seq(R) /\ Len(a \o b) = Len(a) + Len(b)
        /\ \A i \in 1..Len(a) + Len(b) : (a \o b)[i] = IF i <= Len(a) THEN a[i] ELSE b[i - Len(a)]
    BY Zenon, <2>1, ConcatProperties
  <2>3. /\ a \o b \in Seq(R) /\ Len(a \o b) = Len(s) + Len(t)
        /\ \A i \in 1..Len(s) + Len(t) : (a \o b)[i] = IF i <= Len(s) THEN a[i] ELSE b[i - Len(s)]
    BY Zenon, <2>1, <2>2
  <2> QED BY Zenon, <2>3 DEF a, b
<1>4. Len(s) \in Nat /\ Len(t) \in Nat
  BY Zenon, LenProperties
<1>5. \A i \in 1..Len(s) + Len(t) : Entries(s \o t)[i] = (Entries(s) \o Entries(t))[i]
  <2> SUFFICES ASSUME NEW i \in 1..Len(s) + Len(t)
               PROVE  Entries(s \o t)[i] = (Entries(s) \o Entries(t))[i]
    BY Zenon
  <2>1. CASE i <= Len(s)
    <3>1. i \in 1..Len(s)
      BY <1>4, <2>1
    <3> QED BY Zenon, <1>1, <1>2, <1>3, <2>1, <3>1
  <2>2. CASE ~(i <= Len(s))
    <3>1. i - Len(s) \in 1..Len(t)
      BY <1>4, <2>2
    <3> QED BY Zenon, <1>1, <1>2, <1>3, <2>2, <3>1
  <2> QED BY Zenon, <2>1, <2>2
<1> QED BY Zenon, <1>2, <1>3, <1>5, SeqEqual

\* The places of a suffix.
LEMMA EntriesSuffix ==
  ASSUME NEW s \in Seq(Values), NEW n \in 0..Len(s)
  PROVE  Entries(SubSeq(s, n + 1, Len(s))) = SubSeq(Entries(s), n + 1, Len(s))
<1> DEFINE R == [value : Values, published : BOOLEAN]
           u == SubSeq(s, n + 1, Len(s))
           v == SubSeq(Entries(s), n + 1, Len(s))
<1>0. Len(s) \in Nat /\ n \in Nat /\ n <= Len(s)
  BY LenProperties
<1>1. /\ Entries(s) \in Seq(R) /\ Len(Entries(s)) = Len(s)
      /\ \A i \in 1..Len(s) : Entries(s)[i] = [value |-> s[i], published |-> TRUE]
  BY Zenon, EntriesSeq
<1>2. /\ u \in Seq(Values) /\ Len(u) = Len(s) - n
      /\ \A i \in 1..Len(s) - n : u[i] = s[n + i]
  BY Zenon, <1>0, SuffixOf
<1> HIDE DEF R
<1>3. /\ v \in Seq(R) /\ Len(v) = Len(s) - n
      /\ \A i \in 1..Len(s) - n : v[i] = Entries(s)[n + i]
  BY <1>0, <1>1, SuffixOf
<1>4. /\ Entries(u) \in Seq([value : Values, published : BOOLEAN]) /\ Len(Entries(u)) = Len(s) - n
      /\ \A i \in 1..Len(s) - n : Entries(u)[i] = [value |-> u[i], published |-> TRUE]
  <2> HIDE DEF u
  <2> QED BY Zenon, <1>2, EntriesSeq
<1>5. \A i \in 1..Len(s) - n : n + i \in 1..Len(s)
  BY <1>0
<1>6. \A i \in 1..Len(s) - n : Entries(u)[i] = v[i]
  <2> HIDE DEF u, v
  <2> QED BY Zenon, <1>1, <1>2, <1>3, <1>4, <1>5
<1>7. Entries(u) \in Seq(R)
  BY Zenon, <1>4 DEF R
<1> HIDE DEF u, v
<1>8. Entries(u) = v
  BY Zenon, <1>3, <1>4, <1>6, <1>7, SeqEqual
<1> QED BY Zenon, <1>8 DEF u, v

\* A push that is refused found the queue full.
LEMMA LoadHeadRefines == RingInv /\ LoadHead => [Fifo!Next]_(Fifo!vars)
<1> SUFFICES ASSUME RingInv, LoadHead PROVE [Fifo!Next]_(Fifo!vars)
  BY Zenon
<1>1. items' = items /\ taken' = taken
  BY Zenon DEF LoadHead
<1>2. CASE Available(head) = 0 /\ refused' = refused + 1
  <2>1. tail \in Positions /\ head \in Positions /\ refused \in Nat /\ items \in Seq(Values)
    BY Zenon DEF RingInv, RingType
  <2>2. Minus(tail, head) >= Capacity
    BY Zenon, <1>2, <2>1, RoomLeft
  <2>3. Len(items) = Capacity
    BY <2>2, RingFacts DEF RingInv, IndexInv
  <2>4. Len(Entries(items)) = Capacity
    BY Zenon, <2>1, <2>3, EntriesSeq
  <2>5. [p \in {1} |-> refused'] = [[p \in {1} |-> refused] EXCEPT ![1] = @ + 1]
    BY Zenon, <1>2
  <2>6. Fifo!Refuse(1)
    BY Zenon, <1>1, <2>4, <2>5 DEF Fifo!Refuse, Entries
  <2> QED BY Zenon, <2>6 DEF Fifo!Next
<1>3. CASE refused' = refused
  BY Zenon, <1>1, <1>3 DEF Fifo!vars
<1> QED BY Zenon, <1>2, <1>3 DEF LoadHead

\* The store of tail_ appends the whole batch, which fits.
LEMMA StoreTailRefines == RingInv /\ StoreTail => Fifo!Next
<1> SUFFICES ASSUME RingInv, StoreTail PROVE Fifo!Next
  BY Zenon
<1>1. items' = items \o batch /\ taken' = taken /\ refused' = refused /\ pc = "publish"
  BY Zenon DEF StoreTail
<1>2. items \in Seq(Values) /\ batch \in Seq(Values)
  BY Zenon DEF RingInv, RingType
<1>3. Entries(items') = Entries(items) \o Entries(batch)
  BY Zenon, <1>1, <1>2, EntriesConcat
<1>4. Len(batch) \in 1..Capacity - Len(items) /\ Len(items) + Len(batch) <= Capacity
  BY <1>1, RingFacts DEF RingInv, ProducerInv, IndexInv
<1>5. Len(Entries(items)) = Len(items)
  BY Zenon, <1>2, EntriesSeq
<1>6. Len(Entries(items')) = Len(items) + Len(batch)
  <2>1. items' \in Seq(Values) /\ Len(items') = Len(items) + Len(batch)
    BY Zenon, <1>1, <1>2, ConcatProperties
  <2> QED BY Zenon, <2>1, EntriesSeq
<1>7. batch \in [1..Len(batch) -> Values] /\ batch # <<>>
  BY <1>2, <1>4
<1>8. Fifo!Reserve(batch, TRUE)
  BY Zenon, <1>1, <1>3, <1>4, <1>5, <1>7 DEF Fifo!Reserve, Entries
<1>9. /\ Len(batch) \in 1..Capacity - Len(Entries(items))
      /\ Len(Entries(items')) = Len(Entries(items)) + Len(batch)
      /\ \E vs \in [1..Len(batch) -> Values], published \in BOOLEAN : Fifo!Reserve(vs, published)
  BY Zenon, <1>4, <1>5, <1>6, <1>7, <1>8
<1> QED BY Zenon, <1>9 DEF Fifo!Next, Entries

\* The store of head_ takes the values at the front, and try_pop_many returned
\* exactly those.
LEMMA StoreHeadRefines == RingInv /\ StoreHead => Fifo!Next
<1> SUFFICES ASSUME RingInv, StoreHead PROVE Fifo!Next
  BY Zenon
<1>1. /\ items' = SubSeq(items, want + 1, Len(items)) /\ taken' = taken \o out
      /\ refused' = refused /\ cpc = "release"
  BY Zenon DEF StoreHead, producer
<1>2. items \in Seq(Values) /\ out \in Seq(Values)
  BY Zenon DEF RingInv, RingType
<1>3. /\ want \in 1..Len(items) /\ want \in 0..Len(items) /\ Len(out) = want
      /\ \A i \in 1..want : i \in 1..Len(items) /\ out[i] = items[i]
  <2>1. /\ want \in 1..Len(items) /\ want \in 0..Len(items) /\ Len(out) = want
        /\ \A i \in 1..want : i \in 1..Len(items)
    BY <1>1, RingFacts DEF RingInv, RingType, ConsumerInv, IndexInv
  <2>2. \A i \in 1..Len(out) : out[i] = items[i]
    BY Zenon, <1>1 DEF RingInv, ConsumerInv
  <2> QED BY Zenon, <2>1, <2>2
<1>4. /\ Len(Entries(items)) = Len(items)
      /\ \A i \in 1..Len(items) : Entries(items)[i] = [value |-> items[i], published |-> TRUE]
  BY Zenon, <1>2, EntriesSeq
<1>5. \A i \in 1..want : Entries(items)[i].published /\ Entries(items)[i].value = items[i]
  <2> SUFFICES ASSUME NEW i \in 1..want PROVE Entries(items)[i].published /\ Entries(items)[i].value = items[i]
    BY Zenon
  <2> DEFINE e == Entries(items)[i]
  <2>1. e = [value |-> items[i], published |-> TRUE]
    BY Zenon, <1>3, <1>4
  <2> HIDE DEF e
  <2>2. e.published = TRUE /\ e.value = items[i]
    BY Zenon, <2>1
  <2> QED BY Zenon, <2>2 DEF e
<1>6. out = [i \in 1..want |-> Entries(items)[i].value]
  BY <1>2, <1>3, <1>5
<1>7. Entries(items') = SubSeq(Entries(items), want + 1, Len(Entries(items)))
  BY Zenon, <1>1, <1>2, <1>3, <1>4, EntriesSuffix
<1>8. PICK n \in 1..Len(items) : n = want
  BY Zenon, <1>3
<1>9. Fifo!Take(n)
  BY Zenon, <1>1, <1>5, <1>6, <1>7, <1>8 DEF Fifo!Take, Entries
<1>10. \E m \in 1..Len(Entries(items)) : Fifo!Take(m)
  BY Zenon, <1>4, <1>9
<1> QED BY Zenon, <1>10 DEF Fifo!Next, Entries

\* BoundedSpscQueue implements the bounded FIFO, for every capacity, batch size
\* and start of the indices: nothing is lost, repeated or reordered, and a push
\* is refused only when the queue is full.
THEOREM ImplementsFifoThm == Spec => ImplementsFifo
<1>1. Init => Fifo!Init
  <2> SUFFICES ASSUME Init PROVE Fifo!Init
    BY Zenon
  <2>1. items = <<>> /\ taken = <<>> /\ refused = 0
    BY Zenon DEF Init
  <2>2. [i \in DOMAIN items |-> [value |-> items[i], published |-> TRUE]] = <<>>
    BY <2>1
  <2> QED BY Zenon, <2>1, <2>2 DEF Fifo!Init
<1>2. RingInv /\ [Next]_vars => [Fifo!Next]_(Fifo!vars)
  <2>1. UNCHANGED vars => UNCHANGED Fifo!vars
    BY Zenon DEF vars, Fifo!vars
  <2>2. PushBegin \/ WriteCell \/ PopBegin \/ LoadTail \/ ReadCell => UNCHANGED Fifo!vars
    BY Zenon DEF PushBegin, WriteCell, PopBegin, LoadTail, ReadCell, Fifo!vars
  <2> QED BY Zenon, <2>1, <2>2, LoadHeadRefines, StoreTailRefines, StoreHeadRefines
          DEF Next, try_push_many, try_pop_many
<1> QED BY <1>1, <1>2, RingAlways, PTL DEF Spec, ImplementsFifo, Fifo!Spec
=============================================================================
