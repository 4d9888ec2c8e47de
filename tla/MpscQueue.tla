----------------------------- MODULE MpscQueue -----------------------------
(***************************************************************************)
(* BoundedMpscQueue: sequence-numbered cells, producers that reserve       *)
(* positions with a CAS on enqueue_pos_ and publish each cell, and one     *)
(* consumer.  try_push is try_push_many of one value, try_pop is           *)
(* try_pop_many of one.  Positions and sequences wrap at Span.             *)
(***************************************************************************)
EXTENDS Naturals, Sequences

CONSTANTS
    Producers,
    Capacity,       \* a power of two, as normalize_bounded_queue_capacity makes it
    Span,           \* 2^64 in the code
    Start,          \* the queue has already carried this many elements
    MaxBatch,       \* bound: values of one try_push_many, results of one try_pop_many
    MaxPushes       \* bound: values each producer tries to push

VARIABLES
    enqueuePos, dequeuePos, sequence, data,
    pc, pos, batch, reservable, done,   \* producers: locals of try_push_many
    sent,                               \* values each producer has tried
    cpc, cpos, left,                    \* consumer: locals of try_pop_many
    taken, refused,                     \* history
    claims                              \* history: the values reserved and not yet taken

cells == <<enqueuePos, dequeuePos, sequence, data>>
producer == <<pc, pos, batch, reservable, done, sent>>
consumer == <<cpc, cpos, left>>
vars == <<cells, producer, consumer, taken, refused, claims>>

Values == Producers \X (1..MaxPushes)
NoValue == <<"none", 0>>
Add(a, b) == (a + b) % Span
Minus(a, b) == (a + Span - b) % Span
Index(position) == position % Capacity

\* bounded_queue_sequence_before
SequenceBefore(seq, position) == Minus(seq, position) >= Span \div 2

\* The next position to be reserved or taken for the cell i of a queue that
\* has carried Start elements and is empty.
FreshSequence(i) == Add(Start, Minus(i, Start) % Capacity)

Init ==
    /\ enqueuePos = Start /\ dequeuePos = Start
    /\ sequence = [i \in 0..Capacity - 1 |-> FreshSequence(i)]
    /\ data = [i \in 0..Capacity - 1 |-> NoValue]
    /\ pc = [p \in Producers |-> "idle"] /\ pos = [p \in Producers |-> 0]
    /\ batch = [p \in Producers |-> <<>>] /\ reservable = [p \in Producers |-> 0]
    /\ done = [p \in Producers |-> 0] /\ sent = [p \in Producers |-> 0]
    /\ cpc = "idle" /\ cpos = Start /\ left = 0
    /\ taken = <<>> /\ refused = [p \in Producers |-> 0] /\ claims = <<>>

Go(p, l) == pc' = [pc EXCEPT ![p] = l]

PushReturn(p) ==
    /\ Go(p, "idle")
    /\ pos' = [pos EXCEPT ![p] = 0] /\ batch' = [batch EXCEPT ![p] = <<>>]
    /\ reservable' = [reservable EXCEPT ![p] = 0] /\ done' = [done EXCEPT ![p] = 0]

\* try_push_many(values, count): load enqueue_pos_.
PushBegin(p) ==
    /\ pc[p] = "idle"
    /\ \E n \in 1..MaxBatch :
        /\ sent[p] + n <= MaxPushes
        /\ batch' = [batch EXCEPT ![p] = [i \in 1..n |-> <<p, sent[p] + i>>]]
        /\ sent' = [sent EXCEPT ![p] = @ + n]
    /\ pos' = [pos EXCEPT ![p] = enqueuePos]
    /\ Go(p, "loadSeq")
    /\ UNCHANGED <<cells, reservable, done, consumer, taken, refused, claims>>

\* min(count, capacity_)
Count(p) == IF Len(batch[p]) < Capacity THEN Len(batch[p]) ELSE Capacity

\* Mutant of LoadSequence: a stale position is taken for a full queue.
StaleIsFull(p) ==
    /\ pc[p] = "loadSeq"
    /\ LET expected == Add(pos[p], reservable[p])
           seq == sequence[Index(expected)]
       IN \/ /\ seq = expected
             /\ reservable' = [reservable EXCEPT ![p] = @ + 1]
             /\ Go(p, IF reservable[p] + 1 < Count(p) THEN "loadSeq" ELSE "cas")
             /\ UNCHANGED <<pos, batch, done, refused>>
          \/ /\ seq # expected /\ reservable[p] > 0
             /\ Go(p, "cas")
             /\ UNCHANGED <<pos, batch, reservable, done, refused>>
          \/ /\ seq # expected /\ reservable[p] = 0
             /\ refused' = [refused EXCEPT ![p] = @ + 1]
             /\ PushReturn(p)
    /\ UNCHANGED <<cells, sent, consumer, taken, claims>>

\* One turn of the loop that counts reservable cells.
LoadSequence(p) ==
    /\ pc[p] = "loadSeq"
    /\ LET expected == Add(pos[p], reservable[p])
           seq == sequence[Index(expected)]
       IN \/ /\ seq = expected
             /\ reservable' = [reservable EXCEPT ![p] = @ + 1]
             /\ Go(p, IF reservable[p] + 1 < Count(p) THEN "loadSeq" ELSE "cas")
             /\ UNCHANGED <<pos, batch, done, refused>>
          \/ /\ seq # expected /\ reservable[p] > 0
             /\ Go(p, "cas")
             /\ UNCHANGED <<pos, batch, reservable, done, refused>>
          \/ /\ seq # expected /\ reservable[p] = 0 /\ SequenceBefore(seq, expected)
             /\ refused' = [refused EXCEPT ![p] = @ + 1]
             /\ PushReturn(p)
          \/ /\ seq # expected /\ reservable[p] = 0 /\ ~SequenceBefore(seq, expected)
             /\ Go(p, "loadPos")
             /\ UNCHANGED <<pos, batch, reservable, done, refused>>
    /\ UNCHANGED <<cells, sent, consumer, taken, claims>>

ReloadPos(p) ==
    /\ pc[p] = "loadPos"
    /\ pos' = [pos EXCEPT ![p] = enqueuePos]
    /\ Go(p, "loadSeq")
    /\ UNCHANGED <<cells, batch, reservable, done, sent, consumer, taken, refused, claims>>

\* Mutant of ReserveCas: a store instead of the compare-exchange.
ReserveStore(p) ==
    /\ pc[p] = "cas"
    /\ enqueuePos' = Add(pos[p], reservable[p])
    /\ claims' = claims \o SubSeq(batch[p], 1, reservable[p])
    /\ Go(p, "write")
    /\ UNCHANGED <<dequeuePos, sequence, data, pos, batch, reservable, done, sent, consumer, taken,
                   refused>>

\* compare_exchange_weak on enqueue_pos_: a failure, also a spurious one, loads
\* the current position and starts again.
ReserveCas(p) ==
    /\ pc[p] = "cas"
    /\ \/ /\ enqueuePos = pos[p]
          /\ enqueuePos' = Add(pos[p], reservable[p])
          /\ claims' = claims \o SubSeq(batch[p], 1, reservable[p])
          /\ Go(p, "write")
          /\ UNCHANGED <<pos, reservable>>
       \/ /\ pos' = [pos EXCEPT ![p] = enqueuePos]
          /\ reservable' = [reservable EXCEPT ![p] = 0]
          /\ Go(p, "loadSeq")
          /\ UNCHANGED <<enqueuePos, claims>>
    /\ UNCHANGED <<dequeuePos, sequence, data, batch, done, sent, consumer, taken, refused>>

WriteCell(p) ==
    /\ pc[p] = "write"
    /\ data' = [data EXCEPT ![Index(Add(pos[p], done[p]))] = batch[p][done[p] + 1]]
    /\ Go(p, "publish")
    /\ UNCHANGED <<enqueuePos, dequeuePos, sequence, pos, batch, reservable, done, sent, consumer,
                   taken, refused, claims>>

PublishCell(p) ==
    /\ pc[p] = "publish"
    /\ LET at == Add(pos[p], done[p]) IN sequence' = [sequence EXCEPT ![Index(at)] = Add(at, 1)]
    /\ \/ /\ done[p] + 1 < reservable[p]
          /\ done' = [done EXCEPT ![p] = @ + 1]
          /\ Go(p, "write")
          /\ UNCHANGED <<pos, batch, reservable>>
       \/ done[p] + 1 = reservable[p] /\ PushReturn(p)
    /\ UNCHANGED <<enqueuePos, dequeuePos, data, sent, consumer, taken, refused, claims>>

PopBegin ==
    /\ cpc = "idle"
    /\ \E n \in 1..MaxBatch : left' = n
    /\ cpos' = dequeuePos
    /\ cpc' = "loadSeq"
    /\ UNCHANGED <<cells, producer, taken, refused, claims>>

LoadHead ==
    /\ cpc = "loadSeq"
    /\ \/ /\ left > 0 /\ sequence[Index(cpos)] = Add(cpos, 1)
          /\ cpc' = "read"
          /\ UNCHANGED <<left, dequeuePos>>
       \/ /\ left = 0 \/ sequence[Index(cpos)] # Add(cpos, 1)
          /\ dequeuePos' = cpos
          /\ cpc' = "idle" /\ left' = 0
    /\ UNCHANGED <<enqueuePos, sequence, data, producer, cpos, taken, refused, claims>>

\* Read the cell and hand it back to the producers of the next lap.
ReadCell ==
    /\ cpc = "read"
    /\ taken' = Append(taken, data[Index(cpos)])
    /\ cpc' = "release"
    /\ UNCHANGED <<cells, producer, cpos, left, refused, claims>>

ReleaseCell ==
    /\ cpc = "release"
    /\ sequence' = [sequence EXCEPT ![Index(cpos)] = Add(cpos, Capacity)]
    /\ claims' = Tail(claims)
    /\ cpos' = Add(cpos, 1) /\ left' = left - 1
    /\ cpc' = "loadSeq"
    /\ UNCHANGED <<enqueuePos, dequeuePos, data, producer, taken, refused>>

try_push_many(p) ==
    \/ PushBegin(p) \/ LoadSequence(p) \/ ReloadPos(p) \/ ReserveCas(p) \/ WriteCell(p) \/ PublishCell(p)

try_pop_many == PopBegin \/ LoadHead \/ ReadCell \/ ReleaseCell

Next == try_pop_many \/ \E p \in Producers : try_push_many(p)

Spec == Init /\ [][Next]_vars

-----------------------------------------------------------------------------
\* The head as the queue's users see it: the cell being released still counts.
Head0 == cpos
Published(i) == sequence[Index(Add(Head0, i - 1))] = Add(Head0, i)

\* A taken value is a released one: the copy in the consumer's hand is not yet out.
Out == IF cpc = "release" THEN SubSeq(taken, 1, Len(taken) - 1) ELSE taken

Fifo == INSTANCE BoundedFifo WITH
    entries <- [i \in DOMAIN claims |-> [value |-> claims[i], published |-> Published(i)]],
    taken <- Out

\* The cells implement a bounded FIFO: values come out once, in the order their
\* positions were reserved, try_push fails only on a full queue and try_pop
\* takes only published cells, across wrap-around of the positions.
ImplementsFifo == Fifo!Spec

\* A cell has one owner: no producer writes a cell while the consumer reads it
\* or another producer writes it.
CellsOwned ==
    \A p \in Producers : pc[p] \in {"write", "publish"} =>
        LET mine == Index(Add(pos[p], done[p])) IN
        /\ cpc \in {"read", "release"} => mine # Index(cpos)
        /\ \A q \in Producers \ {p} : pc[q] \in {"write", "publish"} => mine # Index(Add(pos[q], done[q]))
=============================================================================
