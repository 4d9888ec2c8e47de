----------------------------- MODULE SpscQueue -----------------------------
(***************************************************************************)
(* BoundedSpscQueue: one producer, one consumer, each with a cached copy   *)
(* of the other's index.  try_push and try_pop are try_push_many and       *)
(* try_pop_many of one value.  Indices wrap at Span.                       *)
(***************************************************************************)
EXTENDS Naturals, Sequences

CONSTANTS
    Capacity,       \* a power of two
    Span,           \* 2^64 in the code
    Start,          \* the queue has already carried this many elements
    MaxBatch,       \* bound: values of one try_push_many, results of one try_pop_many
    MaxPushes       \* bound: values the producer tries to push

ASSUME RingParameters ==
    /\ Capacity \in Nat \ {0} /\ Span \in Nat /\ Capacity < Span /\ Span % Capacity = 0
    /\ Start \in 0..Span - 1
    /\ MaxBatch \in Nat /\ MaxPushes \in Nat

VARIABLES
    head, tail, headCache, tailCache, buffer,
    pc, batch, done, sent,      \* producer: program point, values to write, written, tried
    cpc, want, out,             \* consumer: program point, results to take, results read
    taken, refused,             \* history
    items                       \* history: the values in the queue

indices == <<head, tail, headCache, tailCache>>
producer == <<pc, batch, done, sent>>
consumer == <<cpc, want, out>>
vars == <<indices, buffer, producer, consumer, taken, refused, items>>

Values == 1..MaxPushes
Add(a, b) == (a + b) % Span
Minus(a, b) == (a + Span - b) % Span
Lesser(a, b) == IF a < b THEN a ELSE b

Init ==
    /\ head = Start /\ tail = Start /\ headCache = Start /\ tailCache = Start
    /\ buffer = [i \in 0..Capacity - 1 |-> 0]
    /\ pc = "idle" /\ batch = <<>> /\ done = 0 /\ sent = 0
    /\ cpc = "idle" /\ want = 0 /\ out = <<>>
    /\ taken = <<>> /\ refused = 0 /\ items = <<>>

\* Mutant of Available: one cell too many.
OneTooMany(cache) == Capacity + 1 - Minus(tail, cache)

Available(cache) == LET used == Minus(tail, cache) IN IF used < Capacity THEN Capacity - used ELSE 0

\* try_push_many(values, count), up to the decision to load head_.
PushBegin ==
    /\ pc = "idle"
    /\ \E n \in 1..MaxBatch :
        /\ sent + n <= MaxPushes
        /\ sent' = sent + n
        /\ batch' = [i \in 1..n |-> sent + i]
        /\ pc' = IF n > Available(headCache) THEN "refresh" ELSE "write"
    /\ done' = 0
    /\ UNCHANGED <<indices, buffer, consumer, taken, refused, items>>

\* Mutant of LoadHead: the decision is made with the old cached index.
RefuseOnCache ==
    /\ pc = "refresh"
    /\ headCache' = head
    /\ \/ /\ Available(headCache) = 0
          /\ refused' = refused + 1
          /\ pc' = "idle" /\ batch' = <<>>
       \/ /\ Available(headCache) > 0
          /\ batch' = SubSeq(batch, 1, Lesser(Len(batch), Available(headCache)))
          /\ pc' = "write"
          /\ UNCHANGED refused
    /\ UNCHANGED <<head, tail, tailCache, buffer, done, sent, consumer, taken, items>>

LoadHead ==
    /\ pc = "refresh"
    /\ headCache' = head
    /\ \/ /\ Available(head) = 0
          /\ refused' = refused + 1
          /\ pc' = "idle" /\ batch' = <<>>
       \/ /\ Available(head) > 0
          /\ batch' = SubSeq(batch, 1, Lesser(Len(batch), Available(head)))
          /\ pc' = "write"
          /\ UNCHANGED refused
    /\ UNCHANGED <<head, tail, tailCache, buffer, done, sent, consumer, taken, items>>

WriteCell ==
    /\ pc = "write"
    /\ buffer' = [buffer EXCEPT ![Add(tail, done) % Capacity] = batch[done + 1]]
    /\ done' = done + 1
    /\ pc' = IF done + 1 = Len(batch) THEN "publish" ELSE "write"
    /\ UNCHANGED <<indices, batch, sent, consumer, taken, refused, items>>

StoreTail ==
    /\ pc = "publish"
    /\ tail' = Add(tail, Len(batch))
    /\ items' = items \o batch
    /\ pc' = "idle" /\ batch' = <<>> /\ done' = 0
    /\ UNCHANGED <<head, headCache, tailCache, buffer, sent, consumer, taken, refused>>

\* try_pop_many(out, max_count), up to the decision to load tail_.
PopBegin ==
    /\ cpc = "idle"
    /\ \E n \in 1..MaxBatch :
        /\ want' = n
        /\ cpc' = IF Minus(tailCache, head) < n THEN "refresh" ELSE "read"
    /\ out' = <<>>
    /\ UNCHANGED <<indices, buffer, producer, taken, refused, items>>

LoadTail ==
    /\ cpc = "refresh"
    /\ tailCache' = tail
    /\ cpc' = IF tail = head THEN "idle" ELSE "read"
    /\ want' = Lesser(want, Minus(tail, head))
    /\ UNCHANGED <<head, tail, headCache, buffer, producer, out, taken, refused, items>>

ReadCell ==
    /\ cpc = "read"
    /\ out' = Append(out, buffer[Add(head, Len(out)) % Capacity])
    /\ cpc' = IF Len(out) + 1 = want THEN "release" ELSE "read"
    /\ UNCHANGED <<indices, buffer, producer, want, taken, refused, items>>

StoreHead ==
    /\ cpc = "release"
    /\ head' = Add(head, want)
    /\ taken' = taken \o out
    /\ items' = SubSeq(items, want + 1, Len(items))
    /\ cpc' = "idle" /\ want' = 0 /\ out' = <<>>
    /\ UNCHANGED <<tail, headCache, tailCache, buffer, producer, refused>>

try_push_many == PushBegin \/ LoadHead \/ WriteCell \/ StoreTail
try_pop_many == PopBegin \/ LoadTail \/ ReadCell \/ StoreHead

Next == try_push_many \/ try_pop_many

Spec == Init /\ [][Next]_vars

-----------------------------------------------------------------------------
Fifo == INSTANCE BoundedFifo WITH
    Producers <- {1},
    entries <- [i \in DOMAIN items |-> [value |-> items[i], published |-> TRUE]],
    refused <- [p \in {1} |-> refused]

\* The ring implements a bounded FIFO: values come out once and in order, and a
\* push fails only on a full queue, although both sides work from stale copies
\* of the other's index and the indices wrap around.
ImplementsFifo == Fifo!Spec

\* The producer never writes a cell the consumer is entitled to read.
WritesFreeCells ==
    pc = "write" => Minus(Add(tail, done), head) < Capacity
=============================================================================
