----------------------------- MODULE ObjectPool -----------------------------
(***************************************************************************)
(* ObjectPool: blocks of slots with a lock-free free stack each, and a     *)
(* cache of slots per thread.  Each access to free_head, to next_free, to  *)
(* hot_block_ and to the block list is a step; a thread's own cache needs  *)
(* none.  Slots are numbered through all blocks; 0 is null_slot_index.     *)
(***************************************************************************)
EXTENDS Integers, Sequences, SequencesExt, FiniteSets

CONSTANTS
    Threads,        \* threads that create and destroy objects
    ChunkSize,      \* slots of a block
    MaxBlocks,      \* bound: blocks added
    CacheCapacity,  \* LocalCacheCapacity
    MaxCreates      \* bound: objects created by each thread

VARIABLES
    cacheIndex,     \* CacheAllocatedSlotIndex, chosen at the start
    head,           \* head[b]: free_head of block b: index and version
    nextFree,       \* next_free of every slot
    blocks,         \* blocks in the list, the newest first in its search
    hot,            \* hot_block_, 0 before the first block
    cache,          \* slots in the thread's cache
    objects,        \* slots of the objects the thread holds
    creates,        \* objects it created
    pc,             \* where the thread is
    at,             \* the block it works on
    seen,           \* the head it loaded
    cursor,         \* the link it read last in try_pop_many, or the first index
                    \* it pushes
    walk,           \* slots collected by try_pop_many, or to be pushed
    wants,          \* max_count of try_pop_many
    stage           \* where the block comes from: hot_block_, the list, add_block

local == <<cursor, walk, wants, stage>>
vars == <<cacheIndex, head, nextFree, blocks, hot, cache, objects, creates, pc, at, seen, local>>

Blocks == 1..MaxBlocks
Slots == 1..(MaxBlocks * ChunkSize)
Block(s) == ((s - 1) \div ChunkSize) + 1
First(b) == (b - 1) * ChunkSize + 1

Null == [index |-> 0, version |-> 0]

\* Block(): the slots are linked in order.
Init ==
    /\ cacheIndex \in BOOLEAN
    /\ head = [b \in Blocks |-> [index |-> First(b), version |-> 0]]
    /\ nextFree = [s \in Slots |-> IF s % ChunkSize = 0 THEN 0 ELSE s + 1]
    /\ blocks = 0 /\ hot = 0
    /\ cache = [t \in Threads |-> <<>>]
    /\ objects = [t \in Threads |-> {}]
    /\ creates = [t \in Threads |-> 0]
    /\ pc = [t \in Threads |-> "idle"]
    /\ at = [t \in Threads |-> 0]
    /\ seen = [t \in Threads |-> Null]
    /\ walk = [t \in Threads |-> <<>>]
    /\ cursor = [t \in Threads |-> 0]
    /\ wants = [t \in Threads |-> 0]
    /\ stage = [t \in Threads |-> "hot"]

Shared == <<head, nextFree, blocks, hot>>
Set(f, t, v) == [f EXCEPT ![t] = v]

\* The call returns; its locals are gone.
Return(t) ==
    /\ pc' = Set(pc, t, "idle") /\ at' = Set(at, t, 0) /\ seen' = Set(seen, t, Null)
    /\ cursor' = Set(cursor, t, 0) /\ walk' = Set(walk, t, <<>>)
    /\ wants' = Set(wants, t, 0) /\ stage' = Set(stage, t, "hot")

-----------------------------------------------------------------------------
(* Taking slots.                                                            *)

\* acquire_slot with a cached slot.
AcquireCached(t) ==
    /\ pc[t] = "idle" /\ creates[t] < MaxCreates[t] /\ cache[t] # <<>>
    /\ objects' = Set(objects, t, objects[t] \cup {Last(cache[t])})
    /\ cache' = Set(cache, t, Front(cache[t]))
    /\ creates' = Set(creates, t, creates[t] + 1)
    /\ UNCHANGED <<Shared, pc, at, seen, local>>

\* acquire_slot_slow fills the cache, acquire_slot_uncached takes one slot.
AcquireSlow(t) ==
    /\ pc[t] = "idle" /\ creates[t] < MaxCreates[t] /\ cache[t] = <<>>
    /\ creates' = Set(creates, t, creates[t] + 1)
    /\ wants' \in {Set(wants, t, n) : n \in {1, CacheCapacity}}
    /\ pc' = Set(pc, t, "hot")
    /\ UNCHANGED <<Shared, cache, objects, at, seen, cursor, walk, stage>>

Try(t, b, from) == at' = Set(at, t, b) /\ stage' = Set(stage, t, from) /\ pc' = Set(pc, t, "load")

\* add_block links the block; the store of hot_block_ follows.
add_block(t) ==
    /\ blocks < MaxBlocks
    /\ blocks' = blocks + 1
    /\ at' = Set(at, t, blocks + 1) /\ stage' = Set(stage, t, "added")
    /\ pc' = Set(pc, t, "store")

\* The hot block; then the list, newest first; then a new block.
HotBlock(t) ==
    /\ pc[t] = "hot"
    /\ IF hot # 0 THEN Try(t, hot, "hot") ELSE pc' = Set(pc, t, "search") /\ UNCHANGED <<at, stage>>
    /\ UNCHANGED <<Shared, cache, objects, creates, seen, cursor, walk, wants>>

SearchBlocks(t) ==
    /\ \/ pc[t] = "search" /\ blocks > 0 /\ Try(t, blocks, "list") /\ UNCHANGED blocks
       \/ pc[t] = "next" /\ at[t] > 1 /\ Try(t, at[t] - 1, "list") /\ UNCHANGED blocks
       \/ pc[t] = "search" /\ blocks = 0 /\ add_block(t)
       \/ pc[t] = "next" /\ at[t] = 1 /\ add_block(t)
    /\ UNCHANGED <<head, nextFree, hot, cache, objects, creates, seen, cursor, walk, wants>>

\* What follows a block whose stack is empty.
Failed(t) == CASE stage[t] = "hot" -> "search" [] stage[t] = "list" -> "next" [] OTHER -> "hot"

\* try_pop_many: load the head (again, when the swap failed) ...
SeeHead(t) ==
    /\ seen' = Set(seen, t, head[at[t]])
    /\ cursor' = Set(cursor, t, head[at[t]].index)
    /\ walk' = Set(walk, t, <<>>)
    /\ pc' = Set(pc, t, IF head[at[t]].index = 0 THEN Failed(t) ELSE "walk")

LoadHead(t) ==
    /\ pc[t] = "load"
    /\ SeeHead(t)
    /\ UNCHANGED <<Shared, cache, objects, creates, at, wants, stage>>

\* ... follow next_free, which other threads may be changing ...
WalkLinks(t) ==
    /\ pc[t] = "walk"
    /\ IF Len(walk[t]) < wants[t] /\ cursor[t] # 0
       THEN /\ walk' = Set(walk, t, Append(walk[t], cursor[t]))
            /\ cursor' = Set(cursor, t, nextFree[cursor[t]])
            /\ UNCHANGED pc
       ELSE pc' = Set(pc, t, "cas") /\ UNCHANGED <<walk, cursor>>
    /\ UNCHANGED <<Shared, cache, objects, creates, at, seen, wants, stage>>

\* Mutant of NewVersion: a head that returns to an earlier slot looks unchanged.
SameVersion(v) == v

\* free_head_version(head) + 1 (48 bits)
NewVersion(v) == v + 1

\* ... and swing the head past what was collected.
PopSlots(t) ==
    /\ pc[t] = "cas"
    /\ IF head[at[t]] = seen[t]
       THEN /\ head' = [head EXCEPT ![at[t]] =
                           [index |-> cursor[t], version |-> NewVersion(seen[t].version)]]
            /\ pc' = Set(pc, t, "own")
            /\ UNCHANGED <<seen, cursor, walk>>
       ELSE SeeHead(t) /\ UNCHANGED head
    /\ UNCHANGED <<nextFree, blocks, hot, cache, objects, creates, at, wants, stage>>

\* A slot that now belongs to the thread remembers its own index.
Remember(slots) ==
    IF cacheIndex THEN [s \in Slots |-> IF s \in slots THEN s ELSE nextFree[s]] ELSE nextFree

\* refill_cache_from_block and pop: the last slot is handed out; a block found in
\* the list becomes the hot one.
TakeSlots(t) ==
    /\ pc[t] = "own"
    /\ nextFree' = Remember(ToSet(walk[t]))
    /\ objects' = Set(objects, t, objects[t] \cup {Last(walk[t])})
    /\ cache' = Set(cache, t, Front(walk[t]))
    /\ IF stage[t] = "list"
       THEN /\ pc' = Set(pc, t, "store") /\ walk' = Set(walk, t, <<>>)
            /\ UNCHANGED <<at, seen, cursor, wants, stage>>
       ELSE Return(t)
    /\ UNCHANGED <<head, blocks, hot, creates>>

StoreHotBlock(t) ==
    /\ pc[t] = "store"
    /\ hot' = at[t]
    /\ IF stage[t] = "added"
       THEN Try(t, at[t], "added") /\ UNCHANGED <<seen, cursor, walk, wants>>
       ELSE Return(t)
    /\ UNCHANGED <<head, nextFree, blocks, cache, objects, creates>>

-----------------------------------------------------------------------------
(* Giving slots back.                                                       *)

\* release_slot into the thread's cache, while there is room.
ReleaseCached(t) ==
    /\ pc[t] = "idle" /\ Len(cache[t]) < CacheCapacity
    /\ \E s \in objects[t] :
          /\ objects' = Set(objects, t, objects[t] \ {s})
          /\ cache' = Set(cache, t, Append(cache[t], s))
    /\ UNCHANGED <<Shared, creates, pc, at, seen, local>>

\* release_slot_uncached, or by a thread that never acquired: one slot goes back.
\* An object may have been handed over by another thread.
ReleaseDirect(t) ==
    /\ pc[t] = "idle"
    /\ \E u \in Threads : \E s \in objects[u] :
          /\ u = t \/ pc[u] = "idle"
          /\ objects' = Set(objects, u, objects[u] \ {s})
          /\ walk' = Set(walk, t, <<s>>)
          /\ at' = Set(at, t, Block(s))
    /\ pc' = Set(pc, t, "push")
    /\ UNCHANGED <<Shared, cache, creates, seen, cursor, wants, stage>>

\* LocalCache::flush_some: the last slots of the cache that share a block.
FlushCache(t) ==
    /\ pc[t] = "idle" /\ cache[t] # <<>>
    /\ LET b == Block(Last(cache[t]))
           n == CHOOSE k \in 0..(Len(cache[t]) - 1) :
                   /\ \A j \in (k + 1)..Len(cache[t]) : Block(cache[t][j]) = b
                   /\ k > 0 => Block(cache[t][k]) # b
       IN \E k \in n..(Len(cache[t]) - 1) :
             /\ walk' = Set(walk, t, SubSeq(cache[t], k + 1, Len(cache[t])))
             /\ cache' = Set(cache, t, SubSeq(cache[t], 1, k))
             /\ at' = Set(at, t, b)
    /\ pc' = Set(pc, t, "push")
    /\ UNCHANGED <<Shared, objects, creates, seen, cursor, wants, stage>>

\* The index of a slot of the thread: what it remembers, or its place.
released_slot_index(s) == IF cacheIndex THEN nextFree[s] ELSE s

\* push and push_many link the slots and load the head.
LinkSlots(t) ==
    /\ pc[t] = "push"
    /\ LET n == Len(walk[t])
           position(s) == CHOOSE k \in 1..n : walk[t][k] = s
       IN nextFree' = [s \in Slots |-> IF s \in ToSet(Front(walk[t]))
                                       THEN released_slot_index(walk[t][position(s) + 1])
                                       ELSE nextFree[s]]
    /\ cursor' = Set(cursor, t, released_slot_index(Head(walk[t])))
    /\ seen' = Set(seen, t, head[at[t]])
    /\ pc' = Set(pc, t, "link")
    /\ UNCHANGED <<head, blocks, hot, cache, objects, creates, at, walk, wants, stage>>

LinkLast(t) ==
    /\ pc[t] = "link"
    /\ nextFree' = [nextFree EXCEPT ![Last(walk[t])] = seen[t].index]
    /\ pc' = Set(pc, t, "swing")
    /\ UNCHANGED <<head, blocks, hot, cache, objects, creates, at, seen, local>>

PushSlots(t) ==
    /\ pc[t] = "swing"
    /\ IF head[at[t]] = seen[t]
       THEN /\ head' = [head EXCEPT ![at[t]] =
                           [index |-> cursor[t], version |-> NewVersion(seen[t].version)]]
            /\ Return(t)
       ELSE /\ seen' = Set(seen, t, head[at[t]]) /\ pc' = Set(pc, t, "link")
            /\ UNCHANGED <<head, at, local>>
    /\ UNCHANGED <<nextFree, blocks, hot, cache, objects, creates>>

Step(t) ==
    \/ AcquireCached(t) \/ AcquireSlow(t) \/ HotBlock(t) \/ SearchBlocks(t)
    \/ LoadHead(t) \/ WalkLinks(t) \/ PopSlots(t) \/ TakeSlots(t) \/ StoreHotBlock(t)
    \/ ReleaseCached(t) \/ ReleaseDirect(t) \/ FlushCache(t)
    \/ LinkSlots(t) \/ LinkLast(t) \/ PushSlots(t)

Next == UNCHANGED cacheIndex /\ \E t \in Threads : Step(t)

Spec == Init /\ [][Next]_vars

-----------------------------------------------------------------------------

\* Slots on the free stack of block b: those reachable from its head.
FreeIn(b) ==
    LET chain[n \in 0..ChunkSize] ==
           IF n = 0 THEN {head[b].index} \ {0}
           ELSE chain[n - 1] \cup ({nextFree[s] : s \in chain[n - 1]} \ {0})
    IN chain[ChunkSize]

InHand(t) == objects[t] \cup ToSet(cache[t])
                \cup (IF pc[t] \in {"own", "push", "link", "swing"}
                      THEN ToSet(walk[t]) ELSE {})

\* Every slot is in exactly one place: on its block's free stack, or with one
\* thread (as an object, in its cache, or on its way back).  A slot handed to
\* two threads, a lost slot or a stack that leads into a slot in use breaks it.
SlotsConserved ==
    /\ \A t, u \in Threads : t # u => InHand(t) \cap InHand(u) = {}
    /\ \A b \in Blocks :
          LET out == {s \in Slots : Block(s) = b /\ \E t \in Threads : s \in InHand(t)}
          IN /\ FreeIn(b) \cap out = {}
             /\ FreeIn(b) \cup out = First(b)..(b * ChunkSize)
=============================================================================
