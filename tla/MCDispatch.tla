----------------------------- MODULE MCDispatch -----------------------------
(***************************************************************************)
(* What executors do with their queues when these are full, the object     *)
(* pool that tasks come from, and ordered batches over shards, on small    *)
(* instances and in one run. A behaviour picks one part at the start and   *)
(* stays in it; the others keep their initial states.                      *)
(***************************************************************************)
EXTENDS OrderedBatches

CONSTANTS t1, t2, t3, t4   \* model values: tasks, and threads of the pool

VARIABLES
    part,
    b_setup, b_local, b_spsc, b_mpsc, b_stack, b_state, b_runs,
    o_cacheIndex, o_head, o_nextFree, o_blocks, o_hot, o_cache, o_objects, o_creates,
    o_pc, o_at, o_seen, o_cursor, o_walk, o_wants, o_stage

ordered == vars
full == <<b_setup, b_local, b_spsc, b_mpsc, b_stack, b_state, b_runs>>
pool == <<o_cacheIndex, o_head, o_nextFree, o_blocks, o_hot, o_cache, o_objects,
          o_creates, o_pc, o_at, o_seen, o_cursor, o_walk, o_wants, o_stage>>
all == <<part, ordered, full, pool>>

-----------------------------------------------------------------------------

\* Apply tasks beside the shards with handlers that succeed, and apply tasks on a
\* shard's executor with handlers that fail, under either replay policy.
Applications ==
  {[apply |-> 0, retryable |-> TRUE, handlerFails |-> FALSE],
   [apply |-> 1, retryable |-> TRUE, handlerFails |-> TRUE],
   [apply |-> 1, retryable |-> FALSE, handlerFails |-> TRUE]}

Downstream == [e \in {1, 2} |-> {d \in {1, 2} : d >= e}]
StrictlyDownstream == [e \in {1, 2} |-> {d \in {1, 2} : d > e}]

\* No cycle of executors that wait for each other: tasks post to their own
\* executor and to those after it, Ordered only to those after it.
Acyclic ==
  {[policy |-> "Yield", reach |-> Downstream, modes |-> {"Auto"}],
   [policy |-> "Reject", reach |-> Downstream, modes |-> {"Auto"}],
   [policy |-> "Yield", reach |-> StrictlyDownstream, modes |-> {"Auto", "Ordered"}]}

Full == INSTANCE Backpressure WITH
    Executors <- {1, 2}, Tasks <- {t1, t2, t3, t4}, Capacity <- 1, MaxRuns <- 2, Setups <- Acyclic,
    setup <- b_setup, local <- b_local, spsc <- b_spsc, mpsc <- b_mpsc,
    stack <- b_stack, state <- b_state, runs <- b_runs

Pool == INSTANCE ObjectPool WITH
    Threads <- {t1, t2}, ChunkSize <- 2, MaxBlocks <- 2, CacheCapacity <- 2,
    MaxCreates <- [t \in {t1, t2} |-> IF t = t1 THEN 1 ELSE 2],
    cacheIndex <- o_cacheIndex, head <- o_head, nextFree <- o_nextFree,
    blocks <- o_blocks, hot <- o_hot, cache <- o_cache, objects <- o_objects,
    creates <- o_creates, pc <- o_pc, at <- o_at, seen <- o_seen, cursor <- o_cursor,
    walk <- o_walk, wants <- o_wants, stage <- o_stage

DispatchInit ==
    /\ part \in {"ordered", "full", "pool"}
    /\ Init
    /\ part # "ordered" => setup.apply = 0
    /\ Full!Init
    /\ part # "full" => b_setup.reach = StrictlyDownstream
    /\ Pool!Init /\ (part # "pool" => o_cacheIndex = FALSE)

DispatchNext ==
    \/ /\ part = "ordered" /\ Next
       /\ UNCHANGED <<part, full, pool>>
    \/ /\ part = "full" /\ Full!Next
       /\ UNCHANGED <<part, ordered, pool>>
    \/ /\ part = "pool" /\ Pool!Next
       /\ UNCHANGED <<part, ordered, full>>

\* Fairness and Full!Fairness, each for its part.
DispatchFairness ==
    /\ WF_ordered(part = "ordered" /\ submit)
    /\ \A e \in Executors : WF_ordered(part = "ordered" /\ RunLoop(e))
    /\ WF_ordered(part = "ordered" /\ cancel_registered_tasks)
    /\ \A e \in {1, 2} : WF_full(part = "full" /\ Full!Run(e))

DispatchSpec == DispatchInit /\ [][DispatchNext]_all /\ DispatchFairness

-----------------------------------------------------------------------------
\* Through full queues a task is never lost and never in two places.
TaskInOnePlace == Full!TaskInOnePlace

\* Every slot of the pool is on its block's free stack or with one thread, never
\* in two places, through concurrent pops and pushes of several slots.
SlotsConserved == Pool!SlotsConserved

\* Every batch the sequencer started ends, and so does every queued task when
\* the executors that post to one another form no cycle.
DispatchSettles == []<>(Quiet /\ Full!Quiet)
=============================================================================
