--------------------------- MODULE OrderedBatches ---------------------------
(***************************************************************************)
(* Ordered batches applied to shards in parallel.  Producers hand batches  *)
(* to a sequencer thread with start_ordered_task, in any order and more    *)
(* than once; OrderedStartState starts one apply task per batch, in batch  *)
(* order.  An apply task calls parallel_shards_ordered, which runs a shard *)
(* on the calling thread and posts a ShardTask for every other one; each   *)
(* shard checks its order guard, calls the handler and completes the       *)
(* RuntimeParallelGroup; the last completion resumes the apply task, which *)
(* finishes or tries the batch again.                                      *)
(*                                                                         *)
(* Shard i lives on executor i; the apply tasks run on executor Apply,     *)
(* which may be one of the shards.  Executor queues are the FIFO channels  *)
(* of BoundedFifo, one for each source, unbounded here.  The wake of a     *)
(* running apply task follows the contract proved in TaskWakeProofs:       *)
(* exactly one wake, to the executor the task runs on, is never lost.      *)
(***************************************************************************)
EXTENDS Naturals, Sequences, FiniteSets

CONSTANTS
  ShardCount,   \* shards of a batch: executors 1..ShardCount
  MaxBatch,     \* batch ids are 1..MaxBatch
  MaxSubmits,   \* bound: calls of start_ordered_task
  MaxRetries,   \* OrderedBatchRetrySkipOptions::max_retries of the apply task
  Setups        \* the applications: [apply, retryable, handlerFails]

ASSUME BatchParameters ==
  /\ ShardCount \in Nat \ {0}
  /\ MaxBatch \in Nat /\ MaxSubmits \in Nat /\ MaxRetries \in Nat
  /\ Setups \subseteq [apply : 0 .. ShardCount, retryable : BOOLEAN, handlerFails : BOOLEAN]

Shards == 1 .. ShardCount
Executors == 0 .. ShardCount
Batches == 1 .. MaxBatch

VARIABLES
  setup,        \* the application; it never changes
  submits,      \* calls of start_ordered_task so far
  inbox,        \* OrderedStartTasks queued at the sequencer thread
  next,         \* OrderedStartState::next_batch_id
  buffered,     \* OrderedStartState::pending, by batch id
  queue,        \* queue[src][dst]: the tasks src posted to dst
  run,          \* what each executor is executing
  task,         \* the apply task of each batch
  group,        \* the RuntimeParallelGroup of each batch's apply task
  last,         \* last_applied_batch_id of each shard
  handled,      \* history: the batches each shard's handler has applied, in order
  stop          \* the phase of a StopImmediately shutdown

vars == <<setup, submits, inbox, next, buffered, queue, run, task, group, last, handled, stop>>

Apply == setup.apply                \* the executor of the apply tasks (0: none of the shards)
Retryable == setup.retryable        \* replay_policy is SkipAlreadyApplied, not Strict
HandlerFails == setup.handlerFails  \* a shard handler may return false

Sequencer == ShardCount + 1
Sources == Executors \union {Sequencer}
Item(kind, b) == [kind |-> kind, batch |-> b]
Idle == [kind |-> "idle", batch |-> 0, at |-> "none", shard |-> 0]
Exited == [Idle EXCEPT !.kind = "exited"]
NoGroup == [pending |-> 0, failed |-> 0]

Init ==
  /\ setup \in Setups
  /\ submits = 0
  /\ inbox = <<>>
  /\ next = 1
  /\ buffered = {}
  /\ queue = [s \in Sources |-> [d \in Executors |-> <<>>]]
  /\ run = [e \in Executors |-> Idle]
  /\ task = [b \in Batches |-> [state |-> "none", requested |-> FALSE, failures |-> 0, tries |-> 0]]
  /\ group = [b \in Batches |-> NoGroup]
  /\ last = [s \in Shards |-> 0]
  /\ handled = [s \in Shards |-> <<>>]
  /\ stop = "no"

-----------------------------------------------------------------------------
(* The sequencer *)

start_ordered_task(b) ==
  /\ submits < MaxSubmits
  /\ stop = "no"
  /\ submits' = submits + 1
  /\ inbox' = Append(inbox, b)
  /\ UNCHANGED <<setup, next, buffered, queue, run, task, group, last, handled, stop>>

\* submit, start_ready and drain_ready: batch b and those buffered behind it are
\* started, in order, up to batch n; when start_task refuses batch n + 1, that
\* batch has already left `pending` and is dropped, and the sequence stays at it.
StartReady(b) ==
  \E n \in (b - 1) .. MaxBatch :
    /\ (b + 1) .. n \subseteq buffered
    /\ next' = n + 1
    /\ buffered' = buffered \ (b .. (n + 1))
    /\ queue' = [queue EXCEPT ![Sequencer][Apply] =
                   @ \o [i \in 1 .. (n + 1 - b) |-> Item("apply", b + i - 1)]]
    /\ task' = [c \in Batches |-> IF c \in b .. n THEN [task[c] EXCEPT !.state = "queued"] ELSE task[c]]

\* Mutant of submit: a batch that is ahead of its turn is not held back.
SubmitUnordered ==
  /\ inbox # <<>>
  /\ inbox' = Tail(inbox)
  /\ LET b == Head(inbox) IN
     \/ b < next /\ UNCHANGED <<next, buffered, queue, task>>
     \/ b >= next /\ StartReady(b)
  /\ UNCHANGED <<setup, submits, run, group, last, handled, stop>>

submit ==
  /\ inbox # <<>>
  /\ inbox' = Tail(inbox)
  /\ LET b == Head(inbox) IN
     \/ b < next /\ UNCHANGED <<next, buffered, queue, task>>
     \/ b > next /\ buffered' = buffered \union {b} /\ UNCHANGED <<next, queue, task>>
     \/ b = next /\ StartReady(b)
  /\ UNCHANGED <<setup, submits, run, group, last, handled, stop>>

-----------------------------------------------------------------------------
(* Fan-out: parallel_shards_impl on the apply task's executor *)

Post(s, d, item, q) == [q EXCEPT ![s][d] = Append(@, item)]

\* Mutant of Dispatch: the inline shard is not counted.
DispatchOthers(e, b) ==
  /\ group' = [group EXCEPT ![b] = [pending |-> ShardCount - 1, failed |-> 0]]
  /\ run' = [run EXCEPT ![e] = [Idle EXCEPT !.kind = "dispatch", !.batch = b,
                                            !.at = "post", !.shard = 1]]

\* create_parallel_group, and the loop over the shards begins.
Dispatch(e, b) ==
  /\ group' = [group EXCEPT ![b] = [pending |-> ShardCount, failed |-> 0]]
  /\ run' = [run EXCEPT ![e] = [Idle EXCEPT !.kind = "dispatch", !.batch = b,
                                            !.at = "post", !.shard = 1]]

\* One turn of the loop: the shard of this thread runs inline, any other one
\* is posted with post_blocking.
DispatchShard(e) ==
  LET r == run[e] IN
  /\ r.kind = "dispatch" /\ r.at = "post" /\ r.shard \in Shards
  /\ \/ /\ r.shard = e
        /\ run' = [run EXCEPT ![e].at = "guard"]
        /\ UNCHANGED queue
     \/ /\ r.shard # e
        /\ queue' = Post(e, r.shard, Item("shard", r.batch), queue)
        /\ run' = [run EXCEPT ![e].shard = @ + 1]
  /\ UNCHANGED <<setup, submits, inbox, next, buffered, task, group, last, handled, stop>>

\* Mutant of DispatchEnd: a wake that came while the task ran is not looked at.
DispatchEndForgets(e) ==
  /\ run[e].kind = "dispatch" /\ run[e].at = "post" /\ run[e].shard \notin Shards
  /\ run' = [run EXCEPT ![e] = Idle]
  /\ task' = [task EXCEPT ![run[e].batch].state = "pending"]
  /\ UNCHANGED <<setup, submits, inbox, next, buffered, queue, group, last, handled, stop>>

\* The apply task returns pending(): finish_pending turns a wake that came
\* while the task ran into a queue entry.
DispatchEnd(e) ==
  LET b == run[e].batch IN
  /\ run[e].kind = "dispatch" /\ run[e].at = "post" /\ run[e].shard \notin Shards
  /\ run' = [run EXCEPT ![e] = Idle]
  /\ \/ /\ task[b].requested
        /\ task' = [task EXCEPT ![b].requested = FALSE, ![b].state = "queued"]
        /\ queue' = Post(e, e, Item("resume", b), queue)
     \/ /\ ~task[b].requested
        /\ task' = [task EXCEPT ![b].state = "pending"]
        /\ UNCHANGED queue
  /\ UNCHANGED <<setup, submits, inbox, next, buffered, group, last, handled, stop>>

-----------------------------------------------------------------------------
(* A shard: run_parallel_shard, then RuntimeParallelGroup::complete *)

\* Mutant of check_order_guard: a batch id may skip ids.
GuardAllowsGaps(s, b) ==
  CASE b > last[s]                 -> "run"
    [] Retryable /\ b = last[s]    -> "skip"
    [] OTHER                       -> "fail"

check_order_guard(s, b) ==
  CASE b = last[s] + 1             -> "run"
    [] Retryable /\ b = last[s]    -> "skip"
    [] OTHER                       -> "fail"

HandlerResults == IF HandlerFails THEN BOOLEAN ELSE {TRUE}

ShardResults(decision) ==
  CASE decision = "run"  -> HandlerResults
    [] decision = "skip" -> {TRUE}
    [] decision = "fail" -> {FALSE}

\* Mutant of run_parallel_shard: a failed shard is not counted as failed.
ShardHidesFailure(e) ==
  LET b == run[e].batch
      decision == check_order_guard(e, b)
  IN
  /\ run[e].at = "guard"
  /\ run' = [run EXCEPT ![e].at = "sub"]
  /\ \E ok \in ShardResults(decision) :
       IF ok /\ decision = "run"
       THEN last' = [last EXCEPT ![e] = b] /\ handled' = [handled EXCEPT ![e] = Append(@, b)]
       ELSE UNCHANGED <<last, handled>>
  /\ UNCHANGED <<setup, submits, inbox, next, buffered, queue, task, group, stop>>

\* The guard, the handler and commit_order_guard touch only this thread's state.
run_parallel_shard(e) ==
  LET b == run[e].batch
      decision == check_order_guard(e, b)
  IN
  /\ run[e].at = "guard"
  /\ \E ok \in ShardResults(decision) :
       /\ run' = [run EXCEPT ![e].at = IF ok THEN "sub" ELSE "fail"]
       /\ \/ /\ ok /\ decision = "run"
             /\ last' = [last EXCEPT ![e] = b]
             /\ handled' = [handled EXCEPT ![e] = Append(@, b)]
          \/ /\ ~ok \/ decision # "run"
             /\ UNCHANGED <<last, handled>>
  /\ UNCHANGED <<setup, submits, inbox, next, buffered, queue, task, group, stop>>

CountFailure(e) ==
  /\ run[e].at = "fail"
  /\ group' = [group EXCEPT ![run[e].batch].failed = @ + 1]
  /\ run' = [run EXCEPT ![e].at = "sub"]
  /\ UNCHANGED <<setup, submits, inbox, next, buffered, queue, task, last, handled, stop>>

\* Where the executor goes on after complete(): the fan-out loop, or its run loop.
AfterComplete(e) ==
  IF run[e].kind = "dispatch" THEN [run[e] EXCEPT !.at = "post", !.shard = @ + 1] ELSE Idle

\* set_task_parallel_failures and post_blocking of the owner.
ResumeOwner(e, b) ==
  \/ /\ task[b].state = "pending"
     /\ task' = [task EXCEPT ![b].failures = group[b].failed, ![b].state = "queued"]
     /\ queue' = Post(e, Apply, Item("resume", b), queue)
  \/ /\ task[b].state = "running"
     /\ task' = [task EXCEPT ![b].failures = group[b].failed, ![b].requested = TRUE]
     /\ UNCHANGED queue

complete(e) ==
  LET b == run[e].batch IN
  /\ run[e].at = "sub"
  /\ run' = [run EXCEPT ![e] = AfterComplete(e)]
  /\ \/ /\ group[b].pending = 1
        /\ ResumeOwner(e, b)
        /\ group' = [group EXCEPT ![b] = NoGroup]
     \/ /\ group[b].pending # 1
        /\ group' = [group EXCEPT ![b].pending = @ - 1]
        /\ UNCHANGED <<task, queue>>
  /\ UNCHANGED <<setup, submits, inbox, next, buffered, last, handled, stop>>

-----------------------------------------------------------------------------
(* Executors *)

\* The apply task's first run.
RunApply(e, b) ==
  /\ Dispatch(e, b)
  /\ task' = [task EXCEPT ![b].state = "running"]

\* Its second run: done when no shard failed, else what
\* OrderedBatchRetrySkipPolicy::record_failure decides.
RunResumed(e, b) ==
  \/ /\ task[b].failures = 0
     /\ task' = [task EXCEPT ![b].state = "succeeded"]
     /\ UNCHANGED <<run, group>>
  \/ /\ task[b].failures > 0 /\ task[b].tries < MaxRetries
     /\ Dispatch(e, b)
     /\ task' = [task EXCEPT ![b].state = "running", ![b].tries = @ + 1]
  \/ /\ task[b].failures > 0 /\ task[b].tries >= MaxRetries
     /\ task' = [task EXCEPT ![b].state = "failed"]
     /\ UNCHANGED <<run, group>>

RunShardTask(e, b) ==
  /\ run' = [run EXCEPT ![e] = [Idle EXCEPT !.kind = "shard", !.batch = b, !.at = "guard"]]
  /\ UNCHANGED <<task, group>>

\* pop_one serves the sources in no fixed order, each source first in first out.
Execute(e, s) ==
  /\ run[e] = Idle
  /\ queue[s][e] # <<>>
  /\ queue' = [queue EXCEPT ![s][e] = Tail(@)]
  /\ LET item == Head(queue[s][e]) IN
     \/ item.kind = "apply" /\ RunApply(e, item.batch)
     \/ item.kind = "resume" /\ RunResumed(e, item.batch)
     \/ item.kind = "shard" /\ RunShardTask(e, item.batch)
  /\ UNCHANGED <<setup, submits, inbox, next, buffered, last, handled, stop>>

-----------------------------------------------------------------------------
(* shutdown() with StopImmediately *)

RequestStop ==
  /\ stop = "no"
  /\ stop' = "stopping"
  /\ UNCHANGED <<setup, submits, inbox, next, buffered, queue, run, task, group, last, handled>>

\* run_loop ends once a pass over the queues has found nothing.
Exit(e) ==
  /\ stop = "stopping"
  /\ run[e] = Idle
  /\ \A s \in Sources : queue[s][e] = <<>>
  /\ run' = [run EXCEPT ![e] = Exited]
  /\ UNCHANGED <<setup, submits, inbox, next, buffered, queue, task, group, last, handled, stop>>

\* The ShardTasks of batch b that are still in a queue, by source, target and place.
ShardEntries(b) ==
  UNION {{<<c[1], c[2], i>> : i \in {j \in DOMAIN queue[c[1]][c[2]] : queue[c[1]][c[2]][j] = Item("shard", b)}}
         : c \in Sources \X Executors}
QueuedShards(b) == Cardinality(ShardEntries(b))

\* Mutant of cancel_registered_tasks: ShardTask has no on_runtime_cancel.
CancelTasksOnly ==
  /\ stop = "stopping"
  /\ inbox = <<>>
  /\ \A e \in Executors : run[e] = Exited
  /\ stop' = "cancelled"
  /\ task' = [b \in Batches |-> IF task[b].state \in {"queued", "pending"}
                                THEN [task[b] EXCEPT !.state = "cancelled"] ELSE task[b]]
  /\ UNCHANGED <<setup, submits, inbox, next, buffered, queue, run, group, last, handled>>

\* join, cancel_registered_tasks: a queued ShardTask completes its group as
\* failed and without resuming the owner; apply tasks end.
cancel_registered_tasks ==
  /\ stop = "stopping"
  /\ inbox = <<>>
  /\ \A e \in Executors : run[e] = Exited
  /\ stop' = "cancelled"
  /\ group' = [b \in Batches |->
                 IF group[b].pending = QueuedShards(b) THEN NoGroup
                 ELSE [group[b] EXCEPT !.pending = @ - QueuedShards(b)]]
  /\ task' = [b \in Batches |-> IF task[b].state \in {"queued", "pending"}
                                THEN [task[b] EXCEPT !.state = "cancelled"] ELSE task[b]]
  /\ UNCHANGED <<setup, submits, inbox, next, buffered, queue, run, last, handled>>

RunLoop(e) ==
  \/ DispatchShard(e) \/ DispatchEnd(e) \/ run_parallel_shard(e) \/ CountFailure(e) \/ complete(e)
  \/ Exit(e) \/ \E s \in Sources : Execute(e, s)

Next ==
  \/ \E b \in Batches : start_ordered_task(b)
  \/ submit
  \/ \E e \in Executors : RunLoop(e)
  \/ RequestStop
  \/ cancel_registered_tasks

\* Each executor and the sequencer thread keep running, and shutdown goes on.
Fairness ==
  /\ WF_vars(submit)
  /\ \A e \in Executors : WF_vars(RunLoop(e))
  /\ WF_vars(cancel_registered_tasks)

Spec == Init /\ [][Next]_vars /\ Fairness

-----------------------------------------------------------------------------
(* Properties *)

\* How many shards of batch b have still to call complete(): those in a queue,
\* those that a shard's executor works on, and those the fan-out has not passed.
Outstanding(b) ==
  QueuedShards(b)
  + Cardinality({e \in Executors : run[e].kind = "shard" /\ run[e].batch = b})
  + Cardinality({s \in Shards : \E e \in Executors :
                   run[e].kind = "dispatch" /\ run[e].batch = b /\ run[e].shard <= s})

\* RuntimeParallelGroup::pending counts exactly the shards that have still to
\* complete, through inline shards, posted shards, retries and cancellation:
\* no shard completes a group that was destroyed, and no group is left behind.
\* After a StopImmediately shutdown every group is back in its pool, although
\* ShardTasks were left in the queues of executors that had already exited.
GroupCountsShards ==
  \A b \in Batches :
    IF stop = "cancelled" THEN group[b] = NoGroup ELSE group[b].pending = Outstanding(b)

\* Every shard's handler applies the batches 1, 2, 3, ... each once, whatever
\* the order, repetition or failure of what was submitted (check_order_guard).
AppliedInOrder ==
  \A s \in Shards : handled[s] = [i \in 1 .. last[s] |-> i]

\* An apply task that sees last_parallel_failures() = 0 has its batch applied
\* on every shard, also when an earlier try of the batch failed on some.
SuccessMeansApplied ==
  \A b \in Batches : task[b].state = "succeeded" => \A s \in Shards : last[s] >= b

\* While no handler fails, the assertion of check_order_guard ("ordered batch id
\* must be contiguous per shard") holds on every shard: the fan-outs of
\* overlapping apply tasks reach each shard in batch order.
GuardHolds ==
  HandlerFails \/ \A e \in Executors :
    run[e].at = "guard" => check_order_guard(e, run[e].batch) # "fail"

\* Nobody waits: every batch the sequencer has started has ended.
Quiet ==
  \A b \in Batches : b < next => task[b].state \in {"succeeded", "failed", "cancelled"}

\* Every started batch ends: the last shard to complete resumes the apply task,
\* and a shutdown ends it if the shards cannot.
StartedBatchesEnd == []<>Quiet
=============================================================================
