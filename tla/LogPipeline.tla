---------------------------- MODULE LogPipeline ----------------------------
(***************************************************************************)
(* AsyncLogger and the runtime task that drains it: producers take a       *)
(* record, queue it and wake the consumer through wake_state_; a flusher   *)
(* waits for pending_ to reach zero; a stopper shuts the consumer down.    *)
(* Every access to an atomic that two threads use is a step.  A queue is a *)
(* sequence of cells [by, full]: a cell is reserved first, published later *)
(* (the steps of MpscQueue).  The scheduling of the task is what TaskWake  *)
(* promises.                                                               *)
(***************************************************************************)
EXTENDS Integers, Sequences, FiniteSets, FiniteSetsExt, SequencesExt

CONSTANTS
    Producers,       \* threads that log
    RuntimeThreads,  \* those of them that are runtime threads
    QueueCapacity,   \* config.queue_capacity
    Scenes           \* the cases considered; each a record of
                     \*   policy: overflow_policy_, "drop" (DropNewest) or "block"
                     \*   ordering: ordering_, "ordered" or "relaxed"
                     \*   actors: which of "flusher" and "stopper" take part
                     \*   timely: no deadline passes, neither the 5 s of
                     \*           shutdown() nor that of flush()
                     \*   batch: max_batch_size_
                     \*   batches: max_batches_per_run_
                     \*   logs: bound, records each producer tries to log
                     \*   refusals: bound, schedule() calls the runtime refuses

VARIABLES
    scene,           \* the case, chosen at the start
    accepting,       \* accepting_
    stopping,        \* stopping_
    pending,         \* pending_
    ready,           \* ready_
    queue,           \* the cells of each lane's queue
    free,            \* free records of each lane's pool
    wakeState,       \* wake_state_
    late,            \* the consumer's stores to wake_state_ that are not visible yet
    taskStarted,     \* task_started_
    finished,        \* finished_
    target,          \* consumer_wake_target_ is set
    handle,          \* task_ is set
    slipped,         \* a producer read a late accepting_ after the shutdown had
                     \* found nothing pending
    task,            \* the task: new, queued, running, idle, done
    woken,           \* a wake request reached the running task
    pc,              \* where each thread is
    batch,           \* the records drained and not yet released
    quota,           \* max_write_batches left in drain_some
    limit,           \* max_records of collect_batch
    logs,            \* records each producer has tried to log
    accepted,        \* records of each producer for which try_log answers TRUE
    written,         \* records of each producer given to the backends
    owed,            \* accepted when the flush began
    refusals,
    missed           \* since the task last began to run, a wake request was
                     \* refused or overwritten by a late store

flags == <<accepting, stopping, target, handle, slipped>>
wakes == <<wakeState, late, taskStarted, finished, task, woken, refusals, missed>>
drain == <<batch, quota, limit>>
counts == <<logs, accepted, written, owed>>
vars == <<scene, flags, pending, ready, queue, free, wakes, pc, drain, counts>>

Wakers == Producers \union {"flusher", "stopper"}

\* try_log, try_log_from_runtime_thread: the lane a producer uses.
Lane(p) == IF scene.ordering = "relaxed" /\ p \in RuntimeThreads THEN p ELSE "shared"
Lanes == RuntimeThreads \union {"shared"}

\* queue_capacity_per_shard, queue_capacity_per_runtime_thread.
queue_capacity_per_shard(total, shards) ==
    Max({2, (total \div shards) + (IF total % shards = 0 THEN 0 ELSE 1)})

record_capacity_per_shard(capacity) == capacity + scene.batch

LaneCapacity(l) ==
    queue_capacity_per_shard(QueueCapacity, IF l = "shared" THEN 1 ELSE Cardinality(RuntimeThreads))
Records(l) == record_capacity_per_shard(LaneCapacity(l))

\* start_bound_consumer has run: the logger accepts, the task is not started.
Init ==
    /\ scene \in Scenes
    /\ accepting = TRUE /\ stopping = FALSE /\ target = TRUE /\ handle = TRUE
    /\ slipped = FALSE
    /\ pending = 0 /\ ready = 0
    /\ queue = [l \in Lanes |-> <<>>]
    /\ free = [l \in Lanes |-> Records(l)]
    /\ wakeState = "Idle" /\ late = <<>> /\ taskStarted = FALSE /\ finished = FALSE
    /\ task = "new" /\ woken = FALSE /\ refusals = 0 /\ missed = FALSE
    /\ pc = [t \in Wakers \union {"consumer"} |-> "idle"]
    /\ batch = <<>> /\ quota = 0 /\ limit = 0
    /\ logs = [p \in Producers |-> 0]
    /\ accepted = [p \in Producers |-> 0]
    /\ written = [p \in Producers |-> 0]
    /\ owed = [p \in Producers |-> 0]

Goto(t, l) == pc' = [pc EXCEPT ![t] = l]

-----------------------------------------------------------------------------
(* try_log_on_lane and try_log_ordered.                                     *)

try_log(p) ==
    /\ pc[p] = "idle" /\ logs[p] < scene.logs[p]
    /\ logs' = [logs EXCEPT ![p] = @ + 1]
    /\ Goto(p, IF accepting THEN "acquire" ELSE "idle")
    /\ UNCHANGED <<scene, flags, pending, ready, queue, free, wakes, drain,
                   accepted, written, owed>>

\* acquire_record: one attempt of the pool; a blocking producer tries again
\* while the logger accepts.
acquire_record(p) ==
    /\ pc[p] = "acquire"
    /\ scene.policy = "block" => accepting
    /\ IF free[Lane(p)] > 0
       THEN free' = [free EXCEPT ![Lane(p)] = @ - 1] /\ Goto(p, "count")
       ELSE UNCHANGED free /\ scene.policy = "drop" /\ Goto(p, "idle")
    /\ UNCHANGED <<scene, flags, pending, ready, queue, wakes, drain, counts>>

AcquireStops(p) ==
    /\ pc[p] = "acquire" /\ scene.policy = "block" /\ ~accepting
    /\ Goto(p, "idle")
    /\ UNCHANGED <<scene, flags, pending, ready, queue, free, wakes, drain, counts>>

CountPending(p) ==
    /\ pc[p] = "count"
    /\ pending' = pending + 1
    /\ Goto(p, "push")
    /\ UNCHANGED <<scene, flags, ready, queue, free, wakes, drain, counts>>

\* push_record, push_ordered_record: the load of accepting_, then try_push.
LoadAccepting(p) ==
    /\ pc[p] = "push"
    /\ Goto(p, IF accepting THEN "reserve" ELSE "release")
    /\ slipped' = (slipped \/ (accepting /\ pc["stopper"] = "unneeded"))
    /\ UNCHANGED <<scene, accepting, stopping, target, handle, pending, ready, queue, free, wakes, drain, counts>>

QueueLimit(l) == IF scene.ordering = "ordered" THEN Max({2, QueueCapacity}) ELSE LaneCapacity(l)

TryPush(p) ==
    /\ pc[p] = "reserve"
    /\ IF Len(queue[Lane(p)]) < QueueLimit(Lane(p))
       THEN /\ queue' = [queue EXCEPT ![Lane(p)] = Append(@, [by |-> p, full |-> FALSE])]
            /\ Goto(p, "publish")
       ELSE /\ UNCHANGED queue
            /\ Goto(p, IF scene.policy = "block" THEN "push" ELSE "release")
    /\ UNCHANGED <<scene, flags, pending, ready, free, wakes, drain, counts>>

\* The cell is published; record_accepted.
Publish(p) ==
    /\ pc[p] = "publish"
    /\ queue' = [queue EXCEPT ![Lane(p)] =
                    [i \in DOMAIN @ |-> IF @[i].by = p THEN [@[i] EXCEPT !.full = TRUE] ELSE @[i]]]
    /\ accepted' = [accepted EXCEPT ![p] = @ + 1]
    /\ Goto(p, "ready")
    /\ UNCHANGED <<scene, flags, pending, ready, free, wakes, drain, logs, written, owed>>

CountReady(p) ==
    /\ pc[p] = "ready"
    /\ ready' = ready + 1
    /\ Goto(p, IF ready = 0 THEN "target" ELSE "idle")
    /\ UNCHANGED <<scene, flags, pending, queue, free, wakes, drain, counts>>

release_unpublished_record(p) ==
    /\ pc[p] = "release"
    /\ free' = [free EXCEPT ![Lane(p)] = @ + 1]
    /\ Goto(p, "abandon")
    /\ UNCHANGED <<scene, flags, pending, ready, queue, wakes, drain, counts>>

\* Mutant of abandon_pending_record: a refused record stays counted.
abandon_nothing(p) ==
    /\ pc[p] = "abandon"
    /\ Goto(p, IF pending = 1 THEN "target" ELSE "idle")
    /\ UNCHANGED <<scene, flags, pending, ready, queue, free, wakes, drain, counts>>

abandon_pending_record(p) ==
    /\ pc[p] = "abandon"
    /\ pending' = pending - 1
    /\ Goto(p, IF pending = 1 THEN "target" ELSE "idle")
    /\ UNCHANGED <<scene, flags, ready, queue, free, wakes, drain, counts>>

Produce(p) ==
    \/ acquire_record(p) \/ AcquireStops(p) \/ CountPending(p) \/ LoadAccepting(p)
    \/ TryPush(p) \/ Publish(p) \/ CountReady(p)
    \/ release_unpublished_record(p) \/ abandon_pending_record(p)

-----------------------------------------------------------------------------
(* notify_consumer and wake_async_log_consumer, on any thread.              *)

After(t) == IF t \in Producers THEN "idle" ELSE "poll"

notify_consumer(t) ==
    /\ pc[t] = "target"
    /\ Goto(t, IF target /\ handle /\ ~finished THEN "exchange" ELSE After(t))
    /\ UNCHANGED <<scene, flags, pending, ready, queue, free, wakes, drain, counts>>

\* An Active that is exchanged in after the task looked at ready_, but before
\* its Parking is visible, is overwritten by it.  A flush and the shutdown ask
\* again, a producer does not.
Overwritten == late # <<>> /\ pc["consumer"] = "cas"

ExchangeActive(t) ==
    /\ pc[t] = "exchange"
    /\ wakeState' = "Active"
    /\ Goto(t, IF wakeState = "Idle" THEN "wake" ELSE After(t))
    /\ missed' = (missed \/ (t \in Producers /\ Overwritten))
    /\ UNCHANGED <<scene, flags, pending, ready, queue, free, late, taskStarted, finished,
                   task, woken, refusals, drain, counts>>

\* task_->start or task_->wake: schedule() on a task in any state.
WakeTask(t) ==
    /\ pc[t] = "wake" /\ task # "done"
    /\ taskStarted' = TRUE
    /\ task' = IF task \in {"new", "idle"} THEN "queued" ELSE task
    /\ woken' = (woken \/ task = "running")
    /\ Goto(t, After(t))
    /\ UNCHANGED <<scene, flags, pending, ready, queue, free, wakeState, late, finished,
                   refusals, missed, drain, counts>>

WakeRefused(t) ==
    /\ pc[t] = "wake"
    /\ task = "done" \/ refusals < scene.refusals
    /\ refusals' = IF task = "done" THEN refusals ELSE refusals + 1
    /\ missed' = TRUE
    /\ taskStarted' = (taskStarted /\ task # "new")
    /\ Goto(t, "restore")
    /\ UNCHANGED <<scene, flags, pending, ready, queue, free, wakeState, late, finished,
                   task, woken, drain, counts>>

RestoreIdle(t) ==
    /\ pc[t] = "restore"
    /\ wakeState' = "Idle"
    /\ Goto(t, After(t))
    /\ UNCHANGED <<scene, flags, pending, ready, queue, free, late, taskStarted, finished,
                   task, woken, refusals, missed, drain, counts>>

wake_async_log_consumer(t) ==
    ExchangeActive(t) \/ WakeTask(t) \/ WakeRefused(t) \/ RestoreIdle(t)

-----------------------------------------------------------------------------
(* RuntimeAsyncLogConsumerTask::run and AsyncLogger::drain_some.            *)

\* A release store waits in the thread's buffer; a locked operation drains it.
StoreWakeState(value) == late' = Append(late, value) /\ UNCHANGED wakeState
Drained == late = <<>>

FlushStore ==
    /\ late # <<>>
    /\ wakeState' = Head(late) /\ late' = Tail(late)
    /\ UNCHANGED <<scene, flags, pending, ready, queue, free, taskStarted, finished, task,
                   woken, refusals, missed, pc, drain, counts>>

\* The consumer's other steps leave the wake state alone.
Quietly == UNCHANGED wakes

Run ==
    /\ task = "queued" /\ Drained
    /\ task' = "running" /\ woken' = FALSE /\ missed' = FALSE
    /\ StoreWakeState("Active")
    /\ quota' = scene.batches
    /\ Goto("consumer", "load")
    /\ UNCHANGED <<scene, flags, pending, ready, queue, free, taskStarted, finished, refusals,
                   batch, limit, counts>>

LoadReady ==
    /\ pc["consumer"] = "load"
    /\ IF quota = 0 \/ ready = 0
       THEN limit' = 0 /\ quota' = 0 /\ Goto("consumer", "stop")
       ELSE limit' = Min({scene.batch, ready}) /\ UNCHANGED quota /\ Goto("consumer", "collect")
    /\ UNCHANGED <<scene, flags, pending, ready, queue, free, batch, counts>> /\ Quietly

\* The cells try_pop_many may take: those before the first unpublished one.
Full(q) == Cardinality({i \in DOMAIN q : \A j \in 1..i : q[j].full})
Popped(q, n) == [i \in 1..n |-> q[i].by]

\* collect_batch: a run of records from each lane, as many as are there up to
\* max_records; which lane comes first alternates.
collect_batch ==
    /\ pc["consumer"] = "collect"
    /\ LET there(l) == Full(queue[l])
           all == MapThenSumSet(there, Lanes)
       IN \E n \in [Lanes -> 0..limit] :
            /\ \A l \in Lanes : n[l] <= there(l)
            /\ MapThenSumSet(LAMBDA l : n[l], Lanes) = Min({limit, all})
            /\ batch' = FlattenSeq([i \in 1..Cardinality(Lanes) |->
                            LET l == SetToSeq(Lanes)[i] IN Popped(queue[l], n[l])])
            /\ queue' = [l \in Lanes |-> SubSeq(queue[l], n[l] + 1, Len(queue[l]))]
    /\ Goto("consumer", IF batch' = <<>> THEN "stop" ELSE "write")
    /\ limit' = 0
    /\ UNCHANGED <<scene, flags, pending, ready, free, quota, counts>> /\ Quietly

By(p) == Cardinality({i \in DOMAIN batch : batch[i] = p})

\* write_batch of every backend, then release_async_log_records.
WriteAndRelease ==
    /\ pc["consumer"] = "write"
    /\ written' = [p \in Producers |-> written[p] + By(p)]
    /\ free' = [l \in Lanes |-> free[l] +
                    Cardinality({i \in DOMAIN batch : Lane(batch[i]) = l})]
    /\ Goto("consumer", "subready")
    /\ UNCHANGED <<scene, flags, pending, ready, queue, drain, logs, accepted, owed>>
    /\ Quietly

SubReady ==
    /\ pc["consumer"] = "subready" /\ Drained
    /\ ready' = ready - Len(batch)
    /\ Goto("consumer", "subpending")
    /\ UNCHANGED <<scene, flags, pending, queue, free, drain, counts>> /\ Quietly

SubPending ==
    /\ pc["consumer"] = "subpending"
    /\ pending' = pending - Len(batch)
    /\ batch' = <<>> /\ quota' = quota - 1
    /\ Goto("consumer", "load")
    /\ UNCHANGED <<scene, flags, ready, queue, free, limit, counts>> /\ Quietly

drain_some ==
    LoadReady \/ collect_batch \/ WriteAndRelease \/ SubReady \/ SubPending

MarkFinished ==
    /\ pc["consumer"] = "stop" /\ stopping /\ pending = 0
    /\ wakeState' = "Active" /\ late' = <<>> /\ finished' = TRUE
    /\ task' = "done"
    /\ Goto("consumer", "idle")
    /\ UNCHANGED <<scene, flags, pending, ready, queue, free, taskStarted, woken, refusals, missed,
                   drain, counts>>

\* The run goes on: another batch is ready, or the task parks.
Continue ==
    /\ pc["consumer"] = "stop" /\ ~(stopping /\ pending = 0)
    /\ Goto("consumer", IF ready # 0 THEN "again" ELSE "park")
    /\ UNCHANGED <<scene, flags, pending, ready, queue, free, drain, counts>> /\ Quietly

Again ==
    /\ pc["consumer"] = "again"
    /\ task' = "queued"
    /\ Goto("consumer", "idle")
    /\ UNCHANGED <<scene, flags, pending, ready, queue, free, wakeState, late, taskStarted,
                   finished, woken, refusals, missed, drain, counts>>

\* Mutant of Park: the task goes idle at once.
ParkIdle ==
    /\ pc["consumer"] = "park" /\ Drained
    /\ wakeState' = "Idle" /\ UNCHANGED late
    /\ Goto("consumer", "return")
    /\ UNCHANGED <<scene, flags, pending, ready, queue, free, taskStarted, finished, task,
                   woken, refusals, missed, drain, counts>>

Park ==
    /\ pc["consumer"] = "park"
    /\ StoreWakeState("Parking")
    /\ Goto("consumer", "recheck")
    /\ UNCHANGED <<scene, flags, pending, ready, queue, free, taskStarted, finished, task,
                   woken, refusals, missed, drain, counts>>

Recheck ==
    /\ pc["consumer"] = "recheck"
    /\ IF ready = 0 /\ ~(stopping /\ pending = 0)
       THEN Goto("consumer", "cas") /\ UNCHANGED <<wakeState, late>>
       ELSE Goto("consumer", "again") /\ StoreWakeState("Active")
    /\ UNCHANGED <<scene, flags, pending, ready, queue, free, taskStarted, finished, task,
                   woken, refusals, missed, drain, counts>>

\* compare_exchange: Parking -> Idle, unless a waker made it Active.
CasIdle ==
    /\ pc["consumer"] = "cas" /\ Drained
    /\ IF wakeState = "Parking"
       THEN wakeState' = "Idle" /\ Goto("consumer", "return")
       ELSE UNCHANGED wakeState /\ Goto("consumer", "again")
    /\ UNCHANGED <<scene, flags, pending, ready, queue, free, late, taskStarted, finished, task,
                   woken, refusals, missed, drain, counts>>

mark_idle_or_continue == Park \/ Recheck \/ CasIdle

ReturnPending ==
    /\ pc["consumer"] = "return"
    /\ task' = IF woken THEN "queued" ELSE "idle"
    /\ Goto("consumer", "idle")
    /\ UNCHANGED <<scene, flags, pending, ready, queue, free, wakeState, late, taskStarted,
                   finished, woken, refusals, missed, drain, counts>>

Consumer ==
    \/ Run \/ drain_some \/ MarkFinished \/ Continue \/ Again
    \/ mark_idle_or_continue \/ ReturnPending

-----------------------------------------------------------------------------
(* flush(): wait_until_drained, on one more thread.                         *)

flush ==
    /\ pc["flusher"] = "idle" /\ "flusher" \in scene.actors
    /\ owed' = accepted
    /\ Goto("flusher", "poll")
    /\ UNCHANGED <<scene, flags, pending, ready, queue, free, wakes, drain, logs, accepted, written>>

\* Mutant of wait_until_drained: the ready records are taken for all records.
wait_until_none_ready ==
    /\ pc["flusher"] = "poll"
    /\ Goto("flusher", IF ready = 0 THEN "drained" ELSE "target")
    /\ UNCHANGED <<scene, flags, pending, ready, queue, free, wakes, drain, counts>>

wait_until_drained ==
    /\ pc["flusher"] = "poll"
    /\ Goto("flusher", IF pending = 0 THEN "drained" ELSE "target")
    /\ UNCHANGED <<scene, flags, pending, ready, queue, free, wakes, drain, counts>>

FlushExpires ==
    /\ pc["flusher"] = "poll" /\ pending # 0 /\ ~scene.timely
    /\ Goto("flusher", "expired")
    /\ UNCHANGED <<scene, flags, pending, ready, queue, free, wakes, drain, counts>>

-----------------------------------------------------------------------------
(* RuntimeAsyncLogConsumerController::shutdown.                             *)

\* The stores of accepting_ and stopping_ are visible at once or late: the loads
\* of task_started_ and pending_ that follow do not wait for them.
stop_bound_consumer_admission ==
    /\ pc["stopper"] = "idle" /\ "stopper" \in scene.actors
    /\ \/ accepting' = FALSE /\ stopping' = TRUE
       \/ UNCHANGED <<accepting, stopping>>
    /\ Goto("stopper", "started")
    /\ UNCHANGED <<scene, target, handle, slipped, pending, ready, queue, free, wakes, drain, counts>>

FlushAdmission ==
    /\ pc["stopper"] # "idle" /\ accepting
    /\ accepting' = FALSE /\ stopping' = TRUE
    /\ UNCHANGED <<scene, target, handle, slipped, pending, ready, queue, free, wakes, pc, drain, counts>>

CheckStarted ==
    /\ pc["stopper"] = "started"
    /\ Goto("stopper", IF taskStarted THEN "poll" ELSE "unused")
    /\ UNCHANGED <<scene, flags, pending, ready, queue, free, wakes, drain, counts>>

CheckUnused ==
    /\ pc["stopper"] = "unused"
    /\ Goto("stopper", IF pending = 0 THEN "unneeded" ELSE "poll")
    /\ UNCHANGED <<scene, flags, pending, ready, queue, free, wakes, drain, counts>>

\* The task was never started: with nothing pending it never will be.  The
\* stores of mark_finished become visible after the earlier ones.
MarkUnused ==
    /\ pc["stopper"] = "unneeded" /\ ~accepting
    /\ finished' = TRUE /\ wakeState' = "Active"
    /\ Goto("stopper", "reset")
    /\ UNCHANGED <<scene, flags, pending, ready, queue, free, late, taskStarted, task, woken,
                   refusals, missed, drain, counts>>

\* The exchange of the first wake request drains the stores.
AwaitFinished ==
    /\ pc["stopper"] = "poll" /\ ~accepting
    /\ Goto("stopper", IF finished THEN "reset" ELSE "target")
    /\ UNCHANGED <<scene, flags, pending, ready, queue, free, wakes, drain, counts>>

StopExpires ==
    /\ pc["stopper"] = "poll" /\ ~accepting /\ ~finished /\ ~scene.timely
    /\ Goto("stopper", "reset")
    /\ UNCHANGED <<scene, flags, pending, ready, queue, free, wakes, drain, counts>>

\* task_.reset and finish_bound_consumer_shutdown.
FinishShutdown ==
    /\ pc["stopper"] = "reset"
    /\ handle' = FALSE /\ target' = FALSE
    /\ Goto("stopper", "down")
    /\ UNCHANGED <<scene, accepting, stopping, slipped, pending, ready, queue, free, wakes, drain, counts>>

shutdown ==
    \/ CheckStarted \/ CheckUnused \/ MarkUnused \/ AwaitFinished \/ StopExpires
    \/ FinishShutdown

-----------------------------------------------------------------------------
Next ==
    \/ \E p \in Producers : try_log(p) \/ Produce(p)
    \/ \E t \in Wakers : notify_consumer(t) \/ wake_async_log_consumer(t)
    \/ Consumer \/ FlushStore
    \/ flush \/ wait_until_drained \/ FlushExpires
    \/ stop_bound_consumer_admission \/ FlushAdmission \/ shutdown

\* The scheduler runs every thread, and the runtime a task that is queued; a
\* store becomes visible; nobody has to log, to flush or to stop.
Fairness ==
    /\ \A p \in Producers : WF_vars(Produce(p) \/ notify_consumer(p) \/ wake_async_log_consumer(p))
    /\ WF_vars(Consumer) /\ WF_vars(FlushStore) /\ WF_vars(FlushAdmission)
    /\ WF_vars(wait_until_drained \/ notify_consumer("flusher") \/ wake_async_log_consumer("flusher"))
    /\ WF_vars(shutdown \/ notify_consumer("stopper") \/ wake_async_log_consumer("stopper"))

Spec == Init /\ [][Next]_vars /\ Fairness

-----------------------------------------------------------------------------
Waking(t) == pc[t] \in {"target", "exchange", "wake", "restore"}

\* A record that is counted in ready_ has a consumer: the task is queued or
\* running, or a thread is on its way to wake it.
ReadyHasConsumer ==
    ready > 0 /\ task \in {"new", "idle"} /\ handle => \E t \in Wakers : Waking(t)

\* The same until a wake request is lost, in one of the two ways the code can
\* lose one: schedule() is refused, or the Parking store of mark_idle_or_continue
\* is still in the buffer when ready_ is read and then overwrites the Active of a
\* producer.  From then on nobody wakes the task until a flush or the shutdown
\* does; once it runs again the promise holds again.  A record that slipped past
\* the late stores of the shutdown has no consumer either.
NoStrandedRecord == missed \/ slipped \/ ReadyHasConsumer

\* The counters the consumer subtracts from cover what it subtracts: ready_
\* holds no more than the published records, pending_ exactly the records of
\* producers past CountPending, of the queues and of the batch (the assertions
\* of drain_some and abandon_pending_record).
CountsCover ==
    LET counted(p) == pc[p] \in {"push", "reserve", "release", "abandon"}
        released == IF pc["consumer"] \in {"write", "subready"} THEN Len(batch) ELSE 0
        queued == MapThenSumSet(LAMBDA l : Len(queue[l]), Lanes)
        readying == Cardinality({p \in Producers : pc[p] \in {"publish", "ready"}})
    IN /\ pending = queued + Len(batch) + Cardinality({p \in Producers : counted(p)})
       /\ ready >= 0 /\ ready + readying = queued + released

\* A flush that reports the logger drained, and a shutdown that returns in
\* time, come after every record they owe has been given to the backends; except for the record
\* that slipped past the late stores of a shutdown that found nothing pending.
DrainedMeansWritten ==
    /\ pc["flusher"] = "drained" => \A p \in Producers : written[p] >= owed[p]
    /\ pc["stopper"] = "down" /\ scene.timely /\ ~slipped => written = accepted

\* Nobody waits: no record is ready (after a lost wake request, or slipped past
\* the shutdown, one may stay, and a flush then waits for it until its deadline),
\* no flush polls and no shutdown is under way.
Quiet ==
    /\ scene.timely => ready = 0 \/ missed \/ slipped
    /\ scene.timely => pc["flusher"] \in {"idle", "drained"} \/ slipped
    /\ pc["stopper"] \in {"idle", "down"}

\* Every accepted record is taken by the consumer, and every flush and shutdown
\* ends.
LogsSettle == []<>Quiet
=============================================================================
