----------------------------- MODULE LogBackend -----------------------------
(***************************************************************************)
(* RuntimeFileLogBackend, RuntimeTcpLogBackend and RuntimeUdpLogBackend:   *)
(* the log consumer fills batches and queues them, a runtime task writes   *)
(* them to a file or a socket, threads flush, and one shuts the backend    *)
(* down.  A batch holds one record.  Batches are written in order, so the  *)
(* queue is a number: batch i is the i-th that was queued.  The scheduling *)
(* of the task is what TaskWake promises.                                  *)
(***************************************************************************)
EXTENDS Integers, FiniteSets

CONSTANTS
    Flushers,       \* threads that call flush()
    BatchCount,     \* batch_queue_capacity
    PerRun,         \* max_batches_per_run
    Scenes          \* the cases considered; each a record of
                    \*   kind: "file", "tcp" or "udp"
                    \*   callers: the flushers, and "stopper", that take part
                    \*   timely: no deadline passes
                    \*   records: bound, records written by the consumer
                    \*   stalls: bound, writes that would block
                    \*   errors: bound, connects and writes that fail
                    \*   refusals: bound, schedule() calls that are refused

VARIABLES
    scene,          \* the case, chosen at the start
    left,           \* what is left of each bound
    free,           \* free_batches
    queued,         \* batches pushed to ready_batches so far
    popped,         \* batches taken from it so far
    done,           \* batches completed so far, written or dropped
    synced,         \* done at the last fsync
    pending,        \* pending_batches
    wakeQueued,     \* wake_queued
    late,           \* idle()'s store of false to it is not visible yet
    taskStarted,    \* task_started_
    stopping,       \* stopping
    finished,       \* finished
    flushRequests,  \* flush_requests
    completed,      \* completed_flushes
    task, woken,    \* the task: new, queued, running, idle, done; a wake while running
    wait,           \* the registered I/O wait: none, armed, ready
    open,           \* the file is open or the socket connected
    budget,         \* batches left in this run
    pc,             \* where each thread is
    target,         \* the flush each flusher waits for
    owed,           \* queued when the flush began
    missed          \* since the task last began to run, schedule() was refused or
                    \* a wake found wake_queued as idle()'s late store left it

batches == <<free, queued, popped, done, synced, pending>>
wakes == <<wakeQueued, late, taskStarted, task, woken, missed>>
stops == <<stopping, finished>>
flushes == <<flushRequests, completed, target, owed>>
io == <<wait, open, budget>>
vars == <<scene, left, batches, wakes, stops, flushes, io, pc>>

Callers == Flushers \union {"stopper"}
Threads == Callers \union {"writer", "task"}

Init ==
    /\ scene \in Scenes
    /\ left = [b \in {"records", "stalls", "errors", "refusals"} |-> scene[b]]
    /\ free = BatchCount
    /\ queued = 0 /\ popped = 0 /\ done = 0 /\ synced = 0 /\ pending = 0
    /\ wakeQueued = FALSE /\ taskStarted = FALSE /\ task = "new" /\ woken = FALSE
    /\ late = FALSE /\ missed = FALSE
    /\ stopping = FALSE /\ finished = FALSE
    /\ flushRequests = 0 /\ completed = 0
    /\ target = [t \in Callers |-> 0] /\ owed = [t \in Callers |-> 0]
    /\ wait = "none" /\ open = FALSE /\ budget = 0
    /\ pc = [t \in Threads |-> "idle"]

Goto(t, l) == pc' = [pc EXCEPT ![t] = l]
Spend(b) == left[b] > 0 /\ left' = [left EXCEPT ![b] = @ - 1]

-----------------------------------------------------------------------------
(* write_batch on the consumer's thread: enqueue, then wake.  The logger    *)
(* shuts its backends down once its consumer is finished.                   *)

\* enqueue: a batch for the record, or the record is dropped.
acquire_producer_batch ==
    /\ pc["writer"] = "idle" /\ pc["stopper"] = "idle"
    /\ Spend("records")
    /\ free' = IF free > 0 THEN free - 1 ELSE free
    /\ Goto("writer", IF free > 0 THEN "count" ELSE "idle")
    /\ UNCHANGED <<scene, queued, popped, done, synced, pending, wakes, stops, flushes, io>>

CountBatch ==
    /\ pc["writer"] = "count"
    /\ pending' = pending + 1
    /\ Goto("writer", "push")
    /\ UNCHANGED <<scene, left, free, queued, popped, done, synced, wakes, stops, flushes, io>>

PushBatch ==
    /\ pc["writer"] = "push"
    /\ queued' = queued + 1
    /\ Goto("writer", "wake")
    /\ UNCHANGED <<scene, left, free, popped, done, synced, pending, wakes, stops, flushes, io>>

enqueue == acquire_producer_batch \/ CountBatch \/ PushBatch

-----------------------------------------------------------------------------
(* wake_runtime_log_task, on the writer, a flusher or the stopper.          *)

\* stop_and_wait has reset task_.
TaskGone == pc["stopper"] \in {"down", "unwaited"}

\* What a thread does once wake() has answered TRUE ...
Woken(t) == IF t = "writer" THEN "idle"
            ELSE IF pc[t] \in {"stopwake", "stopschedule"} THEN "finish" ELSE "await"

\* ... and FALSE: a flush fails, and the stopper does not wait for the task.
Unwoken(t) == IF t = "writer" THEN "idle"
              ELSE IF pc[t] \in {"stopwake", "stopschedule"} THEN "unwaited"
              ELSE IF t = "stopper" THEN "stop" ELSE "failed"

\* idle() has looked for work and found none, and its store is not visible.
ClearLate == late /\ pc["task"] = "return"

WakeCas(t) ==
    /\ pc[t] \in {"wake", "stopwake"}
    /\ \/ TaskGone /\ UNCHANGED wakeQueued /\ Goto(t, Unwoken(t))
       \/ ~TaskGone /\ (finished \/ wakeQueued) /\ UNCHANGED wakeQueued /\ Goto(t, Woken(t))
       \/ /\ ~TaskGone /\ ~finished /\ ~wakeQueued /\ wakeQueued' = TRUE
          /\ Goto(t, IF pc[t] = "wake" THEN "schedule" ELSE "stopschedule")
    /\ missed' = (missed \/ (~TaskGone /\ wakeQueued /\ ClearLate))
    /\ UNCHANGED <<scene, left, batches, late, taskStarted, task, woken, stops, flushes, io>>

ScheduleTask(t) ==
    /\ pc[t] \in {"schedule", "stopschedule"} /\ task # "done"
    /\ taskStarted' = TRUE
    /\ task' = IF task \in {"new", "idle"} THEN "queued" ELSE task
    /\ woken' = (woken \/ task = "running")
    /\ Goto(t, Woken(t))
    /\ UNCHANGED <<scene, left, batches, wakeQueued, late, missed, stops, flushes, io>>

\* schedule() answers FALSE: the flags are restored.
ScheduleRefused(t) ==
    /\ pc[t] \in {"schedule", "stopschedule"}
    /\ IF task = "done" THEN UNCHANGED left ELSE Spend("refusals")
    /\ wakeQueued' = FALSE /\ missed' = TRUE
    /\ taskStarted' = (taskStarted /\ task # "new")
    /\ Goto(t, Unwoken(t))
    /\ UNCHANGED <<scene, batches, late, task, woken, stops, flushes, io>>

wake_runtime_log_task(t) == WakeCas(t) \/ ScheduleTask(t) \/ ScheduleRefused(t)

-----------------------------------------------------------------------------
(* run() of RuntimeFileLogWriterTask and of the two sender tasks.           *)

Run ==
    /\ task = "queued"
    /\ task' = "running" /\ woken' = FALSE /\ missed' = FALSE /\ budget' = PerRun
    /\ Goto("task", IF stopping THEN "drop" ELSE IF wait = "armed" THEN "return" ELSE "pop")
    /\ wait' = IF wait = "ready" THEN "none" ELSE wait
    /\ UNCHANGED <<scene, left, batches, wakeQueued, late, taskStarted, stops, flushes, open>>

\* stopping: drop_current, drop_ready_batches, then finish.
DropAll ==
    /\ pc["task"] = "drop"
    /\ wait' = "none" /\ open' = FALSE
    /\ popped' = queued /\ done' = queued
    /\ free' = free + (queued - done) /\ pending' = pending - (queued - done)
    /\ Goto("task", "finish")
    /\ UNCHANGED <<scene, left, queued, synced, wakes, stops, flushes, budget>>

\* The batch in hand, or the next one.
PopBatch ==
    /\ pc["task"] = "pop"
    /\ popped' = IF popped = done /\ queued > popped THEN popped + 1 ELSE popped
    /\ Goto("task", IF popped' > done THEN "io" ELSE IF scene.kind = "file" THEN "flush" ELSE "idle")
    /\ UNCHANGED <<scene, left, free, queued, done, synced, pending, wakes, stops, flushes, io>>

\* complete_batch: recycle_batch and abandon_pending_batch.
complete_batch ==
    /\ free' = free + 1 /\ pending' = pending - 1 /\ done' = done + 1
    /\ budget' = budget - 1
    /\ Goto("task", IF budget = 1 THEN "again" ELSE "pop")
    /\ UNCHANGED <<scene, queued, popped, synced, wakes, stops, flushes>>

\* write_current, send_current: the batch is written ...
WriteBatch ==
    /\ pc["task"] = "io"
    /\ open' = TRUE
    /\ complete_batch /\ UNCHANGED <<left, wait>>

\* ... or the open, the connect or the write fails and the batch is dropped ...
WriteFails ==
    /\ pc["task"] = "io" /\ Spend("errors")
    /\ open' = FALSE
    /\ complete_batch /\ UNCHANGED wait

\* ... or it waits for the descriptor (a connect, a full socket buffer).
WriteBlocks ==
    /\ pc["task"] = "io" /\ Spend("stalls")
    /\ wait' = "armed"
    /\ open' = (open \/ scene.kind # "tcp")
    /\ Goto("task", "return")
    /\ UNCHANGED <<scene, batches, wakes, stops, flushes, budget>>

\* flush_if_requested, complete_requested_flushes.
FlushFile ==
    /\ pc["task"] = "flush"
    /\ synced' = IF completed < flushRequests /\ open THEN done ELSE synced
    /\ Goto("task", IF completed < flushRequests THEN "flushed" ELSE "idle")
    /\ UNCHANGED <<scene, left, free, queued, popped, done, pending, wakes, stops, flushes, io>>

complete_requested_flushes ==
    /\ pc["task"] = "flushed"
    /\ completed' = flushRequests
    /\ Goto("task", "idle")
    /\ UNCHANGED <<scene, left, batches, wakes, stops, flushRequests, target, owed, io>>

\* idle(), after the test of stopping.  The store is visible at once, or later.
ClearWakeQueued ==
    /\ pc["task"] = "idle" /\ task = "running"
    /\ IF stopping
       THEN UNCHANGED <<wakeQueued, late>> /\ Goto("task", "finish")
       ELSE /\ \/ wakeQueued' = FALSE /\ UNCHANGED late
               \/ late' = TRUE /\ UNCHANGED wakeQueued
            /\ Goto("task", "recheck")
    /\ UNCHANGED <<scene, left, batches, taskStarted, task, woken, missed, stops, flushes, io>>

FlushStore ==
    /\ late
    /\ wakeQueued' = FALSE /\ late' = FALSE
    /\ UNCHANGED <<scene, left, batches, taskStarted, task, woken, missed, stops, flushes, io, pc>>

\* Mutant of RecheckWork: the task pends without looking again.
RecheckNothing ==
    /\ pc["task"] = "recheck"
    /\ Goto("task", "return")
    /\ UNCHANGED <<scene, left, batches, wakes, stops, flushes, io>>

\* The second store waits for the first.
RecheckWork ==
    /\ pc["task"] = "recheck"
    /\ IF stopping \/ pending # 0 \/ completed < flushRequests
       THEN ~late /\ wakeQueued' = TRUE /\ Goto("task", "again")
       ELSE UNCHANGED wakeQueued /\ Goto("task", "return")
    /\ UNCHANGED <<scene, left, batches, late, taskStarted, task, woken, missed, stops, flushes, io>>

idle == ClearWakeQueued \/ RecheckWork

Again ==
    /\ pc["task"] = "again"
    /\ task' = "queued"
    /\ Goto("task", "idle")
    /\ UNCHANGED <<scene, left, batches, wakeQueued, late, taskStarted, woken, missed, stops, flushes, io>>

\* finish_pending ends with an exchange, which makes earlier stores visible.
ReturnPending ==
    /\ pc["task"] = "return" /\ ~late
    /\ task' = IF woken THEN "queued" ELSE "idle"
    /\ Goto("task", "idle")
    /\ UNCHANGED <<scene, left, batches, wakeQueued, late, taskStarted, woken, missed, stops, flushes, io>>

finish ==
    /\ pc["task"] = "finish"
    /\ wakeQueued' = FALSE /\ finished' = TRUE /\ task' = "done"
    /\ Goto("task", "idle")
    /\ UNCHANGED <<scene, left, batches, late, taskStarted, woken, missed, stopping, flushes, io>>

\* The executor resumes the task when its descriptor is ready.
IoReady ==
    /\ wait = "armed" /\ task # "done"
    /\ wait' = "ready"
    /\ task' = IF task = "idle" THEN "queued" ELSE task
    /\ woken' = (woken \/ task = "running")
    /\ UNCHANGED <<scene, left, batches, wakeQueued, late, taskStarted, missed, stops, flushes, open,
                   budget, pc>>

Task ==
    \/ Run \/ DropAll \/ PopBatch \/ WriteBatch \/ WriteFails \/ WriteBlocks
    \/ FlushFile \/ complete_requested_flushes \/ idle \/ Again \/ ReturnPending \/ finish

-----------------------------------------------------------------------------
(* flush() on a flusher, or first thing in shutdown().                      *)

flush(t) ==
    /\ pc[t] = "idle" /\ t \in scene.callers
    /\ t = "stopper" => pc["writer"] = "idle"
    /\ owed' = [owed EXCEPT ![t] = queued]
    /\ IF scene.kind = "file"
       THEN /\ flushRequests' = flushRequests + 1
            /\ target' = [target EXCEPT ![t] = flushRequests + 1]
            /\ Goto(t, "wake")
       ELSE /\ UNCHANGED <<flushRequests, target>>
            /\ Goto(t, IF pending = 0 THEN "flushed" ELSE "wake")
    /\ UNCHANGED <<scene, left, batches, wakes, stops, completed, io>>

Flushed(t) == IF scene.kind = "file" THEN completed >= target[t] ELSE pending = 0

flush_until(t) ==
    /\ pc[t] = "await" /\ Flushed(t)
    /\ Goto(t, "flushed")
    /\ UNCHANGED <<scene, left, batches, wakes, stops, flushes, io>>

FlushExpires(t) ==
    /\ pc[t] = "await" /\ ~Flushed(t) /\ ~scene.timely
    /\ Goto(t, IF t = "stopper" THEN "stop" ELSE "failed")
    /\ UNCHANGED <<scene, left, batches, wakes, stops, flushes, io>>

-----------------------------------------------------------------------------
(* shutdown(): after its flush, stop_and_wait.                              *)

stop_and_wait ==
    /\ pc["stopper"] \in {"flushed", "stop"}
    /\ stopping' = TRUE
    /\ LET unused == ~taskStarted /\ pending = 0
       IN /\ finished' = (finished \/ unused)
          /\ Goto("stopper", IF unused THEN "down" ELSE "stopwake")
    /\ UNCHANGED <<scene, left, batches, wakes, flushes, io>>

wait_until_finished ==
    /\ pc["stopper"] = "finish" /\ (finished \/ ~scene.timely)
    /\ Goto("stopper", "down")
    /\ UNCHANGED <<scene, left, batches, wakes, stops, flushes, io>>

-----------------------------------------------------------------------------
Next ==
    \/ enqueue
    \/ \E t \in Callers \union {"writer"} : wake_runtime_log_task(t)
    \/ Task \/ FlushStore \/ IoReady
    \/ \E t \in Callers : flush(t) \/ flush_until(t) \/ FlushExpires(t)
    \/ stop_and_wait \/ wait_until_finished

\* The threads run, and a deadline passes if it is reached; the runtime runs a
\* queued task; a store becomes visible; the descriptor gets ready.
Fairness ==
    /\ WF_vars(CountBatch \/ PushBatch \/ wake_runtime_log_task("writer"))
    /\ WF_vars(Task) /\ WF_vars(FlushStore) /\ WF_vars(IoReady)
    /\ \A t \in Callers : WF_vars(wake_runtime_log_task(t) \/ flush_until(t) \/ FlushExpires(t))
    /\ WF_vars(stop_and_wait \/ wait_until_finished)

Spec == Init /\ [][Next]_vars /\ Fairness

-----------------------------------------------------------------------------
\* A flush of a socket backend that succeeds comes after every batch queued
\* before it was sent or dropped.  A shutdown that returns in time leaves the
\* task finished, so that no run of it is left that would find its state
\* destroyed, and every batch of a socket backend completed.  (Only if its own
\* wake was accepted: when schedule() refuses it, stop_and_wait drops the task
\* without waiting for it, wherever the task is.)
FlushMeansSent ==
    /\ scene.kind # "file" => \A t \in Callers : pc[t] = "flushed" => done >= owed[t]
    /\ pc["stopper"] = "down" /\ scene.timely => finished /\ (scene.kind = "file" \/ pending = 0)

\* A flush of the file backend that succeeds comes after every batch queued
\* before it was written or dropped, and after an fsync of the file.
\* This does NOT hold: a batch pushed, and a flush requested, after the task found
\* the queue empty are covered by the fsync that follows, although the batch is
\* still queued.
FlushMeansSynced ==
    scene.kind = "file" => \A t \in Callers : pc[t] = "flushed" =>
        done >= owed[t] /\ (open => synced >= owed[t])

\* Nobody waits: no batch is pending, no flush awaits the task and no shutdown
\* is under way.  After a wake that was refused, or that idle()'s late store made
\* pointless, each may wait until the task is woken again, a shutdown no longer than
\* its deadline.
Quiet ==
    /\ pending = 0 \/ finished \/ missed
    /\ \A t \in Flushers : pc[t] \in {"idle", "flushed", "failed"} \/ missed
    /\ pc["stopper"] \in {"idle", "down", "unwaited"} \/ (missed /\ scene.timely)

\* Every queued batch is completed, and every flush and shutdown ends.
BackendSettles == []<>Quiet
=============================================================================
