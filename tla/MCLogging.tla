----------------------------- MODULE MCLogging ------------------------------
(***************************************************************************)
(* The logger and the structures it is built on, on small instances and in *)
(* one run: the SPSC ring of its lanes, the MPSC queue of its ingress; the *)
(* queues and the consumer, the task of a runtime backend, and the writes  *)
(* of the synchronous and of the runtime backends.                         *)
(* A behaviour picks one part at the start and stays in it; the others     *)
(* keep their initial states.                                              *)
(***************************************************************************)
EXTENDS SpscQueue

CONSTANTS p1, p2   \* model values: producers

VARIABLES
    part,
    m_enqueuePos, m_dequeuePos, m_sequence, m_data, m_pc, m_pos, m_batch, m_reservable,
    m_done, m_sent, m_cpc, m_cpos, m_left, m_taken, m_refused, m_claims,
    p_scene, p_accepting, p_stopping, p_pending, p_ready, p_queue, p_free, p_wakeState,
    p_late, p_taskStarted, p_finished, p_target, p_handle, p_slipped, p_task, p_woken, p_pc,
    p_batch, p_quota, p_limit, p_logs, p_accepted, p_written, p_owed, p_refusals, p_missed,
    b_scene, b_left, b_free, b_queued, b_popped, b_done, b_synced, b_pending,
    b_wakeQueued, b_late, b_taskStarted, b_stopping, b_finished, b_flushRequests, b_completed,
    b_task, b_woken, b_wait, b_open, b_budget, b_pc, b_target, b_owed, b_missed,
    w_kind, w_fd, w_records, w_first, w_iovecs, w_sending, w_wire, w_owed,
    s_kind, s_load, s_taken, s_current, s_at, s_fd, s_opens, s_connected, s_waiting,
    s_drained, s_task, s_stopping, s_sent, s_dropped, s_wire, s_faults

spsc == vars
mpsc == <<m_enqueuePos, m_dequeuePos, m_sequence, m_data, m_pc, m_pos, m_batch,
          m_reservable, m_done, m_sent, m_cpc, m_cpos, m_left, m_taken, m_refused,
          m_claims>>
structures == <<spsc, mpsc>>
pipeline == <<p_scene, p_accepting, p_stopping, p_pending, p_ready, p_queue, p_free,
              p_wakeState, p_late, p_taskStarted, p_finished, p_target, p_handle, p_slipped,
              p_task, p_woken, p_pc, p_batch, p_quota, p_limit, p_logs, p_accepted,
              p_written, p_owed, p_refusals, p_missed>>
backend == <<b_scene, b_left, b_free, b_queued, b_popped, b_done, b_synced, b_pending,
             b_wakeQueued, b_late, b_taskStarted, b_stopping, b_finished, b_flushRequests,
             b_completed, b_task, b_woken, b_wait, b_open, b_budget, b_pc, b_target,
             b_owed, b_missed>>
writers == <<w_kind, w_fd, w_records, w_first, w_iovecs, w_sending, w_wire, w_owed>>
senders == <<s_kind, s_load, s_taken, s_current, s_at, s_fd, s_opens, s_connected,
             s_waiting, s_drained, s_task, s_stopping, s_sent, s_dropped, s_wire,
             s_faults>>
logger == <<pipeline, backend, writers, senders>>
all == <<part, structures, logger>>

-----------------------------------------------------------------------------

Mpsc == INSTANCE MpscQueue WITH
    Producers <- {p1, p2}, Capacity <- 2, Span <- 16, Start <- 14, MaxBatch <- 2, MaxPushes <- 3,
    enqueuePos <- m_enqueuePos, dequeuePos <- m_dequeuePos, sequence <- m_sequence,
    data <- m_data, pc <- m_pc, pos <- m_pos, batch <- m_batch,
    reservable <- m_reservable, done <- m_done, sent <- m_sent, cpc <- m_cpc,
    cpos <- m_cpos, left <- m_left, taken <- m_taken, refused <- m_refused,
    claims <- m_claims

\* One thread creates an object, the other two.
PipelineScene(policy, ordering, actors, timely, ofP, ofR, refusals, size, runs) ==
    [policy |-> policy, ordering |-> ordering, actors |-> actors, timely |-> timely,
     logs |-> [p |-> ofP, r |-> ofR], refusals |-> refusals, batch |-> size, batches |-> runs]

PipelineScenes == {
    PipelineScene("drop", "ordered", {}, TRUE, 2, 2, 0, 1, 1),
    PipelineScene("block", "relaxed", {}, TRUE, 3, 1, 0, 2, 2),
    PipelineScene("drop", "ordered", {"flusher"}, TRUE, 1, 1, 0, 2, 1),
    PipelineScene("drop", "ordered", {"flusher"}, TRUE, 0, 2, 1, 1, 1),
    PipelineScene("block", "relaxed", {"flusher"}, FALSE, 0, 2, 0, 2, 1),
    PipelineScene("drop", "relaxed", {"stopper"}, FALSE, 0, 2, 0, 1, 1),
    PipelineScene("block", "relaxed", {"stopper"}, TRUE, 1, 1, 0, 2, 1),
    PipelineScene("drop", "ordered", {"stopper"}, TRUE, 2, 0, 1, 1, 1),
    PipelineScene("drop", "ordered", {"flusher", "stopper"}, TRUE, 1, 0, 0, 1, 1) }

Pipeline == INSTANCE LogPipeline WITH
    Producers <- {"p", "r"}, RuntimeThreads <- {"r"}, QueueCapacity <- 1,
    Scenes <- PipelineScenes,
    scene <- p_scene, accepting <- p_accepting, stopping <- p_stopping, pending <-
    p_pending, ready <- p_ready, queue <- p_queue, free <- p_free, wakeState <-
    p_wakeState, late <- p_late, taskStarted <- p_taskStarted, finished <- p_finished,
    target <- p_target, handle <- p_handle, slipped <- p_slipped, task <- p_task,
    woken <- p_woken, pc <- p_pc, batch <- p_batch, quota <- p_quota, limit <- p_limit, logs <- p_logs, accepted
    <- p_accepted, written <- p_written, owed <- p_owed, refusals <- p_refusals,
    missed <- p_missed

BackendScene(kind, callers, timely, records, stalls, errors, refusals) ==
    [kind |-> kind, callers |-> callers, timely |-> timely, records |-> records,
     stalls |-> stalls, errors |-> errors, refusals |-> refusals]

BackendScenes == {
    BackendScene("file", {"f"}, TRUE, 2, 1, 1, 0),
    BackendScene("file", {"stopper"}, TRUE, 3, 1, 1, 0),
    BackendScene("file", {"stopper"}, FALSE, 2, 1, 0, 0),
    BackendScene("tcp", {"f", "stopper"}, TRUE, 2, 1, 1, 0),
    BackendScene("tcp", {"f"}, FALSE, 2, 1, 0, 1),
    BackendScene("tcp", {"stopper"}, TRUE, 2, 1, 0, 1),
    BackendScene("file", {"f", "stopper"}, FALSE, 1, 0, 0, 1),
    BackendScene("udp", {"f"}, TRUE, 2, 1, 1, 0) }

Backend == INSTANCE LogBackend WITH
    Flushers <- {"f"}, BatchCount <- 2, PerRun <- 2, Scenes <- BackendScenes,
    scene <- b_scene, left <- b_left, free <- b_free, queued <- b_queued, popped <-
    b_popped, done <- b_done, synced <- b_synced, pending <- b_pending, wakeQueued <-
    b_wakeQueued, late <- b_late, taskStarted <- b_taskStarted, stopping <- b_stopping, finished <-
    b_finished, flushRequests <- b_flushRequests, completed <- b_completed, task <-
    b_task, woken <- b_woken, wait <- b_wait, open <- b_open, budget <- b_budget, pc <-
    b_pc, target <- b_target, owed <- b_owed, missed <- b_missed

Writers == INSTANCE LogWriters WITH
    Kinds <- {"file", "udp", "tcp"}, Sizes <- {0, 1, 3}, MaxRecords <- 4, MaxIov <- 2,
    MaxDatagram <- 2,
    kind <- w_kind, fd <- w_fd, records <- w_records, first <- w_first,
    iovecs <- w_iovecs, sending <- w_sending, wire <- w_wire, owed <- w_owed

Senders == INSTANCE LogSenders WITH
    Kinds <- {"file", "tcp", "udp"}, Loads <- {<<<<2, 0, 1>>, <<3>>, <<1, 1>>>>, <<<<1>>, <<2, 2>>>>},
    MaxDatagram <- 2, MaxMessages <- 1, PerRun <- 2, MaxFaults <- 3,
    kind <- s_kind, load <- s_load, taken <- s_taken, current <- s_current, at <- s_at,
    fd <- s_fd, opens <- s_opens, connected <- s_connected, waiting <- s_waiting,
    drained <- s_drained, task <- s_task, stopping <- s_stopping, sent <- s_sent,
    dropped <- s_dropped, wire <- s_wire, faults <- s_faults

LoggingInit ==
    /\ part \in {"mpsc", "spsc", "pipeline", "backend", "writers", "senders"}
    /\ Init /\ Mpsc!Init
    /\ Pipeline!Init
    /\ part # "pipeline" => p_scene = PipelineScene("drop", "ordered", {}, TRUE, 2, 2, 0, 1, 1)
    /\ Backend!Init
    /\ part # "backend" => b_scene = BackendScene("file", {"f"}, TRUE, 2, 1, 1, 0)
    /\ Writers!Init /\ (part # "writers" => w_kind = "file")
    /\ Senders!Init
    /\ part # "senders" => s_kind = "file" /\ s_load = <<<<1>>, <<2, 2>>>>

LoggingNext ==
    \/ /\ part = "spsc" /\ Next
       /\ UNCHANGED <<part, mpsc, logger>>
    \/ /\ part = "mpsc" /\ Mpsc!Next
       /\ UNCHANGED <<part, spsc, logger>>
    \/ /\ part = "pipeline" /\ Pipeline!Next
       /\ UNCHANGED <<part, structures, backend, writers, senders>>
    \/ /\ part = "backend" /\ Backend!Next
       /\ UNCHANGED <<part, structures, pipeline, writers, senders>>
    \/ /\ part = "writers" /\ Writers!Next
       /\ UNCHANGED <<part, structures, pipeline, backend, senders>>
    \/ /\ part = "senders" /\ Senders!Next
       /\ UNCHANGED <<part, structures, pipeline, backend, writers>>

\* Pipeline!Fairness and Backend!Fairness, each for its part.
LoggingFairness ==
    LET runs(A) == part = "pipeline" /\ A
        works(A) == part = "backend" /\ A
    IN  /\ \A p \in {"p", "r"} : WF_pipeline(runs(
              Pipeline!Produce(p) \/ Pipeline!notify_consumer(p) \/ Pipeline!wake_async_log_consumer(p)))
        /\ WF_pipeline(runs(Pipeline!Consumer)) /\ WF_pipeline(runs(Pipeline!FlushStore))
        /\ WF_pipeline(runs(Pipeline!FlushAdmission))
        /\ WF_pipeline(runs(Pipeline!wait_until_drained \/ Pipeline!notify_consumer("flusher")
                            \/ Pipeline!wake_async_log_consumer("flusher")))
        /\ WF_pipeline(runs(Pipeline!shutdown \/ Pipeline!notify_consumer("stopper")
                            \/ Pipeline!wake_async_log_consumer("stopper")))
        /\ WF_backend(works(Backend!CountBatch \/ Backend!PushBatch
                            \/ Backend!wake_runtime_log_task("writer")))
        /\ WF_backend(works(Backend!Task)) /\ WF_backend(works(Backend!FlushStore))
        /\ WF_backend(works(Backend!IoReady))
        /\ \A t \in {"f", "stopper"} : WF_backend(works(
              Backend!wake_runtime_log_task(t) \/ Backend!flush_until(t) \/ Backend!FlushExpires(t)))
        /\ WF_backend(works(Backend!stop_and_wait \/ Backend!wait_until_finished))

LoggingSpec == LoggingInit /\ [][LoggingNext]_all /\ LoggingFairness

-----------------------------------------------------------------------------
\* The MPSC queue implements a bounded FIFO (BoundedFifo): values come out once
\* and in the order of their places, a push fails only on a full queue and a pop
\* takes only published cells, across the wrap-around of the positions.
MpscImplementsFifo == Mpsc!ImplementsFifo

\* A cell has one owner: no producer writes a cell of the MPSC queue while the
\* consumer reads it or another producer writes it, nor a cell of the SPSC ring
\* that the consumer is entitled to read.
CellsOwned == Mpsc!CellsOwned /\ WritesFreeCells

\* A record counted in ready_ has a consumer: the task is queued or runs, or a
\* thread is on its way through wake_async_log_consumer.  Excepted is the time
\* after a wake was refused, or a producer's Active overwritten by the late
\* Parking store of mark_idle_or_continue, until the task runs again; and
\* a record let in by the late stores of a shutdown that found none pending.
NoStrandedRecord == Pipeline!NoStrandedRecord

\* pending_ and ready_ cover what drain_some and abandon_pending_record subtract
\* from them, at every step of try_log and of the consumer.
CountsCover == Pipeline!CountsCover

\* A flush that returns true comes after the records, for AsyncLogger, and after
\* the batches, for the runtime socket backends, that were accepted before it;
\* and a shutdown that returns in time leaves no record behind, but for one its
\* late stores let in, and no run of the task, unless schedule() refused its wake.
FlushMeansDone == Pipeline!DrainedMeansWritten /\ Backend!FlushMeansSent

\* The bytes of the records reach the wire in order, none twice and none skipped
\* but for those a failed or full system call made the backend give up, across
\* partial writes and the cut into iovec arrays; and what the runtime
\* senders give to one descriptor are whole batches, cut only where it was closed.
WireInOrder == Writers!WireInOrder /\ Senders!BatchesWhole

\* Each record a runtime sender took is counted as sent or as dropped once,
\* through reconnects, partial sends and a stop between two of them.
CountsExact == Senders!CountsExact

\* Nobody waits for ever: ready records, pending batches, flushes and shutdowns
\* are dealt with, or a wake was lost and the task not woken since.
LoggingSettles == []<>(Pipeline!Quiet /\ Backend!Quiet)
=============================================================================
