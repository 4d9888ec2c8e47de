----------------------------- MODULE LogSenders -----------------------------
(***************************************************************************)
(* The runs of RuntimeFileLogWriterTask, RuntimeTcpLogSenderTask and       *)
(* RuntimeUdpLogSenderTask, byte by byte: opening and connecting, partial  *)
(* writes, waits for the descriptor and what a run does after them, errors *)
(* and the drop of a batch, the stop.  LogBackend has the queue and the    *)
(* wakes of the same tasks; here the batches are there from the start and  *)
(* a wake may come at any time.                                            *)
(***************************************************************************)
EXTENDS Integers, Sequences, SequencesExt, FiniteSets, FiniteSetsExt

CONSTANTS
    Kinds,          \* "file", "tcp", "udp"
    Loads,          \* the queues considered: sequences of batches, each the
                    \* sequence of the sizes of its records' messages
    MaxDatagram,    \* max_datagram_size
    MaxMessages,    \* the size of messages_: datagrams of one sendmmsg
    PerRun,         \* max_batches_per_run
    MaxFaults       \* bound: errors and full buffers the kernel answers

VARIABLES
    kind, load,     \* the case, chosen at the start
    taken,          \* batches taken from ready_batches
    current,        \* current_: its number, or 0
    at,             \* current_byte_ or current_message_
    fd,             \* the number of the open descriptor, or 0
    opens,          \* descriptors opened so far
    connected,      \* connected_
    waiting,        \* io_waiting: "no", or the wait: "armed", "ready"
    drained,        \* drained_batches of this run
    task,           \* queued, running, idle, done
    stopping,       \* stopping
    sent, dropped,  \* written_records or sent_records, dropped_records
    wire,           \* what was written: <<descriptor, batch, byte or message>>
    faults

batch == <<taken, current, at, drained>>
vars == <<kind, load, batch, fd, opens, connected, waiting, task, stopping,
          sent, dropped, wire, faults>>

Init ==
    /\ kind \in Kinds /\ load \in Loads
    /\ taken = 0 /\ current = 0 /\ at = 0 /\ drained = 0
    /\ fd = 0 /\ opens = 0 /\ connected = FALSE /\ waiting = "no"
    /\ task = "queued" /\ stopping = FALSE
    /\ sent = 0 /\ dropped = 0 /\ wire = <<>> /\ faults = 0

-----------------------------------------------------------------------------
(* Batches: append skips empty messages; a datagram is cut to its maximum   *)
(* and counts as one message, a stream is its bytes.                        *)

append(b) == SelectSeq(load[b], LAMBDA size : size > 0)
append_datagram(b) ==
    [i \in 1..Len(append(b)) |-> IF append(b)[i] > MaxDatagram THEN MaxDatagram ELSE append(b)[i]]
Records(b) == Len(append(b))
Units(b) == IF kind = "udp" THEN Len(append_datagram(b)) ELSE FoldLeft(+, 0, append(b))

Fault == faults < MaxFaults /\ faults' = faults + 1

\* complete_batch, then the next batch or, after max_batches_per_run, again().
Complete ==
    /\ current' = 0 /\ at' = 0
    /\ drained' = drained + 1
    /\ task' = IF drained + 1 >= PerRun THEN "queued" ELSE "running"
    /\ UNCHANGED taken

\* A stream batch that fails is dropped whole, written in part or not.
drop_current_records == dropped' = dropped + Records(current)

-----------------------------------------------------------------------------
(* run().                                                                   *)

\* A stopping task drops what it has in hand and what is queued, and closes
\* (RuntimeTcpLogSenderTask only with a batch in hand).
DropAll ==
    LET queued == MapThenSumSet(Records, (taken + 1)..Len(load))
        inHand == IF current = 0 THEN 0
                  ELSE IF kind = "udp" THEN Units(current) - at ELSE Records(current)
        close == kind # "tcp" \/ current # 0
    IN  /\ dropped' = dropped + inHand + queued
        /\ taken' = Len(load) /\ current' = 0 /\ at' = 0
        /\ fd' = IF close THEN 0 ELSE fd
        /\ connected' = (connected /\ ~close)
        /\ waiting' = "no" /\ task' = "done"
        /\ UNCHANGED drained

Run ==
    /\ task = "queued"
    /\ \/ stopping /\ DropAll
       \/ /\ ~stopping /\ waiting = "armed" /\ task' = "idle"
          /\ UNCHANGED <<batch, fd, connected, waiting, dropped>>
       \/ /\ ~stopping /\ waiting # "armed" /\ task' = "running"
          /\ drained' = 0
          /\ UNCHANGED <<taken, current, at, fd, connected, waiting, dropped>>
    /\ UNCHANGED <<kind, load, opens, stopping, sent, wire, faults>>

TakeBatch ==
    /\ task = "running" /\ current = 0
    /\ IF taken < Len(load)
       THEN current' = taken + 1 /\ taken' = taken + 1 /\ at' = 0 /\ UNCHANGED task
       ELSE UNCHANGED <<current, taken, at>> /\ task' = (IF stopping THEN "done" ELSE "idle")
    /\ UNCHANGED <<kind, load, drained, fd, opens, connected, waiting, stopping,
                   sent, dropped, wire, faults>>

Busy == task = "running" /\ current # 0

-----------------------------------------------------------------------------
(* Opening: open_file, ensure_socket, and open_socket with a connect.       *)

Opened == fd' = opens + 1 /\ opens' = opens + 1

\* The file is opened, ...
open_file ==
    /\ Busy /\ kind = "file" /\ fd = 0
    /\ Opened
    /\ UNCHANGED <<kind, load, batch, connected, waiting, task, stopping, sent, dropped, wire, faults>>

\* ... the datagram socket created and connected before the first message, ...
ensure_socket ==
    /\ Busy /\ kind = "udp" /\ fd = 0
    /\ Opened
    /\ UNCHANGED <<kind, load, batch, connected, waiting, task, stopping, sent, dropped, wire, faults>>

\* ... or not, and the batch is dropped.
OpenFails ==
    /\ Busy /\ fd = 0 /\ Fault
    /\ drop_current_records /\ Complete
    /\ UNCHANGED <<kind, load, fd, opens, connected, waiting, stopping, sent, wire>>

\* ensure_connected: io_connect finishes at once or waits.
open_socket ==
    /\ Busy /\ kind = "tcp" /\ fd = 0
    /\ Opened
    /\ \/ connected' = TRUE /\ UNCHANGED <<waiting, task>>
       \/ connected' = FALSE /\ waiting' = "armed" /\ task' = "idle"
    /\ UNCHANGED <<kind, load, batch, stopping, sent, dropped, wire, faults>>

\* The wait for the connect ended well, ...
ensure_connected ==
    /\ Busy /\ kind = "tcp" /\ fd # 0 /\ ~connected
    /\ connected' = TRUE /\ waiting' = "no"
    /\ UNCHANGED <<kind, load, batch, fd, opens, task, stopping, sent, dropped, wire, faults>>

\* ... or the connect failed, and close_socket.
ConnectFails ==
    /\ Busy /\ kind = "tcp" /\ fd # 0 /\ ~connected /\ Fault
    /\ fd' = 0 /\ waiting' = "no"
    /\ drop_current_records /\ Complete
    /\ UNCHANGED <<kind, load, opens, connected, stopping, sent, wire>>

-----------------------------------------------------------------------------
(* Writing a batch.                                                         *)

CanWrite == Busy /\ fd # 0 /\ (kind = "tcp" => connected)

\* Mutant of Position: a batch that had to wait starts again.
PositionLost(n) == IF waiting = "ready" THEN n ELSE at + n

Position(n) == at + n

\* The kernel takes n bytes or datagrams of the batch.
Advance(n) ==
    /\ wire' = wire \o [i \in 1..n |-> <<fd, current, at + i>>]
    /\ waiting' = "no"
    /\ IF Position(n) >= Units(current)
       THEN Complete
       ELSE at' = Position(n) /\ UNCHANGED <<taken, current, drained, task>>
    /\ UNCHANGED <<kind, load, fd, opens, connected, stopping, dropped, faults>>

\* write_current, send_current: a stream batch counts once it is written whole.
send_current ==
    /\ CanWrite /\ kind # "udp"
    /\ \E n \in 1..(Units(current) - at) :
         /\ Advance(n)
         /\ sent' = sent + (IF Position(n) >= Units(current) THEN Records(current) ELSE 0)

\* Datagrams count one by one.
send_current_mmsg ==
    /\ CanWrite /\ kind = "udp"
    /\ \E n \in 1..(Units(current) - at) :
         /\ n <= MaxMessages
         /\ Advance(n)
         /\ sent' = sent + n

\* A full buffer: wait_io, io_pending.
arm_writable_wait ==
    /\ CanWrite /\ Fault
    /\ waiting' = "armed" /\ task' = "idle"
    /\ UNCHANGED <<kind, load, batch, fd, opens, connected, stopping, sent, dropped, wire>>

\* A write that fails, or a wait that cannot be registered: the descriptor is
\* closed and the stream batch dropped.
StreamFails ==
    /\ CanWrite /\ kind # "udp" /\ Fault
    /\ fd' = 0 /\ connected' = FALSE /\ waiting' = "no"
    /\ drop_current_records /\ Complete
    /\ UNCHANGED <<kind, load, opens, stopping, sent, wire>>

\* The same for datagrams: those of the failed call are dropped and, since the
\* socket is opened only before the first message, those after it too.
DatagramFails ==
    /\ CanWrite /\ kind = "udp" /\ Fault
    /\ fd' = 0 /\ waiting' = "no"
    /\ dropped' = dropped + (Units(current) - at)
    /\ Complete
    /\ UNCHANGED <<kind, load, opens, connected, stopping, sent, wire>>

-----------------------------------------------------------------------------
(* From outside.                                                            *)

\* The descriptor is ready: the executor resumes the task.
IoReady ==
    /\ waiting = "armed" /\ task = "idle"
    /\ waiting' = "ready" /\ task' = "queued"
    /\ UNCHANGED <<kind, load, batch, fd, opens, connected, stopping, sent, dropped, wire, faults>>

\* wake_runtime_log_task, by the writer, a flush or the shutdown.
Wake ==
    /\ task = "idle"
    /\ task' = "queued"
    /\ UNCHANGED <<kind, load, batch, fd, opens, connected, waiting, stopping, sent, dropped,
                   wire, faults>>

\* stop_and_wait sets stopping, whatever the task is doing.
Stop ==
    /\ ~stopping /\ task # "done"
    /\ stopping' = TRUE
    /\ UNCHANGED <<kind, load, batch, fd, opens, connected, waiting, task, sent, dropped,
                   wire, faults>>

Next ==
    \/ Run \/ TakeBatch \/ open_file \/ ensure_socket \/ OpenFails \/ open_socket
    \/ ensure_connected \/ ConnectFails \/ send_current \/ send_current_mmsg
    \/ arm_writable_wait \/ StreamFails \/ DatagramFails \/ IoReady \/ Wake
    \/ Stop

Spec == Init /\ [][Next]_vars

-----------------------------------------------------------------------------
\* The counters tell the truth: every record of a batch taken from the queue
\* and completed was counted once, as sent or as dropped, and the records
\* counted as sent are those that reached the descriptor whole.
CountsExact ==
    LET over == taken - (IF current = 0 THEN 0 ELSE 1)
        whole(b) == Units(b) = Cardinality({i \in DOMAIN wire : wire[i][2] = b})
    IN  /\ sent + dropped = MapThenSumSet(Records, 1..over) + (IF kind = "udp" THEN at ELSE 0)
        /\ sent = IF kind = "udp" THEN Len(wire)
                  ELSE MapThenSumSet(Records, {b \in 1..over : whole(b)})

\* What a descriptor receives are whole batches in order, each byte once; only
\* the last one may be cut, where the descriptor was closed.
BatchesWhole ==
    \A i \in DOMAIN wire :
        LET u == wire[i][3]
            begins(p) == p[2] < wire[i][2] /\ u = 1
                         /\ (p[1] = wire[i][1] => p[3] = Units(p[2]))
        IN  IF i = 1 THEN u = 1
            ELSE \/ wire[i - 1] = <<wire[i][1], wire[i][2], u - 1>>
                 \/ begins(wire[i - 1])
=============================================================================
