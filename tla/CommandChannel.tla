--------------------------- MODULE CommandChannel ---------------------------
(***************************************************************************)
(* The command channel of a TcpServerShard or a UdpSocketShard: threads    *)
(* that hold a handle queue commands and wake the shard's thread through   *)
(* its wake descriptor, the owner thread drains them, opens and closes the *)
(* channel, and the control thread seals the channel before it schedules a *)
(* stop.  Every access to accepting_commands_, active_enqueues_,           *)
(* wake_pending_ and wake_fd_ is a step, and every plain store of owner    *)
(* and control may become visible after later loads of its thread, as on   *)
(* x86; the queue's own steps are those of MpscQueue.                      *)
(***************************************************************************)
EXTENDS Integers, Sequences, FiniteSets

CONSTANTS
    Producers,      \* threads that send through a handle
    Capacity,       \* command_queue_capacity
    Scenes          \* the cases considered; each a record of
                    \*   kind: the shard, "tcp" (closes its channel when it has
                    \*         nothing left to serve) or "udp" (closes it in a
                    \*         stop, or when its start fails)
                    \*   senders: the producers that send
                    \*   starts: bound, start tasks
                    \*   refuses: start_task may refuse a stop task

ASSUME ProducersAssumption == IsFiniteSet(Producers)

VARIABLES
    scene,          \* the case, chosen at the start
    accepting,      \* accepting_commands_
    active,         \* active_enqueues_
    queued,         \* commands in commands_
    wakePending,    \* wake_pending_
    fd,             \* wake_fd_ is open
    signal,         \* the wake descriptor is readable
    pc,             \* pc[p]: where producer p is in enqueue()
    todo,           \* what is left of the owner's current task or event
    control,        \* where the control thread is in start() or stop()
    tasks,          \* start and stop tasks queued for the owner, oldest first
    starts,         \* start tasks so far
    buffer,         \* the store of owner and of control that is not visible yet
    races           \* history: which of the three races below have happened

channel == <<accepting, active, queued, wakePending, fd, signal>>
vars == <<scene, channel, pc, todo, control, tasks, starts, buffer, races>>

Init ==
    /\ scene \in Scenes
    /\ accepting = FALSE /\ active = 0 /\ queued = 0
    /\ wakePending = FALSE /\ fd = FALSE /\ signal = FALSE
    /\ pc = [p \in Producers |-> "idle"]
    /\ todo = <<>> /\ control = "stopped" /\ tasks = <<>> /\ starts = 0
    /\ buffer = [t \in {"owner", "control"} |-> <<>>]
    /\ races = {}

Goto(p, l) == pc' = [pc EXCEPT ![p] = l]
Threads == UNCHANGED <<scene, todo, control, tasks, starts, buffer>>

-----------------------------------------------------------------------------
(* Three orders of steps that the code lets happen.  Each is recorded when  *)
(* it happens, so that the properties below can say what holds without it.  *)

\* "seal": the owner has read active_enqueues_ = 0 and closes the channel, while
\* its store of false to accepting_commands_ is not visible.
SealLate == buffer["owner"] = <<"accepting", FALSE>>
            /\ todo \in {<<"discard", "close">>, <<"close">>}

\* "clear": the owner has found the queue empty and goes back to its poll, while
\* its store of false to wake_pending_ is not visible.
ClearLate == buffer["owner"] = <<"wakePending", FALSE>> /\ todo = <<>>

\* "resume": after a refused stop task the control thread opens a channel that
\* its owner has not opened yet, is closing or has closed.
Serving == fd /\ \A k \in 1..Len(todo) : todo[k] \notin {"open", "close"}

Race(name, happens) == races' = IF happens THEN races \cup {name} ELSE races

-----------------------------------------------------------------------------
(* TcpConnectionHandle and enqueue() on a thread that is not the owner.     *)

\* enqueue_command / enqueue_send_on_shard: the test before the command is made.
CheckAccepting(p) ==
    /\ pc[p] = "idle" /\ p \in scene.senders /\ accepting
    /\ Goto(p, "enter")
    /\ UNCHANGED <<channel, races>> /\ Threads

EnterEnqueue(p) ==
    /\ pc[p] = "enter"
    /\ active' = active + 1
    /\ Goto(p, "load")
    /\ UNCHANGED <<accepting, queued, wakePending, fd, signal, races>> /\ Threads

LoadAccepting(p) ==
    /\ pc[p] = "load"
    /\ Goto(p, IF accepting THEN "push" ELSE "leave")
    /\ Race("seal", accepting /\ SealLate)
    /\ UNCHANGED channel /\ Threads

TryPush(p) ==
    /\ pc[p] = "push"
    /\ queued' = IF queued < Capacity THEN queued + 1 ELSE queued
    /\ Goto(p, IF queued < Capacity THEN "fd" ELSE "leave")
    /\ UNCHANGED <<accepting, active, wakePending, fd, signal, races>> /\ Threads

\* wake(): the descriptor, the flag, the write.
WakeFd(p) ==
    /\ pc[p] = "fd"
    /\ Goto(p, IF fd THEN "cas" ELSE "leave")
    /\ UNCHANGED <<channel, races>> /\ Threads

WakeCas(p) ==
    /\ pc[p] = "cas"
    /\ wakePending' = TRUE
    /\ Goto(p, IF wakePending THEN "leave" ELSE "write")
    /\ Race("clear", wakePending /\ ClearLate)
    /\ UNCHANGED <<accepting, active, queued, fd, signal>> /\ Threads

\* A write fails only when the descriptor is full, that is readable.
WakeWrite(p) ==
    /\ pc[p] = "write"
    /\ \/ signal' = TRUE /\ UNCHANGED wakePending
       \/ signal /\ wakePending' = FALSE /\ UNCHANGED signal
    /\ Goto(p, "leave")
    /\ UNCHANGED <<accepting, active, queued, fd, races>> /\ Threads

LeaveEnqueue(p) ==
    /\ pc[p] = "leave"
    /\ active' = active - 1
    /\ Goto(p, "idle")
    /\ UNCHANGED <<accepting, queued, wakePending, fd, signal, races>> /\ Threads

enqueue(p) ==
    \/ EnterEnqueue(p) \/ LoadAccepting(p) \/ TryPush(p) \/ WakeFd(p)
    \/ WakeCas(p) \/ WakeWrite(p) \/ LeaveEnqueue(p)

-----------------------------------------------------------------------------
(* Plain stores of the owner and of the control thread.                     *)

Set(flag, value) ==
    /\ accepting' = IF flag = "accepting" THEN value ELSE accepting
    /\ wakePending' = IF flag = "wakePending" THEN value ELSE wakePending

\* A store is visible at once, or stays in the thread's buffer; there it may be
\* joined by one of the same value, and any other waits for it.
Store(t, flag, value) ==
    \/ buffer[t] = <<>> /\ Set(flag, value) /\ UNCHANGED buffer
    \/ /\ buffer[t] \in {<<>>, <<flag, value>>}
       /\ buffer' = [buffer EXCEPT ![t] = <<flag, value>>]
       /\ UNCHANGED <<accepting, wakePending>>

\* What control stores that is TRUE opens the channel.
Opens(t, value) == t = "control" /\ value

Flush(t) ==
    /\ buffer[t] # <<>>
    /\ Set(buffer[t][1], buffer[t][2])
    /\ Race("resume", Opens(t, buffer[t][2]) /\ ~Serving)
    /\ buffer' = [buffer EXCEPT ![t] = <<>>]
    /\ UNCHANGED <<active, queued, fd, signal>>
    /\ UNCHANGED <<scene, pc, todo, control, tasks, starts>>

-----------------------------------------------------------------------------
(* The owner.  A step begins only when the step before it has returned; the *)
(* poll between two of them is a system call, which empties the buffer.     *)

Idle == todo = <<>> /\ buffer["owner"] = <<>>
Others == UNCHANGED <<scene, pc, control, tasks, starts, races>>

\* Mutant of CloseSteps: the enqueues in progress are not waited for.
CloseAtOnce == <<"seal", "discard", "close">>

\* close_wake_channel
CloseSteps == <<"seal", "spin", "discard", "close">>

\* stop_on_owner: listeners and connections are closed between the discards.
StopSteps == <<"seal", "spin", "discard", "discard">> \o CloseSteps

\* Mutant of WakeSteps: the flag is cleared after the queue was found empty.
WakeClearsLast == <<"drain_fd", "drain", "clear">>

\* handle_wake
WakeSteps == <<"drain_fd", "clear", "drain">>

\* open_wake_channel, at the start of a listener, of a connection or of a socket
OpenSteps == IF fd THEN <<"accept">> ELSE <<"open", "accept">>

\* A start: the channel is opened; closed again when what it was opened for
\* fails; or cannot be opened.
StartSteps == {OpenSteps} \cup (IF fd THEN {} ELSE {OpenSteps \o CloseSteps, <<>>})

Begin ==
    /\ Idle
    /\ \/ /\ fd /\ signal
          /\ todo' = WakeSteps /\ UNCHANGED tasks
       \/ /\ scene.kind = "tcp" /\ fd    \* the last listener or connection is gone
          /\ todo' = CloseSteps /\ UNCHANGED tasks
       \/ /\ tasks # <<>>
          /\ todo' \in IF Head(tasks) = "start" THEN StartSteps ELSE {StopSteps}
          /\ tasks' = Tail(tasks)
    /\ UNCHANGED <<scene, channel, pc, control, starts, buffer, races>>

Step(name) == todo # <<>> /\ Head(todo) = name
Done == todo' = Tail(todo)

OpenFd ==
    /\ Step("open") /\ Done
    /\ fd' = TRUE /\ signal' = FALSE
    /\ UNCHANGED <<accepting, active, queued, wakePending, buffer>> /\ Others

start_accepting_commands ==
    /\ Step("accept") /\ Done
    /\ Store("owner", "accepting", TRUE)
    /\ UNCHANGED <<active, queued, fd, signal>> /\ Others

SealByOwner ==
    /\ Step("seal") /\ Done
    /\ Store("owner", "accepting", FALSE)
    /\ UNCHANGED <<active, queued, fd, signal>> /\ Others

\* Spinning is the absence of a step.
SpinByOwner ==
    /\ Step("spin") /\ Done
    /\ active = 0
    /\ UNCHANGED <<channel, buffer>> /\ Others

discard_pending_commands ==
    /\ Step("discard") /\ Done
    /\ queued' = 0
    /\ UNCHANGED <<accepting, active, wakePending, fd, signal, buffer>> /\ Others

\* The channel is unregistered first, a system call.
CloseFd ==
    /\ Step("close") /\ Done
    /\ buffer["owner"] = <<>>
    /\ fd' = FALSE /\ signal' = FALSE /\ wakePending' = FALSE
    /\ UNCHANGED <<accepting, active, queued, buffer>> /\ Others

drain_wake_fd ==
    /\ Step("drain_fd") /\ Done
    /\ signal' = FALSE
    /\ UNCHANGED <<accepting, active, queued, wakePending, fd, buffer>> /\ Others

ClearWakePending ==
    /\ Step("clear") /\ Done
    /\ Store("owner", "wakePending", FALSE)
    /\ UNCHANGED <<active, queued, fd, signal>> /\ Others

\* drain_commands until try_pop_many returns none
drain_commands ==
    /\ Step("drain")
    /\ \/ queued > 0 /\ queued' = queued - 1 /\ UNCHANGED todo
       \/ queued = 0 /\ UNCHANGED queued /\ Done
    /\ UNCHANGED <<accepting, active, wakePending, fd, signal, buffer>> /\ Others

Owner ==
    \/ Begin \/ OpenFd \/ start_accepting_commands \/ SealByOwner \/ SpinByOwner
    \/ discard_pending_commands \/ CloseFd \/ drain_wake_fd \/ ClearWakePending
    \/ drain_commands

-----------------------------------------------------------------------------
(* start() and stop() on the control thread.                                *)

ControlStep(from, to) ==
    /\ control = from /\ control' = to
    /\ UNCHANGED <<scene, active, queued, fd, signal, pc, todo>>

StartShard ==
    /\ ControlStep("stopped", "running") /\ buffer["control"] = <<>>
    /\ starts < scene.starts
    /\ starts' = starts + 1 /\ tasks' = Append(tasks, "start")
    /\ UNCHANGED <<accepting, wakePending, buffer, races>>

\* UdpSocket::start_impl, when another shard's start is refused: a stop follows
\* the start, and nothing is sealed.
UndoStart ==
    /\ scene.kind = "udp" /\ scene.refuses
    /\ ControlStep("running", "stopped") /\ buffer["control"] = <<>>
    /\ tasks' = Append(tasks, "stop")
    /\ UNCHANGED <<accepting, wakePending, starts, buffer, races>>

seal_commands_from_control ==
    /\ ControlStep("running", "spin")
    /\ Store("control", "accepting", FALSE)
    /\ UNCHANGED <<tasks, starts, races>>

SpinByControl ==
    /\ ControlStep("spin", "schedule")
    /\ active = 0
    /\ UNCHANGED <<accepting, wakePending, tasks, starts, buffer, races>>

\* The stop task is scheduled; or refused, and the shard is resumed; or another
\* shard refuses its own, and TcpServer::stop resumes all of them.
ScheduleStop ==
    /\ buffer["control"] = <<>>
    /\ \/ ControlStep("schedule", "stopped") /\ tasks' = Append(tasks, "stop")
       \/ /\ scene.refuses /\ ControlStep("schedule", "resume")
          /\ \/ UNCHANGED tasks
             \/ scene.kind = "tcp" /\ tasks' = Append(tasks, "stop")
    /\ UNCHANGED <<accepting, wakePending, starts, buffer, races>>

\* UdpSocket::stop keeps running, TcpServer::stop does not.
resume_commands_from_control ==
    /\ ControlStep("resume", IF scene.kind = "udp" THEN "running" ELSE "stopped")
    /\ Store("control", "accepting", TRUE)
    /\ Race("resume", buffer'["control"] = <<>> /\ ~Serving)
    /\ UNCHANGED <<tasks, starts>>

Control ==
    \/ StartShard \/ UndoStart \/ seal_commands_from_control \/ SpinByControl
    \/ ScheduleStop \/ resume_commands_from_control

Next ==
    \/ \E p \in Producers : CheckAccepting(p) \/ enqueue(p)
    \/ Owner
    \/ Control
    \/ \E t \in {"owner", "control"} : Flush(t)

\* Threads run, and a store becomes visible in the end; that a channel is
\* opened, closed, stopped or used again is up to the program.
OwnerWorks == (todo # <<>> \/ signal \/ tasks # <<>>) /\ Owner
StopGoesOn == SpinByControl \/ ScheduleStop \/ resume_commands_from_control

Fairness ==
    /\ \A p \in Producers : WF_vars(enqueue(p))
    /\ WF_vars(OwnerWorks) /\ WF_vars(StopGoesOn)
    /\ \A t \in {"owner", "control"} : WF_vars(Flush(t))

Spec == Init /\ [][Next]_vars /\ Fairness

-----------------------------------------------------------------------------

Waking == {"fd", "cas", "write"}

\* A queued command has somebody who will look at the queue: the wake
\* descriptor is readable, a producer is about to write it, or the owner is
\* on its way to the queue.
Noticed ==
    \/ fd /\ signal
    \/ \E p \in Producers : pc[p] \in Waking
    \/ \E k \in 1..Len(todo) : todo[k] \in {"drain", "discard"}
    \/ "stop" \in {tasks[k] : k \in 1..Len(tasks)}

\* No producer is between its push and its write to the wake descriptor while
\* that descriptor is closed: wake_fd_ is neither atomic nor owned by the
\* producer, only active_enqueues_ keeps the owner from closing it. It holds as
\* long as no seal came too late for the close it guards, and no refused stop
\* opened a channel its owner does not serve.
WakeFdLive ==
    races \cap {"seal", "resume"} = {} => \A p \in Producers : pc[p] \in Waking => fd

\* No command stays in the queue unnoticed, as long as the three races have not
\* happened.
NoStrandedCommand == races = {} /\ queued > 0 => Noticed

\* The send of a handle wakes the shard: a command in the queue of an open
\* channel is noticed.
SendWakesShard == accepting /\ fd /\ queued > 0 => Noticed

\* Nobody waits: the control thread is not in stop().  (A start task that runs
\* after the seal lets producers in again, and the wait may then go on.)
Quiet == control \in {"stopped", "running"} \/ accepting

\* stop() ends: the wait for active_enqueues_ to become 0 is over once the
\* producers that entered before the seal have left.
SealsEnd == []<>Quiet
=============================================================================
