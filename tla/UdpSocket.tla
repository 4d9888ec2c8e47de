----------------------------- MODULE UdpSocket ------------------------------
(***************************************************************************)
(* UdpSocket: the shard table kept by the control thread, the start and    *)
(* stop tasks of the shards and the start results they send back, and the  *)
(* sends that handles of other threads queue on a shard.  A handle names   *)
(* the generation of the shard's socket.  The command queue and the wake   *)
(* of its reader are one step here: CommandChannel splits them.            *)
(***************************************************************************)
EXTENDS Integers, Sequences, FiniteSets, SequencesExt

CONSTANTS
    Shards,         \* runtime threads, one shard each
    Control,        \* control_thread_index
    ThreadLists,    \* config.threads of the starts that are tried
    Senders,        \* threads that use handles
    MaxStarts,      \* bound: calls of start()
    MaxSends,       \* bound: sends by handles
    Capacity,       \* command_queue_capacity
    Refusals,       \* the sets of threads that may refuse tasks during a step
    Disciplined     \* the socket is restarted only when no task or result is in flight

VARIABLES
    running,        \* state->running
    active,         \* state->active_shards and its snapshot
    tasks,          \* tasks[s]: start and stop tasks queued on s
    results,        \* results[s]: start results of s queued for the control thread
    generation,     \* generation_ of each shard
    socket,         \* socket[s]: generation of the open socket fd_, or 0
    channel,        \* channel[s]: wake_fd_ is open
    accepting,      \* accepting_commands_ of each shard
    commands,       \* commands[s]: generations named by the queued sends
    sender,         \* sender[p]: the handle it uses, and whether send() has checked it
    starts, sends,  \* calls made so far
    lost,           \* history: a start result, or the stop task that undoes a
                    \* start, was refused
    misdirected     \* history: a datagram left by a socket its handle did not name

control == <<running, active>>
shard == <<generation, socket, channel, accepting, commands>>
bounds == <<starts, sends, lost, misdirected>>
vars == <<control, tasks, results, shard, sender, bounds>>

NoHandle == [at |-> "idle", shard |-> Control, gen |-> 0]

Init ==
    /\ running = FALSE /\ active = {}
    /\ tasks = [s \in Shards |-> <<>>] /\ results = [s \in Shards |-> <<>>]
    /\ generation = [s \in Shards |-> 0] /\ socket = [s \in Shards |-> 0]
    /\ channel = [s \in Shards |-> FALSE] /\ accepting = [s \in Shards |-> FALSE]
    /\ commands = [s \in Shards |-> <<>>]
    /\ sender = [p \in Senders |-> NoHandle]
    /\ starts = 0 /\ sends = 0 /\ lost = FALSE /\ misdirected = FALSE

InFlight == \E s \in Shards : tasks[s] # <<>> \/ results[s] # <<>>

Push(S, task) == [s \in Shards |-> IF s \in S THEN Append(tasks[s], task) ELSE tasks[s]]

-----------------------------------------------------------------------------
(* Calls on the control thread                                              *)

validate_config(threads) ==
    threads # <<>> /\ IsInjective(threads) /\ Range(threads) \subseteq Shards

\* A refused start task undoes the start: the others are followed by stop tasks,
\* of which those of the shards in kept are refused.
start(threads, no, kept) ==
    LET S == Range(threads)
        sent == S \ no
    IN  /\ kept \subseteq IF sent = S THEN {} ELSE sent
        /\ starts < MaxStarts
        /\ ~running
        /\ validate_config(threads)
        /\ Disciplined => ~InFlight
        /\ starts' = starts + 1
        /\ \/ /\ sent = S
              /\ running' = TRUE /\ active' = S
              /\ tasks' = Push(S, "start")
           \/ /\ sent # S
              /\ running' = FALSE /\ active' = {}
              /\ tasks' = [s \in Shards |-> tasks[s] \o
                    IF s \notin sent THEN <<>> ELSE IF s \in kept THEN <<"start">>
                    ELSE <<"start", "stop">>]
        /\ lost' = (lost \/ kept # {})
        /\ UNCHANGED <<results, shard, sender, sends, misdirected>>

\* The shards whose stop task is refused stay active and take commands again
\* (publish_remaining_after_failed_stop).
stop(no) ==
    /\ running
    /\ active' = active \cap no
    /\ running' = (active' # {})
    /\ tasks' = Push(active \ no, "stop")
    /\ accepting' = [s \in Shards |-> IF s \in active THEN s \in no ELSE accepting[s]]
    /\ UNCHANGED <<results, generation, socket, channel, commands, sender, bounds>>

\* Mutant: the failure is not taken back to the table.
ignore_failed_shard(s, error) == UNCHANGED control

\* What a start result does on the control thread: the shard of a failed start
\* leaves the table, and with the last one the socket stops running.
remove_failed_shard(s, error) ==
    IF error /\ s \in active
    THEN active' = active \ {s} /\ running' = (active' # {})
    ELSE UNCHANGED control

\* UdpStartResultTask::run
StartResult(s) ==
    /\ results[s] # <<>>
    /\ results' = [results EXCEPT ![s] = Tail(@)]
    /\ remove_failed_shard(s, Head(results[s]))
    /\ UNCHANGED <<tasks, shard, sender, bounds>>

-----------------------------------------------------------------------------
(* Tasks on a shard                                                         *)

complete_udp_start_from_shard(s, error, no) ==
    \/ /\ s = Control
       /\ remove_failed_shard(s, error)
       /\ UNCHANGED results
    \/ /\ s # Control
       /\ results' = IF Control \in no THEN results ELSE [results EXCEPT ![s] = Append(@, error)]
       /\ UNCHANGED control

\* start_on_owner: the generation advances before anything is opened.  how says
\* how far the system calls get.
start_on_owner(s, how) ==
    \/ /\ socket[s] # 0                                     \* EALREADY
       /\ UNCHANGED shard
    \/ /\ socket[s] = 0
       /\ generation' = [generation EXCEPT ![s] = @ + 1]
       /\ \/ /\ how = "no_channel" /\ ~channel[s]
             /\ UNCHANGED <<socket, channel, accepting, commands>>
          \/ /\ how = "no_socket"                           \* close_wake_channel_if_idle
             /\ channel' = [channel EXCEPT ![s] = FALSE]
             /\ accepting' = [accepting EXCEPT ![s] = FALSE]
             /\ commands' = [commands EXCEPT ![s] = <<>>]
             /\ UNCHANGED socket
          \/ /\ how = "opens"
             /\ channel' = [channel EXCEPT ![s] = TRUE]
             /\ accepting' = [accepting EXCEPT ![s] = TRUE]
             /\ socket' = [socket EXCEPT ![s] = generation'[s]]
             /\ UNCHANGED commands

\* UdpStartShardTask::run
StartShard(s, how, no) ==
    /\ tasks[s] # <<>> /\ Head(tasks[s]) = "start"
    /\ tasks' = [tasks EXCEPT ![s] = Tail(@)]
    /\ start_on_owner(s, how)
    /\ complete_udp_start_from_shard(s, socket[s] # 0 \/ how # "opens", no)
    /\ lost' = (lost \/ (s # Control /\ Control \in no))
    /\ UNCHANGED <<sender, starts, sends, misdirected>>

\* UdpStopShardTask::run and stop_on_owner
stop_on_owner(s) ==
    /\ tasks[s] # <<>> /\ Head(tasks[s]) = "stop"
    /\ tasks' = [tasks EXCEPT ![s] = Tail(@)]
    /\ accepting' = [accepting EXCEPT ![s] = FALSE]
    /\ commands' = [commands EXCEPT ![s] = <<>>]
    /\ socket' = [socket EXCEPT ![s] = 0]
    /\ channel' = [channel EXCEPT ![s] = FALSE]
    /\ UNCHANGED <<control, results, generation, sender, bounds>>

-----------------------------------------------------------------------------
(* Handles and sends                                                        *)

\* handle(), handles() or handle_for_shard(): a shard of the snapshot with
\* whatever generation it has by then.
handle(p, s) ==
    /\ s \in active /\ sender[p].at = "idle"
    /\ sender' = [sender EXCEPT ![p] = [at |-> "idle", shard |-> s, gen |-> generation[s]]]
    /\ UNCHANGED <<control, tasks, results, shard, bounds>>

\* send() or send_to() by a thread that is not the shard's: the handle is
\* compared with the shard's generation, and later the command is queued.
matches_generation(p) ==
    LET h == sender[p]
    IN  /\ h.at = "idle" /\ sends < MaxSends
        /\ h.gen # 0 /\ generation[h.shard] = h.gen /\ accepting[h.shard]
        /\ sender' = [sender EXCEPT ![p].at = "checked"]
        /\ sends' = sends + 1
        /\ UNCHANGED <<control, tasks, results, shard, starts, lost, misdirected>>

enqueue(p) ==
    LET h == sender[p]
        taken == accepting[h.shard] /\ Len(commands[h.shard]) < Capacity
    IN  /\ h.at = "checked"
        /\ sender' = [sender EXCEPT ![p].at = "idle"]
        /\ commands' = IF taken THEN [commands EXCEPT ![h.shard] = Append(@, h.gen)] ELSE commands
        /\ UNCHANGED <<control, tasks, results, generation, socket, channel, accepting, bounds>>

\* send_view_impl for every command in q that drain_commands does not drop.
SendAll(s, q) == misdirected' = (misdirected \/ (socket[s] # 0 /\ \E g \in Range(q) : g # socket[s]))

\* send() or send_to() on the shard's own thread sends at once.
SendOnOwner(p) ==
    LET h == sender[p]
    IN  /\ h.at = "idle" /\ sends < MaxSends
        /\ h.gen # 0 /\ generation[h.shard] = h.gen /\ socket[h.shard] # 0
        /\ SendAll(h.shard, <<h.gen>>)
        /\ sends' = sends + 1
        /\ UNCHANGED <<control, tasks, results, shard, sender, starts, lost>>

\* Mutant: the commands of an earlier socket are sent as well.
drain_unchecked(s) ==
    /\ channel[s] /\ commands[s] # <<>>
    /\ SendAll(s, commands[s])
    /\ commands' = [commands EXCEPT ![s] = <<>>]
    /\ UNCHANGED <<control, tasks, results, generation, socket, channel, accepting, sender,
                   starts, sends, lost>>

\* handle_wake and drain_commands
drain_commands(s) ==
    /\ channel[s] /\ commands[s] # <<>>
    /\ SendAll(s, SelectSeq(commands[s], LAMBDA g : g = generation[s]))
    /\ commands' = [commands EXCEPT ![s] = <<>>]
    /\ UNCHANGED <<control, tasks, results, generation, socket, channel, accepting, sender,
                   starts, sends, lost>>

Outcomes == {"no_channel", "no_socket", "opens"}

Next ==
    \/ \E threads \in ThreadLists, no \in Refusals, kept \in SUBSET Shards :
          start(threads, no, kept)
    \/ \E no \in Refusals : stop(no)
    \/ \E s \in Shards : StartResult(s) \/ stop_on_owner(s) \/ drain_commands(s)
    \/ \E s \in Shards, how \in Outcomes, no \in Refusals : StartShard(s, how, no)
    \/ \E p \in Senders, s \in Shards : handle(p, s)
    \/ \E p \in Senders : matches_generation(p) \/ enqueue(p) \/ SendOnOwner(p)

Spec == Init /\ [][Next]_vars

-----------------------------------------------------------------------------

\* When the tasks and results have been worked off, the shards with an open
\* socket are those of the table, so that the next stop() closes every socket
\* that a start() opened, whichever shards failed to start or refused a start or
\* a stop task; unless a start result, or the stop that undoes a start, was
\* refused, which nothing makes good.
ActiveAsOpen ==
    ~InFlight /\ ~lost => {s \in Shards : socket[s] # 0} = active /\ running = (active # {})

\* A datagram leaves by the socket its handle named: a handle of a socket that
\* was stopped does not send through the one that replaced it, even if the
\* restart falls between its check and its command.
HandleNamesSocket == ~misdirected
=============================================================================
