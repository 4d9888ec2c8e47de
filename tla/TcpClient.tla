----------------------------- MODULE TcpClient ------------------------------
(***************************************************************************)
(* TcpClient: connects started on the control thread and run by connect    *)
(* tasks on the shards, the stop tasks that cancel them and close the      *)
(* connections, and the results that both kinds of task send back.  Calls  *)
(* of the client and handling of results are steps of the control thread;  *)
(* tasks between two runtime threads arrive in the order they were sent.   *)
(***************************************************************************)
EXTENDS Integers, Sequences, FiniteSets, SequencesExt

CONSTANTS
    Shards,         \* runtime threads, one shard each
    Control,        \* control_thread_index
    ThreadLists,    \* config.threads of the connects that are tried
    MaxConnects,    \* bound: calls of connect() that get a ticket
    MaxStops,       \* bound: calls of stop()
    Refusals        \* the sets of threads that may refuse tasks during a step

VARIABLES
    running,        \* state->running
    stopping,       \* client_control_->stopping
    inflight,       \* client_control_->inflight_connects
    pendingStops,   \* client_control_->pending_stop_shards
    hasConnected,   \* client_control_->has_connected
    pending,        \* client_control_->pending_connects: weak pointers, by ticket
    ticket,         \* next_connect_slot_
    tasks,          \* tasks[s]: connect and stop tasks queued on s
    results,        \* results[s]: results of s queued for the control thread
    connects,       \* connects[k]: the TcpConnectTask and ConnectControl of ticket k
    conns,          \* conns[s]: tickets whose connection is open on s
    accepting,      \* accepting[s]: the wake channel of s is open and takes commands
    stops,          \* calls of stop() so far
    lost            \* history: a stop task or a result was refused

control == <<running, stopping, inflight, pendingStops, hasConnected, pending>>
vars == <<control, ticket, tasks, results, connects, conns, accepting, stops, lost>>

Tickets == 0..(MaxConnects - 1)
NoConnect == [phase |-> "none"]

Init ==
    /\ running = FALSE /\ stopping = FALSE /\ inflight = 0 /\ pendingStops = 0
    /\ hasConnected = FALSE /\ pending = {} /\ ticket = 0
    /\ tasks = [s \in Shards |-> <<>>] /\ results = [s \in Shards |-> <<>>]
    /\ connects = [k \in Tickets |-> NoConnect]
    /\ conns = [s \in Shards |-> {}] /\ accepting = [s \in Shards |-> FALSE]
    /\ stops = 0 /\ lost = FALSE

\* The threads in no refuse the tasks of this step; s reports a result.
LosesResult(s, no) == lost' = (lost \/ (s # Control /\ Control \in no))

validate_config(threads) ==
    threads # <<>> /\ IsInjective(threads) /\ Range(threads) \subseteq Shards

\* Somebody holds the ConnectControl: its task, a result or a stop task.
Live(k) ==
    \/ connects[k].phase \in {"queued", "waiting"}
    \/ \E s \in Shards : \E j \in 1..Len(results[s]) :
          results[s][j].op = "connect" /\ results[s][j].ticket = k
    \/ \E s \in Shards : \E j \in 1..Len(tasks[s]) :
          tasks[s][j].op = "stop" /\ k \in tasks[s][j].cancels

compact_pending_connects == {k \in pending : Live(k)}

-----------------------------------------------------------------------------
(* connect() and stop()                                                     *)

\* activate_pending_connect and a connect task on the thread the ticket
\* selects; if that thread refuses it, finish_pending_connect_start undoes the
\* activation.
connect(threads, no) ==
    LET s == threads[(ticket % Len(threads)) + 1]
        others == compact_pending_connects
    IN  /\ ticket < MaxConnects
        /\ validate_config(threads)
        /\ ticket' = ticket + 1
        /\ \/ /\ stopping
              /\ UNCHANGED <<control, tasks, connects>>
           \/ /\ ~stopping /\ s \notin no
              /\ pending' = others \cup {ticket}
              /\ inflight' = inflight + 1
              /\ running' = TRUE
              /\ connects' = [connects EXCEPT ![ticket] =
                    [phase |-> "queued", shard |-> s, cancel |-> FALSE, run |-> stops]]
              /\ tasks' = [tasks EXCEPT ![s] = Append(@, [op |-> "connect", ticket |-> ticket])]
              /\ UNCHANGED <<stopping, pendingStops, hasConnected>>
           \/ /\ ~stopping /\ s \in no
              /\ pending' = others
              /\ running' = (inflight # 0 \/ hasConnected \/ others # {})
              /\ UNCHANGED <<stopping, inflight, pendingStops, hasConnected, tasks, connects>>
        /\ UNCHANGED <<results, conns, accepting, stops, lost>>

\* handle_tcp_client_stop_result_on_control for the last shard outstanding.
Stopped ==
    /\ inflight' = 0 /\ pendingStops' = 0 /\ hasConnected' = FALSE /\ pending' = {}
    /\ stopping' = FALSE /\ running' = FALSE

\* handle_tcp_client_stop_result_on_control
StopResult ==
    \/ /\ stopping /\ pendingStops <= 1
       /\ Stopped
    \/ /\ stopping /\ pendingStops > 1
       /\ pendingStops' = pendingStops - 1
       /\ UNCHANGED <<running, stopping, inflight, hasConnected, pending>>
    \/ /\ ~stopping
       /\ UNCHANGED control

\* The commands of every shard are sealed and a stop task is scheduled on each
\* with the pending connects of that shard; a refusal counts as a result.
stop(no) ==
    /\ stops < MaxStops
    /\ ~stopping
    /\ stops' = stops + 1
    /\ \/ /\ running /\ no # Shards
          /\ stopping' = TRUE /\ running' = FALSE
          /\ pendingStops' = Cardinality(Shards \ no)
          /\ pending' = compact_pending_connects
          /\ tasks' = [s \in Shards |-> IF s \in no THEN tasks[s] ELSE
                Append(tasks[s], [op |-> "stop",
                   cancels |-> {k \in compact_pending_connects : connects[k].shard = s}])]
          /\ UNCHANGED <<inflight, hasConnected>>
       \/ /\ ~running \/ no = Shards
          /\ Stopped
          /\ UNCHANGED tasks
    /\ accepting' = [s \in Shards |-> accepting[s] /\ ~running]
    /\ lost' = (lost \/ (running /\ no # {}))
    /\ UNCHANGED <<ticket, results, connects, conns>>

-----------------------------------------------------------------------------
(* Results on the control thread                                            *)

\* Mutant: any result is counted, whether or not its connect is pending.
AnyConnectResult(k, connected) ==
    LET left == IF inflight > 0 THEN inflight - 1 ELSE 0
    IN  /\ pending' = pending \ {k}
        /\ inflight' = left
        /\ hasConnected' = (hasConnected \/ connected)
        /\ running' = (running /\ (left # 0 \/ hasConnected \/ connected \/ stopping))
        /\ UNCHANGED <<stopping, pendingStops>>

\* handle_tcp_client_connect_result_on_control
ConnectResult(k, connected) ==
    LET others == compact_pending_connects \ {k}
        left == IF inflight > 0 THEN inflight - 1 ELSE 0
    IN  /\ pending' = others
        /\ \/ /\ k \notin pending
              /\ UNCHANGED <<running, stopping, inflight, pendingStops, hasConnected>>
           \/ /\ k \in pending
              /\ inflight' = left
              /\ hasConnected' = (hasConnected \/ connected)
              /\ running' = (running /\ (left # 0 \/ hasConnected \/ connected \/ stopping))
              /\ UNCHANGED <<stopping, pendingStops>>

\* complete_tcp_client_connect_from_shard: at once on the control thread, by a
\* task, which may be lost, from any other.
complete_tcp_client_connect_from_shard(s, k, connected, no) ==
    \/ /\ s = Control
       /\ ConnectResult(k, connected)
       /\ UNCHANGED results
    \/ /\ s # Control
       /\ results' = IF Control \in no THEN results ELSE
             [results EXCEPT ![s] = Append(@, [op |-> "connect", ticket |-> k, ok |-> connected])]
       /\ UNCHANGED control

complete_tcp_client_stop_from_shard(s, no) ==
    \/ /\ s = Control
       /\ StopResult
       /\ UNCHANGED results
    \/ /\ s # Control
       /\ results' = IF Control \in no THEN results
                     ELSE [results EXCEPT ![s] = Append(@, [op |-> "stop"])]
       /\ UNCHANGED control

\* TcpClientConnectResultTask::run and TcpClientStopResultTask::run
Result(s) ==
    LET m == Head(results[s])
    IN  /\ results[s] # <<>>
        /\ results' = [results EXCEPT ![s] = Tail(@)]
        /\ \/ m.op = "connect" /\ ConnectResult(m.ticket, m.ok)
           \/ m.op = "stop" /\ StopResult
        /\ UNCHANGED <<ticket, tasks, connects, conns, accepting, stops, lost>>

-----------------------------------------------------------------------------
(* Connect tasks on a shard                                                 *)

\* What the racing read of client_running() may return: the shard may miss a
\* stop() whose task has not reached it yet.
client_running(s) ==
    {running /\ ~stopping} \cup
    (IF s # Control /\ \E j \in 1..Len(tasks[s]) : tasks[s][j].op = "stop" THEN {TRUE} ELSE {})

Rest(s) == [tasks EXCEPT ![s] = Tail(@)]

\* TcpConnectTask::run up to the first wait or to its end.  how is what the
\* socket calls, the deadline and create_connection come to.
RunConnect(s, how, no) ==
    LET k == Head(tasks[s]).ticket
        c == connects[k]
        finish(connected) ==
           /\ connects' = [connects EXCEPT ![k].phase = "done"]
           /\ complete_tcp_client_connect_from_shard(s, k, connected, no)
           /\ LosesResult(s, no)
    IN  /\ tasks[s] # <<>> /\ Head(tasks[s]).op = "connect"
        /\ tasks' = Rest(s)
        /\ \E sees \in client_running(s) :
              \/ /\ ~sees \/ c.cancel \/ how = "fails"       \* finish_failed
                 /\ finish(FALSE)
                 /\ UNCHANGED <<conns, accepting>>
              \/ /\ sees /\ ~c.cancel /\ how = "waits"
                 /\ connects' = [connects EXCEPT ![k].phase = "waiting"]
                 /\ UNCHANGED <<control, results, conns, accepting, lost>>
              \/ /\ sees /\ ~c.cancel /\ how = "connects"    \* finish_connected
                 /\ finish(TRUE)
                 /\ conns' = [conns EXCEPT ![s] = @ \cup {k}]
                 /\ accepting' = [accepting EXCEPT ![s] = TRUE]
              \/ /\ sees /\ ~c.cancel /\ how = "no_connection"
                 /\ finish(FALSE)
                 /\ accepting' = [accepting EXCEPT ![s] = conns[s] # {}]
                 /\ UNCHANGED conns
        /\ UNCHANGED <<ticket, stops>>

\* The socket becomes writable or the deadline passes: the task is resumed.
Resume(k) ==
    LET c == connects[k]
    IN  /\ c.phase = "waiting"
        /\ connects' = [connects EXCEPT ![k].phase = "queued"]
        /\ tasks' = [tasks EXCEPT ![c.shard] = Append(@, [op |-> "connect", ticket |-> k])]
        /\ UNCHANGED <<control, ticket, results, conns, accepting, stops, lost>>

\* Mutant: only a connect that waits already is cancelled.
cancel_waiting_only(ks) ==
    [k \in Tickets |->
       IF k \notin ks \/ connects[k].phase # "waiting" THEN connects[k]
       ELSE [connects[k] EXCEPT !.cancel = TRUE, !.phase = "queued"]]

\* ConnectControl::request_cancel_on_owner for every connect in ks.
request_cancel_on_owner(ks) ==
    [k \in Tickets |->
       IF k \notin ks THEN connects[k]
       ELSE [connects[k] EXCEPT !.cancel = TRUE,
               !.phase = IF @ = "waiting" THEN "queued" ELSE @]]

\* TcpStopClientShardTask::run: cancel the connects, stop_on_owner, report.
StopShard(s, no) ==
    LET cancels == Head(tasks[s]).cancels
        resumed == SetToSeq({k \in cancels : connects[k].phase = "waiting"})
    IN  /\ tasks[s] # <<>> /\ Head(tasks[s]).op = "stop"
        /\ connects' = request_cancel_on_owner(cancels)
        /\ tasks' = [tasks EXCEPT ![s] = Tail(@) \o
              [j \in 1..Len(resumed) |-> [op |-> "connect", ticket |-> resumed[j]]]]
        /\ conns' = [conns EXCEPT ![s] = {}]
        /\ accepting' = [accepting EXCEPT ![s] = FALSE]
        /\ complete_tcp_client_stop_from_shard(s, no)
        /\ LosesResult(s, no)
        /\ UNCHANGED <<ticket, stops>>

\* A connection closes; the shard goes on accepting commands.
ConnectionCloses(s, k) ==
    /\ k \in conns[s]
    /\ conns' = [conns EXCEPT ![s] = @ \ {k}]
    /\ UNCHANGED <<control, ticket, tasks, results, connects, accepting, stops, lost>>

Outcomes == {"fails", "waits", "connects", "no_connection"}

Next ==
    \/ \E threads \in ThreadLists, no \in Refusals : connect(threads, no)
    \/ \E no \in Refusals : stop(no)
    \/ \E s \in Shards : Result(s)
    \/ \E s \in Shards, how \in Outcomes, no \in Refusals : RunConnect(s, how, no)
    \/ \E k \in Tickets : Resume(k)
    \/ \E s \in Shards, no \in Refusals : StopShard(s, no)
    \/ \E s \in Shards : \E k \in conns[s] : ConnectionCloses(s, k)

\* Runtime threads keep running the tasks they are given.
RunsTasks(s) ==
    \/ \E how \in Outcomes, no \in Refusals : RunConnect(s, how, no)
    \/ \E no \in Refusals : StopShard(s, no)

Fairness == \A s \in Shards : WF_vars(Result(s)) /\ WF_vars(RunsTasks(s))

Spec == Init /\ [][Next]_vars /\ Fairness

-----------------------------------------------------------------------------

StopQueued(s) == \E j \in 1..Len(tasks[s]) : tasks[s][j].op = "stop"

\* stop() reaches everything: a connection, or a connect in progress, belongs
\* to the present run of the client, which reports itself running and whose
\* next stop() will therefore schedule stop tasks, and the shard of a
\* connection takes commands for it; or a stop task is on its way to the
\* shard, or the connect has been cancelled already.  Late results of an
\* earlier run change none of this, nor does a refused connect task; a refused
\* stop task or result may.
StopReachesAll ==
    ~lost =>
       /\ \A s \in Shards : \A k \in conns[s] :
             StopQueued(s) \/ (connects[k].run = stops /\ running /\ accepting[s])
       /\ \A k \in Tickets : connects[k].phase \in {"queued", "waiting"} =>
             \/ connects[k].cancel
             \/ StopQueued(connects[k].shard)
             \/ connects[k].run = stops /\ running

\* Nobody waits: no stop() is under way; one that loses a result never ends.
Quiet == ~stopping \/ lost

\* A stop() ends: the client becomes usable again although connects were
\* waiting, without their sockets or deadlines doing anything.
StopSettles == []<>Quiet
=============================================================================
