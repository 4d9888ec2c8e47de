----------------------------- MODULE MCNetwork ------------------------------
(***************************************************************************)
(* The networking code on small instances, in one run: the command channel *)
(* of a shard, its connections and handles, one TCP connection, the waits  *)
(* of the event backends, and the control planes of TcpServer, TcpClient   *)
(* and UdpSocket. A behaviour picks one part at the start and stays in it; *)
(* the others keep their initial states.                                   *)
(***************************************************************************)
EXTENDS CommandChannel

VARIABLES
    part,
    s_listening, s_conn, s_slots, s_generations, s_freeSlots, s_retired, s_depth,
    s_stack, s_batch, s_dangling,
    n_c, n_kernel, n_peer, n_handled, n_accepted, n_at, n_events, n_consumed,
    w_scene, w_x,
    t_running, t_listeners, t_generations, t_freeSlots, t_tasks, t_results,
    t_installed, t_conns, t_channel, t_accepting, t_adds, t_starts, t_refused,
    t_lost, t_unstopped,
    c_running, c_stopping, c_inflight, c_pendingStops, c_hasConnected, c_pending,
    c_ticket, c_tasks, c_results, c_connects, c_conns, c_accepting, c_stops, c_lost,
    u_running, u_active, u_tasks, u_results, u_generation, u_socket, u_channel,
    u_accepting, u_commands, u_sender, u_starts, u_sends, u_lost, u_misdirected

commands == vars
shard == <<s_listening, s_conn, s_slots, s_generations, s_freeSlots, s_retired,
           s_depth, s_stack, s_batch, s_dangling>>
connection == <<n_c, n_kernel, n_peer, n_handled, n_accepted, n_at, n_events,
                n_consumed>>
waits == <<w_scene, w_x>>
server == <<t_running, t_listeners, t_generations, t_freeSlots, t_tasks, t_results,
            t_installed, t_conns, t_channel, t_accepting, t_adds, t_starts, t_refused,
            t_lost, t_unstopped>>
client == <<c_running, c_stopping, c_inflight, c_pendingStops, c_hasConnected,
            c_pending, c_ticket, c_tasks, c_results, c_connects, c_conns, c_accepting,
            c_stops, c_lost>>
udp == <<u_running, u_active, u_tasks, u_results, u_generation, u_socket, u_channel,
         u_accepting, u_commands, u_sender, u_starts, u_sends, u_lost,
         u_misdirected>>
all == <<part, commands, shard, connection, waits, server, client, udp>>

-----------------------------------------------------------------------------

ChannelScene(kind, senders, n, refuses) ==
    [kind |-> kind, senders |-> senders, starts |-> n, refuses |-> refuses]

\* The command channel with two producers, with a restart, and with a stop task
\* that is refused.
ChannelScenes ==
    UNION {{ChannelScene(k, {"p", "q"}, 1, FALSE), ChannelScene(k, {"p"}, 2, FALSE),
            ChannelScene(k, {"p"}, 1, TRUE)} : k \in {"tcp", "udp"}}

Shard == INSTANCE TcpShard WITH
    Listeners <- {1}, MaxConns <- 3, MaxDepth <- 2, Batch <- 2,
    listening <- s_listening, conn <- s_conn, slots <- s_slots,
    generations <- s_generations, freeSlots <- s_freeSlots, retired <- s_retired,
    depth <- s_depth, stack <- s_stack, batch <- s_batch, dangling <- s_dangling

Connection == INSTANCE TcpConnection WITH
    MaxBytes <- 3, HighWatermark <- 2, KernelRoom <- 1, ReadBudget <- 2,
    c <- n_c, kernel <- n_kernel, peer <- n_peer, handled <- n_handled,
    accepted <- n_accepted, at <- n_at, events <- n_events, consumed <- n_consumed

Pairs == {<<"recv", "send">>, <<"recvv", "sendv">>, <<"recv_from", "send_to">>,
          <<"recvv_from", "sendv_to">>, <<"read", "write">>, <<"readv", "writev">>,
          <<"read_at", "write_at">>, <<"readv_at", "writev_at">>, <<"accept", "recv">>,
          <<"counter", "sendfile">>, <<"recv", "splice">>}

Scene(b, p, deadline, stops, spurious) ==
    [backend |-> b, op |-> [t \in {"t", "u"} |-> IF t = "t" THEN p[1] ELSE p[2]],
     deadline |-> deadline, stops |-> stops, spurious |-> spurious]

Connecting == <<"connect", "connect">>

\* Two operations on shared descriptors, or two connects: with a deadline, with a
\* stop(), or with both.
WaitScenes ==
    {Scene(b, p, FALSE, FALSE, FALSE) : b \in {"epoll", "kqueue"}, p \in Pairs}
    \cup {Scene(b, Connecting, TRUE, FALSE, s) : b \in {"epoll", "kqueue"}, s \in BOOLEAN}
    \cup {Scene(b, Connecting, d, TRUE, TRUE) : b \in {"epoll", "kqueue"}, d \in BOOLEAN}

Waits == INSTANCE IoWaits WITH
    Nums <- 1..6, Tasks <- {"t", "u"}, Scenes <- WaitScenes,
    scene <- w_scene, x <- w_x

\* Listeners on both shards: one that accepts for both, one that opens on both.
Configs ==
    {[threads |-> <<"a", "b">>, strategy |-> s[1], reuse_port |-> s[2], family |-> "Inet"] :
        s \in {<<"SingleAcceptor", FALSE>>, <<"Auto", TRUE>>}}

Server == INSTANCE TcpControl WITH
    Shards <- {"a", "b"}, Control <- "a", MaxAdds <- 2, RefusedAdds <- 1, MaxStarts <- 2,
    Disciplined <- TRUE, Configs <- Configs, Refusals <- {{}, {"a"}, {"b"}},
    running <- t_running, listeners <- t_listeners, generations <- t_generations,
    freeSlots <- t_freeSlots, tasks <- t_tasks, results <- t_results,
    installed <- t_installed, conns <- t_conns, channel <- t_channel,
    accepting <- t_accepting, adds <- t_adds, starts <- t_starts, refused <- t_refused,
    lost <- t_lost, unstopped <- t_unstopped

Client == INSTANCE TcpClient WITH
    Shards <- {"a", "b"}, Control <- "a", ThreadLists <- {<<"a", "b">>, <<"b">>},
    MaxConnects <- 2, MaxStops <- 2, Refusals <- {{}, {"b"}, {"a", "b"}},
    running <- c_running, stopping <- c_stopping, inflight <- c_inflight,
    pendingStops <- c_pendingStops, hasConnected <- c_hasConnected,
    pending <- c_pending, ticket <- c_ticket, tasks <- c_tasks, results <- c_results,
    connects <- c_connects, conns <- c_conns, accepting <- c_accepting,
    stops <- c_stops, lost <- c_lost

Udp == INSTANCE UdpSocket WITH
    Shards <- {"a", "b"}, Control <- "a", ThreadLists <- {<<"a", "b">>, <<"b">>},
    Senders <- {"p"}, MaxStarts <- 2, MaxSends <- 2, Capacity <- 2, Disciplined <- TRUE,
    Refusals <- {{}, {"b"}, {"a", "b"}},
    running <- u_running, active <- u_active, tasks <- u_tasks, results <- u_results,
    generation <- u_generation, socket <- u_socket, channel <- u_channel,
    accepting <- u_accepting, commands <- u_commands, sender <- u_sender,
    starts <- u_starts, sends <- u_sends, lost <- u_lost,
    misdirected <- u_misdirected

NetworkInit ==
    /\ part \in {"commands", "shard", "connection", "waits", "server", "client", "udp"}
    /\ Init
    /\ part # "commands" => scene = ChannelScene("tcp", {"p", "q"}, 1, FALSE)
    /\ Shard!Init
    /\ Connection!Init
    /\ Waits!Init
    /\ part # "waits" => w_scene = Scene("epoll", <<"recv", "send">>, FALSE, FALSE, FALSE)
    /\ Server!Init
    /\ Client!Init
    /\ Udp!Init

NetworkNext ==
    \/ /\ part = "commands" /\ Next
       /\ UNCHANGED <<part, shard, connection, waits, server, client, udp>>
    \/ /\ part = "shard" /\ Shard!Next
       /\ UNCHANGED <<part, commands, connection, waits, server, client, udp>>
    \/ /\ part = "connection" /\ Connection!Next
       /\ UNCHANGED <<part, commands, shard, waits, server, client, udp>>
    \/ /\ part = "waits" /\ Waits!Next
       /\ UNCHANGED <<part, commands, shard, connection, server, client, udp>>
    \/ /\ part = "server" /\ Server!Next
       /\ UNCHANGED <<part, commands, shard, connection, waits, client, udp>>
    \/ /\ part = "client" /\ Client!Next
       /\ UNCHANGED <<part, commands, shard, connection, waits, server, udp>>
    \/ /\ part = "udp" /\ Udp!Next
       /\ UNCHANGED <<part, commands, shard, connection, waits, server, client>>

\* The fairness of each part.
NetworkFairness ==
    /\ \A p \in {"p", "q"} : WF_commands(part = "commands" /\ enqueue(p))
    /\ WF_commands(part = "commands" /\ OwnerWorks)
    /\ WF_commands(part = "commands" /\ StopGoesOn)
    /\ \A t \in {"owner", "control"} : WF_commands(part = "commands" /\ Flush(t))
    /\ WF_connection(part = "connection" /\ Connection!on_event)
    /\ WF_connection(part = "connection" /\ Connection!read_available)
    /\ WF_connection(part = "connection" /\ Connection!CallbackReturns)
    /\ WF_connection(part = "connection" /\ Connection!WriteAndHangup)
    /\ WF_connection(part = "connection" /\ Connection!PeerReads)
    /\ \A t \in {"t", "u"} :
          /\ WF_waits(part = "waits" /\ Waits!Run(t))
          /\ WF_waits(part = "waits" /\ Waits!Expires(t))
    /\ \A s \in {"a", "b"} :
          /\ WF_server(part = "server" /\ Server!RunsTasks(s))
          /\ WF_server(part = "server" /\ Server!TakesResult(s))
          /\ WF_client(part = "client" /\ Client!RunsTasks(s))
          /\ WF_client(part = "client" /\ Client!Result(s))

NetworkSpec == NetworkInit /\ [][NetworkNext]_all /\ NetworkFairness

-----------------------------------------------------------------------------
\* A connection that a call in progress will touch again is not deleted, whatever
\* user callbacks do with handles meanwhile (user_callback_depth_,
\* reap_retired_connections_if_safe); only a task that runs inside a callback, under
\* Yield and on a full queue, deletes it.
FramesLive == Shard!FramesLive

\* A connection handle reaches its own connection or nothing, although slots are
\* reused, trimmed and grown again, by tasks inside callbacks too.
HandlesExact == Shard!HandlesExact

\* The peer reads the accepted bytes in order and none twice, however direct
\* writes, queued buffers and partial writes mix; a half close, and the close
\* after a flush, come after the last of them.
StreamInOrder == Connection!StreamInOrder /\ Connection!ClosesAfterOutput


\* A task that waits for readiness can be woken: its registration, or its timer,
\* is armed in the kernel.
WaitersArmed == Waits!WaitersArmed

\* When the control plane of TcpServer is quiet, the listeners installed on the
\* shards are those its table calls Active, after a start that one shard refused as
\* well; and after a stop() no shard has a listener, a connection, an open wake
\* channel or takes commands.  Excepted are listeners of which a removal or a start
\* result was lost (refused, or come to a slot that the table has trimmed away) and
\* shards that refused the stop task.
InstalledAsListed == Server!InstalledAsListed /\ Server!StopClears

\* A stop() of TcpClient reaches every connection and every connect in progress,
\* unless a stop task or a result was refused.
StopReachesAll == Client!StopReachesAll

\* When UdpSocket is quiet its active shards are those with an open socket, unless
\* a start result or the stop that undoes a start was refused; and a datagram
\* leaves by the socket its handle named.
ActiveAsOpen == Udp!ActiveAsOpen /\ Udp!HandleNamesSocket

\* What was begun ends: a stop() that waits for producers to leave, queued output
\* (written, or its connection closed), a connect with a deadline (that spurious
\* readiness does not start afresh), the start of a
\* listener and a client's stop().  The last two are excepted when their result
\* was refused: nothing sends it again.
NetworkSettles ==
    []<>(Quiet /\ Connection!Quiet /\ Waits!Quiet /\ Server!Quiet /\ Client!Quiet)
=============================================================================
