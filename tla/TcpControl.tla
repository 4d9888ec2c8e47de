----------------------------- MODULE TcpControl -----------------------------
(***************************************************************************)
(* The control plane of TcpServer: the listener table kept by the control  *)
(* thread, the add, remove and stop tasks it schedules on the shards, what *)
(* those tasks do to a shard, and the start results the shards send back.  *)
(* One queue per shard and one per direction: both ends are runtime        *)
(* threads, so tasks between two of them arrive in the order of their      *)
(* start_task.                                                             *)
(***************************************************************************)
EXTENDS Integers, Sequences, FiniteSets, SequencesExt

CONSTANTS
    Shards,         \* I/O threads, one shard each
    Control,        \* control_thread_index: the first I/O thread
    Configs,        \* listener configurations that pass validate_config
    MaxAdds,        \* bound: calls of add_listener
    RefusedAdds,    \* bound: calls of add_listener when some task is refused, or
                    \* before a listening socket fails
    MaxStarts,      \* bound: calls of start
    Refusals,       \* the sets of threads that may refuse tasks during a call
    Disciplined     \* callers remove a listener, and restart the server, only
                    \* when no task or result of the control plane is in flight

VARIABLES
    running,        \* state->running
    listeners,      \* state->listeners: entries, or None for an empty slot
    generations,    \* state->listener_generations
    freeSlots,      \* state->free_listener_slots
    tasks,          \* tasks[s]: control tasks queued for shard s
    results,        \* results[s]: start results of s queued for the control thread
    installed,      \* installed[s]: listeners_ of shard s
    conns,          \* conns[s]: listeners that have connections on shard s
    channel,        \* channel[s]: wake_fd_ of shard s is open
    accepting,      \* accepting[s]: accepting_commands_ of shard s
    adds, starts,   \* calls made so far
    refused,        \* history: some task was refused
    lost,           \* history: listeners of which a removal or a start result was
                    \* lost since the last stop() that all shards took
    unstopped       \* history: shards that refused the last stop()

table == <<running, listeners, generations, freeSlots>>
shard == <<installed, conns, channel, accepting>>
bounds == <<adds, starts, refused>>
history == <<lost, unstopped>>
vars == <<table, tasks, results, shard, bounds, history>>

None == [state |-> "none"]
Policies == {"StopAcceptOnly", "CloseExistingConnections"}

validate_config(c) ==
    /\ c.threads # <<>>
    /\ IsInjective(c.threads)
    /\ Range(c.threads) \subseteq Shards
    /\ c.strategy = "ReusePortPerIoThread" => c.reuse_port
    /\ c.family = "Unix" =>
          /\ c.strategy # "ReusePortPerIoThread"
          /\ Len(c.threads) > 1 => c.strategy = "SingleAcceptor"

listener_install_shards(c) == Range(c.threads)

listener_open_shards(c) ==
    IF c.strategy = "ReusePortPerIoThread" \/ (c.strategy = "Auto" /\ c.reuse_port)
    THEN Range(c.threads)
    ELSE {c.threads[1]}

Configured(id, c) ==
    [state |-> "Configured", id |-> id, config |-> c,
     active |-> {}, starting |-> {}, started |-> {}, pending |-> 0]

clear_listener_start_progress(e) ==
    [e EXCEPT !.starting = {}, !.started = {}, !.pending = 0]

mark_listener_failed(e) ==
    [clear_listener_start_progress(e) EXCEPT !.state = "Failed", !.active = {}]

\* The threads in no refuse the tasks of this call.
Note(no) ==
    /\ no # {} => adds <= RefusedAdds
    /\ refused' = (refused \/ no # {})

Push(ts, S, task) == [s \in Shards |-> IF s \in S THEN Append(ts[s], task) ELSE ts[s]]

schedule_remove_listener_from_shards(ts, id, S, policy, no) ==
    Push(ts, S \ no, [op |-> "remove", id |-> id, policy |-> policy])

\* The listener, if one of the shards S refuses its task.
Lost(id, S, no) == IF S \cap no = {} THEN {} ELSE {id}

Init ==
    /\ running = FALSE /\ listeners = <<>> /\ generations = <<>> /\ freeSlots = <<>>
    /\ tasks = [s \in Shards |-> <<>>] /\ results = [s \in Shards |-> <<>>]
    /\ installed = [s \in Shards |-> {}] /\ conns = [s \in Shards |-> {}]
    /\ channel = [s \in Shards |-> FALSE] /\ accepting = [s \in Shards |-> FALSE]
    /\ adds = 0 /\ starts = 0 /\ refused = FALSE
    /\ lost = {} /\ unstopped = {}

-----------------------------------------------------------------------------
(* The table: slots and generations.                                        *)

\* The id that acquire_listener_slot returns; slots count from 1 here.
acquired_id ==
    LET slot == IF freeSlots # <<>> THEN Last(freeSlots) ELSE Len(listeners) + 1
        used == IF slot <= Len(generations) THEN generations[slot] ELSE 0
    IN  [slot |-> slot, gen |-> used + 1]

\* A sequence with x at index i, which may be one past its end.
Put(q, i, x) == IF i <= Len(q) THEN [q EXCEPT ![i] = x] ELSE Append(q, x)

acquire_listener_slot(id, entry) ==
    /\ listeners' = Put(listeners, id.slot, entry)
    /\ generations' = Put(generations, id.slot, id.gen)
    /\ freeSlots' = IF freeSlots # <<>> THEN Front(freeSlots) ELSE freeSlots

trim_empty_listener_tail(ls) ==
    SubSeq(ls, 1, CHOOSE n \in 0..Len(ls) :
                      /\ n = 0 \/ ls[n] # None
                      /\ \A m \in (n + 1)..Len(ls) : ls[m] = None)

release_listener_slot(slot) ==
    LET ls == trim_empty_listener_tail([listeners EXCEPT ![slot] = None])
        free == IF slot < Len(listeners) /\ slot \notin Range(freeSlots)
                THEN Append(freeSlots, slot) ELSE freeSlots
    IN  /\ listeners' = ls
        /\ freeSlots' = SelectSeq(free, LAMBDA f : f <= Len(ls))

-----------------------------------------------------------------------------
(* A start result on the control thread: the table and the queues after it. *)

\* Mutant: a late result is taken for a result of the present start.
result_unchecked(ls, ts, id, s, error, no) ==
    IF id.slot > Len(ls) \/ ls[id.slot] = None THEN [ls |-> ls, ts |-> ts, lost |-> {}]
    ELSE LET e == ls[id.slot] IN
         [ls |-> [ls EXCEPT ![id.slot] =
                    IF error THEN mark_listener_failed(e)
                    ELSE [clear_listener_start_progress(e) EXCEPT
                            !.state = "Active", !.active = e.starting]],
          ts |-> ts, lost |-> {}]

handle_listener_start_result_on_control(ls, ts, id, s, error, no) ==
    LET e == IF id.slot > Len(ls) THEN None ELSE ls[id.slot]
        known == e # None /\ e.id = id /\ e.state = "Starting"
        started == e.started \cup {s}
        next(x) == [ls |-> [ls EXCEPT ![id.slot] = x], ts |-> ts, lost |-> {}]
        remove(r, S, policy) ==
            [r EXCEPT !.ts = schedule_remove_listener_from_shards(ts, id, S, policy, no),
                      !.lost = Lost(id, S, no)]
        same == [ls |-> ls, ts |-> ts, lost |-> {}]
    IN  CASE id.slot > Len(ls) -> [same EXCEPT !.lost = IF error THEN {} ELSE {id}]
          [] id.slot <= Len(ls) /\ ~known ->
                IF error THEN same ELSE remove(same, {s}, "StopAcceptOnly")
          [] known /\ error ->
                remove(next(mark_listener_failed(e)), e.started, "StopAcceptOnly")
          [] known /\ ~error /\ e.pending > 1 ->
                next([e EXCEPT !.started = started, !.pending = @ - 1])
          [] known /\ ~error /\ e.pending <= 1 /\ running ->
                next([clear_listener_start_progress(e) EXCEPT
                        !.state = "Active", !.active = e.starting])
          [] known /\ ~error /\ e.pending <= 1 /\ ~running ->
                remove(next([clear_listener_start_progress(e) EXCEPT
                               !.state = "Configured", !.active = {}]),
                       started, "CloseExistingConnections")

\* Mutant of start_listener_slot: the last thread's result is not awaited.
start_expecting_fewer(ls, ts, slot, no) ==
    LET e == ls[slot]
        S == listener_install_shards(e.config)
        add == [op |-> "add", id |-> e.id, config |-> e.config]
    IN  [ls |-> [ls EXCEPT ![slot] = [e EXCEPT !.state = "Starting", !.active = {},
                   !.starting = S, !.started = {}, !.pending = Cardinality(S) - 1]],
         ts |-> Push(ts, S, add), lost |-> {}]

\* Tasks are scheduled in the order of the threads up to the first refusal.
start_listener_slot(ls, ts, slot, no) ==
    LET e == ls[slot]
        S == listener_install_shards(e.config)
        order == e.config.threads
        cut == CHOOSE k \in 1..(Len(order) + 1) :
                  /\ k <= Len(order) => order[k] \in no
                  /\ \A j \in 1..(k - 1) : order[j] \notin no
        begun == [ls EXCEPT ![slot] = [e EXCEPT !.state = "Starting", !.active = {},
                    !.starting = S, !.started = {}, !.pending = Cardinality(S)]]
        add == [op |-> "add", id |-> e.id, config |-> e.config]
        sent == Push(ts, {order[j] : j \in 1..(cut - 1)}, add)
    IN  IF cut > Len(order) THEN [ls |-> begun, ts |-> sent, lost |-> {}]
        ELSE handle_listener_start_result_on_control(begun, sent, e.id, order[cut], TRUE, no)

-----------------------------------------------------------------------------
(* Calls of the server object, all on the control thread.                   *)

InFlight == \E s \in Shards : tasks[s] # <<>> \/ results[s] # <<>>

add_listener(c, no) ==
    LET id == acquired_id
        e == Configured(id, c)
        r == start_listener_slot(Put(listeners, id.slot, e), tasks, id.slot, no)
        failed == listener_install_shards(c) \cap no # {}
    IN  /\ adds < IF refused \/ no # {} THEN RefusedAdds ELSE MaxAdds
        /\ validate_config(c)
        /\ adds' = adds + 1
        /\ \/ /\ ~running
              /\ acquire_listener_slot(id, e)
              /\ UNCHANGED tasks
           \/ /\ running /\ ~failed
              /\ acquire_listener_slot(id, r.ls[id.slot])
              /\ tasks' = r.ts
           \/ /\ running /\ failed       \* acquired and released: only the generation stays
              /\ generations' = Put(generations, id.slot, id.gen)
              /\ tasks' = r.ts
              /\ UNCHANGED <<listeners, freeSlots>>
        /\ lost' = IF running THEN lost \cup r.lost ELSE lost
        /\ Note(no)
        /\ UNCHANGED <<running, results, shard, starts, unstopped>>

remove_listener(slot, policy, no) ==
    LET e == listeners[slot]
        S == e.active \cup e.started
    IN  /\ e # None
        /\ Disciplined => ~InFlight
        /\ release_listener_slot(slot)
        /\ tasks' = schedule_remove_listener_from_shards(tasks, e.id, S, policy, no)
        /\ lost' = lost \cup Lost(e.id, S, no)
        /\ Note(no)
        /\ UNCHANGED <<running, generations, results, shard, adds, starts, unstopped>>

\* start(): start_listener_slot for every Configured or Failed entry in turn.
start_slots(no) ==
    FoldLeft(LAMBDA r, slot :
                IF r.ls[slot] # None /\ r.ls[slot].state \in {"Configured", "Failed"}
                THEN LET n == start_listener_slot(r.ls, r.ts, slot, no)
                     IN  [n EXCEPT !.lost = @ \cup r.lost]
                ELSE r,
             [ls |-> listeners, ts |-> tasks, lost |-> lost],
             [k \in 1..Len(listeners) |-> k])

start(no) ==
    LET r == start_slots(no)
    IN  /\ ~running
        /\ Disciplined => ~InFlight
        /\ starts < MaxStarts
        /\ starts' = starts + 1
        /\ running' = TRUE
        /\ listeners' = r.ls
        /\ tasks' = r.ts
        /\ lost' = r.lost
        /\ Note(no)
        /\ UNCHANGED <<generations, freeSlots, results, shard, adds, unstopped>>

\* Mutant of stop: only the shards of Active listeners are stopped.
stop_active_only(no) ==
    LET S == UNION {listeners[k].active : k \in {j \in 1..Len(listeners) : listeners[j] # None}}
    IN  /\ running /\ running' = FALSE
        /\ listeners' = [k \in 1..Len(listeners) |->
              IF listeners[k] = None THEN None
              ELSE [clear_listener_start_progress(listeners[k]) EXCEPT !.state = "Configured"]]
        /\ tasks' = Push(tasks, S, [op |-> "stop"])
        /\ accepting' = [s \in Shards |-> FALSE]
        /\ UNCHANGED <<generations, freeSlots, results, installed, conns, channel, bounds, history>>

\* The commands of every shard are sealed before the stop tasks are scheduled,
\* and taken again if one of these is refused.
stop(no) ==
    /\ running /\ running' = FALSE
    /\ listeners' = [k \in 1..Len(listeners) |->
          LET e == listeners[k]
          IN  IF e = None THEN None
              ELSE [clear_listener_start_progress(e) EXCEPT
                      !.state = "Configured", !.active = e.active \cup e.started]]
    /\ tasks' = Push(tasks, Shards \ no, [op |-> "stop"])
    /\ accepting' = [s \in Shards |-> no # {}]
    /\ Note(no)
    /\ lost' = IF no = {} THEN {} ELSE lost
    /\ unstopped' = no
    /\ UNCHANGED <<generations, freeSlots, results, installed, conns, channel, adds, starts>>

-----------------------------------------------------------------------------
(* Tasks on a shard.                                                        *)

\* close_wake_channel_if_idle, given the shard's listeners and connections.
close_wake_channel_if_idle(s, ls, cs) ==
    LET idle == ls = {} /\ cs = {}
    IN  /\ channel' = [channel EXCEPT ![s] = @ /\ ~idle]
        /\ accepting' = [accepting EXCEPT ![s] = @ /\ ~idle]

Rest(s) == [tasks EXCEPT ![s] = Tail(@)]

\* complete_listener_start_from_shard: at once on the control thread, by a
\* task (which may be refused) from any other.
complete_listener_start_from_shard(s, id, error, no) ==
    \/ /\ s = Control
       /\ LET r == handle_listener_start_result_on_control(listeners, Rest(s), id, s, error, no)
          IN  listeners' = r.ls /\ tasks' = r.ts /\ lost' = lost \cup r.lost
       /\ UNCHANGED results
    \/ /\ s # Control /\ Control \notin no
       /\ results' = [results EXCEPT ![s] = Append(@, [id |-> id, error |-> error])]
       /\ tasks' = Rest(s)
       /\ UNCHANGED <<listeners, lost>>
    \/ /\ s # Control /\ Control \in no
       /\ tasks' = Rest(s)
       /\ lost' = lost \cup {id}
       /\ UNCHANGED <<listeners, results>>

Occupied(s, id) == \E l \in installed[s] : l.id.slot = id.slot

\* add_listener_on_owner; ok is what open_wake_channel and then the listener's
\* own open() return.
add_listener_on_owner(s, channelOk, openOk, no) ==
    LET t == Head(tasks[s])
        opens == s \in listener_open_shards(t.config)
        good == channelOk /\ ~Occupied(s, t.id) /\ (opens => openOk)
        l == [id |-> t.id, open |-> opens,
              targets |-> IF Len(t.config.threads) = Cardinality(listener_open_shards(t.config))
                          THEN {s} ELSE listener_install_shards(t.config)]
        ls == IF good THEN installed[s] \cup {l} ELSE installed[s]
    IN  /\ tasks[s] # <<>> /\ t.op = "add"
        /\ channel[s] => channelOk
        /\ installed' = [installed EXCEPT ![s] = ls]
        /\ \/ /\ ~channelOk
              /\ UNCHANGED <<channel, accepting>>
           \/ /\ channelOk /\ (good \/ Occupied(s, t.id))
              /\ channel' = [channel EXCEPT ![s] = TRUE]
              /\ accepting' = [accepting EXCEPT ![s] = TRUE]
           \/ /\ channelOk /\ ~good /\ ~Occupied(s, t.id)
              /\ channel' = [channel EXCEPT ![s] = ls # {} \/ conns[s] # {}]
              /\ accepting' = [accepting EXCEPT ![s] = ls # {} \/ conns[s] # {}]
        /\ complete_listener_start_from_shard(s, t.id, ~good, no)
        /\ Note(no)
        /\ UNCHANGED <<running, generations, freeSlots, conns, adds, starts, unstopped>>

remove_listener_on_owner(s) ==
    LET t == Head(tasks[s])
        ls == {l \in installed[s] : l.id # t.id}
        cs == IF t.policy = "CloseExistingConnections" THEN conns[s] \ {t.id} ELSE conns[s]
    IN  /\ tasks[s] # <<>> /\ t.op = "remove"
        /\ installed' = [installed EXCEPT ![s] = ls]
        /\ conns' = [conns EXCEPT ![s] = cs]
        /\ close_wake_channel_if_idle(s, ls, cs)
        /\ tasks' = Rest(s)
        /\ UNCHANGED <<table, results, bounds, history>>

stop_on_owner(s) ==
    /\ tasks[s] # <<>> /\ Head(tasks[s]).op = "stop"
    /\ installed' = [installed EXCEPT ![s] = {}]
    /\ conns' = [conns EXCEPT ![s] = {}]
    /\ channel' = [channel EXCEPT ![s] = FALSE]
    /\ accepting' = [accepting EXCEPT ![s] = FALSE]
    /\ tasks' = Rest(s)
    /\ UNCHANGED <<table, results, bounds, history>>

\* TcpListenerStartResultTask::run
StartResult(s, no) ==
    LET m == Head(results[s])
        r == handle_listener_start_result_on_control(listeners, tasks, m.id, s, m.error, no)
    IN  /\ results[s] # <<>>
        /\ results' = [results EXCEPT ![s] = Tail(@)]
        /\ listeners' = r.ls /\ tasks' = r.ts /\ lost' = lost \cup r.lost
        /\ Note(no)
        /\ UNCHANGED <<running, generations, freeSlots, shard, adds, starts, unstopped>>

-----------------------------------------------------------------------------
(* Events of an installed listener.                                         *)

\* handle_listener and route_connection: a connection for shard t, which takes
\* one routed to it only while it accepts commands and knows the listener.
Accept(s, l, t) ==
    /\ l \in installed[s] /\ l.open /\ t \in l.targets
    /\ t # s => accepting[t] /\ \E k \in installed[t] : k.id = l.id
    /\ conns' = [conns EXCEPT ![t] = @ \cup {l.id}]
    /\ UNCHANGED <<table, tasks, results, installed, channel, accepting, bounds, history>>

\* handle_listener on an error or a hangup: the socket is closed.
ListenerError(s, l) ==
    /\ l \in installed[s] /\ l.open
    /\ adds <= RefusedAdds
    /\ installed' = [installed EXCEPT ![s] = (@ \ {l}) \cup {[l EXCEPT !.open = FALSE]}]
    /\ UNCHANGED <<table, tasks, results, conns, channel, accepting, bounds, history>>

\* The last connection of a listener on the shard closes.
ConnectionsClosed(s, id) ==
    /\ id \in conns[s]
    /\ conns' = [conns EXCEPT ![s] = @ \ {id}]
    /\ UNCHANGED <<table, tasks, results, installed, channel, accepting, bounds, history>>

Next ==
    \/ \E c \in Configs, no \in Refusals : add_listener(c, no)
    \/ \E k \in 1..Len(listeners), p \in Policies, no \in Refusals : remove_listener(k, p, no)
    \/ \E no \in Refusals : start(no)
    \/ \E no \in Refusals : stop(no)
    \/ \E s \in Shards, c \in BOOLEAN, o \in BOOLEAN, no \in Refusals :
          add_listener_on_owner(s, c, o, no)
    \/ \E s \in Shards : remove_listener_on_owner(s) \/ stop_on_owner(s)
    \/ \E s \in Shards, no \in Refusals : StartResult(s, no)
    \/ \E s, t \in Shards : \E l \in installed[s] : Accept(s, l, t)
    \/ \E s \in Shards : \E l \in installed[s] : ListenerError(s, l)
    \/ \E s \in Shards : \E id \in conns[s] : ConnectionsClosed(s, id)

\* Runtime threads keep running the tasks they are given.
RunsTasks(s) ==
    \/ \E c \in BOOLEAN, o \in BOOLEAN, no \in Refusals : add_listener_on_owner(s, c, o, no)
    \/ remove_listener_on_owner(s)
    \/ stop_on_owner(s)

TakesResult(s) == \E no \in Refusals : StartResult(s, no)

Fairness == \A s \in Shards : WF_vars(RunsTasks(s)) /\ WF_vars(TakesResult(s))

Spec == Init /\ [][Next]_vars /\ Fairness

-----------------------------------------------------------------------------

Entries == {listeners[k] : k \in {j \in 1..Len(listeners) : listeners[j] # None}}

\* When the control plane is quiet, the listeners installed on a shard are
\* exactly the Active ones whose table entry names the shard: no listener is
\* left accepting after remove_listener, a failed start, a start that one shard
\* refused or stop(), and none that the table calls Active is missing.  Three
\* refusals are not made good by the code, and excepted here: that of a remove or
\* a start result task (its listener), that of a stop task (its shard), and that
\* of an add task when add_listener takes the entry out of the table again and
\* the table shrinks below it: the other shard's success is then dropped.
InstalledAsListed ==
    ~InFlight =>
       \A s \in Shards \ unstopped :
          {l.id : l \in installed[s]} \ lost =
             {e.id : e \in {x \in Entries : x.state = "Active" /\ s \in x.active}} \ lost

\* A listener that remove_listener took out of the table is installed on no
\* shard once the control plane is quiet (docs/net_reactor_design.md:68).
RemovedListenersStop ==
    ~InFlight /\ ~refused =>
       \A s \in Shards : \A l \in installed[s] : \E e \in Entries : e.id = l.id

\* After stop(), once the shards have run their tasks, no shard has a listener,
\* a connection, an open wake channel or takes a command, whatever starts,
\* removals, late results and refused tasks the stop interleaved with; except a
\* shard that refused the stop task, and that the others take commands again then.
StopClears ==
    ~running /\ ~InFlight =>
       \A s \in Shards \ unstopped :
          /\ installed[s] = {} /\ conns[s] = {} /\ ~channel[s]
          /\ unstopped = {} => ~accepting[s]

\* Nobody waits: no listener is Starting, unless its start result was refused.
Quiet == \A e \in Entries : e.state = "Starting" => e.id \in lost

\* Listeners leave Starting: every shard they were scheduled on answers or refuses,
\* and the answers are counted, whether the server is stopped or restarted
\* meanwhile.
StartSettles == []<>Quiet
=============================================================================
