------------------------------ MODULE TcpShard ------------------------------
(***************************************************************************)
(* The connections a TcpServerShard owns: slots and generations, and who   *)
(* may free a connection while user callbacks are on the owner's stack.    *)
(* Everything here runs on the owner thread; what interleaves is which     *)
(* callback runs inside which call, and which task runs inside a callback: *)
(* under Yield a callback that posts to the full queue of its own thread   *)
(* runs the tasks of that queue.  "stack" holds what is left to do in the  *)
(* calls that have not returned, innermost first.                          *)
(***************************************************************************)
EXTENDS Integers, Sequences, SequencesExt, FiniteSets

CONSTANTS
    Listeners,      \* listener ids
    MaxConns,       \* bound: connections made
    MaxDepth,       \* bound: nested user callbacks
    Batch           \* channels reported by one epoll_wait

VARIABLES
    listening,      \* listeners installed on the shard
    conn,           \* conn[u]: the u-th connection: slot_, generation_, its
                    \* listener, whether fd_ is open, and by what it was
                    \* deleted: by a "safe" reap, by one of a "nested" task
    slots,          \* connections_: slots[k] is the connection there, or 0
    generations,    \* generations_
    freeSlots,      \* free_connection_slots_
    retired,        \* retired_connection_slots_
    depth,          \* user_callback_depth_
    stack,          \* what is left of the calls in progress
    batch,          \* channels of the current poll that are still to be visited
    dangling        \* a poll visited the channel of a deleted connection

vars == <<listening, conn, slots, generations, freeSlots, retired, depth, stack,
          batch, dangling>>
table == <<slots, generations, freeSlots, retired>>

Conns == 1..Len(conn)
Alive(u) == conn[u].open
Clients == Listeners \cup {0}

Init ==
    /\ listening = {} /\ conn = <<>> /\ slots = <<>> /\ generations = <<>>
    /\ freeSlots = <<>> /\ retired = <<>> /\ depth = 0 /\ stack = <<>>
    /\ batch = <<>> /\ dangling = FALSE

-----------------------------------------------------------------------------
(* Slots.                                                                   *)

\* The connection a handle (slot, generation) reaches, or 0.
find(slot, generation) ==
    IF slot > Len(slots) \/ slots[slot] = 0 THEN 0
    ELSE LET u == slots[slot]
         IN IF Alive(u) /\ conn[u].generation = generation THEN u ELSE 0

\* Mutant of NextGeneration: a slot beyond the table starts again at 1.
FreshGeneration(slot) ==
    IF slot > Len(slots) THEN 1 ELSE generations[slot] + 1

\* Generations outlive the slots that trimming removes.  (32 bits, and 0 is
\* skipped when they wrap: far beyond the bound on connections.)
NextGeneration(slot) ==
    IF slot > Len(generations) THEN 1 ELSE generations[slot] + 1

\* acquire_connection_slot: the last freed slot, or a new one at the end.
AcquiredSlot == IF freeSlots # <<>> THEN Last(freeSlots) ELSE Len(slots) + 1

\* trim_empty_tail_slots with erase_free_connection_slot
trim_empty_tail_slots(table1, free1) ==
    LET used == {k \in DOMAIN table1 : table1[k] # 0}
        len == IF used = {} THEN 0 ELSE CHOOSE k \in used : \A j \in used : j <= k
    IN /\ slots' = SubSeq(table1, 1, len)
       /\ freeSlots' = SelectSeq(free1, LAMBDA k : k <= len)

\* reap_retired_connections: the connections still in their slot are deleted.
ReapAll(how) ==
    LET gone == SelectSeq(retired, LAMBDA r :
                   /\ r.slot <= Len(slots) /\ slots[r.slot] # 0
                   /\ generations[r.slot] = r.generation
                   /\ ~Alive(slots[r.slot])
                   /\ conn[slots[r.slot]].generation = r.generation)
        at == {gone[k].slot : k \in DOMAIN gone}
        emptied == [k \in DOMAIN slots |-> IF k \in at THEN 0 ELSE slots[k]]
        freed == [k \in DOMAIN gone |-> gone[k].slot]
    IN /\ conn' = [u \in Conns |->
                     IF \E k \in at : slots[k] = u
                     THEN [conn[u] EXCEPT !.deleted = how] ELSE conn[u]]
       /\ trim_empty_tail_slots(emptied,
             freeSlots \o SelectSeq(freed, LAMBDA k : k < Len(slots)))
       /\ retired' = <<>>
       /\ UNCHANGED generations

-----------------------------------------------------------------------------
(* Calls.  A frame says what remains to be done in it, and on which         *)
(* connection (0: none).                                                    *)

Frame(do, u) == [do |-> do, conn |-> u]
Push(frames, rest) == stack' = frames \o rest
Rest == Tail(stack)
Top(do) == stack # <<>> /\ Head(stack).do = do
TopConn == Head(stack).conn

\* TcpConnection::close_now, up to the user's on_close, followed by "rest".
close_now(u, rest) ==
    IF Alive(u)
    THEN /\ conn' = [conn EXCEPT ![u].open = FALSE]
         /\ depth' = depth + 1
         /\ Push(<<Frame("callback", 0), Frame("retire", u)>>, rest)
    ELSE UNCHANGED <<conn, depth>> /\ Push(<<>>, rest)

\* create_connection: the slot, the connection, start() and on_accept.
create_connection(l, rest) ==
    LET k == AcquiredSlot
        g == NextGeneration(k)
        u == Len(conn) + 1
    IN /\ Len(conn) < MaxConns
       /\ slots' = IF k > Len(slots) THEN Append(slots, u) ELSE [slots EXCEPT ![k] = u]
       /\ generations' = IF k > Len(generations) THEN Append(generations, g)
                         ELSE [generations EXCEPT ![k] = g]
       /\ freeSlots' = IF freeSlots # <<>> THEN Front(freeSlots) ELSE freeSlots
       /\ \E started \in BOOLEAN :     \* net_register_channel may fail
             conn' = Append(conn, [slot |-> k, generation |-> g, listener |-> l,
                                   open |-> started, deleted |-> "no"])
             /\ Push(<<Frame("callback", 0), Frame(IF started THEN "end" ELSE "retire", u),
                       Frame("reap", 0)>>, rest)
       /\ depth' = depth + 1
       /\ UNCHANGED retired

-----------------------------------------------------------------------------
(* What the poll loop and the task queue start; nothing else is running.    *)

Idle == stack = <<>> /\ ~dangling

\* poll_native_io: channels of open connections are ready, or another channel
\* of the shard (0): that of a listener or the wake descriptor.
Poll ==
    /\ Idle /\ batch = <<>>
    /\ \E ready \in SUBSET ({0} \cup {u \in Conns : Alive(u)}) :
          /\ ready # {} /\ Cardinality(ready) <= Batch
          /\ batch' \in SetToSeqs(ready)
    /\ UNCHANGED <<listening, conn, table, depth, stack, dangling>>

\* on_channel_event, if the channel is active; it reads the connection.
Visit ==
    /\ Idle /\ batch # <<>> /\ Head(batch) # 0
    /\ batch' = Tail(batch)
    /\ LET u == Head(batch)
       IN /\ dangling' = (conn[u].deleted # "no")
          /\ stack' = IF Alive(u)
                      THEN <<Frame("event", u), Frame("reap", 0)>> ELSE <<>>
    /\ UNCHANGED <<listening, conn, table, depth>>

OtherChannel == Idle /\ batch # <<>> /\ Head(batch) = 0 /\ batch' = Tail(batch)

\* A connection arrives at a listener here, or is adopted from another shard.
AcceptConnection ==
    /\ OtherChannel
    /\ \E l \in listening : create_connection(l, <<>>)
    /\ UNCHANGED <<listening, dangling>>

\* The operations of a handle or a command that can close: send (which flushes),
\* close, close_after_flush.  They reap if that is safe.
HandleOp(u, rest) ==
    LET d == find(conn[u].slot, conn[u].generation)
    IN IF d = 0 THEN UNCHANGED <<conn, depth>> /\ Push(<<>>, rest)
       ELSE close_now(d, <<Frame("reap_if_safe", 0)>> \o rest)

\* drain_commands: a command of any handle ever given out, or one that closes
\* nothing.
drain_commands ==
    /\ OtherChannel
    /\ \/ \E u \in Conns : HandleOp(u, <<Frame("reap", 0)>>)
       \/ Push(<<>>, <<>>) /\ UNCHANGED <<conn, depth>>
    /\ UNCHANGED <<listening, table, dangling>>

-----------------------------------------------------------------------------
(* Tasks, from the thread's queue or inside a callback; rest is what they   *)
(* interrupt.                                                               *)

add_listener_on_owner(rest) ==
    /\ \E l \in Listeners \ listening : listening' = listening \cup {l}
    /\ Push(<<>>, rest)
    /\ UNCHANGED <<conn, table, depth>>

\* close() of the connections of some listeners, slot by slot, and the reap.
CloseAll(of, rest) ==
    Push(<<Frame("close_slots", [of |-> of, size |-> Len(slots)]), Frame("reap", 0)>>, rest)

\* With CloseExistingConnections, its connections are closed.
remove_listener_on_owner(rest) ==
    /\ \E l \in listening :
          /\ listening' = listening \ {l}
          /\ Push(<<>>, rest) \/ CloseAll({l}, rest)
    /\ UNCHANGED <<conn, table, depth>>

stop_on_owner(rest) ==
    /\ Conns # {}
    /\ listening' = {}
    /\ CloseAll(Clients, rest)
    /\ UNCHANGED <<conn, table, depth>>

\* finish_connected of a TcpConnectTask, whose connections have no listener.
finish_connected(rest) ==
    /\ create_connection(0, rest)
    /\ UNCHANGED listening

Task(rest) ==
    \/ add_listener_on_owner(rest) \/ remove_listener_on_owner(rest)
    \/ stop_on_owner(rest) \/ finish_connected(rest)

RunTask ==
    /\ Idle /\ batch = <<>>
    /\ Task(<<>>)
    /\ UNCHANGED <<batch, dangling>>

\* enqueue_local_from_runtime_thread_blocking, called by a callback.
RunTaskNested ==
    /\ Top("callback") /\ depth < MaxDepth
    /\ Task(stack)
    /\ UNCHANGED <<batch, dangling>>

-----------------------------------------------------------------------------
(* What the innermost call does next.                                       *)

Inside == UNCHANGED <<listening, batch, dangling>>

\* on_event: an error closes; else reading, then flushing and a hangup.
on_event ==
    /\ Top("event")
    /\ \/ close_now(TopConn, Rest)
       \/ /\ Push(<<Frame("read", TopConn), Frame("flush", TopConn)>>, Rest)
          /\ UNCHANGED <<conn, depth>>
    /\ UNCHANGED table /\ Inside

\* One turn of the loop of read_available: data, end of file or an error, or
\* nothing more to read.
read_available ==
    /\ Top("read")
    /\ \/ /\ Alive(TopConn) /\ depth < MaxDepth
          /\ depth' = depth + 1
          /\ Push(<<Frame("callback", 0), Frame("end", TopConn)>>, stack)
          /\ UNCHANGED conn
       \/ Alive(TopConn) /\ close_now(TopConn, Rest)
       \/ Push(<<>>, Rest) /\ UNCHANGED <<conn, depth>>
    /\ UNCHANGED table /\ Inside

\* flush_output failing or finishing a close, a hangup, or neither.
FlushOrHangup ==
    /\ Top("flush")
    /\ \/ close_now(TopConn, Rest)
       \/ Push(<<>>, Rest) /\ UNCHANGED <<conn, depth>>
    /\ UNCHANGED table /\ Inside

\* User code uses a handle it holds, or returns; or runs tasks: RunTaskNested.
UserCallback ==
    /\ Top("callback")
    /\ \/ depth < MaxDepth /\ \E u \in Conns : HandleOp(u, stack)
       \/ Push(<<>>, Rest) /\ UNCHANGED <<conn, depth>>
    /\ UNCHANGED table /\ Inside

end_user_callback ==
    /\ Top("end")
    /\ depth' = depth - 1 /\ Push(<<>>, Rest)
    /\ UNCHANGED <<conn, table>> /\ Inside

\* The end of close_now: the callback returned, retire_connection.
retire_connection ==
    /\ Top("retire")
    /\ depth' = depth - 1 /\ Push(<<>>, Rest)
    /\ retired' = Append(retired, [slot |-> conn[TopConn].slot,
                                   generation |-> conn[TopConn].generation])
    /\ UNCHANGED <<conn, slots, generations, freeSlots>> /\ Inside

reap_retired_connections ==
    /\ Top("reap")
    /\ ReapAll(IF depth = 0 THEN "safe" ELSE "nested") /\ Push(<<>>, Rest)
    /\ UNCHANGED depth /\ Inside

\* Mutant of reap_retired_connections_if_safe: callbacks in progress are ignored.
ReapAnyway ==
    /\ Top("reap_if_safe")
    /\ ReapAll("safe") /\ Push(<<>>, Rest)
    /\ UNCHANGED depth /\ Inside

reap_retired_connections_if_safe ==
    /\ Top("reap_if_safe")
    /\ IF depth = 0 THEN ReapAll("safe") ELSE UNCHANGED <<conn, table>>
    /\ Push(<<>>, Rest)
    /\ UNCHANGED depth /\ Inside

\* The loop over connections_: the next open one of these listeners.  When a
\* nested task grew or trimmed the table its iterators are invalid, and it may
\* end anywhere.
CloseSlots ==
    /\ Top("close_slots")
    /\ LET open == {k \in DOMAIN slots : /\ slots[k] # 0 /\ Alive(slots[k])
                                         /\ conn[slots[k]].listener \in TopConn.of}
       IN \/ /\ open = {} \/ Len(slots) # TopConn.size
             /\ Push(<<>>, Rest) /\ UNCHANGED <<conn, depth>>
          \/ /\ open # {}
             /\ close_now(slots[CHOOSE k \in open : \A j \in open : k <= j], stack)
    /\ UNCHANGED table /\ Inside

Next ==
    \/ Poll \/ Visit \/ AcceptConnection \/ drain_commands
    \/ RunTask \/ RunTaskNested
    \/ on_event \/ read_available \/ FlushOrHangup \/ UserCallback
    \/ end_user_callback \/ retire_connection \/ reap_retired_connections
    \/ reap_retired_connections_if_safe \/ CloseSlots

Spec == Init /\ [][Next]_vars

-----------------------------------------------------------------------------

\* A connection that a call in progress will touch again is not deleted,
\* whatever user callbacks do with handles meanwhile: user_callback_depth_
\* defers the deletion to the outermost call.  The one deletion it does not
\* defer is that of a task that runs inside a callback (under Yield, when the
\* callback posts to the full queue of its own thread): the stop, the removal of
\* a listener and the connect reap without looking at the depth.
FramesLive ==
    \A k \in DOMAIN stack :
       stack[k].do \in {"event", "read", "flush", "end", "retire"}
          => conn[stack[k].conn].deleted \in {"no", "nested"}

\* A handle reaches its own connection or nothing, although slots are reused,
\* trimmed and grown again; and a slot that is empty is on the free list once.
HandlesExact ==
    /\ \A u \in Conns : find(conn[u].slot, conn[u].generation) \in {0, u}
    /\ \A k \in DOMAIN slots :
          Cardinality({j \in DOMAIN freeSlots : freeSlots[j] = k})
             = (IF slots[k] = 0 THEN 1 ELSE 0)

\* The poll never visits the channel of a deleted connection.  This does NOT
\* hold: the epoll backend walks the array of events one epoll_wait returned, and
\* a connection that an earlier event of the array closes is reaped at the end of
\* that event, before the walk comes to its own.
ChannelsLive == ~dangling
=============================================================================
