---------------------------- MODULE TcpConnection ----------------------------
(***************************************************************************)
(* One TcpConnection on its owner thread, the kernel's socket under it and *)
(* the peer at the other end: what happens to the bytes the connection     *)
(* accepts and to the ones the peer sends, as sends, partial writes,       *)
(* pauses, half closes, hangups and errors mix.  Bytes are numbered in the *)
(* order they are accepted.                                                *)
(***************************************************************************)
EXTENDS Integers, Sequences, SequencesExt

CONSTANTS
    MaxBytes,       \* bound: bytes sent, in each direction
    HighWatermark,  \* output_high_watermark
    KernelRoom,     \* room in the socket's send buffer
    ReadBudget      \* read_budget_bytes, one byte per recv

VARIABLES
    c,              \* the connection: fd_ open, output_, flags, interests of its
                    \* channel, and why it was closed
    kernel,         \* bytes written to the socket that the peer has not read
    peer,           \* the peer: bytes read, sent, and whether it closed or reset
    handled,        \* bytes given to on_read
    accepted,       \* bytes that send() took
    at,             \* where the owner is: idle, or inside on_event
    events,         \* the events on_event was called with
    consumed        \* bytes read in this on_event

vars == <<c, kernel, peer, handled, accepted, at, events, consumed>>

Init ==
    /\ c = [open |-> TRUE, output |-> <<>>, paused |-> FALSE, flushing |-> FALSE,
            shutRequested |-> FALSE, shutDone |-> FALSE,
            interests |-> {"readable"}, reason |-> "none"]
    /\ kernel = <<>>
    /\ peer = [read |-> <<>>, sent |-> 0, fin |-> FALSE, reset |-> FALSE]
    /\ handled = 0 /\ accepted = 0
    /\ at = "idle" /\ events = {} /\ consumed = 0

Least(a, b) == IF a <= b THEN a ELSE b

-----------------------------------------------------------------------------
(* The connection's functions, on a value d of c and a value k of kernel.   *)

update_interest(d) ==
    [d EXCEPT !.interests = {e \in {"readable", "writable"} :
                                \/ e = "readable" /\ ~d.paused
                                \/ e = "writable" /\ d.output # <<>>}]

\* close_now: the channel is unregistered, the socket closed.
close_now(d, why) == [d EXCEPT !.open = FALSE, !.interests = {}, !.reason = why]

\* shutdown(2) may fail; then nothing is updated.
shutdown_write_now(d) ==
    {d} \cup {update_interest([d EXCEPT !.shutDone = TRUE])}

\* Mutant of FlushedAll: a half close is noticed before a pending close.
FlushedAllUnclosed(d) ==
    IF d.shutRequested /\ ~d.shutDone THEN shutdown_write_now(d)
    ELSE {update_interest(d)}

\* The end of flush_output, with nothing left to write.
FlushedAll(d) ==
    IF d.flushing THEN {close_now(d, "flushed")}
    ELSE IF d.shutRequested /\ ~d.shutDone THEN shutdown_write_now(d)
    ELSE {update_interest(d)}

\* consume_output and BufferChain::remove_prefix
consume_output(d, n) == [d EXCEPT !.output = SubSeq(@, n + 1, Len(@))]

\* flush_output: writes until the socket is full (EAGAIN) or the chain empty.
flush_output(d, k) ==
    LET n == Least(KernelRoom - Len(k), Len(d.output))
        rest == consume_output(d, n)
        k1 == k \o SubSeq(d.output, 1, n)
    IN IF peer.reset /\ d.output # <<>> THEN {<<close_now(d, "error"), k>>}
       ELSE IF rest.output # <<>> THEN {<<update_interest(rest), k1>>}
       ELSE {<<d1, k1>> : d1 \in FlushedAll(rest)}

Writable == c.open /\ ~c.shutRequested /\ ~c.shutDone
Fits(n) == Len(c.output) + n <= HighWatermark
Numbered(n) == [j \in 1..n |-> accepted + j]

-----------------------------------------------------------------------------
(* User code: between events (a command of a handle) or inside on_read.     *)

UserRuns == at \in {"idle", "callback"}
Loop == UNCHANGED <<peer, handled, at, events, consumed>>

\* send(Buffer); over the watermark it answers Backpressure and changes nothing.
SendBuffer(n) ==
    /\ UserRuns /\ Writable /\ Fits(n) /\ accepted + n <= MaxBytes
    /\ \E r \in flush_output([c EXCEPT !.output = @ \o Numbered(n)], kernel) :
          c' = r[1] /\ kernel' = r[2]
    /\ accepted' = accepted + n
    /\ Loop

\* Mutant of SendsDirectly: what is queued is overtaken.
SendsAlways == TRUE

\* send(BufferView) writes to the socket itself only when nothing is queued.
SendsDirectly == c.output = <<>>

SendView(n) ==
    /\ UserRuns /\ Writable /\ Fits(n) /\ accepted + n <= MaxBytes
    /\ LET direct == IF SendsDirectly /\ ~peer.reset
                     THEN Least(KernelRoom - Len(kernel), n) ELSE 0
           k1 == kernel \o SubSeq(Numbered(n), 1, direct)
           left == SubSeq(Numbered(n), direct + 1, n)
       IN IF SendsDirectly /\ peer.reset
          THEN c' = close_now(c, "error") /\ UNCHANGED kernel
          ELSE IF left = <<>> THEN UNCHANGED c /\ kernel' = k1
          ELSE \E r \in flush_output([c EXCEPT !.output = @ \o left], k1) :
                  c' = r[1] /\ kernel' = r[2]
    /\ accepted' = accepted + n
    /\ Loop

close_after_flush ==
    /\ UserRuns /\ c.open
    /\ LET d == [c EXCEPT !.paused = TRUE, !.flushing = TRUE]
       IN c' = IF d.output = <<>> THEN close_now(d, "flushed") ELSE update_interest(d)
    /\ UNCHANGED <<kernel, accepted>> /\ Loop

\* Mutant of shutdown_write: the half close does not wait for the output.
ShutdownAtOnce ==
    /\ UserRuns /\ c.open /\ ~c.shutDone
    /\ c' \in shutdown_write_now([c EXCEPT !.shutRequested = TRUE])
    /\ UNCHANGED <<kernel, accepted>> /\ Loop

shutdown_write ==
    /\ UserRuns /\ c.open /\ ~c.shutDone
    /\ LET d == [c EXCEPT !.shutRequested = TRUE]
       IN c' \in IF d.output # <<>> THEN {update_interest(d)} ELSE shutdown_write_now(d)
    /\ UNCHANGED <<kernel, accepted>> /\ Loop

PauseOrResume ==
    /\ UserRuns /\ c.open
    /\ \E p \in BOOLEAN : c' = update_interest([c EXCEPT !.paused = p])
    /\ UNCHANGED <<kernel, accepted>> /\ Loop

CloseLocally ==
    /\ UserRuns /\ c.open
    /\ c' = close_now(c, "local")
    /\ UNCHANGED <<kernel, accepted>> /\ Loop

-----------------------------------------------------------------------------
(* The reactor: level-triggered events for the channel's interests.  An     *)
(* error or a hangup is reported unless the channel has no interest at all. *)

Unread == peer.sent - handled

Ready ==
    {e \in {"readable", "writable", "hangup", "error"} :
        /\ c.interests # {}
        /\ \/ /\ e = "readable" /\ e \in c.interests
              /\ Unread > 0 \/ peer.fin \/ peer.reset
           \/ /\ e = "writable" /\ e \in c.interests
              /\ Len(kernel) < KernelRoom \/ peer.reset
           \/ e = "hangup" /\ (peer.fin \/ peer.reset)
           \/ e = "error" /\ peer.reset}

\* on_event: an error closes at once.
on_event ==
    /\ at = "idle" /\ c.open /\ Ready # {}
    /\ IF "error" \in Ready
       THEN c' = close_now(c, "error") /\ UNCHANGED <<at, events, consumed>>
       ELSE at' = "read" /\ events' = Ready /\ consumed' = 0 /\ UNCHANGED c
    /\ UNCHANGED <<kernel, peer, handled, accepted>>

\* One turn of read_available; on_read runs until CallbackReturns.
read_available ==
    /\ at = "read"
    /\ LET reads == c.open /\ ~c.paused /\ "readable" \in events /\ consumed < ReadBudget
       IN \/ /\ reads /\ Unread > 0 /\ ~peer.reset
             /\ handled' = handled + 1 /\ consumed' = consumed + 1
             /\ at' = "callback" /\ UNCHANGED c
          \/ /\ reads /\ ((Unread = 0 /\ peer.fin) \/ peer.reset)
             /\ c' = close_now(c, IF peer.reset THEN "error" ELSE "peer")
             /\ at' = "write" /\ UNCHANGED <<handled, consumed>>
          \/ /\ ~reads \/ (Unread = 0 /\ ~peer.fin /\ ~peer.reset)
             /\ at' = "write" /\ UNCHANGED <<c, handled, consumed>>
    /\ UNCHANGED <<kernel, peer, accepted, events>>

CallbackReturns ==
    /\ at = "callback" /\ at' = "read"
    /\ UNCHANGED <<c, kernel, peer, handled, accepted, events, consumed>>

\* The rest of on_event: flush_output, then the hangup.
WriteAndHangup ==
    /\ at = "write" /\ at' = "idle"
    /\ \E r \in IF c.open /\ "writable" \in events THEN flush_output(c, kernel)
                ELSE {<<c, kernel>>} :
          /\ c' = IF r[1].open /\ "hangup" \in events THEN close_now(r[1], "peer") ELSE r[1]
          /\ kernel' = r[2]
    /\ events' = {} /\ consumed' = 0
    /\ UNCHANGED <<peer, handled, accepted>>

-----------------------------------------------------------------------------
(* The peer.                                                                *)

Owner == UNCHANGED <<c, handled, accepted, at, events, consumed>>

PeerReads ==
    /\ kernel # <<>> /\ ~peer.reset
    /\ peer' = [peer EXCEPT !.read = Append(@, Head(kernel))]
    /\ kernel' = Tail(kernel)
    /\ Owner

PeerSends ==
    /\ c.open /\ ~peer.fin /\ ~peer.reset /\ peer.sent < MaxBytes
    /\ peer' = [peer EXCEPT !.sent = @ + 1]
    /\ UNCHANGED kernel /\ Owner

PeerCloses ==
    /\ c.open /\ ~peer.reset
    /\ \/ ~peer.fin /\ peer' = [peer EXCEPT !.fin = TRUE]
       \/ peer' = [peer EXCEPT !.reset = TRUE]
    /\ UNCHANGED kernel /\ Owner

Next ==
    \/ \E n \in 1..2 : SendBuffer(n) \/ SendView(n)
    \/ close_after_flush \/ shutdown_write \/ PauseOrResume \/ CloseLocally
    \/ on_event \/ read_available \/ CallbackReturns \/ WriteAndHangup
    \/ PeerReads \/ PeerSends \/ PeerCloses

\* The reactor keeps polling, a callback returns, and the peer keeps reading.
Fairness ==
    /\ WF_vars(on_event) /\ WF_vars(read_available)
    /\ WF_vars(CallbackReturns) /\ WF_vars(WriteAndHangup) /\ WF_vars(PeerReads)

Spec == Init /\ [][Next]_vars /\ Fairness

-----------------------------------------------------------------------------

\* What the peer reads are the accepted bytes, in order and none twice, however
\* direct writes, queued buffers and partial writes mix; and while the socket
\* is open every accepted byte is read, in the kernel, or queued.
StreamInOrder ==
    LET stream == peer.read \o kernel \o c.output
    IN /\ \A j \in DOMAIN stream : stream[j] = j
       /\ c.open => Len(stream) = accepted

\* A half close, and the close that close_after_flush asks for, come after the
\* last accepted byte was written.
ClosesAfterOutput ==
    (c.open /\ c.shutDone) \/ c.reason = "flushed" => c.output = <<>>

\* Nobody waits: no output is queued, and no close waits for it.
Quiet == ~c.open \/ (c.output = <<>> /\ ~c.flushing)

\* With a peer that reads, queued output is written, or the connection is
\* closed: the channel never waits without write interest.  A connection that
\* asked to be closed after its output is closed.
OutputSettles == []<>Quiet
=============================================================================
