----------------------------- MODULE LogWriters -----------------------------
(***************************************************************************)
(* FileLogBackend, UdpLogBackend and TcpLogBackend: write_batch on the     *)
(* consumer's thread, in groups of at most MaxIov records, with the        *)
(* partial writes, the full buffers and the errors the kernel may answer.  *)
(* A byte is a pair <<record, position>>; wire is what reached the file or *)
(* the peer.                                                               *)
(***************************************************************************)
EXTENDS Integers, Sequences, SequencesExt, FiniteSets, FiniteSetsExt

CONSTANTS
    Kinds,      \* "file", "udp", "tcp"
    Sizes,      \* message sizes, 0 included
    MaxRecords, \* bound: records in all
    MaxIov,     \* max_iov_count, max_message_count
    MaxDatagram \* max_datagram_size

VARIABLES
    kind,       \* the backend, chosen at the start
    fd,         \* fd_: closed, connecting (connect_pending_), open
    records,    \* sizes of the records of the batch that wait for a group
    first,      \* number of the first of them
    iovecs,     \* the current group: unsent parts [record, from, to]
    sending,    \* a system call is due for the group
    wire,       \* the bytes written, in order
    owed        \* the bytes of the records given to write_batch, in order, but
                \* for those it gave up after a failed or a full system call

vars == <<kind, fd, records, first, iovecs, sending, wire, owed>>

Init ==
    /\ kind \in Kinds
    /\ fd = "closed"
    /\ records = <<>> /\ first = 1 /\ iovecs = <<>> /\ sending = FALSE
    /\ wire = <<>> /\ owed = <<>>

Idle == records = <<>> /\ ~sending

Length(v) == v.to - v.from + 1
Bytes(v) == [i \in 1..Length(v) |-> <<v.record, v.from + i - 1>>]
Flat(vs) == FlattenSeq([i \in DOMAIN vs |-> Bytes(vs[i])])

\* A datagram is cut to its maximum.
Size(size) == IF kind = "udp" THEN Min({size, MaxDatagram}) ELSE size

\* The parts of records that begin with number n, the empty ones left out as the
\* socket backends do (a file's empty part has no byte to write).
Parts(sizes, n) ==
    SelectSeq([i \in DOMAIN sizes |-> [record |-> n + i - 1, from |-> 1, to |-> Size(sizes[i])]],
              LAMBDA v : v.to > 0)

\* The records the next group takes: as many as fill the iovecs, in which a
\* socket backend puts no empty message.
Taken ==
    LET counted(n) == Cardinality({i \in 1..n : kind = "file" \/ records[i] > 0})
    IN Max({n \in DOMAIN records : counted(n - 1) < MaxIov})

\* open_if_needed, ensure_socket, finish_connect_if_ready: a descriptor that
\* can be written, or none in this call.
ensure_socket ==
    \/ fd' = "open"
    \/ fd # "open" /\ fd' = "closed"
    \/ fd # "open" /\ kind = "tcp" /\ fd' = "connecting"

\* write_batch: the call, which gives up when there is no descriptor.
write_batch(sizes) ==
    /\ Idle /\ first + Len(sizes) - 1 <= MaxRecords
    /\ ensure_socket
    /\ IF fd' = "open"
       THEN records' = sizes /\ owed' = owed \o Flat(Parts(sizes, first)) /\ UNCHANGED first
       ELSE records' = <<>> /\ first' = first + Len(sizes) /\ UNCHANGED owed
    /\ UNCHANGED <<kind, iovecs, sending, wire>>

\* The call returns, and gives up what it has not written.
EndCall == records' = <<>> /\ first' = first + Len(records) /\ owed' = wire

\* send_batch_best_effort, and the loop of FileLogBackend: the next group; a
\* socket closed meanwhile ends the call, and so does a datagram group with
\* nothing to send.
NextGroup ==
    /\ records # <<>> /\ ~sending
    /\ LET group == Parts(SubSeq(records, 1, Taken), first)
           ends == kind # "file" /\ (fd = "closed" \/ (kind = "udp" /\ group = <<>>))
       IN IF ends
          THEN EndCall /\ UNCHANGED <<iovecs, sending>>
          ELSE /\ records' = SubSeq(records, Taken + 1, Len(records)) /\ first' = first + Taken
               /\ iovecs' = group /\ sending' = (group # <<>>)
               /\ UNCHANGED owed
    /\ UNCHANGED <<kind, fd, wire>>

\* Mutant of trim_iovecs: a partly sent message is sent again from its start.
trim_whole[vs \in Seq([record : Int, from : Int, to : Int]), sent \in Int] ==
    IF vs # <<>> /\ sent >= Length(Head(vs))
    THEN trim_whole[Tail(vs), sent - Length(Head(vs))]
    ELSE vs

TrimWhole(vs, sent) == trim_whole[vs, sent]

trim[vs \in Seq([record : Int, from : Int, to : Int]), sent \in Int] ==
    IF vs # <<>> /\ sent >= Length(Head(vs))
    THEN trim[Tail(vs), sent - Length(Head(vs))]
    ELSE IF vs # <<>> /\ sent # 0
    THEN <<[Head(vs) EXCEPT !.from = @ + sent]>> \o Tail(vs)
    ELSE vs

\* trim_iovecs, and the loops after writev and sendmsg.
trim_iovecs(vs, sent) == trim[vs, sent]

\* writev_all, sendmsg_all: the kernel takes some bytes of the group.
StreamSend ==
    /\ sending /\ kind # "udp"
    /\ \E sent \in 1..Len(Flat(iovecs)) :
         /\ wire' = wire \o SubSeq(Flat(iovecs), 1, sent)
         /\ iovecs' = trim_iovecs(iovecs, sent)
    /\ sending' = (iovecs' # <<>>)
    /\ UNCHANGED <<kind, fd, records, first, owed>>

\* sendmmsg_best_effort: it takes some whole datagrams.
DatagramSend ==
    /\ sending /\ kind = "udp"
    /\ \E sent \in 1..Len(iovecs) :
         /\ wire' = wire \o Flat(SubSeq(iovecs, 1, sent))
         /\ iovecs' = SubSeq(iovecs, sent + 1, Len(iovecs))
    /\ sending' = (iovecs' # <<>>)
    /\ UNCHANGED <<kind, fd, records, first, owed>>

\* The rest of the group is given up; a stream goes on with the next group,
\* datagrams end the call.
GiveUp ==
    /\ sending' = FALSE /\ iovecs' = <<>>
    /\ IF kind = "udp"
       THEN EndCall
       ELSE owed' = wire \o Flat(Parts(records, first)) /\ UNCHANGED <<records, first>>

\* EAGAIN (and sendmmsg answering 0).
SendBlocks ==
    /\ sending /\ kind # "file"
    /\ GiveUp
    /\ UNCHANGED <<kind, fd, wire>>

\* Any other error: a socket is closed, a file is kept.
SendFails ==
    /\ sending
    /\ GiveUp
    /\ fd' = IF kind = "file" THEN fd ELSE "closed"
    /\ UNCHANGED <<kind, wire>>

Next ==
    \/ \E n \in 1..3 : \E sizes \in [1..n -> Sizes] : write_batch(sizes)
    \/ NextGroup \/ StreamSend \/ DatagramSend \/ SendBlocks \/ SendFails

Spec == Init /\ [][Next]_vars

-----------------------------------------------------------------------------
\* What reached the file or the peer, then what the current group and the rest
\* of the batch still hold, are the bytes of the records in order: none twice,
\* none skipped, but those given up where a system call failed or was full,
\* whatever the kernel takes of each call.
WireInOrder == wire \o Flat(iovecs) \o Flat(Parts(records, first)) = owed
=============================================================================
