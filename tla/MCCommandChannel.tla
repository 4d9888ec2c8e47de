-------------------------- MODULE MCCommandChannel --------------------------
(* CommandChannel for model checking: one UDP shard that is started once    *)
(* and whose stop is not refused.                                           *)
EXTENDS CommandChannel

OneUdpSocket ==
    [kind : {"udp"}, senders : {Producers}, starts : {1}, refuses : {FALSE}]
=============================================================================
