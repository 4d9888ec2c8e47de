---------------------------- MODULE MCTcpControl ----------------------------
(* TcpControl for model checking: one listener on both shards, no refusals.  *)
EXTENDS TcpControl

OneListener ==
    {[threads |-> <<"a", "b">>, strategy |-> "SingleAcceptor", reuse_port |-> FALSE,
      family |-> "Inet"]}
NoRefusals == {{}}
=============================================================================
