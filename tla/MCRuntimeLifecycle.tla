------------------------- MODULE MCRuntimeLifecycle -------------------------
(* RuntimeLifecycle for model checking: the deployments.                    *)
EXTENDS RuntimeLifecycle

\* Tasks only, with either shutdown policy, and net channels under StopImmediately.
SupportedDeployments ==
    {[wait |-> TRUE, callbacks |-> FALSE], [wait |-> FALSE, callbacks |-> TRUE]}

\* Net channels under WaitForTasks.
WaitingWithCallbacks == {[wait |-> TRUE, callbacks |-> TRUE]}
=============================================================================
