---------------------------- MODULE Backpressure ----------------------------
(***************************************************************************)
(* Where a post goes and what happens when the queue is full.  A post from *)
(* an executor to itself takes the executor's local ring, one to another   *)
(* executor the SPSC queue of the pair, an Ordered post and a post from    *)
(* outside the runtime the target's MPSC queue.  All three are bounded.    *)
(* A post under QueueFullPolicy::Reject fails on a full queue, one under   *)
(* Yield waits; the waits of finish_pending (a task that asked for its own *)
(* next run with pending_on) and finish_again do not look at the policy.   *)
(* An executor waiting for room in its own local ring executes tasks from  *)
(* it meanwhile, nested in the task that waits.                            *)
(*                                                                         *)
(* The queues are what BoundedFifo says of them, without the steps inside  *)
(* an operation; the order in which pop_one serves them is left open       *)
(* (ExecutorLoop has it).                                                  *)
(***************************************************************************)
EXTENDS Naturals, Sequences, FiniteSets, SequencesExt

CONSTANTS
  Executors,     \* a set of naturals
  Tasks,         \* the tasks
  Capacity,      \* of every queue
  Setups,        \* the applications: [policy, reach, modes]
  MaxRuns        \* bound: runs of one task

VARIABLES
  setup,   \* the application; it never changes
  local,   \* local[e]: the executor's own ring
  spsc,    \* spsc[s][d]: from executor s to executor d
  mpsc,    \* mpsc[d]: the external and Ordered ingress of d
  stack,   \* stack[e]: nested execute() calls of e, innermost last
  state,   \* state[t]: TaskState, as far as it matters here
  runs     \* runs[t]: how often t has run

vars == <<setup, local, spsc, mpsc, stack, state, runs>>
queues == <<local, spsc, mpsc>>

RuntimePolicy == setup.policy   \* runtime_queue_full_policy
Reach == setup.reach            \* Reach[e]: the executors that tasks running on e post to
Modes == setup.modes            \* the ScheduleModes that tasks use

\* A call of execute(task); while it waits in a blocking push, item is the
\* task it pushes and <<to, mode>> where to.
Frame(t) == [task |-> t, at |-> "run", item |-> t, to |-> 0, mode |-> "Auto"]
Waiting(t, u, d, m) == [task |-> t, at |-> "push", item |-> u, to |-> d, mode |-> m]

Init ==
  /\ setup \in Setups
  /\ local = [e \in Executors |-> <<>>]
  /\ spsc = [s \in Executors |-> [d \in Executors |-> <<>>]]
  /\ mpsc = [e \in Executors |-> <<>>]
  /\ stack = [e \in Executors |-> <<>>]
  /\ state = [t \in Tasks |-> "Created"]
  /\ runs = [t \in Tasks |-> 0]

-----------------------------------------------------------------------------
(* Routes *)

Route(e, d, m) ==
  IF m = "Ordered" THEN "mpsc" ELSE IF d = e THEN "local" ELSE "spsc"

QueueAt(e, d, m) ==
  CASE Route(e, d, m) = "mpsc"  -> mpsc[d]
    [] Route(e, d, m) = "local" -> local[d]
    [] Route(e, d, m) = "spsc"  -> spsc[e][d]

HasRoom(e, d, m) == Len(QueueAt(e, d, m)) < Capacity

PushTo(e, d, m, t) ==
  \/ /\ Route(e, d, m) = "mpsc"
     /\ mpsc' = [mpsc EXCEPT ![d] = Append(@, t)] /\ UNCHANGED <<local, spsc>>
  \/ /\ Route(e, d, m) = "local"
     /\ local' = [local EXCEPT ![d] = Append(@, t)] /\ UNCHANGED <<spsc, mpsc>>
  \/ /\ Route(e, d, m) = "spsc"
     /\ spsc' = [spsc EXCEPT ![e][d] = Append(@, t)] /\ UNCHANGED <<local, mpsc>>

-----------------------------------------------------------------------------
(* Executing a task *)

Top(e) == Last(stack[e])
SetTop(e, frame) == [stack EXCEPT ![e] = Append(Front(@), frame)]
Drop(e) == [stack EXCEPT ![e] = Front(@)]

\* execute(t) up to the task's run().
Enter(e, t) ==
  /\ stack' = [stack EXCEPT ![e] = Append(@, Frame(t))]
  /\ state' = [state EXCEPT ![t] = "Running"]
  /\ runs' = [runs EXCEPT ![t] = @ + 1]
  /\ UNCHANGED setup

\* run_loop: pop_one found a task in one of the queues of e.
pop_one(e) ==
  /\ stack[e] = <<>>
  /\ \/ /\ local[e] # <<>>
        /\ Enter(e, Head(local[e]))
        /\ local' = [local EXCEPT ![e] = Tail(@)]
        /\ UNCHANGED <<spsc, mpsc>>
     \/ \E s \in Executors :
          /\ spsc[s][e] # <<>>
          /\ Enter(e, Head(spsc[s][e]))
          /\ spsc' = [spsc EXCEPT ![s][e] = Tail(@)]
          /\ UNCHANGED <<local, mpsc>>
     \/ /\ mpsc[e] # <<>>
        /\ Enter(e, Head(mpsc[e]))
        /\ mpsc' = [mpsc EXCEPT ![e] = Tail(@)]
        /\ UNCHANGED <<local, spsc>>

InRun(e) == stack[e] # <<>> /\ Top(e).at = "run"

finish_done(e) ==
  /\ InRun(e)
  /\ state' = [state EXCEPT ![Top(e).task] = "Done"]
  /\ stack' = Drop(e)
  /\ UNCHANGED <<setup, queues, runs>>

\* Mutant of finish_pending: a full queue drops the task under Reject.
PendingByPolicy(e, d, m) ==
  /\ InRun(e) /\ runs[Top(e).task] < MaxRuns
  /\ state' = [state EXCEPT ![Top(e).task] = "Queued"]
  /\ stack' = IF RuntimePolicy = "Reject" /\ ~HasRoom(e, d, m) THEN Drop(e)
              ELSE SetTop(e, Waiting(Top(e).task, Top(e).task, d, m))
  /\ UNCHANGED <<setup, queues, runs>>

\* pending_on(d, m): the post of a running task is Deferred, so it succeeds
\* under either policy; finish_pending then queues the task, waiting for room.
finish_pending(e, d, m) ==
  /\ InRun(e) /\ runs[Top(e).task] < MaxRuns
  /\ state' = [state EXCEPT ![Top(e).task] = "Queued"]
  /\ stack' = SetTop(e, Waiting(Top(e).task, Top(e).task, d, m))
  /\ UNCHANGED <<setup, queues, runs>>

finish_again(e) == finish_pending(e, e, "Auto")

\* start_task of task u from a running task: enqueue_ready_by_policy.
StartTask(e, u, d, m) ==
  /\ InRun(e)
  /\ state[u] = "Created"
  /\ \/ /\ RuntimePolicy = "Yield"
        /\ state' = [state EXCEPT ![u] = "Queued"]
        /\ stack' = SetTop(e, Waiting(Top(e).task, u, d, m))
        /\ UNCHANGED queues
     \/ /\ RuntimePolicy = "Reject" /\ HasRoom(e, d, m)
        /\ state' = [state EXCEPT ![u] = "Queued"]
        /\ PushTo(e, d, m, u)
        /\ UNCHANGED stack
     \/ /\ RuntimePolicy = "Reject" /\ ~HasRoom(e, d, m)
        /\ state' = [state EXCEPT ![u] = "Done"]
        /\ UNCHANGED <<queues, stack>>
  /\ UNCHANGED <<setup, runs>>

InPush(e) == stack[e] # <<>> /\ Top(e).at = "push"

\* After a blocking push the task goes on, unless it pushed itself.
AfterPush(e) ==
  IF Top(e).item = Top(e).task THEN Drop(e) ELSE SetTop(e, Frame(Top(e).task))

\* enqueue_*_blocking: try_push succeeds.
BlockingPush(e) ==
  LET f == Top(e) IN
  /\ InPush(e)
  /\ HasRoom(e, f.to, f.mode)
  /\ PushTo(e, f.to, f.mode, f.item)
  /\ stack' = AfterPush(e)
  /\ UNCHANGED <<setup, state, runs>>

\* Mutant of ExecuteNested: the executor only waits for room in its own ring.
SpinOnLocal(e) ==
  /\ InPush(e)
  /\ Route(e, Top(e).to, Top(e).mode) = "local"
  /\ ~HasRoom(e, Top(e).to, Top(e).mode)
  /\ UNCHANGED vars

\* enqueue_local_from_runtime_thread_blocking: the ring is full, so a task is
\* taken from it and executed here.
ExecuteNested(e) ==
  /\ InPush(e)
  /\ Route(e, Top(e).to, Top(e).mode) = "local"
  /\ ~HasRoom(e, Top(e).to, Top(e).mode)
  /\ Enter(e, Head(local[e]))
  /\ local' = [local EXCEPT ![e] = Tail(@)]
  /\ UNCHANGED <<spsc, mpsc>>

\* A thread outside the runtime starts task u; on a full MPSC queue it is
\* refused or waits, which holds up no executor.
ExternalPost(u, d) ==
  /\ state[u] = "Created"
  /\ Len(mpsc[d]) < Capacity
  /\ mpsc' = [mpsc EXCEPT ![d] = Append(@, u)]
  /\ state' = [state EXCEPT ![u] = "Queued"]
  /\ UNCHANGED <<setup, local, spsc, stack, runs>>

Run(e) ==
  \/ pop_one(e)
  \/ finish_done(e)
  \/ finish_again(e)
  \/ \E d \in Reach[e], m \in Modes :
       \/ finish_pending(e, d, m)
       \/ \E u \in Tasks : StartTask(e, u, d, m)
  \/ BlockingPush(e)
  \/ ExecuteNested(e)

Next ==
  \/ \E e \in Executors : Run(e)
  \/ \E u \in Tasks, d \in Executors : ExternalPost(u, d)

\* Executors keep running, and a task's run() returns.
Fairness == \A e \in Executors : WF_vars(Run(e))

Spec == Init /\ [][Next]_vars /\ Fairness

-----------------------------------------------------------------------------
(* Properties *)

\* How often t is queued: in a queue, or in the hands of a push that waits.
Queuings(t) ==
  LET In(q) == Cardinality({i \in DOMAIN q : q[i] = t})
      On(e) == In(local[e]) + In(mpsc[e]) + MapThenSumSet(LAMBDA s : In(spsc[s][e]), Executors)
               + Cardinality({i \in DOMAIN stack[e] : stack[e][i].at = "push" /\ stack[e][i].item = t})
  IN  MapThenSumSet(On, Executors)

\* The nested execute() calls that t is running in.
Runnings(t) ==
  {<<e, i>> \in Executors \X (1 .. Cardinality(Tasks)) :
     /\ i \in DOMAIN stack[e]
     /\ stack[e][i].task = t
     /\ stack[e][i].at = "push" => stack[e][i].item # t}

\* Through full queues, waits and nested execution a task is never lost and
\* never in two places: a Queued task is in one queue or one waiting push, a
\* Running task in one execute() call of one executor.
TaskInOnePlace ==
  \A t \in Tasks :
    /\ Queuings(t) = IF state[t] = "Queued" THEN 1 ELSE 0
    /\ Cardinality(Runnings(t)) = IF state[t] = "Running" THEN 1 ELSE 0

\* The executor waits for room that another thread has to make.
Blocked(e) ==
  /\ InPush(e)
  /\ Route(e, Top(e).to, Top(e).mode) # "local"
  /\ ~HasRoom(e, Top(e).to, Top(e).mode)

\* Under Reject no producer is stuck in a post ("Reject: a failed enqueue returns
\* false at once and does not block the producer"): no executors wait for room
\* that only they themselves could make.
RejectNeverSticks ==
  RuntimePolicy = "Reject" =>
    \A S \in SUBSET Executors \ {{}} : \E e \in S : ~Blocked(e) \/ Top(e).to \notin S

\* Nobody waits: every task that was started has ended.
Quiet == \A t \in Tasks : state[t] \in {"Created", "Done"}

\* When the executors that post to one another form no cycle, full queues only
\* delay: every queued task runs to its end, including tasks that fan out on
\* their own executor with a full local ring.
QueuedTasksEnd == []<>Quiet
=============================================================================
