-------------------------- MODULE RuntimeLifecycle --------------------------
(***************************************************************************)
(* init() and shutdown() against concurrent posts: the status, the         *)
(* generation, the counters of external posts and of unfinished tasks, the *)
(* task registry, and the executors that run, finish or abandon tasks.     *)
(* A step is one atomic access; the sleep of an idle executor is the       *)
(* business of ExecutorLoop and is left out here.                          *)
(***************************************************************************)
EXTENDS Integers, FiniteSets

CONSTANTS
    Controllers,    \* non-runtime threads that call init() and shutdown()
    Posters,        \* non-runtime threads that post tasks
    ThreadCount,    \* executors are 0..ThreadCount - 1
    Tasks,
    Waiters,        \* tasks that wait for an event once, before they finish
    Deployments,    \* [wait: ShutdownPolicy is WaitForTasks, not StopImmediately,
                    \*  callbacks: callbacks of net channels post tasks as well]
    Capacity,       \* bound: tasks of one executor's queue
    MaxInits        \* bound: calls of init()

Executors == 0..ThreadCount - 1
Callers == Posters \cup Executors

ASSUME LifecycleParameters ==
    /\ ThreadCount \in Nat \ {0} /\ Capacity \in Nat \ {0} /\ MaxInits \in Nat
    /\ Deployments \subseteq [wait : BOOLEAN, callbacks : BOOLEAN]
    /\ Posters \cap Executors = {} /\ Waiters \subseteq Tasks

VARIABLES
    status, generation,
    active,         \* active_external_posts_
    unfinished,     \* unfinished_tasks_
    registry,       \* the registered tasks (StopImmediately)
    built,          \* executors_ and the queues exist
    queue,          \* queue[x]: tasks queued for x
    stop,           \* stop_requested_ of each executor
    tstate,         \* state of each task
    xpc, didWork, cur,              \* executors: program point, did_work, running task
    ppc, ptask, ptarget, pgen,      \* callers of post(): program point and locals
    cpc, ci, seen,                  \* controllers: program point, index, value waited on
    accepted,       \* history: tasks whose post returned true
    events,         \* pending tasks whose event has arrived
    waited,         \* tasks that have waited
    deploy          \* the deployment that runs

runtime == <<status, generation, built, stop>>
counts == <<active, unfinished>>
tasks == <<registry, queue, tstate>>
executors == <<xpc, didWork, cur>>
posts == <<ppc, ptask, ptarget, pgen>>
controls == <<cpc, ci, seen>>
waits == <<events, waited>>
rest == <<accepted, waits, deploy>>
vars == <<runtime, counts, tasks, executors, posts, controls, rest>>

WaitForTasks == deploy.wait
IoCallbacks == deploy.callbacks

NoTask == "none"
Status == {"Stopped", "Starting", "Running", "Stopping"}
XPc == {"none", "loop", "body", "posted", "unregister", "uncount", "notifyIdle", "checkStop", "poll",
        "callback", "exited"}
PPc == {"idle", "status", "enter", "recheckStatus", "recheckGen", "schedule", "register", "count",
        "enqueue", "unregister", "uncount", "notifyIdle", "cancel", "leave", "notify"}
CPc == {"idle", "build", "start", "publish", "loadPosts", "waitPosts", "parkedPosts", "loadIdle",
        "waitIdle", "parkedIdle", "stop", "join", "cancel", "clear", "publishStopped"}

Init ==
    /\ status = "Stopped" /\ generation = 0
    /\ active = [x \in Executors |-> 0] /\ unfinished = 0
    /\ registry = {} /\ built = FALSE
    /\ queue = [x \in Executors |-> {}] /\ stop = [x \in Executors |-> FALSE]
    /\ tstate = [t \in Tasks |-> "Created"]
    /\ xpc = [x \in Executors |-> "none"] /\ didWork = [x \in Executors |-> FALSE]
    /\ cur = [x \in Executors |-> NoTask]
    /\ ppc = [c \in Callers |-> "idle"] /\ ptask = [c \in Callers |-> NoTask]
    /\ ptarget = [c \in Callers |-> 0] /\ pgen = [c \in Callers |-> 0]
    /\ cpc = [k \in Controllers |-> "idle"] /\ ci = [k \in Controllers |-> 0]
    /\ seen = [k \in Controllers |-> 0]
    /\ accepted = {} /\ events = {} /\ waited = {} /\ deploy \in Deployments

PGo(c, l) == ppc' = [ppc EXCEPT ![c] = l] /\ UNCHANGED <<ptask, ptarget, pgen>>
XGo(x, l) == xpc' = [xpc EXCEPT ![x] = l]
CGo(k, l) == cpc' = [cpc EXCEPT ![k] = l] /\ UNCHANGED <<ci, seen>>

\* notify_all() on a counter: a parked waiter compares its value again.
Unpark(from, to) ==
    /\ cpc' = [k \in Controllers |-> IF cpc[k] = from THEN to ELSE cpc[k]]
    /\ UNCHANGED <<ci, seen>>

-----------------------------------------------------------------------------
(* post()                                                                   *)

PostReturn(c) ==
    /\ ppc' = [ppc EXCEPT ![c] = "idle"]
    /\ ptask' = [ptask EXCEPT ![c] = NoTask]
    /\ ptarget' = [ptarget EXCEPT ![c] = 0]
    /\ pgen' = [pgen EXCEPT ![c] = 0]

\* A caller has a handle of a task nobody else is posting.
PostBegin(c) ==
    /\ ppc[c] = "idle"
    /\ \E t \in Tasks, x \in Executors :
        /\ tstate[t] = "Created" /\ \A d \in Callers : ptask[d] # t
        /\ ptask' = [ptask EXCEPT ![c] = t]
        /\ ptarget' = [ptarget EXCEPT ![c] = x]
    /\ pgen' = [pgen EXCEPT ![c] = IF c \in Executors THEN 0 ELSE generation]
    /\ ppc' = [ppc EXCEPT ![c] = "status"]
    /\ UNCHANGED <<runtime, counts, tasks, controls, rest>>

ExternalPost(p) == PostBegin(p) /\ UNCHANGED executors

\* try_enter_post
LoadStatus(c) ==
    /\ ppc[c] = "status"
    /\ LET ok == status = "Running" \/ (c \in Executors /\ WaitForTasks /\ status = "Stopping")
       IN \/ ok /\ PGo(c, IF c \in Executors THEN "schedule" ELSE "enter")
          \/ ~ok /\ PostReturn(c)
    /\ UNCHANGED <<runtime, counts, tasks, executors, controls, rest>>

EnterPost(c) ==
    /\ ppc[c] = "enter"
    /\ active' = [active EXCEPT ![ptarget[c]] = @ + 1]
    /\ PGo(c, "recheckStatus")
    /\ UNCHANGED <<runtime, unfinished, tasks, executors, controls, rest>>

\* Mutant of RecheckStatus: the status is not loaded again.
TrustStatus(c) ==
    /\ ppc[c] = "recheckStatus"
    /\ PGo(c, "recheckGen")
    /\ UNCHANGED <<runtime, counts, tasks, executors, controls, rest>>

RecheckStatus(c) ==
    /\ ppc[c] = "recheckStatus"
    /\ PGo(c, IF status = "Running" THEN "recheckGen" ELSE "leave")
    /\ UNCHANGED <<runtime, counts, tasks, executors, controls, rest>>

RecheckGeneration(c) ==
    /\ ppc[c] = "recheckGen"
    /\ PGo(c, IF generation = pgen[c] THEN "schedule" ELSE "leave")
    /\ UNCHANGED <<runtime, counts, tasks, executors, controls, rest>>

RequestSchedule(c) ==
    /\ ppc[c] = "schedule"
    /\ tstate' = [tstate EXCEPT ![ptask[c]] = "Queued"]
    /\ PGo(c, IF WaitForTasks THEN "count" ELSE "register")
    /\ UNCHANGED <<runtime, counts, registry, queue, executors, controls, rest>>

\* on_task_started: the registry exists under StopImmediately, the counter
\* counts under WaitForTasks.
RegisterTask(c) ==
    /\ ppc[c] = "register"
    /\ registry' = registry \cup {ptask[c]}
    /\ PGo(c, "enqueue")
    /\ UNCHANGED <<runtime, counts, queue, tstate, executors, controls, rest>>

CountTask(c) ==
    /\ ppc[c] = "count"
    /\ unfinished' = unfinished + 1
    /\ PGo(c, "enqueue")
    /\ UNCHANGED <<runtime, active, tasks, executors, controls, rest>>

\* enqueue_ready_by_policy under Reject; a full queue refuses the task.
Enqueue(c) ==
    /\ ppc[c] = "enqueue"
    /\ LET x == ptarget[c] IN
       \/ /\ Cardinality(queue[x]) < Capacity
          /\ queue' = [queue EXCEPT ![x] = @ \cup {ptask[c]}]
          /\ accepted' = accepted \cup {ptask[c]}
          /\ IF c \in Executors THEN PostReturn(c) ELSE PGo(c, "leave")
       \/ /\ Cardinality(queue[x]) >= Capacity
          /\ PGo(c, IF WaitForTasks THEN "uncount" ELSE "unregister")
          /\ UNCHANGED <<queue, accepted>>
    /\ UNCHANGED <<runtime, counts, registry, tstate, executors, controls, waits, deploy>>

\* on_task_finished and cancel_schedule of a refused task
UnregisterRefused(c) ==
    /\ ppc[c] = "unregister"
    /\ registry' = registry \ {ptask[c]}
    /\ PGo(c, "cancel")
    /\ UNCHANGED <<runtime, counts, queue, tstate, executors, controls, rest>>

UncountRefused(c) ==
    /\ ppc[c] = "uncount"
    /\ unfinished' = unfinished - 1
    /\ PGo(c, IF unfinished = 1 THEN "notifyIdle" ELSE "cancel")
    /\ UNCHANGED <<runtime, active, tasks, executors, controls, rest>>

NotifyRefused(c) ==
    /\ ppc[c] = "notifyIdle"
    /\ Unpark("parkedIdle", "waitIdle")
    /\ PGo(c, "cancel")
    /\ UNCHANGED <<runtime, counts, tasks, executors, rest>>

CancelSchedule(c) ==
    /\ ppc[c] = "cancel"
    /\ tstate' = [tstate EXCEPT ![ptask[c]] = "Created"]
    /\ IF c \in Executors THEN PostReturn(c) ELSE PGo(c, "leave")
    /\ UNCHANGED <<runtime, counts, registry, queue, executors, controls, rest>>

\* Mutant of LeavePost: the last post to leave notifies nobody.
LeaveSilently(c) ==
    /\ ppc[c] = "leave"
    /\ active' = [active EXCEPT ![ptarget[c]] = @ - 1]
    /\ PostReturn(c)
    /\ UNCHANGED <<runtime, unfinished, tasks, executors, controls, rest>>

LeavePost(c) ==
    /\ ppc[c] = "leave"
    /\ active' = [active EXCEPT ![ptarget[c]] = @ - 1]
    /\ IF active[ptarget[c]] = 1 THEN PGo(c, "notify") ELSE PostReturn(c)
    /\ UNCHANGED <<runtime, unfinished, tasks, executors, controls, rest>>

NotifyLeft(c) ==
    /\ ppc[c] = "notify"
    /\ cpc' = [k \in Controllers |-> IF cpc[k] = "parkedPosts" /\ ci[k] = ptarget[c]
                                     THEN "waitPosts" ELSE cpc[k]]
    /\ PostReturn(c)
    /\ UNCHANGED <<runtime, counts, tasks, executors, ci, seen, rest>>

ContinuePost(c) ==
    \/ LoadStatus(c) \/ EnterPost(c) \/ RecheckStatus(c) \/ RecheckGeneration(c)
    \/ RequestSchedule(c) \/ RegisterTask(c) \/ CountTask(c) \/ Enqueue(c)
    \/ UnregisterRefused(c) \/ UncountRefused(c) \/ NotifyRefused(c) \/ CancelSchedule(c)
    \/ LeavePost(c) \/ NotifyLeft(c)

-----------------------------------------------------------------------------
(* Executors: run_loop(), execute() and on_task_finished()                  *)

PopTask(x) ==
    /\ xpc[x] = "loop"
    /\ \/ \E t \in queue[x] :
            /\ queue' = [queue EXCEPT ![x] = @ \ {t}]
            /\ tstate' = [tstate EXCEPT ![t] = "Running"]
            /\ cur' = [cur EXCEPT ![x] = t]
            /\ didWork' = [didWork EXCEPT ![x] = TRUE]
            /\ XGo(x, "body")
       \/ /\ queue[x] = {}
          /\ XGo(x, "checkStop")
          /\ UNCHANGED <<queue, tstate, cur, didWork>>
    /\ UNCHANGED <<runtime, counts, registry, posts, controls, rest>>

\* The body of a task posts another task; bound: one in a run.
TaskPost(x) ==
    /\ xpc[x] = "body"
    /\ PostBegin(x)
    /\ XGo(x, "posted")
    /\ UNCHANGED <<didWork, cur>>

FinishPending(x) ==
    /\ xpc[x] \in {"body", "posted"} /\ ppc[x] = "idle" /\ cur[x] \in Waiters \ waited
    /\ tstate' = [tstate EXCEPT ![cur[x]] = "Pending"]
    /\ waited' = waited \cup {cur[x]}
    /\ cur' = [cur EXCEPT ![x] = NoTask]
    /\ XGo(x, "loop")
    /\ UNCHANGED <<runtime, counts, registry, queue, didWork, posts, controls, accepted, events, deploy>>

FinishDone(x) ==
    /\ xpc[x] \in {"body", "posted"} /\ ppc[x] = "idle"
    /\ tstate' = [tstate EXCEPT ![cur[x]] = "Done"]
    /\ XGo(x, IF WaitForTasks THEN "uncount" ELSE "unregister")
    /\ UNCHANGED <<runtime, counts, registry, queue, didWork, cur, posts, controls, rest>>

UnregisterTask(x) ==
    /\ xpc[x] = "unregister"
    /\ registry' = registry \ {cur[x]}
    /\ cur' = [cur EXCEPT ![x] = NoTask]
    /\ XGo(x, "loop")
    /\ UNCHANGED <<runtime, counts, queue, tstate, didWork, posts, controls, rest>>

UncountTask(x) ==
    /\ xpc[x] = "uncount"
    /\ unfinished' = unfinished - 1
    /\ cur' = [cur EXCEPT ![x] = NoTask]
    /\ XGo(x, IF unfinished = 1 THEN "notifyIdle" ELSE "loop")
    /\ UNCHANGED <<runtime, active, tasks, didWork, posts, controls, rest>>

NotifyIdle(x) ==
    /\ xpc[x] = "notifyIdle"
    /\ Unpark("parkedIdle", "waitIdle")
    /\ XGo(x, "loop")
    /\ UNCHANGED <<runtime, counts, tasks, didWork, cur, posts, rest>>

CheckStop(x) ==
    /\ xpc[x] = "checkStop"
    /\ XGo(x, IF ~stop[x] THEN "poll" ELSE IF didWork[x] THEN "loop" ELSE "exited")
    /\ didWork' = [didWork EXCEPT ![x] = FALSE]
    /\ UNCHANGED <<runtime, counts, tasks, cur, posts, controls, rest>>

\* What a pending task waits for happens.
EventArrives(t) ==
    /\ tstate[t] = "Pending" /\ t \notin events
    /\ events' = events \cup {t}
    /\ UNCHANGED <<runtime, counts, tasks, executors, posts, controls, accepted, waited, deploy>>

\* poll_io with nothing to do
PollNothing(x) ==
    /\ xpc[x] = "poll" /\ events = {}
    /\ XGo(x, "loop")
    /\ UNCHANGED <<runtime, counts, tasks, didWork, cur, posts, controls, rest>>

\* An event completes the wait of a pending task: enqueue_pending_blocking.  The
\* executor works off a full queue first.
PollCompletes(x) ==
    /\ xpc[x] = "poll"
    /\ \/ /\ Cardinality(queue[x]) < Capacity
          /\ \E t \in events :
                /\ tstate' = [tstate EXCEPT ![t] = "Queued"]
                /\ queue' = [queue EXCEPT ![x] = @ \cup {t}]
                /\ events' = events \ {t}
       \/ /\ Cardinality(queue[x]) >= Capacity
          /\ UNCHANGED <<tstate, queue, events>>
    /\ XGo(x, "loop")
    /\ UNCHANGED <<runtime, counts, registry, didWork, cur, posts, controls, accepted, waited, deploy>>

\* An event calls a channel's callback, which posts a task.
PollCallback(x) ==
    /\ IoCallbacks
    /\ xpc[x] = "poll"
    /\ PostBegin(x)
    /\ XGo(x, "callback")
    /\ UNCHANGED <<didWork, cur>>

CallbackReturns(x) ==
    /\ xpc[x] = "callback" /\ ppc[x] = "idle"
    /\ XGo(x, "loop")
    /\ UNCHANGED <<runtime, counts, tasks, didWork, cur, posts, controls, rest>>

RunLoop(x) ==
    \/ PopTask(x) \/ TaskPost(x) \/ FinishPending(x) \/ FinishDone(x)
    \/ UnregisterTask(x) \/ UncountTask(x) \/ NotifyIdle(x) \/ CheckStop(x)
    \/ PollNothing(x) \/ PollCompletes(x) \/ PollCallback(x) \/ CallbackReturns(x)

-----------------------------------------------------------------------------
(* init() and shutdown()                                                    *)

InitCas(k) ==
    /\ cpc[k] = "idle" /\ generation < MaxInits
    /\ status = "Stopped"
    /\ status' = "Starting"
    /\ CGo(k, "build")
    /\ UNCHANGED <<generation, built, stop, counts, tasks, executors, posts, rest>>

InitBuild(k) ==
    /\ cpc[k] = "build"
    /\ generation' = generation + 1
    /\ registry' = {}
    /\ built' = TRUE
    /\ queue' = [x \in Executors |-> {}]
    /\ stop' = [x \in Executors |-> FALSE]
    /\ CGo(k, "start")
    /\ UNCHANGED <<status, counts, tstate, executors, posts, rest>>

InitStart(k) ==
    /\ cpc[k] = "start"
    /\ xpc' = [x \in Executors |-> "loop"]
    /\ didWork' = [x \in Executors |-> FALSE]
    /\ CGo(k, "publish")
    /\ UNCHANGED <<runtime, counts, tasks, cur, posts, rest>>

InitPublish(k) ==
    /\ cpc[k] = "publish"
    /\ status' = "Running"
    /\ CGo(k, "idle")
    /\ UNCHANGED <<generation, built, stop, counts, tasks, executors, posts, rest>>

ShutdownCas(k) ==
    /\ cpc[k] = "idle"
    /\ status = "Running"
    /\ status' = "Stopping"
    /\ CGo(k, "loadPosts")
    /\ UNCHANGED <<generation, built, stop, counts, tasks, executors, posts, rest>>

\* The next executor, or the next phase after the last one.
Advance(k, same, after) ==
    LET last == ci[k] = ThreadCount - 1 IN
    /\ ci' = [ci EXCEPT ![k] = IF last THEN 0 ELSE @ + 1]
    /\ cpc' = [cpc EXCEPT ![k] = IF last THEN after ELSE same]
    /\ UNCHANGED seen

\* Mutant of LoadPosts: shutdown does not wait for the posts inside.
SkipPosts(k) ==
    /\ cpc[k] = "loadPosts"
    /\ Advance(k, "loadPosts", IF WaitForTasks THEN "loadIdle" ELSE "stop")
    /\ UNCHANGED <<runtime, counts, tasks, executors, posts, rest>>

\* wait_for_external_posts: load, then wait(count) until the value differs.
LoadPosts(k) ==
    /\ cpc[k] = "loadPosts"
    /\ LET count == active[ci[k]] IN
       \/ count = 0 /\ Advance(k, "loadPosts", IF WaitForTasks THEN "loadIdle" ELSE "stop")
       \/ /\ count # 0
          /\ seen' = [seen EXCEPT ![k] = count]
          /\ cpc' = [cpc EXCEPT ![k] = "waitPosts"]
          /\ UNCHANGED ci
    /\ UNCHANGED <<runtime, counts, tasks, executors, posts, rest>>

WaitPosts(k) ==
    /\ cpc[k] = "waitPosts"
    /\ CGo(k, IF active[ci[k]] = seen[k] THEN "parkedPosts" ELSE "loadPosts")
    /\ UNCHANGED <<runtime, counts, tasks, executors, posts, rest>>

\* wait_for_idle
LoadIdle(k) ==
    /\ cpc[k] = "loadIdle"
    /\ seen' = [seen EXCEPT ![k] = unfinished]
    /\ cpc' = [cpc EXCEPT ![k] = IF unfinished = 0 THEN "stop" ELSE "waitIdle"]
    /\ UNCHANGED <<runtime, counts, tasks, executors, posts, ci, rest>>

WaitIdle(k) ==
    /\ cpc[k] = "waitIdle"
    /\ CGo(k, IF unfinished = seen[k] THEN "parkedIdle" ELSE "loadIdle")
    /\ UNCHANGED <<runtime, counts, tasks, executors, posts, rest>>

RequestStop(k) ==
    /\ cpc[k] = "stop"
    /\ stop' = [stop EXCEPT ![ci[k]] = TRUE]
    /\ Advance(k, "stop", "join")
    /\ UNCHANGED <<status, generation, built, counts, tasks, executors, posts, rest>>

Join(k) ==
    /\ cpc[k] = "join"
    /\ xpc[ci[k]] = "exited"
    /\ XGo(ci[k], "none")
    /\ Advance(k, "join", "cancel")
    /\ UNCHANGED <<runtime, counts, tasks, didWork, cur, posts, rest>>

\* cancel_registered_task: Pending and Queued tasks become Done.
Cancelled(t) == IF t \in registry /\ tstate[t] \in {"Pending", "Queued"} THEN "Done" ELSE tstate[t]

\* Mutant of CancelTasks: the registry is emptied and its tasks are forgotten.
ForgetTasks(k) ==
    /\ cpc[k] = "cancel"
    /\ registry' = {}
    /\ CGo(k, "clear")
    /\ UNCHANGED <<runtime, counts, queue, tstate, executors, posts, rest>>

CancelTasks(k) ==
    /\ cpc[k] = "cancel"
    /\ tstate' = [t \in Tasks |-> IF WaitForTasks THEN tstate[t] ELSE Cancelled(t)]
    /\ registry' = {}
    /\ CGo(k, "clear")
    /\ UNCHANGED <<runtime, counts, queue, executors, posts, rest>>

\* The executors go, and with them the wait sets that could report an event.
Clear(k) ==
    /\ cpc[k] = "clear"
    /\ built' = FALSE
    /\ queue' = [x \in Executors |-> {}]
    /\ unfinished' = 0
    /\ events' = {}
    /\ CGo(k, "publishStopped")
    /\ UNCHANGED <<status, generation, stop, active, registry, tstate, executors, posts>>
    /\ UNCHANGED <<accepted, waited, deploy>>

PublishStopped(k) ==
    /\ cpc[k] = "publishStopped"
    /\ status' = "Stopped"
    /\ CGo(k, "idle")
    /\ UNCHANGED <<generation, built, stop, counts, tasks, executors, posts, rest>>

ContinueControl(k) ==
    \/ InitBuild(k) \/ InitStart(k) \/ InitPublish(k)
    \/ LoadPosts(k) \/ WaitPosts(k) \/ LoadIdle(k) \/ WaitIdle(k) \/ RequestStop(k) \/ Join(k)
    \/ CancelTasks(k) \/ Clear(k) \/ PublishStopped(k)

Next ==
    \/ \E k \in Controllers : InitCas(k) \/ ShutdownCas(k) \/ ContinueControl(k)
    \/ \E p \in Posters : ExternalPost(p)
    \/ \E c \in Callers : ContinuePost(c)
    \/ \E x \in Executors : RunLoop(x)
    \/ \E t \in Tasks : EventArrives(t)

\* Threads inside init, shutdown or post go on, executors run, and the event a
\* pending task waits for arrives.
Fairness ==
    /\ \A k \in Controllers : WF_vars(ContinueControl(k))
    /\ \A c \in Callers : WF_vars(ContinuePost(c))
    /\ \A x \in Executors : WF_vars(RunLoop(x))
    /\ \A t \in Tasks : WF_vars(EventArrives(t))

Spec == Init /\ [][Next]_vars /\ Fairness

-----------------------------------------------------------------------------
Admitted == {"schedule", "register", "count", "enqueue", "unregister", "uncount", "notifyIdle", "cancel"}

\* A post that try_enter_post let in works on executors and queues that exist,
\* and on those of the generation it entered: shutdown never frees them, and
\* init never replaces them, under it.
PostsSeeLiveQueues ==
    \A c \in Callers : ppc[c] \in Admitted =>
        built /\ status \in {"Running", "Stopping"} /\ (c \in Posters => pgen[c] = generation)

\* shutdown leaves nothing behind: once the runtime is stopped, every task whose
\* post returned true has finished (WaitForTasks) or was cancelled by the registry
\* (StopImmediately).
AcceptedSettle == status = "Stopped" => \A t \in accepted : tstate[t] = "Done"

\* The assertion of cancel_registered_task: with the executors joined, every
\* registered task waits or is queued, and no thread is running or posting it.
CancelsQuietTasks ==
    (\E k \in Controllers : cpc[k] = "cancel") =>
        /\ \A t \in registry : tstate[t] \in {"Pending", "Queued"}
        /\ \A c \in Callers : ppc[c] \notin Admitted
        /\ \A x \in Executors : cur[x] = NoTask

\* shutdown returns: it is never left waiting on a counter whose last decrement
\* it missed, nor on an executor that does not leave its loop.
ShutdownReturns == status = "Stopping" ~> status = "Stopped"
=============================================================================
