------------------------------ MODULE TaskWake ------------------------------
(***************************************************************************)
(* One task object, the executors that run it and the threads that post    *)
(* it: the state word, the wake-request slot and the run epoch of          *)
(* BasicTask, with every atomic access a step of its own.  Queues are      *)
(* reduced to the number of entries that name the task.                    *)
(***************************************************************************)
EXTENDS Integers, FiniteSets

CONSTANTS
    Executors,      \* runtime threads
    Wakers,         \* other threads that call post() on the task
    Targets,        \* executors that a post may name
    MaxRuns,        \* bound: runs of one task object
    EpochSpan,      \* 2^46 in the code: values of an epoch packed in a request
    MayReject,      \* QueueFullPolicy::Reject, with a queue that can be full
    HandleKept,     \* the creator keeps its TaskHandle, so the task stays allocated
    Usages          \* the ways a program may use the task, as below

ASSUME Parameters ==
    /\ Targets \subseteq Executors /\ Targets # {}
    /\ "none" \notin Executors
    /\ Executors \cap Wakers = {}
    /\ MaxRuns \in Nat \ {0}
    /\ EpochSpan \in Nat \ {0}
    /\ MayReject \in BOOLEAN
    /\ HandleKept \in BOOLEAN

ASSUME UsageParameters == Usages \subseteq [wakes : Nat \ {0}, pinned : BOOLEAN, objects : Nat]

VARIABLES
    state,      \* state_
    request,    \* requested_thread_
    runEpoch,   \* run_epoch_
    ready,      \* ready[x]: entries of executor x's queues that name the task
    pc,         \* where each thread is inside the runtime
    dest,       \* the thread index argument of each thread's post()
    saw,        \* the TaskState each thread loaded last
    epoch,      \* the run epoch each thread loaded last
    value,      \* the slot value each thread read last
    objects,    \* tasks constructed in the slot so far
    alive,      \* the task is constructed
    usage,      \* how this program uses the task
    home,       \* history: executor of the last run, or "none"
    posts,      \* history: posts begun since the last start of run()
    unseen      \* history: threads whose post no start of run() has followed

task == <<state, request, runEpoch>>
local == <<dest, saw, epoch, value>>
slot == <<objects, alive, usage>>
history == <<home, posts, unseen>>
vars == <<task, ready, pc, local, slot, history>>

Threads == Executors \cup Wakers
TaskState == {"Created", "Queued", "Starting", "Running", "Pending", "Done"}

\* no_requested_thread
None == [epoch |-> 0, target |-> "none"]
Requests == [epoch : Nat, target : Targets]

\* Program points of request_schedule and the functions it calls, of post()
\* after it, and of an executor between try_pop and the return of execute().
SchedulePc == {"load", "cas", "epoch", "slot", "stale", "resolve",
               "resolveEpoch", "clear", "resolveCas", "enqueue", "cancel"}
ExecutePc == {"start", "prepare", "run", "body", "posted", "refused", "doneTake",
              "finished", "pendingTake", "pendingCheck", "pendingCas",
              "pendingPush", "againTake", "againPush"}
Pc == {"idle"} \cup SchedulePc \cup ExecutePc

\* How a program uses the task: the posts that one run arranges (a bound), whether
\* a thread that wakes it names the executor it last ran on, and the tasks that
\* occupy the pool slot in turn (a bound).
MaxWakes == usage.wakes
Pinned == usage.pinned
MaxObjects == usage.objects

Posting(p) == pc[p] \in SchedulePc
Goto(p, l) == pc' = [pc EXCEPT ![p] = l]

pack(e, t) == [epoch |-> e % EpochSpan, target |-> t]
desired(p) == pack(epoch[p], dest[p])

Init ==
    /\ state = "Created" /\ request = None /\ runEpoch = 0
    /\ ready = [x \in Executors |-> 0]
    /\ pc = [p \in Threads |-> "idle"]
    /\ dest = [p \in Threads |-> CHOOSE t \in Targets : TRUE]
    /\ saw = [p \in Threads |-> "Created"]
    /\ epoch = [p \in Threads |-> 0]
    /\ value = [p \in Threads |-> None]
    /\ objects = 1 /\ alive = TRUE /\ usage \in Usages
    /\ home = "none" /\ posts = MaxWakes - 1 /\ unseen = {}

-----------------------------------------------------------------------------
(* post() on the task.  A run arranges at most MaxWakes posts, by the       *)
(* threads it handed itself to or by its own pending_on(); the creator     *)
(* makes the first one.                                                    *)

Call(p, t) ==
    /\ posts < MaxWakes
    /\ posts' = posts + 1
    /\ unseen' = unseen \cup {p}
    /\ dest' = [dest EXCEPT ![p] = t]
    /\ Goto(p, "load")
    /\ UNCHANGED <<task, ready, saw, epoch, value, slot, home>>

WakerPost(w) ==
    /\ pc[w] = "idle"
    /\ \E t \in Targets : (Pinned => home \in {"none", t}) /\ Call(w, t)

PendingOn(x) ==
    /\ pc[x] = "body"
    /\ runEpoch < MaxRuns
    /\ \E t \in Targets : Call(x, t)

\* A post that returns leaves a waker outside the runtime and a task body
\* with the result that pending_on derives from it.
Return(p, ok) ==
    /\ Goto(p, IF p \in Wakers THEN "idle" ELSE IF ok THEN "posted" ELSE "refused")
    /\ unseen' = IF ok THEN unseen ELSE unseen \ {p}
    /\ posts' = IF ok THEN posts ELSE posts - 1
    /\ UNCHANGED home

\* Mutant of LoadState: a Running task is queued like a Pending one.
QueueRunning(p) ==
    /\ pc[p] = "load"
    /\ state # "Starting"
    /\ saw' = [saw EXCEPT ![p] = state]
    /\ \/ /\ state \in {"Created", "Pending", "Running"}
          /\ Goto(p, "cas")
          /\ UNCHANGED history
       \/ /\ state \in {"Queued", "Done"}
          /\ Return(p, FALSE)
    /\ UNCHANGED <<task, ready, dest, epoch, value, slot>>

\* Spinning while the task is Starting is the absence of a step.
LoadState(p) ==
    /\ pc[p] = "load"
    /\ state # "Starting"
    /\ saw' = [saw EXCEPT ![p] = state]
    /\ \/ /\ state \in {"Created", "Pending"}
          /\ Goto(p, "cas")
          /\ UNCHANGED history
       \/ /\ state = "Running"
          /\ Goto(p, "epoch")
          /\ UNCHANGED history
       \/ /\ state \in {"Queued", "Done"}
          /\ Return(p, FALSE)
    /\ UNCHANGED <<task, ready, dest, epoch, value, slot>>

\* Mutant of CasQueued: a store instead of the compare-exchange.
StoreQueued(p) ==
    /\ pc[p] = "cas"
    /\ state' = "Queued"
    /\ Goto(p, "enqueue")
    /\ UNCHANGED <<request, runEpoch, ready, local, slot, history>>

CasQueued(p) ==
    /\ pc[p] = "cas"
    /\ \/ /\ state = saw[p]
          /\ state' = "Queued"
          /\ Goto(p, "enqueue")
       \/ /\ state # saw[p]
          /\ Goto(p, "load")
          /\ UNCHANGED state
    /\ UNCHANGED <<request, runEpoch, ready, local, slot, history>>

LoadEpoch(p) ==
    /\ pc[p] = "epoch"
    /\ epoch' = [epoch EXCEPT ![p] = runEpoch]
    /\ Goto(p, "slot")
    /\ UNCHANGED <<task, ready, dest, saw, value, slot, history>>

RequestSlot(p) ==
    /\ pc[p] = "slot"
    /\ \/ /\ request \in {None, desired(p)}
          /\ request' = desired(p)
          /\ Goto(p, "resolve")
          /\ UNCHANGED <<value, history>>
       \/ /\ request \notin {None, desired(p)}
          /\ request.epoch # epoch[p]
          /\ value' = [value EXCEPT ![p] = request]
          /\ Goto(p, "stale")
          /\ UNCHANGED <<request, history>>
       \/ /\ request \notin {None, desired(p)}
          /\ request.epoch = epoch[p]
          /\ Return(p, FALSE)
          /\ UNCHANGED <<request, value>>
    /\ UNCHANGED <<state, runEpoch, ready, dest, saw, epoch, slot>>

clear_requested_thread_if(v) == request' = IF request = v THEN None ELSE request

ClearStale(p) ==
    /\ pc[p] = "stale"
    /\ clear_requested_thread_if(value[p])
    /\ Goto(p, "epoch")
    /\ UNCHANGED <<state, runEpoch, ready, local, slot, history>>

\* Mutant of ResolveState: a registered request is left to the executor.
ResolveDefers(p) ==
    /\ pc[p] = "resolve"
    /\ Return(p, TRUE)
    /\ UNCHANGED <<task, ready, local, slot>>

ResolveState(p) ==
    /\ pc[p] = "resolve"
    /\ saw' = [saw EXCEPT ![p] = state]
    /\ Goto(p, IF state = "Running" THEN "resolveEpoch" ELSE "clear")
    /\ UNCHANGED <<task, ready, dest, epoch, value, slot, history>>

ResolveEpoch(p) ==
    /\ pc[p] = "resolveEpoch"
    /\ \/ /\ runEpoch = epoch[p]
          /\ Return(p, TRUE)
       \/ /\ runEpoch # epoch[p]
          /\ Goto(p, "clear")
          /\ UNCHANGED history
    /\ UNCHANGED <<task, ready, local, slot>>

ResolveClear(p) ==
    /\ pc[p] = "clear"
    /\ clear_requested_thread_if(desired(p))
    /\ \/ /\ request = desired(p) /\ saw[p] = "Pending"
          /\ Goto(p, "resolveCas")
          /\ UNCHANGED history
       \/ /\ request # desired(p) \/ saw[p] \in {"Queued", "Starting", "Running", "Done"}
          /\ Return(p, TRUE)
    /\ UNCHANGED <<state, runEpoch, ready, local, slot>>

ResolveCas(p) ==
    /\ pc[p] = "resolveCas"
    /\ \/ /\ state = "Pending"
          /\ state' = "Queued"
          /\ Goto(p, "enqueue")
       \/ /\ state # "Pending"
          /\ Goto(p, "resolve")
          /\ UNCHANGED state
    /\ UNCHANGED <<request, runEpoch, ready, local, slot, history>>

\* enqueue_ready_by_policy
Enqueue(p) ==
    /\ pc[p] = "enqueue"
    /\ \/ /\ ready' = [ready EXCEPT ![dest[p]] = @ + 1]
          /\ Return(p, TRUE)
       \/ /\ MayReject
          /\ Goto(p, "cancel")
          /\ UNCHANGED <<ready, history>>
    /\ UNCHANGED <<task, local, slot>>

\* Mutant of CancelSchedule: the refused task stays Queued.
RefuseOnly(p) ==
    /\ pc[p] = "cancel"
    /\ Return(p, FALSE)
    /\ UNCHANGED <<task, ready, local, slot>>

\* cancel_schedule(previous)
CancelSchedule(p) ==
    /\ pc[p] = "cancel"
    /\ state' = IF state = "Queued" THEN saw[p] ELSE state
    /\ Return(p, FALSE)
    /\ UNCHANGED <<request, runEpoch, ready, local, slot>>

Schedule(p) ==
    \/ LoadState(p) \/ CasQueued(p) \/ LoadEpoch(p) \/ RequestSlot(p)
    \/ ClearStale(p) \/ ResolveState(p) \/ ResolveEpoch(p) \/ ResolveClear(p)
    \/ ResolveCas(p) \/ Enqueue(p) \/ CancelSchedule(p)

-----------------------------------------------------------------------------
(* An executor: pop_one(), execute() and the three finish functions.        *)

\* Mutant of PopOne: the entry stays in the queue.
PopKeeps(x) ==
    /\ pc[x] = "idle"
    /\ ready[x] > 0
    /\ Goto(x, "start")
    /\ UNCHANGED <<task, ready, local, slot, history>>

PopOne(x) ==
    /\ pc[x] = "idle"
    /\ ready[x] > 0
    /\ ready' = [ready EXCEPT ![x] = @ - 1]
    /\ Goto(x, "start")
    /\ UNCHANGED <<task, local, slot, history>>

ExecuteCas(x) ==
    /\ pc[x] = "start"
    /\ \/ /\ state = "Queued"
          /\ state' = "Starting"
          /\ Goto(x, "prepare")
       \/ /\ state # "Queued"
          /\ Goto(x, "idle")
          /\ UNCHANGED state
    /\ UNCHANGED <<request, runEpoch, ready, local, slot, history>>

prepare_running_epoch(x) ==
    /\ pc[x] = "prepare"
    /\ runEpoch' = runEpoch + 1
    /\ Goto(x, "run")
    /\ UNCHANGED <<state, request, ready, local, slot, history>>

\* The store of Running, after which run() reads what its wakers wrote.
StoreRunning(x) ==
    /\ pc[x] = "run"
    /\ state' = "Running"
    /\ Goto(x, "body")
    /\ home' = x /\ posts' = 0 /\ unseen' = {}
    /\ UNCHANGED <<request, runEpoch, ready, local, slot>>

\* A task returns Done or Again only when no thread is inside a post of it or
\* will make one.
NoPostInFlight == \A w \in Wakers : ~Posting(w)

FinishDone(x) ==
    /\ pc[x] \in {"body", "refused"}
    /\ NoPostInFlight
    /\ state' = "Done"
    /\ posts' = MaxWakes
    /\ Goto(x, "doneTake")
    /\ UNCHANGED <<request, runEpoch, ready, local, slot, home, unseen>>

FinishAgain(x) ==
    /\ pc[x] = "body"
    /\ NoPostInFlight
    /\ runEpoch < MaxRuns
    /\ state' = "Queued"
    /\ posts' = MaxWakes
    /\ Goto(x, "againTake")
    /\ UNCHANGED <<request, runEpoch, ready, local, slot, home, unseen>>

\* Mutant of FinishPending: no look at the request slot after the store.
PendOnly(x) ==
    /\ pc[x] \in {"body", "posted"}
    /\ runEpoch < MaxRuns
    /\ state' = "Pending"
    /\ Goto(x, "idle")
    /\ UNCHANGED <<request, runEpoch, ready, local, slot, history>>

FinishPending(x) ==
    /\ pc[x] \in {"body", "posted"}
    /\ runEpoch < MaxRuns
    /\ state' = "Pending"
    /\ Goto(x, "pendingTake")
    /\ UNCHANGED <<request, runEpoch, ready, local, slot, history>>

\* The exchange of take_requested_schedule; finish_done and finish_again drop
\* the request.
TakeRequest(x) ==
    /\ \/ pc[x] = "doneTake" /\ Goto(x, "finished")
       \/ pc[x] = "againTake" /\ Goto(x, "againPush")
       \/ pc[x] = "pendingTake" /\ Goto(x, IF request = None THEN "idle" ELSE "pendingCheck")
    /\ value' = [value EXCEPT ![x] = request]
    /\ request' = None
    /\ UNCHANGED <<state, runEpoch, ready, dest, saw, epoch, slot, history>>

CheckEpoch(x) ==
    /\ pc[x] = "pendingCheck"
    /\ Goto(x, IF value[x].epoch = runEpoch THEN "pendingCas" ELSE "idle")
    /\ UNCHANGED <<task, ready, local, slot, history>>

enqueue_pending_blocking(x) ==
    /\ pc[x] = "pendingCas"
    /\ \/ /\ state = "Pending"
          /\ state' = "Queued"
          /\ Goto(x, "pendingPush")
       \/ /\ state # "Pending"
          /\ Goto(x, "idle")
          /\ UNCHANGED state
    /\ UNCHANGED <<request, runEpoch, ready, local, slot, history>>

\* enqueue_ready_blocking: finish_pending pushes to the requested thread,
\* finish_again to its own.
BlockingPush(x) ==
    /\ \/ /\ pc[x] = "pendingPush"
          /\ ready' = [ready EXCEPT ![value[x].target] = @ + 1]
       \/ /\ pc[x] = "againPush"
          /\ ready' = [ready EXCEPT ![x] = @ + 1]
    /\ Goto(x, "idle")
    /\ UNCHANGED <<task, local, slot, history>>

\* on_task_finished and release_lifetime_ref: the last reference destroys the task.
ReleaseTask(x) ==
    /\ pc[x] = "finished"
    /\ alive' = HandleKept
    /\ Goto(x, "idle")
    /\ UNCHANGED <<task, ready, local, objects, usage, history>>

\* make_task reuses the pool slot of a destroyed task.
Recreate ==
    /\ ~alive
    /\ objects < MaxObjects
    /\ NoPostInFlight
    /\ state' = "Created" /\ request' = None /\ runEpoch' = 0
    /\ objects' = objects + 1 /\ alive' = TRUE
    /\ home' = "none" /\ posts' = MaxWakes - 1 /\ unseen' = {}
    /\ UNCHANGED <<ready, pc, local, usage>>

Execute(x) ==
    \/ ExecuteCas(x) \/ prepare_running_epoch(x) \/ StoreRunning(x)
    \/ FinishDone(x) \/ FinishAgain(x) \/ FinishPending(x)
    \/ TakeRequest(x) \/ CheckEpoch(x) \/ enqueue_pending_blocking(x)
    \/ BlockingPush(x) \/ ReleaseTask(x)

Next ==
    \/ \E w \in Wakers : WakerPost(w)
    \/ \E x \in Executors : PendingOn(x) \/ PopOne(x) \/ Execute(x)
    \/ \E p \in Threads : Schedule(p)
    \/ Recreate

\* Every thread keeps running: executors loop, and a post() that was called
\* is continued to its return.
Fairness ==
    /\ \A x \in Executors : WF_vars(PopOne(x)) /\ WF_vars(Execute(x))
    /\ \A p \in Threads : WF_vars(Schedule(p))

Spec == Init /\ [][Next]_vars /\ Fairness

-----------------------------------------------------------------------------
TypeOK ==
    /\ state \in TaskState
    /\ request \in Requests \cup {None}
    /\ runEpoch \in Nat
    /\ ready \in [Executors -> Nat]
    /\ pc \in [Threads -> Pc]
    /\ \A w \in Wakers : pc[w] \in SchedulePc \cup {"idle"}
    /\ dest \in [Threads -> Targets]
    /\ saw \in [Threads -> TaskState]
    /\ epoch \in [Threads -> Nat]
    /\ value \in [Threads -> Requests \cup {None}]
    /\ objects \in Nat /\ alive \in BOOLEAN /\ usage \in Usages
    /\ home \in Executors \cup {"none"} /\ posts \in Int /\ unseen \subseteq Threads

\* A thread holds the claim to the Queued state between the CAS to Queued and the
\* push (or its undo), and between the pop and the CAS to Starting.
Claiming == {"enqueue", "cancel", "start", "pendingPush", "againTake", "againPush"}
Claims(p) == pc[p] \in Claiming

\* A Queued task has exactly one queue entry or one thread about to make or use
\* it, and a task in any other state has none: no two queues ever hold the task,
\* and execute() never pops one that another thread already started.
QueuedOnce ==
    /\ \A x \in Executors : ready[x] <= 1
    /\ \A x, y \in Executors : ready[x] > 0 /\ ready[y] > 0 => x = y
    /\ \A p, q \in Threads : Claims(p) /\ Claims(q) => p = q
    /\ \A x \in Executors, p \in Threads : ready[x] > 0 => ~Claims(p)
    /\ (state = "Queued") <=> \/ \E x \in Executors : ready[x] > 0
                              \/ \E p \in Threads : Claims(p)

\* At most one executor is between the CAS to Starting and the end of run(),
\* however many posts race with it.
RunningPc == {"prepare", "run", "body", "posted", "refused"} \cup SchedulePc
RunsExclusively ==
    \A x, y \in Executors : pc[x] \in RunningPc /\ pc[y] \in RunningPc => x = y

\* What the wake protocol asks of its users: one wake for each run, wakers that
\* name the executor the task last ran on, and fewer runs of a task than epochs.
Contract == Pinned /\ MaxWakes = 1 /\ MaxRuns < EpochSpan

\* Under the contract no AF_ASSERT of the wake protocol can fail: a popped task is
\* Queued, an undone schedule is still Queued, a request taken by finish_pending
\* finds the task Pending or already woken, a post meets neither a Queued nor a
\* Done task, and no request for another target is in the slot.
AssertionsHold ==
    Contract =>
    \A p \in Threads :
        /\ pc[p] \in {"start", "cancel"} => state = "Queued"
        /\ pc[p] = "pendingCas" => state \in {"Pending", "Queued", "Starting", "Running"}
        /\ pc[p] = "load" => state \notin {"Queued", "Done"}
        /\ pc[p] = "slot" /\ request \notin {None, desired(p)} => request.epoch # epoch[p]

\* A post that returned true is never lost: when every thread has left the
\* runtime and no queue names the task, a task still suspended has started
\* run() since each accepted post began.
NoStrandedWake ==
    (\A p \in Threads : pc[p] = "idle") /\ state = "Pending" => unseen = {}

\* Under the contract a post that returned true is never lost.
AcceptedWakesRun == Contract => NoStrandedWake

\* Under the contract an accepted post leads to a new run, unless the task
\* completes instead.
WakeSeen ==
    \A p \in Threads :
        (Contract /\ p \in unseen /\ ~Posting(p)) ~> (p \notin unseen \/ state = "Done")
=============================================================================
