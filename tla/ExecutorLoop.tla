---------------------------- MODULE ExecutorLoop ----------------------------
(***************************************************************************)
(* One executor: run_loop() and pop_one() with their local, per-source and *)
(* external queues, the ready-source bits, the external_ready flag, and    *)
(* the sleep protocol (wake_epoch, sleeping, io_wake_pending, eventfd)     *)
(* against the threads that push to it and the thread that stops it.       *)
(* Each atomic access is a step.  The stores the executor makes to         *)
(* its flags may wait in its store buffer.                                  *)
(***************************************************************************)
EXTENDS Naturals, Sequences

CONSTANTS
    Sources,        \* other runtime threads, each with its SPSC link
    Externals,      \* threads outside the runtime, which share the MPSC queue
    MaxLocal,       \* bound: tasks the executor's own tasks post to it
    EpochSpan,      \* 2^32 in the code
    Deployments     \* the kinds of executor, and the tasks each thread pushes to it

ASSUME LoopParameters ==
    /\ Sources \cap Externals = {} /\ "stopper" \notin Sources \cup Externals
    /\ MaxLocal \in Nat
    /\ EpochSpan \in Nat \ {0}
    /\ Deployments \subseteq [io : BOOLEAN, delays : Nat, pushes : [Sources \cup Externals -> Nat]]

VARIABLES
    deploy,     \* the executor's kind; it never changes
    local,      \* entries of the local queue
    spsc,       \* spsc[s]: entries of the link from s
    mpsc,       \* claimed slots of the external queue, oldest first
    readyBits,  \* ready_sources_
    flag,       \* external_ready_, sleeping_ and io_wake_pending_ as the executor has them
    buffer,     \* its delayed stores to them, oldest first, each with what memory still holds
    raced,      \* history: a notifier met sleeping_ or io_wake_pending_ with a store delayed
    wakeEpoch, eventfd, stopRequested,
    pc, frame,  \* the executor: program point and local variables
    ppc,        \* program point of every other thread
    pushed,     \* tasks pushed so far by each thread
    localPosts  \* tasks posted to the local queue so far

queues == <<local, spsc, mpsc>>
flags == <<flag, buffer, raced>>
wake == <<wakeEpoch, eventfd, stopRequested>>
exec == <<pc, frame>>
others == <<ppc, pushed>>
rest == <<localPosts, deploy>>
vars == <<queues, readyBits, flags, wake, exec, others, rest>>

IoThread == deploy.io           \* an IO thread with a native backend
StoreBuffer == deploy.delays    \* stores the processor may delay; 0: sequential consistency
MaxPush(p) == deploy.pushes[p]  \* bound: tasks p pushes

Producers == Sources \cup Externals
Threads == Producers \cup {"stopper"}

\* frame.mask: sources left of the word loaded; frame.src: the source examined;
\* frame.sleepy: this pop_one() is the check made after sleeping was set.
Frame == [mask : SUBSET Sources, src : Sources \cup {"none"}, sleepy : BOOLEAN,
          didWork : BOOLEAN, observed : 0..EpochSpan - 1]

PopPc == {"pop", "bits", "clear", "repop", "remark", "fallback", "extPop", "extClear",
          "extRepop", "extSet", "extLast"}
LoopPc == {"execute", "checkStop", "poll", "drainRead", "drainFlag", "observe", "sleepOn",
           "checkStop2", "checkEpoch", "wait", "parked", "awake", "foundAwake", "exited"}
PushPc == {"idle", "mark", "publish", "loadReady", "setReady", "notify", "notifyForce",
           "loadSleeping", "casSleeping", "native", "write", "notifyOne"}

Init ==
    /\ deploy \in Deployments
    /\ local = 0 /\ spsc = [s \in Sources |-> 0] /\ mpsc = <<>>
    /\ readyBits = {}
    /\ flag = [extReady |-> FALSE, sleeping |-> FALSE, ioWakePending |-> FALSE]
    /\ buffer = <<>> /\ raced = FALSE
    /\ wakeEpoch = 0 /\ eventfd = FALSE /\ stopRequested = FALSE
    /\ pc = "pop"
    /\ frame = [mask |-> {}, src |-> "none", sleepy |-> FALSE, didWork |-> FALSE, observed |-> 0]
    /\ ppc = [t \in Threads |-> "idle"]
    /\ pushed = [t \in Threads |-> 0]
    /\ localPosts = 0

-----------------------------------------------------------------------------
(* The executor's store buffer.  The executor sees its own delayed stores;  *)
(* the other threads see what they have not yet overwritten.  A             *)
(* read-modify-write and a system call wait for the buffer to drain.        *)

Store(f, v) ==
    /\ flag' = [flag EXCEPT ![f] = v]
    /\ IF StoreBuffer = 0
       THEN UNCHANGED buffer
       ELSE /\ Len(buffer) < StoreBuffer
            /\ buffer' = Append(buffer, [name |-> f, old |-> flag[f]])
    /\ UNCHANGED raced

Drained == buffer = <<>>

Flush ==
    /\ ~Drained
    /\ buffer' = Tail(buffer)
    /\ UNCHANGED <<queues, readyBits, flag, raced, wake, exec, others, rest>>

\* The delayed stores to f, by their places in the buffer.
Delayed(f) == {i \in DOMAIN buffer : buffer[i].name = f}

Oldest(f) == CHOOSE i \in Delayed(f) : \A j \in Delayed(f) : i <= j

\* The value of f another thread reads.
Memory(f) == IF Delayed(f) = {} THEN flag[f] ELSE buffer[Oldest(f)].old

\* Another thread writes f: a delayed store will overwrite the value.
WriteMemory(f, v) ==
    IF Delayed(f) = {}
    THEN flag' = [flag EXCEPT ![f] = v] /\ UNCHANGED buffer
    ELSE buffer' = [buffer EXCEPT ![Oldest(f)].old = v] /\ UNCHANGED flag

\* A notifier reads f.
Meet(f) == raced' = (raced \/ Delayed(f) # {})

-----------------------------------------------------------------------------
(* pop_one()                                                                *)

Go(l) == pc' = l /\ UNCHANGED frame
GoWith(l, f) == pc' = l /\ frame' = f

\* A new iteration of the loop of run_loop().
LoopTop == GoWith("pop", [frame EXCEPT !.sleepy = FALSE, !.didWork = FALSE, !.observed = 0])

\* pop_one()'s locals end with it.
PopDone == [frame EXCEPT !.mask = {}, !.src = "none"]

\* pop_one() returns a task; after sleeping was set, run_loop() first resets it.
Found == GoWith(IF frame.sleepy THEN "foundAwake" ELSE "execute", PopDone)

\* pop_one() returns nullptr.
NotFound == GoWith(IF frame.sleepy THEN "checkEpoch" ELSE "checkStop", PopDone)

PopSpsc(s) ==
    /\ spsc[s] > 0
    /\ spsc' = [spsc EXCEPT ![s] = @ - 1]
    /\ UNCHANGED <<local, mpsc>>

\* BoundedMpscQueue::try_pop: only a published slot can be taken.
HeadPublished == mpsc # <<>> /\ Head(mpsc).published

PopMpsc ==
    /\ HeadPublished
    /\ mpsc' = Tail(mpsc)
    /\ UNCHANGED <<local, spsc>>

PopLocal ==
    /\ pc = "pop"
    /\ \/ /\ local > 0
          /\ local' = local - 1
          /\ Found
       \/ /\ local = 0
          /\ GoWith("bits", [frame EXCEPT !.mask = readyBits])
          /\ UNCHANGED local
    /\ UNCHANGED <<spsc, mpsc, readyBits, flags, wake, others, rest>>

\* The next source of the loaded word: pop its link, or go on to clear its bit.
PopReady ==
    /\ pc = "bits"
    /\ \/ \E s \in frame.mask :
            \/ PopSpsc(s) /\ Found
            \/ /\ spsc[s] = 0
               /\ GoWith("clear", [frame EXCEPT !.mask = @ \ {s}, !.src = s])
               /\ UNCHANGED queues
       \/ /\ frame.mask = {}
          /\ GoWith("fallback", [frame EXCEPT !.mask = Sources])
          /\ UNCHANGED queues
    /\ UNCHANGED <<readyBits, flags, wake, others, rest>>

ClearReady ==
    /\ pc = "clear" /\ Drained
    /\ readyBits' = readyBits \ {frame.src}
    /\ Go("repop")
    /\ UNCHANGED <<queues, flags, wake, others, rest>>

\* Mutant of RepopReady: the bit is cleared without popping the link again.
NoRepop ==
    /\ pc = "repop" /\ Go("bits")
    /\ UNCHANGED <<queues, readyBits, flags, wake, others, rest>>

RepopReady ==
    /\ pc = "repop"
    /\ \/ PopSpsc(frame.src) /\ Go("remark")
       \/ spsc[frame.src] = 0 /\ Go("bits") /\ UNCHANGED queues
    /\ UNCHANGED <<readyBits, flags, wake, others, rest>>

RemarkReady ==
    /\ pc = "remark" /\ Drained
    /\ readyBits' = readyBits \cup {frame.src}
    /\ Found
    /\ UNCHANGED <<queues, flags, wake, others, rest>>

\* The fallback scan of every link.
PopFallback ==
    /\ pc = "fallback"
    /\ \/ \E s \in frame.mask :
            \/ PopSpsc(s) /\ GoWith("remark", [frame EXCEPT !.src = s])
            \/ /\ spsc[s] = 0
               /\ GoWith("fallback", [frame EXCEPT !.mask = @ \ {s}])
               /\ UNCHANGED queues
       \/ frame.mask = {} /\ Go(IF flag.extReady THEN "extPop" ELSE "extLast") /\ UNCHANGED queues
    /\ UNCHANGED <<readyBits, flags, wake, others, rest>>

PopExternal ==
    /\ pc = "extPop"
    /\ \/ PopMpsc /\ Found
       \/ ~HeadPublished /\ Go("extClear") /\ UNCHANGED queues
    /\ UNCHANGED <<readyBits, flags, wake, others, rest>>

ClearExternal ==
    /\ pc = "extClear"
    /\ Store("extReady", FALSE)
    /\ Go("extRepop")
    /\ UNCHANGED <<queues, readyBits, wake, others, rest>>

RepopExternal ==
    /\ pc = "extRepop"
    /\ \/ PopMpsc /\ Go("extSet")
       \/ ~HeadPublished /\ Go("extLast") /\ UNCHANGED queues
    /\ UNCHANGED <<readyBits, flags, wake, others, rest>>

SetExternal ==
    /\ pc = "extSet"
    /\ Store("extReady", TRUE)
    /\ Found
    /\ UNCHANGED <<queues, readyBits, wake, others, rest>>

PopExternalLast ==
    /\ pc = "extLast"
    /\ \/ PopMpsc /\ Found
       \/ ~HeadPublished /\ NotFound /\ UNCHANGED queues
    /\ UNCHANGED <<readyBits, flags, wake, others, rest>>

pop_one ==
    \/ PopLocal \/ PopReady \/ ClearReady \/ RepopReady \/ RemarkReady \/ PopFallback
    \/ PopExternal \/ ClearExternal \/ RepopExternal \/ SetExternal \/ PopExternalLast

-----------------------------------------------------------------------------
(* run_loop()                                                               *)

\* execute(): the task may post tasks to its own executor.
ExecuteTask ==
    /\ pc = "execute"
    /\ \/ localPosts < MaxLocal /\ local' = local + 1 /\ localPosts' = localPosts + 1
       \/ UNCHANGED <<local, localPosts>>
    /\ IF frame.sleepy THEN LoopTop ELSE GoWith("pop", [frame EXCEPT !.didWork = TRUE])
    /\ UNCHANGED <<spsc, mpsc, readyBits, flags, wake, others, deploy>>

CheckStop ==
    /\ pc = "checkStop"
    /\ \/ stopRequested /\ ~frame.didWork /\ Go("exited")
       \/ stopRequested /\ frame.didWork /\ LoopTop
       \/ ~stopRequested /\ Go(IF IoThread THEN "poll" ELSE "observe")
    /\ UNCHANGED <<queues, readyBits, flags, wake, others, rest>>

\* poll_io(0): nothing registered and no wake pending skips the system call.
\* Whether a wait or a channel is registered is up to the tasks.
PollNow ==
    /\ pc = "poll"
    /\ \E hasWaits \in BOOLEAN :
        IF hasWaits \/ flag.ioWakePending
        THEN Drained /\ Go(IF eventfd THEN "drainRead" ELSE "observe")
        ELSE Go("observe")
    /\ UNCHANGED <<queues, readyBits, flags, wake, others, rest>>

\* drain_io_wake(): read the eventfd, then reset io_wake_pending.
DrainRead ==
    /\ pc = "drainRead" /\ Drained
    /\ eventfd' = FALSE
    /\ Go("drainFlag")
    /\ UNCHANGED <<queues, readyBits, flags, wakeEpoch, stopRequested, others, rest>>

DrainFlag ==
    /\ pc = "drainFlag"
    /\ Store("ioWakePending", FALSE)
    /\ IF frame.sleepy THEN Go("awake") ELSE LoopTop
    /\ UNCHANGED <<queues, readyBits, wake, others, rest>>

Observe ==
    /\ pc = "observe"
    /\ GoWith("sleepOn", [frame EXCEPT !.observed = wakeEpoch])
    /\ UNCHANGED <<queues, readyBits, flags, wake, others, rest>>

\* Mutant of SleepOn: sleeping_ is not announced.
SleepSilently ==
    /\ pc = "sleepOn"
    /\ Go("checkStop2")
    /\ UNCHANGED <<queues, readyBits, flags, wake, others, rest>>

SleepOn ==
    /\ pc = "sleepOn"
    /\ Store("sleeping", TRUE)
    /\ Go("checkStop2")
    /\ UNCHANGED <<queues, readyBits, wake, others, rest>>

CheckStopAgain ==
    /\ pc = "checkStop2"
    /\ IF stopRequested THEN Go("awake") ELSE GoWith("pop", [frame EXCEPT !.sleepy = TRUE])
    /\ UNCHANGED <<queues, readyBits, flags, wake, others, rest>>

CheckEpoch ==
    /\ pc = "checkEpoch"
    /\ Go(IF wakeEpoch # frame.observed THEN "awake" ELSE "wait")
    /\ UNCHANGED <<queues, readyBits, flags, wake, others, rest>>

\* poll_io(-1) returns when the eventfd is readable; wake_epoch_.wait(observed)
\* parks unless the value has changed.
Wait ==
    /\ pc = "wait"
    /\ \/ IoThread /\ Drained /\ eventfd /\ Go("drainRead")
       \/ ~IoThread /\ Go(IF wakeEpoch # frame.observed THEN "awake" ELSE "parked")
    /\ UNCHANGED <<queues, readyBits, flags, wake, others, rest>>

\* epoll_wait returns an event of a registered wait or channel, whose handler may
\* queue a task here, or it is interrupted.
IoEvent ==
    /\ IoThread /\ Drained /\ pc \in {"poll", "wait"}
    /\ \/ localPosts < MaxLocal /\ local' = local + 1 /\ localPosts' = localPosts + 1
       \/ UNCHANGED <<local, localPosts>>
    /\ IF pc = "poll" THEN LoopTop ELSE Go("awake")
    /\ UNCHANGED <<spsc, mpsc, readyBits, flags, wake, others, deploy>>

\* sleeping_.store(false)
Awake ==
    /\ pc \in {"awake", "foundAwake"}
    /\ Store("sleeping", FALSE)
    /\ IF pc = "awake" THEN LoopTop ELSE Go("execute")
    /\ UNCHANGED <<queues, readyBits, wake, others, rest>>

run_loop ==
    \/ pop_one \/ ExecuteTask \/ CheckStop \/ PollNow \/ DrainRead \/ DrainFlag \/ Observe
    \/ SleepOn \/ CheckStopAgain \/ CheckEpoch \/ Wait \/ Awake

-----------------------------------------------------------------------------
(* The other threads: push, then notify.                                    *)

PGo(t, l) == ppc' = [ppc EXCEPT ![t] = l]

BumpEpoch == wakeEpoch' = (wakeEpoch + 1) % EpochSpan

\* try_enqueue_cross_thread_spsc
PushSpsc(s) ==
    /\ ppc[s] = "idle" /\ pushed[s] < MaxPush(s)
    /\ spsc' = [spsc EXCEPT ![s] = @ + 1]
    /\ pushed' = [pushed EXCEPT ![s] = @ + 1]
    /\ PGo(s, "mark")
    /\ UNCHANGED <<local, mpsc, readyBits, flags, wake, exec, rest>>

MarkReady(s) ==
    /\ ppc[s] = "mark"
    /\ readyBits' = readyBits \cup {s}
    /\ PGo(s, "notify")
    /\ UNCHANGED <<queues, flags, wake, exec, pushed, rest>>

\* try_enqueue_external_mpsc: a slot is claimed, then published.
ClaimMpsc(e) ==
    /\ ppc[e] = "idle" /\ pushed[e] < MaxPush(e)
    /\ mpsc' = Append(mpsc, [by |-> e, published |-> FALSE])
    /\ pushed' = [pushed EXCEPT ![e] = @ + 1]
    /\ PGo(e, "publish")
    /\ UNCHANGED <<local, spsc, readyBits, flags, wake, exec, rest>>

PublishMpsc(e) ==
    /\ ppc[e] = "publish"
    /\ mpsc' = [i \in DOMAIN mpsc |-> IF mpsc[i].by = e THEN [mpsc[i] EXCEPT !.published = TRUE] ELSE mpsc[i]]
    /\ PGo(e, "loadReady")
    /\ UNCHANGED <<local, spsc, readyBits, flags, wake, exec, pushed, rest>>

\* notify_external_ready
LoadExternalReady(e) ==
    /\ ppc[e] = "loadReady"
    /\ PGo(e, IF Memory("extReady") THEN "notify" ELSE "setReady")
    /\ UNCHANGED <<queues, readyBits, flags, wake, exec, pushed, rest>>

SetExternalReady(e) ==
    /\ ppc[e] = "setReady"
    /\ WriteMemory("extReady", TRUE)
    /\ PGo(e, "notifyForce")
    /\ UNCHANGED <<queues, readyBits, raced, wake, exec, pushed, rest>>

notify_force(t) ==
    /\ ppc[t] = "notifyForce"
    /\ BumpEpoch
    /\ PGo(t, IF IoThread THEN "native" ELSE "notifyOne")
    /\ UNCHANGED <<queues, readyBits, flags, eventfd, stopRequested, exec, pushed, rest>>

\* Mutant of notify: the IO backend is not woken.
NotifyEpochOnly(t) ==
    /\ ppc[t] = "notify"
    /\ BumpEpoch
    /\ PGo(t, IF IoThread THEN "idle" ELSE "notifyOne")
    /\ UNCHANGED <<queues, readyBits, flags, eventfd, stopRequested, exec, pushed, rest>>

notify(t) ==
    /\ ppc[t] = "notify"
    /\ BumpEpoch
    /\ PGo(t, IF IoThread THEN "loadSleeping" ELSE "notifyOne")
    /\ UNCHANGED <<queues, readyBits, flags, eventfd, stopRequested, exec, pushed, rest>>

LoadSleeping(t) ==
    /\ ppc[t] = "loadSleeping"
    /\ Meet("sleeping")
    /\ PGo(t, IF Memory("sleeping") THEN "casSleeping" ELSE "idle")
    /\ UNCHANGED <<queues, readyBits, flag, buffer, wake, exec, pushed, rest>>

CasSleeping(t) ==
    /\ ppc[t] = "casSleeping"
    /\ Meet("sleeping") /\ WriteMemory("sleeping", FALSE)
    /\ PGo(t, IF Memory("sleeping") THEN "native" ELSE "idle")
    /\ UNCHANGED <<queues, readyBits, wake, exec, pushed, rest>>

\* notify_native_io_backend: one write per pending wake.
CasWakePending(t) ==
    /\ ppc[t] = "native"
    /\ Meet("ioWakePending") /\ WriteMemory("ioWakePending", TRUE)
    /\ PGo(t, IF Memory("ioWakePending") THEN "idle" ELSE "write")
    /\ UNCHANGED <<queues, readyBits, wake, exec, pushed, rest>>

WriteEventfd(t) ==
    /\ ppc[t] = "write"
    /\ eventfd' = TRUE
    /\ PGo(t, "idle")
    /\ UNCHANGED <<queues, readyBits, flags, wakeEpoch, stopRequested, exec, pushed, rest>>

\* wake_epoch_.notify_one(): a parked executor compares the epoch again.
NotifyOne(t) ==
    /\ ppc[t] = "notifyOne"
    /\ pc' = IF pc = "parked" THEN "wait" ELSE pc
    /\ PGo(t, "idle")
    /\ UNCHANGED <<queues, readyBits, flags, wake, frame, pushed, rest>>

\* Mutant of request_stop: the flag is set and nobody is notified.
StopQuietly ==
    /\ ppc["stopper"] = "idle" /\ ~stopRequested
    /\ stopRequested' = TRUE
    /\ UNCHANGED <<queues, readyBits, flags, wakeEpoch, eventfd, exec, others, rest>>

request_stop ==
    /\ ppc["stopper"] = "idle" /\ ~stopRequested
    /\ stopRequested' = TRUE
    /\ PGo("stopper", "notifyForce")
    /\ UNCHANGED <<queues, readyBits, flags, wakeEpoch, eventfd, exec, pushed, rest>>

\* A thread inside a push or a notification continues it.
Continue(t) ==
    \/ notify_force(t) \/ notify(t) \/ LoadSleeping(t) \/ CasSleeping(t)
    \/ CasWakePending(t) \/ WriteEventfd(t) \/ NotifyOne(t)
    \/ t \in Sources /\ MarkReady(t)
    \/ t \in Externals /\ (PublishMpsc(t) \/ LoadExternalReady(t) \/ SetExternalReady(t))

Next ==
    \/ run_loop \/ IoEvent \/ Flush
    \/ \E s \in Sources : PushSpsc(s)
    \/ \E e \in Externals : ClaimMpsc(e)
    \/ \E t \in Threads : Continue(t)
    \/ request_stop

\* The executor thread runs, delayed stores reach memory, and a thread does not
\* stop halfway through a push; no event of a file descriptor need ever come.
Fairness ==
    /\ WF_vars(run_loop) /\ WF_vars(Flush)
    /\ \A t \in Threads : WF_vars(Continue(t))

Spec == Init /\ [][Next]_vars /\ Fairness

-----------------------------------------------------------------------------
\* Blocked in epoll_wait with nothing to read, or in wake_epoch_.wait.
Asleep == pc = "parked" \/ (pc = "wait" /\ IoThread /\ Drained /\ ~eventfd)

\* The executor never sleeps over work: once every push and request_stop has
\* returned, a blocked executor has empty queues and no stop to obey.
NoSleepOverWork ==
    Asleep /\ (\A t \in Threads : ppc[t] = "idle") =>
        local = 0 /\ (\A s \in Sources : spsc[s] = 0) /\ mpsc = <<>> /\ ~stopRequested

\* The same, for an executor whose stores the processor delays: an IO thread sleeps
\* over work only where a notifier met sleeping_ or io_wake_pending_ before the
\* executor's own store to it had reached memory (see executor_loop_delayed_stores).
SleepsWhenIdle == raced \/ NoSleepOverWork

\* pop_one's clear and re-pop never loses a ready bit: a link that holds a task
\* whose push has marked it keeps its bit, unless pop_one is about to restore it.
ReadyBitKept ==
    \A s \in Sources :
        spsc[s] > 0 /\ ppc[s] # "mark" =>
            s \in readyBits \/ (frame.src = s /\ pc \in {"repop", "remark"})

\* Every pushed task is popped in the end, unless the runtime stops first (or a
\* notifier met a delayed store, as above).
PushedTasksRun ==
    /\ \A s \in Sources : spsc[s] > 0 ~> (spsc[s] = 0 \/ stopRequested \/ raced)
    /\ mpsc # <<>> ~> (mpsc = <<>> \/ stopRequested \/ raced)

\* request_stop always ends run_loop(), wherever the executor is, so join() returns
\* (with the same exception).
StopEnds == stopRequested ~> (pc = "exited" \/ raced)
=============================================================================
