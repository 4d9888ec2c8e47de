--------------------------- MODULE TaskWakeProofs ---------------------------
(* Proofs about TaskWake, for any number of executors, wakers and runs. *)
EXTENDS TaskWake, TLAPS

\* Where a task body that posts its own task can be: its state is Running and
\* its epoch current, so the post only ever registers a request.
SelfPc == {"load", "epoch", "slot", "stale", "resolve", "resolveEpoch"}

\* The executor between the CAS to Starting and the end of run() is the only one
\* to change the state and the epoch.
OwnerAt(x) ==
    /\ pc[x] \in {"prepare", "run"} => state = "Starting"
    /\ pc[x] \in {"body", "posted", "refused"} \cup SelfPc => state = "Running"
    /\ pc[x] \in SchedulePc => pc[x] \in SelfPc
    /\ pc[x] \in {"slot", "resolve", "resolveEpoch"} => epoch[x] = runEpoch
    /\ pc[x] \in {"pendingCheck", "pendingCas", "pendingPush"} => value[x] \in Requests

OwnerInv == \A x \in Executors : OwnerAt(x)

\* A finished task stays Done and allocated until its executor releases it.
DoneInv ==
    /\ ~alive => state = "Done"
    /\ \A x \in Executors : pc[x] \in {"doneTake", "finished"} => state = "Done" /\ alive
    /\ \A x, y \in Executors :
        pc[x] \in {"doneTake", "finished"} /\ pc[y] \in {"doneTake", "finished"} => x = y

SawAt(p) ==
    /\ pc[p] \in {"cas", "enqueue", "cancel"} => saw[p] \in {"Created", "Pending"}
    /\ pc[p] = "resolveCas" => saw[p] = "Pending"

SawInv == \A p \in Threads : SawAt(p)

SafeRest == QueuedOnce /\ RunsExclusively /\ OwnerInv /\ DoneInv /\ SawInv
SafeInv == TypeOK /\ SafeRest

-----------------------------------------------------------------------------
\* A freshly allocated task (the member initialisers of BasicTask) is well typed.
LEMMA InitType == Init => TypeOK
  BY Parameters, UsageParameters DEF Pc, TaskState, Threads, TypeOK, Init

\* pack_requested_thread yields a request, whatever epoch and target it is given.
LEMMA DesiredType == TypeOK => \A p \in Threads : desired(p) \in Requests
  BY Parameters DEF Requests, pack, desired, TypeOK

\* The bound on the posts that a run arranges is a positive number.
LEMMA UsageType == TypeOK => MaxWakes \in Nat \ {0}
  BY Zenon, UsageParameters DEF MaxWakes, TypeOK

\* Every atomic step of post(), execute() and the finish functions keeps the types.
LEMMA NextType == TypeOK /\ [Next]_vars => TypeOK'
<1> SUFFICES ASSUME TypeOK, [Next]_vars PROVE TypeOK'
  BY Zenon
<1>0. MaxWakes \in Nat \ {0}
  BY Zenon, UsageType
<1> USE Parameters DEF TypeOK, Threads, Goto, task, local, slot, history, Pc, SchedulePc, ExecutePc
<1>1. ASSUME NEW w \in Wakers, WakerPost(w) PROVE TypeOK'
  BY <1>1 DEF Call, WakerPost
<1>2. ASSUME NEW x \in Executors, PendingOn(x) \/ PopOne(x) PROVE TypeOK'
  BY <1>2 DEF PopOne, Call, PendingOn
<1>3. ASSUME NEW p \in Threads, Schedule(p) PROVE TypeOK'
  <2>1. CASE LoadState(p)
    BY <2>1 DEF TaskState, Return, LoadState
  <2>2. CASE CasQueued(p)
    BY <2>2 DEF TaskState, CasQueued
  <2>3. CASE LoadEpoch(p)
    BY Zenon, <2>3 DEF TaskState, LoadEpoch
  <2>4. CASE RequestSlot(p)
    BY <2>4, DesiredType DEF Return, RequestSlot
  <2>5. CASE ClearStale(p)
    BY Zenon, <2>5 DEF clear_requested_thread_if, ClearStale
  <2>6. CASE ResolveState(p)
    BY Zenon, <2>6 DEF TaskState, ResolveState
  <2>7. CASE ResolveEpoch(p)
    BY <2>7 DEF TaskState, Return, ResolveEpoch
  <2>8. CASE ResolveClear(p)
    BY <2>8 DEF TaskState, clear_requested_thread_if, Return, ResolveClear
  <2>9. CASE ResolveCas(p)
    BY <2>9 DEF TaskState, ResolveCas
  <2>10. CASE Enqueue(p)
    BY <2>10 DEF TaskState, Return, Enqueue
  <2>11. CASE CancelSchedule(p)
    BY <2>11 DEF TaskState, Return, CancelSchedule
  <2> QED BY Zenon, <1>3, <2>1, <2>2, <2>3, <2>4, <2>5, <2>6, <2>7, <2>8, <2>9, <2>10,
       <2>11 DEF Schedule
<1>4. ASSUME NEW x \in Executors, Execute(x) PROVE TypeOK'
  <2>1. CASE ExecuteCas(x)
    BY <2>1 DEF TaskState, ExecuteCas
  <2>2. CASE prepare_running_epoch(x)
    BY <2>2 DEF TaskState, prepare_running_epoch
  <2>3. CASE StoreRunning(x)
    BY <2>3 DEF TaskState, StoreRunning
  <2>4. CASE FinishDone(x)
    BY <1>0, <2>4 DEF TaskState, FinishDone
  <2>5. CASE FinishAgain(x)
    BY <1>0, <2>5 DEF TaskState, FinishAgain
  <2>6. CASE FinishPending(x)
    BY Zenon, <2>6 DEF TaskState, FinishPending
  <2>7. CASE TakeRequest(x)
    BY <2>7 DEF TakeRequest
  <2>8. CASE CheckEpoch(x)
    BY Zenon, <2>8 DEF TaskState, CheckEpoch
  <2>9. CASE enqueue_pending_blocking(x)
    BY <2>9 DEF TaskState, enqueue_pending_blocking
  <2>10. CASE BlockingPush(x)
    BY <2>10 DEF TaskState, BlockingPush
  <2>11. CASE ReleaseTask(x)
    BY Zenon, <2>11 DEF TaskState, ReleaseTask
  <2> QED BY Zenon, <1>4, <2>1, <2>2, <2>3, <2>4, <2>5, <2>6, <2>7, <2>8, <2>9, <2>10,
       <2>11 DEF Execute
<1>5. CASE Recreate
  BY <1>0, <1>5 DEF None, TaskState, Recreate
<1>6. CASE UNCHANGED vars
  BY Zenon, <1>6 DEF vars
<1> QED BY Zenon, <1>1, <1>2, <1>3, <1>4, <1>5, <1>6 DEF Next

-----------------------------------------------------------------------------
(* What a step of one thread keeps, when the threads besides it stand still. *)

\* Only thread p moves, and only what p has loaded changes.
Only(p) ==
    \A q \in Threads : q # p =>
        /\ pc'[q] = pc[q] /\ dest'[q] = dest[q] /\ saw'[q] = saw[q]
        /\ epoch'[q] = epoch[q] /\ value'[q] = value[q]

\* A Queued task that one queue entry names is in one place.
LEMMA OneEntry ==
  ASSUME NEW y \in Executors,
         \A z \in Executors : ready'[z] = IF z = y THEN 1 ELSE 0,
         \A q \in Threads : ~Claims(q)',
         state' = "Queued"
  PROVE  QueuedOnce'
  BY SMT DEF QueuedOnce

\* A Queued task that one thread claims is in one place.
LEMMA OneClaim ==
  ASSUME NEW p \in Threads,
         \A x \in Executors : ready'[x] <= 1 /\ ~(ready'[x] > 0),
         \A q \in Threads : Claims(q)' <=> q = p,
         state' = "Queued"
  PROVE  QueuedOnce'
  BY Zenon DEF QueuedOnce

\* A push to the queue of y leaves one entry, when there was none.
LEMMA FirstEntry ==
  ASSUME NEW y \in Executors, TypeOK, \A x \in Executors : ~(ready[x] > 0),
         ready' = [ready EXCEPT ![y] = @ + 1]
  PROVE  \A z \in Executors : ready'[z] = IF z = y THEN 1 ELSE 0
<1>1. ready \in [Executors -> Nat]
  BY Zenon DEF TypeOK
<1> QED BY <1>1

\* A step that moves no queue entry and no claim keeps QueuedOnce.
LEMMA QueuedFrame ==
  ASSUME QueuedOnce, NEW p \in Threads, Only(p), UNCHANGED ready,
         state' = "Queued" <=> state = "Queued", Claims(p)' <=> Claims(p)
  PROVE  QueuedOnce'
<1>1. \A q \in Threads : Claims(q)' <=> Claims(q)
  BY Zenon DEF Only, Claims
<1> QED BY Zenon, <1>1 DEF QueuedOnce

\* An executor that does not enter run() keeps RunsExclusively.
LEMMA RunsFrame ==
  ASSUME RunsExclusively, NEW p \in Threads, Only(p),
         p \in Executors /\ pc'[p] \in RunningPc =>
            pc[p] \in RunningPc \/ \A y \in Executors : pc[y] \notin RunningPc
  PROVE  RunsExclusively'
<1>1. \A y \in Executors : y # p => pc'[y] = pc[y]
  BY Zenon DEF Only, Threads
<1> QED BY Zenon, <1>1 DEF RunsExclusively

\* A step of p keeps OwnerInv for the executors besides p, when it changes nothing under
\* the one that is running the task.
LEMMA OwnerFrame ==
  ASSUME OwnerInv, NEW p \in Threads, Only(p), p \in Executors => OwnerAt(p)',
         \A y \in Executors : y # p /\ pc[y] \in RunningPc => UNCHANGED <<state, runEpoch>>
  PROVE  OwnerInv'
<1>1. ASSUME NEW y \in Executors, y # p PROVE OwnerAt(y)'
  <2>1. pc'[y] = pc[y] /\ epoch'[y] = epoch[y] /\ value'[y] = value[y] /\ OwnerAt(y)
    BY Zenon, <1>1 DEF Only, Threads, OwnerInv
  <2>2. CASE pc[y] \in RunningPc
    BY Zenon, <1>1, <2>1, <2>2 DEF OwnerAt
  <2>3. CASE pc[y] \notin RunningPc
    BY Zenon, <2>1, <2>3 DEF OwnerAt, RunningPc, SelfPc, SchedulePc
  <2> QED BY Zenon, <2>2, <2>3
<1> QED BY Zenon, <1>1 DEF OwnerInv

\* A step that neither finishes the task nor frees it under its finisher keeps DoneInv.
LEMMA DoneFrame ==
  ASSUME DoneInv, NEW p \in Threads, Only(p), ~alive' => state' = "Done",
         \A y \in Executors : y # p /\ pc[y] \in {"doneTake", "finished"} => UNCHANGED <<state, alive>>,
         p \in Executors /\ pc'[p] \in {"doneTake", "finished"} =>
            /\ state' = "Done" /\ alive'
            /\ \A y \in Executors : y # p => pc[y] \notin {"doneTake", "finished"}
  PROVE  DoneInv'
<1>1. \A y \in Executors : y # p => pc'[y] = pc[y]
  BY Zenon DEF Only, Threads
<1>2. ASSUME NEW y \in Executors, pc'[y] \in {"doneTake", "finished"} PROVE state' = "Done" /\ alive'
  <2>1. CASE y = p
    BY Zenon, <1>2, <2>1
  <2>2. CASE y # p
    <3>1. pc[y] \in {"doneTake", "finished"}
      BY Zenon, <1>1, <1>2, <2>2
    <3>2. state = "Done" /\ alive /\ UNCHANGED <<state, alive>>
      BY Zenon, <2>2, <3>1 DEF DoneInv
    <3> QED BY <3>2
  <2> QED BY Zenon, <2>1, <2>2
<1>3. ASSUME NEW y \in Executors, NEW z \in Executors,
             pc'[y] \in {"doneTake", "finished"}, pc'[z] \in {"doneTake", "finished"}
      PROVE  y = z
  <2>1. y # p /\ z # p => y = z
    BY Zenon, <1>1, <1>3 DEF DoneInv
  <2>2. ~(y = p /\ z # p) /\ ~(z = p /\ y # p)
    BY Zenon, <1>1, <1>3
  <2> QED BY Zenon, <2>1, <2>2
<1> QED BY Zenon, <1>2, <1>3 DEF DoneInv

\* What the other threads loaded before their CAS stays what it was.
LEMMA SawFrame ==
  ASSUME SawInv, NEW p \in Threads, Only(p), SawAt(p)'
  PROVE  SawInv'
<1>1. \A q \in Threads : q # p => pc'[q] = pc[q] /\ saw'[q] = saw[q]
  BY Zenon DEF Only
<1> QED BY Zenon, <1>1 DEF SawInv, SawAt

\* Nobody runs a task that is neither Starting nor Running, nobody finishes one that is not
\* Done, and nobody claims one that is not Queued.
LEMMA StateTells ==
  ASSUME SafeRest
  PROVE  /\ state \notin {"Starting", "Running"} => \A y \in Executors : pc[y] \notin RunningPc
         /\ state # "Done" => alive /\ \A y \in Executors : pc[y] \notin {"doneTake", "finished"}
         /\ state # "Queued" =>
              (\A q \in Threads : ~Claims(q)) /\ \A y \in Executors : ready[y] <= 1 /\ ~(ready[y] > 0)
<1>1. OwnerInv /\ DoneInv /\ QueuedOnce
  BY Zenon DEF SafeRest
<1>2. state \notin {"Starting", "Running"} => \A y \in Executors : pc[y] \notin RunningPc
  BY Zenon, <1>1 DEF OwnerInv, OwnerAt, RunningPc, SelfPc
<1>3. state # "Done" => alive /\ \A y \in Executors : pc[y] \notin {"doneTake", "finished"}
  BY Zenon, <1>1 DEF DoneInv
<1>4. state # "Queued" =>
        (\A q \in Threads : ~Claims(q)) /\ \A y \in Executors : ready[y] <= 1 /\ ~(ready[y] > 0)
  BY Zenon, <1>1 DEF QueuedOnce
<1> QED BY Zenon, <1>2, <1>3, <1>4

\* A step of a post that neither claims the task nor gives up a claim is safe.
LEMMA PostStepSafe ==
  ASSUME SafeRest, NEW p \in Threads, Only(p), UNCHANGED <<state, runEpoch, ready, alive>>,
         Claims(p)' <=> Claims(p), pc[p] \in RunningPc \/ p \notin Executors,
         p \in Executors => OwnerAt(p)' /\ pc'[p] \notin {"doneTake", "finished"},
         SawAt(p)'
  PROVE  SafeRest'
<1>0. QueuedOnce /\ RunsExclusively /\ OwnerInv /\ DoneInv /\ SawInv
  BY Zenon DEF SafeRest
<1>1. QueuedOnce'
  BY Zenon, <1>0, QueuedFrame
<1>2. RunsExclusively'
  BY Zenon, <1>0, RunsFrame
<1>3. OwnerInv'
  BY Zenon, <1>0, OwnerFrame
<1>4. DoneInv'
  BY Zenon, <1>0, DoneFrame DEF DoneInv
<1>5. SawInv'
  BY Zenon, <1>0, SawFrame
<1> QED BY Zenon, <1>1, <1>2, <1>3, <1>4, <1>5 DEF SafeRest

\* The CAS to Queued gives one thread the claim to the task.
LEMMA ClaimSafe ==
  ASSUME SafeRest, NEW p \in Threads, Only(p), UNCHANGED <<ready, alive>>,
         state \in {"Created", "Pending"}, state' = "Queued", Claims(p)',
         p \in Executors => OwnerAt(p)' /\ pc'[p] \notin RunningPc \cup {"doneTake", "finished"},
         SawAt(p)'
  PROVE  SafeRest'
<1>0. RunsExclusively /\ OwnerInv /\ DoneInv /\ SawInv
  BY Zenon DEF SafeRest
<1>a. /\ \A y \in Executors : pc[y] \notin RunningPc
      /\ alive /\ \A y \in Executors : pc[y] \notin {"doneTake", "finished"}
      /\ \A q \in Threads : ~Claims(q)
      /\ \A y \in Executors : ready[y] <= 1 /\ ~(ready[y] > 0)
  BY Zenon, StateTells
<1>1. QueuedOnce'
  <2>1. \A q \in Threads : Claims(q)' <=> q = p
    BY Zenon, <1>a DEF Only, Claims
  <2> QED BY Zenon, <1>a, <2>1, OneClaim
<1>2. RunsExclusively'
  BY Zenon, <1>0, <1>a, RunsFrame
<1>3. OwnerInv'
  BY Zenon, <1>0, <1>a, OwnerFrame
<1>4. DoneInv'
  BY Zenon, <1>0, <1>a, DoneFrame
<1>5. SawInv'
  BY Zenon, <1>0, SawFrame
<1> QED BY Zenon, <1>1, <1>2, <1>3, <1>4, <1>5 DEF SafeRest

-----------------------------------------------------------------------------
(* Every step keeps the queue entry unique and the run exclusive: the CAS to *)
(* Queued gives one thread the claim to the task, and only that claim makes *)
(* an entry.                                                                *)

\* The calls of post() and the steps of request_schedule and of
\* resolve_running_wake_request keep the task in one place and its run exclusive.
LEMMA PostsSafe ==
  ASSUME TypeOK, SafeRest, NEW p \in Threads,
         \/ (p \in Wakers /\ WakerPost(p)) \/ (p \in Executors /\ PendingOn(p))
         \/ LoadState(p) \/ CasQueued(p) \/ LoadEpoch(p) \/ RequestSlot(p) \/ ClearStale(p)
         \/ ResolveState(p) \/ ResolveEpoch(p) \/ ResolveClear(p) \/ ResolveCas(p)
  PROVE  SafeRest'
<1>0. p \in Executors => OwnerAt(p)
  BY Zenon DEF SafeRest, OwnerInv
<1>a. SawAt(p)
  BY Zenon DEF SafeRest, SawInv
<1>1. CASE (p \in Wakers /\ WakerPost(p)) \/ (p \in Executors /\ PendingOn(p))
  <2>1. PICK t \in Targets : Call(p, t)
    BY Zenon, <1>1 DEF WakerPost, PendingOn
  <2>2. /\ UNCHANGED <<state, runEpoch, ready, alive>> /\ Only(p) /\ pc'[p] = "load"
        /\ pc[p] \in {"idle", "body"} /\ (p \in Executors => pc[p] = "body")
    BY Zenon, <1>1, <2>1, Parameters DEF Call, Only, Goto, task, slot, TypeOK, WakerPost, PendingOn
  <2>3. p \in Executors => pc[p] \in RunningPc /\ OwnerAt(p)'
    BY Zenon, <1>0, <2>2 DEF OwnerAt, RunningPc, SelfPc
  <2>4. SawAt(p)' /\ ~Claims(p)' /\ ~Claims(p)
    BY Zenon, <2>2 DEF SawAt, Claims, Claiming
  <2> QED BY Zenon, <2>2, <2>3, <2>4, PostStepSafe
<1>2. CASE LoadState(p)
  <2>1. /\ UNCHANGED <<state, runEpoch, ready, alive>> /\ Only(p) /\ pc[p] = "load"
        /\ \/ pc'[p] = "cas" /\ state \in {"Created", "Pending"} /\ saw'[p] = state
           \/ pc'[p] = "epoch" /\ state = "Running"
           \/ pc'[p] \in {"idle", "refused"} /\ state \in {"Queued", "Done"}
    BY Zenon, <1>2 DEF LoadState, Return, Only, Goto, task, slot, TypeOK
  <2>2. pc[p] \in RunningPc /\ (p \in Executors => OwnerAt(p)')
    BY Zenon, <1>0, <2>1 DEF OwnerAt, RunningPc, SelfPc, SchedulePc
  <2>3. SawAt(p)' /\ ~Claims(p)' /\ ~Claims(p) /\ pc'[p] \notin {"doneTake", "finished"}
    BY Zenon, <2>1 DEF SawAt, Claims, Claiming
  <2> QED BY Zenon, <2>1, <2>2, <2>3, PostStepSafe
<1>3. CASE CasQueued(p)
  <2>1. /\ UNCHANGED <<runEpoch, ready, alive>> /\ Only(p) /\ pc[p] = "cas" /\ saw'[p] = saw[p]
        /\ \/ pc'[p] = "enqueue" /\ state = saw[p] /\ state' = "Queued"
           \/ pc'[p] = "load" /\ state' = state
    BY Zenon, <1>3 DEF CasQueued, Only, Goto, local, slot, TypeOK
  <2>2. p \notin Executors /\ saw[p] \in {"Created", "Pending"}
    BY Zenon, <1>0, <1>a, <2>1 DEF OwnerAt, SelfPc, SchedulePc, SawAt
  <2>3. SawAt(p)'
    BY Zenon, <2>1, <2>2 DEF SawAt
  <2>4. CASE pc'[p] = "enqueue" /\ state = saw[p] /\ state' = "Queued"
    <3>1. Claims(p)'
      BY Zenon, <2>4 DEF Claims, Claiming
    <3> QED BY Zenon, <2>1, <2>2, <2>3, <2>4, <3>1, ClaimSafe
  <2>5. CASE pc'[p] = "load" /\ state' = state
    <3>1. ~Claims(p)' /\ ~Claims(p)
      BY Zenon, <2>1, <2>5 DEF Claims, Claiming
    <3> QED BY Zenon, <2>1, <2>2, <2>3, <2>5, <3>1, PostStepSafe
  <2> QED BY Zenon, <2>1, <2>4, <2>5
<1>4. CASE LoadEpoch(p)
  <2>1. /\ UNCHANGED <<state, runEpoch, ready, alive>> /\ Only(p) /\ pc[p] = "epoch"
        /\ pc'[p] = "slot" /\ epoch'[p] = runEpoch
    BY Zenon, <1>4 DEF LoadEpoch, Only, Goto, task, slot, TypeOK
  <2>2. pc[p] \in RunningPc /\ (p \in Executors => OwnerAt(p)')
    BY Zenon, <1>0, <2>1 DEF OwnerAt, RunningPc, SelfPc, SchedulePc
  <2>3. SawAt(p)' /\ ~Claims(p)' /\ ~Claims(p)
    BY Zenon, <2>1 DEF SawAt, Claims, Claiming
  <2> QED BY Zenon, <2>1, <2>2, <2>3, PostStepSafe
<1>5. CASE RequestSlot(p)
  <2>1. /\ UNCHANGED <<state, runEpoch, ready, alive>> /\ Only(p) /\ pc[p] = "slot"
        /\ pc'[p] \in {"resolve", "stale", "idle", "refused"} /\ epoch'[p] = epoch[p]
    BY Zenon, <1>5 DEF RequestSlot, Return, Only, Goto, slot, TypeOK
  <2>2. pc[p] \in RunningPc /\ (p \in Executors => OwnerAt(p)')
    BY Zenon, <1>0, <2>1 DEF OwnerAt, RunningPc, SelfPc, SchedulePc
  <2>3. SawAt(p)' /\ ~Claims(p)' /\ ~Claims(p) /\ pc'[p] \notin {"doneTake", "finished"}
    BY Zenon, <2>1 DEF SawAt, Claims, Claiming
  <2> QED BY Zenon, <2>1, <2>2, <2>3, PostStepSafe
<1>6. CASE ClearStale(p)
  <2>1. /\ UNCHANGED <<state, runEpoch, ready, alive>> /\ Only(p) /\ pc[p] = "stale"
        /\ pc'[p] = "epoch"
    BY Zenon, <1>6 DEF ClearStale, Only, Goto, local, slot, TypeOK
  <2>2. pc[p] \in RunningPc /\ (p \in Executors => OwnerAt(p)')
    BY Zenon, <1>0, <2>1 DEF OwnerAt, RunningPc, SelfPc, SchedulePc
  <2>3. SawAt(p)' /\ ~Claims(p)' /\ ~Claims(p)
    BY Zenon, <2>1 DEF SawAt, Claims, Claiming
  <2> QED BY Zenon, <2>1, <2>2, <2>3, PostStepSafe
<1>7. CASE ResolveState(p)
  <2>1. /\ UNCHANGED <<state, runEpoch, ready, alive>> /\ Only(p) /\ pc[p] = "resolve"
        /\ pc'[p] = (IF state = "Running" THEN "resolveEpoch" ELSE "clear") /\ epoch'[p] = epoch[p]
    BY Zenon, <1>7 DEF ResolveState, Only, Goto, task, slot, TypeOK
  <2>2. pc[p] \in RunningPc /\ (p \in Executors => OwnerAt(p)')
    BY Zenon, <1>0, <2>1 DEF OwnerAt, RunningPc, SelfPc, SchedulePc
  <2>3. SawAt(p)' /\ ~Claims(p)' /\ ~Claims(p) /\ pc'[p] \notin {"doneTake", "finished"}
    BY Zenon, <2>1 DEF SawAt, Claims, Claiming
  <2> QED BY Zenon, <2>1, <2>2, <2>3, PostStepSafe
<1>8. CASE ResolveEpoch(p)
  <2>1. /\ UNCHANGED <<state, runEpoch, ready, alive>> /\ Only(p) /\ pc[p] = "resolveEpoch"
        /\ \/ pc'[p] \in {"idle", "posted"}
           \/ pc'[p] = "clear" /\ runEpoch # epoch[p]
    BY Zenon, <1>8 DEF ResolveEpoch, Return, Only, Goto, task, local, slot, TypeOK
  <2>2. pc[p] \in RunningPc /\ (p \in Executors => OwnerAt(p)')
    BY Zenon, <1>0, <2>1 DEF OwnerAt, RunningPc, SelfPc, SchedulePc
  <2>3. SawAt(p)' /\ ~Claims(p)' /\ ~Claims(p) /\ pc'[p] \notin {"doneTake", "finished"}
    BY Zenon, <2>1 DEF SawAt, Claims, Claiming
  <2> QED BY Zenon, <2>1, <2>2, <2>3, PostStepSafe
<1>9. CASE ResolveClear(p)
  <2>1. /\ UNCHANGED <<state, runEpoch, ready, alive>> /\ Only(p) /\ pc[p] = "clear"
        /\ saw'[p] = saw[p]
        /\ \/ pc'[p] \in {"idle", "posted"}
           \/ pc'[p] = "resolveCas" /\ saw[p] = "Pending"
    BY Zenon, <1>9 DEF ResolveClear, Return, Only, Goto, local, slot, TypeOK
  <2>2. p \notin Executors
    BY Zenon, <1>0, <2>1 DEF OwnerAt, SelfPc, SchedulePc
  <2>3. SawAt(p)' /\ ~Claims(p)' /\ ~Claims(p)
    BY Zenon, <2>1 DEF SawAt, Claims, Claiming
  <2> QED BY Zenon, <2>1, <2>2, <2>3, PostStepSafe
<1>10. CASE ResolveCas(p)
  <2>1. /\ UNCHANGED <<runEpoch, ready, alive>> /\ Only(p) /\ pc[p] = "resolveCas" /\ saw'[p] = saw[p]
        /\ \/ pc'[p] = "enqueue" /\ state = "Pending" /\ state' = "Queued"
           \/ pc'[p] = "resolve" /\ state' = state
    BY Zenon, <1>10 DEF ResolveCas, Only, Goto, local, slot, TypeOK
  <2>2. p \notin Executors
    BY Zenon, <1>0, <2>1 DEF OwnerAt, SelfPc, SchedulePc
  <2>3. SawAt(p)'
    BY Zenon, <1>a, <2>1 DEF SawAt
  <2>4. CASE pc'[p] = "enqueue" /\ state = "Pending" /\ state' = "Queued"
    <3>1. Claims(p)'
      BY Zenon, <2>4 DEF Claims, Claiming
    <3> QED BY Zenon, <2>1, <2>2, <2>3, <2>4, <3>1, ClaimSafe
  <2>5. CASE pc'[p] = "resolve" /\ state' = state
    <3>1. ~Claims(p)' /\ ~Claims(p)
      BY Zenon, <2>1, <2>5 DEF Claims, Claiming
    <3> QED BY Zenon, <2>1, <2>2, <2>3, <2>5, <3>1, PostStepSafe
  <2> QED BY Zenon, <2>1, <2>4, <2>5
<1> QED BY Zenon, <1>1, <1>2, <1>3, <1>4, <1>5, <1>6, <1>7, <1>8, <1>9, <1>10

\* enqueue(), its cancellation, pop_one() and the push that ends finish_pending move the
\* one entry or claim, and make no second one.
LEMMA QueuesSafe ==
  ASSUME TypeOK, SafeRest, NEW p \in Threads,
         \/ Enqueue(p) \/ CancelSchedule(p)
         \/ p \in Executors /\ (PopOne(p) \/ BlockingPush(p))
  PROVE  SafeRest'
<1>0. /\ p \in Executors => OwnerAt(p)
      /\ QueuedOnce /\ RunsExclusively /\ OwnerInv /\ DoneInv /\ SawInv
  BY Zenon DEF SafeRest, OwnerInv
<1>a. SawAt(p)
  BY Zenon DEF SafeRest, SawInv
<1>b. state = "Queued"
  BY Zenon, <1>0 DEF QueuedOnce, Claims, Claiming, Enqueue, CancelSchedule, PopOne, BlockingPush
<1>c. /\ \A y \in Executors : pc[y] \notin RunningPc
      /\ alive /\ \A y \in Executors : pc[y] \notin {"doneTake", "finished"}
  BY Zenon, <1>b, StateTells
<1>d. ASSUME Claims(p) PROVE
        (\A q \in Threads : q # p => ~Claims(q)) /\ \A y \in Executors : ready[y] <= 1 /\ ~(ready[y] > 0)
  BY Zenon, <1>d, <1>0 DEF QueuedOnce
<1>e. ASSUME Only(p), alive' = alive, SawAt(p)', QueuedOnce',
             p \in Executors => OwnerAt(p)' /\ pc'[p] \notin RunningPc \cup {"doneTake", "finished"}
      PROVE  SafeRest'
  <2>1. RunsExclusively'
    BY Zenon, <1>0, <1>e, RunsFrame
  <2>2. OwnerInv'
    BY Zenon, <1>0, <1>c, <1>e, OwnerFrame
  <2>3. DoneInv'
    BY Zenon, <1>0, <1>c, <1>e, DoneFrame
  <2>4. SawInv'
    BY Zenon, <1>0, <1>e, SawFrame
  <2> QED BY Zenon, <1>e, <2>1, <2>2, <2>3, <2>4 DEF SafeRest
<1>1. CASE Enqueue(p)
  <2>1. /\ Only(p) /\ alive' = alive /\ state' = state /\ saw'[p] = saw[p] /\ pc[p] = "enqueue"
        /\ \/ ready' = [ready EXCEPT ![dest[p]] = @ + 1] /\ pc'[p] \in {"idle", "posted"}
           \/ ready' = ready /\ pc'[p] = "cancel"
    BY Zenon, <1>1 DEF Enqueue, Return, Only, Goto, task, local, slot, TypeOK
  <2>2. p \notin Executors /\ Claims(p) /\ SawAt(p)' /\ dest[p] \in Executors
    BY Zenon, <1>0, <1>a, <2>1, Parameters DEF OwnerAt, SelfPc, SchedulePc, Claims, Claiming, SawAt, TypeOK
  <2>3. QueuedOnce'
    <3>1. CASE ready' = [ready EXCEPT ![dest[p]] = @ + 1] /\ pc'[p] \in {"idle", "posted"}
      <4>1. \A z \in Executors : ready'[z] = IF z = dest[p] THEN 1 ELSE 0
        BY Zenon, <3>1, <1>d, <2>2, FirstEntry
      <4>2. \A q \in Threads : ~Claims(q)'
        BY Zenon, <1>d, <2>1, <2>2, <3>1 DEF Only, Claims, Claiming
      <4> QED BY Zenon, <1>b, <2>1, <2>2, <4>1, <4>2, OneEntry
    <3>2. CASE ready' = ready /\ pc'[p] = "cancel"
      <4>1. Claims(p)'
        BY Zenon, <3>2 DEF Claims, Claiming
      <4> QED BY Zenon, <1>0, <2>1, <2>2, <3>2, <4>1, QueuedFrame
    <3> QED BY Zenon, <2>1, <3>1, <3>2
  <2> QED BY Zenon, <1>e, <2>1, <2>2, <2>3
<1>2. CASE CancelSchedule(p)
  <2>1. Claims(p) /\ pc[p] = "cancel"
    BY Zenon, <1>2 DEF CancelSchedule, Claims, Claiming
  <2>2. p \notin Executors /\ saw[p] \in {"Created", "Pending"}
    BY Zenon, <1>0, <1>a, <2>1 DEF OwnerAt, SelfPc, SchedulePc, SawAt
  <2>3. /\ Only(p) /\ alive' = alive /\ ready' = ready /\ state' = saw[p]
        /\ pc'[p] = "idle" /\ p \in Wakers
    BY Zenon, <1>2, <1>b, <2>2 DEF CancelSchedule, Return, Only, Goto, local, slot, TypeOK, Threads
  <2>4. \A q \in Threads : ~Claims(q)'
    BY Zenon, <1>d, <2>1, <2>3 DEF Only, Claims, Claiming
  <2>5. QueuedOnce'
    BY Zenon, <1>d, <2>1, <2>2, <2>3, <2>4 DEF QueuedOnce
  <2>6. SawAt(p)'
    BY Zenon, <2>3 DEF SawAt
  <2> QED BY Zenon, <1>e, <2>2, <2>3, <2>5, <2>6
<1>3. CASE p \in Executors /\ PopOne(p)
  <2>1. /\ Only(p) /\ alive' = alive /\ state' = state /\ ready[p] > 0 /\ pc'[p] = "start"
        /\ ready' = [ready EXCEPT ![p] = @ - 1]
    BY Zenon, <1>3 DEF PopOne, Only, Goto, task, local, slot, TypeOK
  <2>2. \A x \in Executors : ready'[x] <= 1 /\ ~(ready'[x] > 0)
    <3>1. \A x \in Executors : ready[x] <= 1 /\ (x # p => ~(ready[x] > 0))
      BY Zenon, <1>3, <2>1, <1>0 DEF QueuedOnce
    <3>2. ready \in [Executors -> Nat] /\ p \in Executors
      BY Zenon, <1>3 DEF TypeOK
    <3> QED BY <2>1, <3>1, <3>2
  <2>3. \A q \in Threads : Claims(q)' <=> q = p
    <3>1. \A q \in Threads : ~Claims(q)
      BY Zenon, <1>3, <2>1, <1>0 DEF QueuedOnce
    <3> QED BY Zenon, <2>1, <3>1 DEF Only, Claims, Claiming
  <2>4. QueuedOnce'
    BY Zenon, <1>b, <2>1, <2>2, <2>3, OneClaim
  <2>5. SawAt(p)' /\ OwnerAt(p)' /\ pc'[p] \notin RunningPc \cup {"doneTake", "finished"}
    BY Zenon, <2>1 DEF SawAt, OwnerAt, RunningPc, SelfPc, SchedulePc
  <2> QED BY Zenon, <1>e, <2>1, <2>4, <2>5
<1>4. CASE p \in Executors /\ BlockingPush(p)
  <2>1. Claims(p) /\ pc[p] \in {"pendingPush", "againPush"}
    BY Zenon, <1>4 DEF BlockingPush, Claims, Claiming
  <2>2. \E y \in Executors : ready' = [ready EXCEPT ![y] = @ + 1]
    <3>1. pc[p] = "pendingPush" => value[p].target \in Executors
      BY Zenon, <1>0, <1>4, Parameters DEF OwnerAt, Requests
    <3> QED BY Zenon, <1>4, <3>1 DEF BlockingPush
  <2>3. Only(p) /\ alive' = alive /\ state' = state /\ pc'[p] = "idle"
    BY Zenon, <1>4 DEF BlockingPush, Only, Goto, task, local, slot, TypeOK
  <2>4. QueuedOnce'
    <3>1. PICK y \in Executors : ready' = [ready EXCEPT ![y] = @ + 1]
      BY Zenon, <2>2
    <3>2. \A z \in Executors : ready'[z] = IF z = y THEN 1 ELSE 0
      BY Zenon, <1>d, <2>1, <3>1, FirstEntry
    <3>3. \A q \in Threads : ~Claims(q)'
      BY Zenon, <1>d, <2>1, <2>3 DEF Only, Claims, Claiming
    <3> QED BY Zenon, <1>b, <2>3, <3>2, <3>3, OneEntry
  <2>5. SawAt(p)' /\ OwnerAt(p)' /\ pc'[p] \notin RunningPc \cup {"doneTake", "finished"}
    BY Zenon, <2>3 DEF SawAt, OwnerAt, RunningPc, SelfPc, SchedulePc
  <2> QED BY Zenon, <1>e, <2>3, <2>4, <2>5
<1> QED BY Zenon, <1>1, <1>2, <1>3, <1>4

\* execute() and the finish functions up to the last push keep the run exclusive.
LEMMA RunsSafe ==
  ASSUME TypeOK, SafeRest, NEW x \in Executors,
         \/ ExecuteCas(x) \/ prepare_running_epoch(x) \/ StoreRunning(x) \/ FinishDone(x)
         \/ FinishAgain(x) \/ FinishPending(x) \/ TakeRequest(x) \/ CheckEpoch(x)
         \/ enqueue_pending_blocking(x) \/ ReleaseTask(x)
  PROVE  SafeRest'
<1>0. OwnerAt(x) /\ x \in Threads /\ QueuedOnce /\ RunsExclusively /\ OwnerInv /\ DoneInv /\ SawInv
  BY Zenon DEF SafeRest, OwnerInv, Threads
<1>a. ASSUME pc[x] \in RunningPc PROVE \A y \in Executors : y # x => pc[y] \notin RunningPc
  BY Zenon, <1>a, <1>0 DEF RunsExclusively
<1>b. ASSUME Only(x), SawAt(x)', OwnerAt(x)', QueuedOnce', alive' = alive,
             state # "Done", pc'[x] # "finished", pc'[x] = "doneTake" => state' = "Done",
             pc[x] \in RunningPc \/ (pc'[x] \notin RunningPc /\ UNCHANGED <<state, runEpoch>>)
      PROVE  SafeRest'
  <2>1. RunsExclusively'
    BY Zenon, <1>0, <1>b, RunsFrame
  <2>2. OwnerInv'
    BY Zenon, <1>0, <1>a, <1>b, OwnerFrame
  <2>3. DoneInv'
    <3>1. alive /\ \A y \in Executors : pc[y] \notin {"doneTake", "finished"}
      BY Zenon, <1>b, StateTells
    <3> QED BY Zenon, <1>0, <1>b, <3>1, DoneFrame
  <2>4. SawInv'
    BY Zenon, <1>0, <1>b, SawFrame
  <2> QED BY Zenon, <1>b, <2>1, <2>2, <2>3, <2>4 DEF SafeRest
<1>1. CASE ExecuteCas(x)
  <2>1. Claims(x) /\ state = "Queued" /\ pc[x] = "start"
    BY Zenon, <1>1, <1>0 DEF ExecuteCas, Claims, Claiming, QueuedOnce
  <2>2. /\ Only(x) /\ alive' = alive /\ ready' = ready /\ state' = "Starting" /\ pc'[x] = "prepare"
    BY Zenon, <1>1, <1>0, <2>1 DEF ExecuteCas, Only, Goto, local, slot, TypeOK
  <2>3. /\ \A y \in Executors : pc[y] \notin RunningPc
        /\ alive /\ \A y \in Executors : pc[y] \notin {"doneTake", "finished"}
    BY Zenon, <2>1, StateTells
  <2>4. QueuedOnce'
    <3>1. \A q \in Threads : ~Claims(q)'
      BY Zenon, <2>1, <2>2, <1>0 DEF QueuedOnce, Only, Claims, Claiming
    <3> QED BY Zenon, <2>1, <2>2, <3>1, <1>0 DEF QueuedOnce
  <2>5. OwnerAt(x)' /\ SawAt(x)' /\ pc'[x] \notin {"doneTake", "finished"}
    BY Zenon, <2>2 DEF OwnerAt, SawAt, SelfPc, SchedulePc
  <2>6. RunsExclusively'
    BY Zenon, <1>0, <2>2, <2>3, RunsFrame
  <2>7. OwnerInv'
    BY Zenon, <1>0, <2>2, <2>3, <2>5, OwnerFrame
  <2>8. DoneInv'
    BY Zenon, <1>0, <2>2, <2>3, <2>5, DoneFrame
  <2>9. SawInv'
    BY Zenon, <1>0, <2>2, <2>5, SawFrame
  <2> QED BY Zenon, <2>4, <2>6, <2>7, <2>8, <2>9 DEF SafeRest
<1>2. CASE prepare_running_epoch(x) \/ StoreRunning(x)
  <2>1. /\ Only(x) /\ alive' = alive /\ ready' = ready /\ pc[x] \in {"prepare", "run"}
        /\ \/ pc'[x] = "run" /\ state' = state
           \/ pc'[x] = "body" /\ state' = "Running"
    BY Zenon, <1>2, <1>0 DEF prepare_running_epoch, StoreRunning, Only, Goto, local, slot, TypeOK
  <2>2. state = "Starting" /\ OwnerAt(x)' /\ SawAt(x)' /\ pc[x] \in RunningPc
    BY Zenon, <1>0, <2>1 DEF OwnerAt, SawAt, SelfPc, SchedulePc, RunningPc
  <2>3. ~Claims(x)' /\ ~Claims(x)
    BY Zenon, <2>1 DEF Claims, Claiming
  <2>4. QueuedOnce'
    BY Zenon, <1>0, <2>1, <2>2, <2>3, QueuedFrame
  <2> QED BY Zenon, <1>b, <2>1, <2>2, <2>4
<1>3. CASE FinishDone(x) \/ FinishPending(x)
  <2>1. /\ Only(x) /\ alive' = alive /\ ready' = ready /\ pc[x] \in {"body", "posted", "refused"}
        /\ \/ pc'[x] = "doneTake" /\ state' = "Done"
           \/ pc'[x] = "pendingTake" /\ state' = "Pending"
    BY Zenon, <1>3, <1>0 DEF FinishDone, FinishPending, Only, Goto, local, slot, TypeOK
  <2>2. state = "Running" /\ OwnerAt(x)' /\ SawAt(x)' /\ pc[x] \in RunningPc
    BY Zenon, <1>0, <2>1 DEF OwnerAt, SawAt, SelfPc, SchedulePc, RunningPc
  <2>3. ~Claims(x)' /\ ~Claims(x)
    BY Zenon, <2>1 DEF Claims, Claiming
  <2>4. QueuedOnce'
    BY Zenon, <1>0, <2>1, <2>2, <2>3, QueuedFrame
  <2> QED BY Zenon, <1>b, <2>1, <2>2, <2>4
<1>4. CASE FinishAgain(x)
  <2>1. /\ Only(x) /\ alive' = alive /\ ready' = ready /\ pc[x] = "body"
        /\ pc'[x] = "againTake" /\ state' = "Queued"
    BY Zenon, <1>4, <1>0 DEF FinishAgain, Only, Goto, local, slot, TypeOK
  <2>2. state = "Running" /\ OwnerAt(x)' /\ SawAt(x)' /\ pc[x] \in RunningPc
    BY Zenon, <1>0, <2>1 DEF OwnerAt, SawAt, SelfPc, SchedulePc, RunningPc
  <2>3. QueuedOnce'
    <3>1. (\A q \in Threads : ~Claims(q)) /\ \A y \in Executors : ready[y] <= 1 /\ ~(ready[y] > 0)
      BY Zenon, <2>2, StateTells
    <3>2. \A q \in Threads : Claims(q)' <=> q = x
      BY Zenon, <2>1, <3>1 DEF Only, Claims, Claiming
    <3> QED BY Zenon, <1>0, <2>1, <3>1, <3>2, OneClaim
  <2> QED BY Zenon, <1>b, <2>1, <2>2, <2>3
<1>5. CASE (TakeRequest(x) /\ pc[x] # "doneTake") \/ CheckEpoch(x)
  <2>1. /\ Only(x) /\ UNCHANGED <<alive, ready, state, runEpoch>>
        /\ \/ pc[x] = "againTake" /\ pc'[x] = "againPush"
           \/ pc[x] = "pendingTake" /\ pc'[x] = "idle"
           \/ pc[x] = "pendingTake" /\ pc'[x] = "pendingCheck" /\ value'[x] \in Requests
           \/ pc[x] = "pendingCheck" /\ pc'[x] = "pendingCas" /\ value'[x] = value[x]
           \/ pc[x] = "pendingCheck" /\ pc'[x] = "idle"
    BY Zenon, <1>5, <1>0 DEF TakeRequest, CheckEpoch, Only, Goto, task, local, slot, TypeOK
  <2>2. OwnerAt(x)' /\ SawAt(x)' /\ pc'[x] \notin RunningPc \cup {"doneTake", "finished"}
    BY Zenon, <1>0, <2>1 DEF OwnerAt, SawAt, SelfPc, SchedulePc, RunningPc
  <2>3. Claims(x)' <=> Claims(x)
    BY Zenon, <2>1 DEF Claims, Claiming
  <2>4. QueuedOnce'
    BY Zenon, <1>0, <2>1, <2>3, QueuedFrame
  <2>5. RunsExclusively'
    BY Zenon, <1>0, <2>1, <2>2, RunsFrame
  <2>6. OwnerInv'
    BY Zenon, <1>0, <2>1, <2>2, OwnerFrame
  <2>7. DoneInv'
    BY Zenon, <1>0, <2>1, <2>2, DoneFrame DEF DoneInv
  <2>8. SawInv'
    BY Zenon, <1>0, <2>1, <2>2, SawFrame
  <2> QED BY Zenon, <2>4, <2>5, <2>6, <2>7, <2>8 DEF SafeRest
<1>6. CASE enqueue_pending_blocking(x)
  <2>1. /\ Only(x) /\ UNCHANGED <<alive, ready, runEpoch>> /\ value'[x] = value[x] /\ pc[x] = "pendingCas"
        /\ \/ pc'[x] = "pendingPush" /\ state = "Pending" /\ state' = "Queued"
           \/ pc'[x] = "idle" /\ state' = state
    BY Zenon, <1>6, <1>0 DEF enqueue_pending_blocking, Only, Goto, local, slot, TypeOK
  <2>2. OwnerAt(x)' /\ SawAt(x)' /\ pc'[x] \notin RunningPc \cup {"doneTake", "finished"}
    BY Zenon, <1>0, <2>1 DEF OwnerAt, SawAt, SelfPc, SchedulePc, RunningPc
  <2>3. CASE pc'[x] = "pendingPush" /\ state = "Pending" /\ state' = "Queued"
    <3>1. Claims(x)'
      BY Zenon, <2>3 DEF Claims, Claiming
    <3> QED BY Zenon, <1>0, <2>1, <2>2, <2>3, <3>1, ClaimSafe
  <2>4. CASE pc'[x] = "idle" /\ state' = state
    <3>1. ~Claims(x)' /\ ~Claims(x)
      BY Zenon, <2>1, <2>4 DEF Claims, Claiming
    <3>2. QueuedOnce'
      BY Zenon, <1>0, <2>1, <2>4, <3>1, QueuedFrame
    <3>3. RunsExclusively'
      BY Zenon, <1>0, <2>1, <2>2, RunsFrame
    <3>4. OwnerInv'
      BY Zenon, <1>0, <2>1, <2>2, <2>4, OwnerFrame
    <3>5. DoneInv'
      BY Zenon, <1>0, <2>1, <2>2, <2>4, DoneFrame DEF DoneInv
    <3>6. SawInv'
      BY Zenon, <1>0, <2>1, <2>2, SawFrame
    <3> QED BY Zenon, <3>2, <3>3, <3>4, <3>5, <3>6 DEF SafeRest
  <2> QED BY Zenon, <2>1, <2>3, <2>4
<1>7. CASE (TakeRequest(x) /\ pc[x] = "doneTake") \/ ReleaseTask(x)
  <2>1. /\ Only(x) /\ UNCHANGED <<ready, state, runEpoch>>
        /\ \/ pc[x] = "doneTake" /\ pc'[x] = "finished" /\ alive' = alive
           \/ pc[x] = "finished" /\ pc'[x] = "idle"
    BY Zenon, <1>7, <1>0 DEF TakeRequest, ReleaseTask, Only, Goto, task, local, slot, TypeOK
  <2>2. OwnerAt(x)' /\ SawAt(x)' /\ pc'[x] \notin RunningPc
    BY Zenon, <1>0, <2>1 DEF OwnerAt, SawAt, SelfPc, SchedulePc, RunningPc
  <2>3. ~Claims(x)' /\ ~Claims(x)
    BY Zenon, <2>1 DEF Claims, Claiming
  <2>4. /\ state = "Done" /\ alive
        /\ \A y \in Executors : y # x => pc[y] \notin {"doneTake", "finished"}
    BY Zenon, <2>1, <1>0 DEF DoneInv
  <2>5. QueuedOnce'
    BY Zenon, <1>0, <2>1, <2>3, QueuedFrame
  <2>6. RunsExclusively'
    BY Zenon, <1>0, <2>1, <2>2, RunsFrame
  <2>7. OwnerInv'
    BY Zenon, <1>0, <2>1, <2>2, OwnerFrame
  <2>8. DoneInv'
    BY Zenon, <1>0, <2>1, <2>4, DoneFrame
  <2>9. SawInv'
    BY Zenon, <1>0, <2>1, <2>2, SawFrame
  <2> QED BY Zenon, <2>5, <2>6, <2>7, <2>8, <2>9 DEF SafeRest
<1> QED BY Zenon, <1>1, <1>2, <1>3, <1>4, <1>5, <1>6, <1>7

\* The slot is reused when no thread is inside the runtime with the old task.
LEMMA RecreateSafe ==
  ASSUME TypeOK, SafeRest, Recreate
  PROVE  SafeRest'
<1>0. QueuedOnce /\ OwnerInv /\ DoneInv /\ SawInv
  BY Zenon DEF SafeRest
<1>1. /\ state = "Done" /\ ~alive /\ state' = "Created" /\ alive' /\ UNCHANGED <<pc, ready>>
      /\ NoPostInFlight
  BY Zenon, <1>0 DEF Recreate, DoneInv
<1>2. /\ \A y \in Executors : pc[y] \notin RunningPc /\ pc[y] \notin {"doneTake", "finished"}
      /\ (\A q \in Threads : ~Claims(q)) /\ \A y \in Executors : ready[y] <= 1 /\ ~(ready[y] > 0)
  BY Zenon, <1>0, <1>1, StateTells DEF DoneInv
<1>3. \A q \in Threads : pc[q] \notin SchedulePc
  BY Zenon, <1>1, <1>2 DEF NoPostInFlight, Posting, Threads, RunningPc
<1>4. QueuedOnce'
  BY Zenon, <1>1, <1>2 DEF QueuedOnce, Claims
<1>5. RunsExclusively'
  BY Zenon, <1>1, <1>2 DEF RunsExclusively
<1>6. OwnerInv'
  <2>1. UNCHANGED value
    BY Zenon DEF Recreate, local
  <2>2. ASSUME NEW y \in Executors PROVE OwnerAt(y)'
    <3>1. OwnerAt(y) /\ pc'[y] = pc[y] /\ pc[y] \notin RunningPc
      BY Zenon, <1>0, <1>1, <1>2 DEF OwnerInv
    <3> QED BY Zenon, <2>1, <3>1 DEF OwnerAt, RunningPc, SelfPc, SchedulePc
  <2> QED BY Zenon, <2>2 DEF OwnerInv
<1>7. DoneInv'
  BY Zenon, <1>1, <1>2 DEF DoneInv
<1>8. SawInv'
  BY Zenon, <1>1, <1>3 DEF SawInv, SawAt, SchedulePc
<1> QED BY Zenon, <1>4, <1>5, <1>6, <1>7, <1>8 DEF SafeRest

\* Every step keeps the queue entry unique and the run exclusive.
LEMMA SafeStep == SafeInv /\ [Next]_vars => SafeInv'
<1> SUFFICES ASSUME SafeInv, [Next]_vars PROVE SafeInv'
  BY Zenon
<1>0. TypeOK /\ SafeRest /\ TypeOK'
  BY Zenon, NextType DEF SafeInv
<1>1. ASSUME NEW w \in Wakers, WakerPost(w) PROVE SafeRest'
  BY Zenon, <1>0, <1>1, PostsSafe DEF Threads
<1>2. ASSUME NEW x \in Executors, PendingOn(x) \/ PopOne(x) PROVE SafeRest'
  <2>1. x \in Threads
    BY Zenon DEF Threads
  <2> QED BY Zenon, <1>0, <1>2, <2>1, PostsSafe, QueuesSafe
<1>3. ASSUME NEW p \in Threads, Schedule(p) PROVE SafeRest'
  <2>1. CASE Enqueue(p) \/ CancelSchedule(p)
    BY Zenon, <1>0, <2>1, QueuesSafe
  <2>2. CASE ~(Enqueue(p) \/ CancelSchedule(p))
    BY Zenon, <1>0, <1>3, <2>2, PostsSafe DEF Schedule
  <2> QED BY Zenon, <2>1, <2>2
<1>4. ASSUME NEW x \in Executors, Execute(x) PROVE SafeRest'
  <2>1. CASE BlockingPush(x)
    BY Zenon, <1>0, <2>1, QueuesSafe DEF Threads
  <2>2. CASE ~BlockingPush(x)
    BY Zenon, <1>0, <1>4, <2>2, RunsSafe DEF Execute
  <2> QED BY Zenon, <2>1, <2>2
<1>5. ASSUME Recreate PROVE SafeRest'
  BY Zenon, <1>0, <1>5, RecreateSafe
<1>6. ASSUME UNCHANGED vars PROVE SafeRest'
  <2> USE <1>0, <1>6 DEF SafeRest, vars, task, local, slot, history
  <2>1. QueuedOnce' /\ RunsExclusively'
    BY Zenon DEF QueuedOnce, RunsExclusively, Claims
  <2>2. OwnerInv' /\ SawInv'
    BY Zenon DEF OwnerInv, OwnerAt, SawInv, SawAt
  <2>3. DoneInv'
    BY Zenon DEF DoneInv
  <2> QED BY Zenon, <2>1, <2>2, <2>3
<1>7. SafeRest'
  BY Zenon, <1>1, <1>2, <1>3, <1>4, <1>5, <1>6 DEF Next
<1> QED BY Zenon, <1>0, <1>7 DEF SafeInv

\* A Created task is in no queue and in no executor.
LEMMA InitSafe == Init => SafeInv
  BY InitType, Parameters DEF Claiming, Claims, SchedulePc, RunningPc, SelfPc, SawInv, SawAt,
       DoneInv, OwnerInv, OwnerAt, RunsExclusively, QueuedOnce, Threads, SafeInv, SafeRest, Init

\* Whatever the wakers do, the task words and the queues stay well typed.
THEOREM TypeCorrect == Spec => []TypeOK
  BY InitType, NextType, PTL DEF Spec

\* For any number of executors, of racing posts and of refused enqueues, and for
\* tasks recycled in one pool slot, a Queued task is in exactly one place.
THEOREM QueuedOnceThm == Spec => []QueuedOnce
<1>1. SafeInv => QueuedOnce
  BY Zenon DEF SafeInv, SafeRest
<1> QED BY <1>1, InitSafe, SafeStep, PTL DEF Spec

\* For any number of executors and racing posts, run() is never entered twice at
\* the same time.
THEOREM RunsExclusivelyThm == Spec => []RunsExclusively
<1>1. SafeInv => RunsExclusively
  BY Zenon DEF SafeInv, SafeRest
<1> QED BY <1>1, InitSafe, SafeStep, PTL DEF Spec

-----------------------------------------------------------------------------
(* No wake-up is lost when wakers keep the contract of the wake protocol:   *)
(* first the steps that post a wake-up, then those that resolve one and run *)
(* the task, and the theorems.                                              *)

Early == {"load", "cas", "epoch", "slot"}
Driving == {"resolveCas", "enqueue", "cancel"}
Resolving == {"resolve", "resolveEpoch", "clear"}

\* At most one post is outstanding, and it belongs to the current run.
OnePost ==
    /\ posts \in {0, 1}
    /\ posts = 0 => unseen = {}
    /\ \A p, q \in unseen : p = q
    /\ \A p \in Threads : pc[p] # "stale" /\ (pc[p] \in Early \cup Driving => p \in unseen)
    /\ \A w \in Wakers : w \in unseen /\ Posting(w) /\ home # "none" => dest[w] = home
    /\ state \in {"Queued", "Starting", "Done"} => posts = 1
    /\ state = "Done" => NoPostInFlight
    /\ \A x \in Executors : pc[x] = "againTake" => NoPostInFlight

\* Epochs stay below the span of a packed request.
EpochBound ==
    /\ runEpoch <= MaxRuns
    /\ state \in {"Created", "Queued", "Pending"} => runEpoch < MaxRuns
    /\ \A x \in Executors : pc[x] = "prepare" => runEpoch < MaxRuns
    /\ \A p \in Threads : epoch[p] <= MaxRuns

\* A task leaves the executor that ran it only after finish_pending is over.
HomeInv ==
    /\ state = "Created" => home = "none"
    /\ \A p \in Threads :
        pc[p] \in {"cas", "enqueue", "cancel"} /\ saw[p] = "Created" => home = "none"
    /\ \A x \in Executors :
        /\ pc[x] \in {"body", "posted", "refused", "pendingTake", "pendingCheck", "pendingCas"} \cup SelfPc
              => home = x
        /\ pc[x] = "pendingTake" =>
              /\ state \in {"Pending", "Queued"}
              /\ \A y \in Executors : ready[y] > 0 => y = x
              /\ \A p \in Threads : Claims(p) => pc[p] \in {"enqueue", "cancel"} /\ dest[p] = x
        /\ pc[x] \in {"pendingCheck", "pendingCas"} =>
              /\ state = "Pending" /\ value[x].epoch = runEpoch /\ request = None /\ unseen # {}
              /\ \A p \in Threads : pc[p] \notin Early \cup Driving

\* A request in the slot belongs to the current run and to the outstanding post.
RequestInv ==
    request # None =>
        /\ request.epoch = runEpoch
        /\ unseen # {}
        /\ state \in {"Running", "Pending", "Queued", "Done"}
        /\ state = "Queued" => \E x \in Executors : pc[x] = "againTake"

Taken == \E x \in Executors : pc[x] \in {"pendingCheck", "pendingCas"}

\* Something will start the task again.
Covered ==
    \/ state \in {"Queued", "Starting", "Done"}
    \/ state = "Running" /\ request # None
    \/ state = "Pending" /\ request # None /\ \E x \in Executors : pc[x] = "pendingTake"
    \/ Taken

\* Where the outstanding post stands: not yet registered, registered, or driving
\* the task into a queue itself; once it has returned the task is Covered.
PostAt(p) ==
    /\ pc[p] \in Early => state \in {"Created", "Running", "Pending"} /\ request = None
    /\ pc[p] \in {"epoch", "slot"} => state # "Created"
    /\ pc[p] = "slot" => epoch[p] = runEpoch
    /\ pc[p] \in Resolving /\ p \in unseen =>
          /\ state \notin {"Created", "Done"}
          /\ epoch[p] <= runEpoch
          /\ state # "Starting" => epoch[p] = runEpoch
          /\ \A x \in Executors : pc[x] = "run" => epoch[p] < runEpoch
          /\ request = desired(p) \/ state \in {"Queued", "Starting"} \/ Taken
    /\ pc[p] = "resolveEpoch" /\ p \in unseen => Covered
    /\ pc[p] = "clear" /\ p \in unseen =>
          IF saw[p] = "Pending" THEN state # "Running" ELSE state \in {"Queued", "Starting"}
    /\ pc[p] \in Resolving /\ p \notin unseen => p \in Wakers /\ epoch[p] < runEpoch
    /\ pc[p] = "resolveCas" => state = "Pending" /\ request = None
    /\ pc[p] \in {"enqueue", "cancel"} => request = None
    /\ p \in unseen /\ ~Posting(p) => Covered

PostInv == \A p \in Threads : PostAt(p)

WakeInv == OnePost /\ EpochBound /\ HomeInv /\ RequestInv /\ PostInv

\* Under the contract pack_requested_thread loses no bit of the epoch, and never
\* packs the empty request.
LEMMA PackedRequest ==
  ASSUME Contract, TypeOK, EpochBound, NEW p \in Threads
  PROVE  /\ desired(p) \in Requests
         /\ desired(p).epoch = epoch[p]
         /\ desired(p) # None
<1>1. epoch[p] \in Nat /\ epoch[p] % EpochSpan = epoch[p] /\ dest[p] \in Targets /\ dest[p] # "none"
  BY Parameters DEF EpochBound, TypeOK, Contract
<1>2. desired(p) = [epoch |-> epoch[p], target |-> dest[p]]
  BY Zenon, <1>1 DEF pack, desired
<1> QED BY <1>1, <1>2 DEF None, Requests

-----------------------------------------------------------------------------
(* What a step of one thread keeps, when the threads besides it stand still. *)

\* A step that begins no post and starts no run keeps OnePost.
LEMMA OnePostFrame ==
  ASSUME OnePost, NEW p \in Threads, Only(p), UNCHANGED <<home, posts, unseen>>, dest'[p] = dest[p],
         state' \in {"Queued", "Starting", "Done"} => posts = 1,
         state' = "Done" => state = "Done",
         Posting(p)' => Posting(p),
         pc'[p] \notin {"stale", "againTake"},
         pc'[p] \in Early \cup Driving => p \in unseen
  PROVE  OnePost'
<1>1. \A q \in Threads : Posting(q)' => Posting(q)
  BY Zenon DEF Only, Posting
<1>2. NoPostInFlight => NoPostInFlight'
  BY Zenon, <1>1 DEF NoPostInFlight, Threads
<1>3. \A q \in Threads : pc'[q] # "stale" /\ (pc'[q] \in Early \cup Driving => q \in unseen')
  BY Zenon DEF Only, OnePost
<1>4. \A q \in Threads : dest'[q] = dest[q]
  BY Zenon DEF Only
<1>5. \A x \in Executors : pc'[x] = "againTake" => NoPostInFlight'
  BY Zenon, <1>2 DEF Only, OnePost, Threads
<1> QED BY Zenon, <1>1, <1>2, <1>3, <1>4, <1>5 DEF OnePost, Threads

\* A step of p outside the tail of finish_pending keeps HomeInv, when it disturbs none of
\* what the executor inside that tail relies on.
LEMMA HomeFrame ==
  ASSUME HomeInv, NEW p \in Threads, Only(p), UNCHANGED home,
         state' = "Created" => home = "none",
         pc'[p] \in {"cas", "enqueue", "cancel"} /\ saw'[p] = "Created" => home = "none",
         p \in Executors /\ pc'[p] \in {"body", "posted", "refused"} \cup SelfPc => home = p,
         pc'[p] \notin {"pendingTake", "pendingCheck", "pendingCas"},
         \A x \in Executors : x # p /\ pc[x] = "pendingTake" =>
            /\ state' \in {"Pending", "Queued"}
            /\ \A y \in Executors : ready'[y] > 0 => y = x
            /\ Claims(p)' => pc'[p] \in {"enqueue", "cancel"} /\ dest'[p] = x,
         \A x \in Executors : x # p /\ pc[x] \in {"pendingCheck", "pendingCas"} =>
            UNCHANGED <<state, request, runEpoch, unseen>> /\ pc'[p] \notin Early \cup Driving
  PROVE  HomeInv'
<1>1. \A q \in Threads : pc'[q] \in {"cas", "enqueue", "cancel"} /\ saw'[q] = "Created" => home' = "none"
  BY Zenon DEF Only, HomeInv
<1>2. ASSUME NEW x \in Executors PROVE
        pc'[x] \in {"body", "posted", "refused", "pendingTake", "pendingCheck", "pendingCas"} \cup SelfPc
          => home' = x
  <2>1. CASE x = p
    BY Zenon, <2>1
  <2>2. CASE x # p
    <3>1. pc'[x] = pc[x]
      BY Zenon, <2>2 DEF Only, Threads
    <3> QED BY Zenon, <3>1 DEF HomeInv
  <2> QED BY Zenon, <2>1, <2>2
<1>3. ASSUME NEW x \in Executors, pc'[x] = "pendingTake" PROVE
        /\ state' \in {"Pending", "Queued"}
        /\ \A y \in Executors : ready'[y] > 0 => y = x
        /\ \A q \in Threads : Claims(q)' => pc'[q] \in {"enqueue", "cancel"} /\ dest'[q] = x
  <2>1. x # p /\ pc[x] = "pendingTake"
    BY Zenon, <1>3 DEF Only, Threads
  <2>2. \A q \in Threads : q # p /\ Claims(q)' => Claims(q) /\ pc'[q] = pc[q] /\ dest'[q] = dest[q]
    BY Zenon DEF Only, Claims
  <2> QED BY Zenon, <2>1, <2>2 DEF HomeInv
<1>4. ASSUME NEW x \in Executors, pc'[x] \in {"pendingCheck", "pendingCas"} PROVE
        /\ state' = "Pending" /\ value'[x].epoch = runEpoch' /\ request' = None /\ unseen' # {}
        /\ \A q \in Threads : pc'[q] \notin Early \cup Driving
  <2>1. x # p /\ pc[x] \in {"pendingCheck", "pendingCas"} /\ value'[x] = value[x]
    BY Zenon, <1>4 DEF Only, Threads
  <2>2. UNCHANGED <<state, request, runEpoch, unseen>> /\ pc'[p] \notin Early \cup Driving
    BY Zenon, <2>1
  <2> QED BY Zenon, <2>1, <2>2 DEF Only, HomeInv
<1> QED BY Zenon, <1>1, <1>2, <1>3, <1>4 DEF HomeInv

\* A step that leaves the request and the task's state alone keeps RequestInv.
LEMMA RequestFrame ==
  ASSUME RequestInv, NEW p \in Threads, Only(p), UNCHANGED <<state, request, runEpoch>>,
         unseen # {} => unseen' # {},
         pc[p] # "againTake"
  PROVE  RequestInv'
<1>1. \A x \in Executors : pc[x] = "againTake" => pc'[x] = "againTake"
  BY Zenon DEF Only, Threads
<1> QED BY Zenon, <1>1 DEF RequestInv

\* A step that leaves the task alone keeps PostInv for the threads besides p.
LEMMA PostFrame ==
  ASSUME PostInv, NEW p \in Threads, Only(p), UNCHANGED <<state, request, runEpoch, unseen>>,
         pc'[p] # "run", Taken => Taken', Covered => Covered', PostAt(p)'
  PROVE  PostInv'
<1>1. \A x \in Executors : pc'[x] = "run" => pc[x] = "run"
  BY Zenon DEF Only, Threads
<1>2. ASSUME NEW q \in Threads, q # p PROVE PostAt(q)'
  <2>1. /\ pc'[q] = pc[q] /\ saw'[q] = saw[q] /\ epoch'[q] = epoch[q] /\ desired(q)' = desired(q)
        /\ Posting(q)' <=> Posting(q)
    BY Zenon, <1>2 DEF Only, desired, Posting
  <2>2. PostAt(q)
    BY Zenon DEF PostInv
  <2> QED BY Zenon, <1>1, <2>1, <2>2 DEF PostAt
<1> QED BY Zenon, <1>2 DEF PostInv

\* The outstanding post is alone: no other thread is deciding about the task, so PostInv
\* holds after a step of its thread whatever the step does to the task.
LEMMA PostAlone ==
  ASSUME PostInv, OnePost, NEW p \in Threads, Only(p), UNCHANGED <<runEpoch, unseen>>,
         p \in unseen, PostAt(p)'
  PROVE  PostInv'
<1>1. ASSUME NEW q \in Threads, q # p PROVE PostAt(q)'
  <2>1. q \notin unseen /\ pc[q] \notin Early \cup Driving
    BY Zenon, <1>1 DEF OnePost
  <2>2. /\ pc'[q] = pc[q] /\ epoch'[q] = epoch[q] /\ q \notin unseen'
    BY Zenon, <1>1, <2>1 DEF Only
  <2>3. pc[q] \in Resolving => q \in Wakers /\ epoch[q] < runEpoch
    BY Zenon, <2>1 DEF PostInv, PostAt
  <2> QED BY Zenon, <2>1, <2>2, <2>3 DEF PostAt, Early, Driving
<1> QED BY Zenon, <1>1 DEF PostInv

\* The epochs a post has loaded never run ahead of run_epoch_ (prepare_running_epoch).
LEMMA EpochStep == SafeInv /\ EpochBound /\ [Next]_vars => EpochBound'
<1> SUFFICES ASSUME SafeInv, EpochBound, [Next]_vars PROVE EpochBound'
  BY Zenon
<1>0. TypeOK /\ SawInv /\ OwnerInv /\ RunsExclusively
  BY Zenon DEF SafeInv, SafeRest
<1> USE Parameters, <1>0 DEF TypeOK, EpochBound, Threads, Goto, task, local, slot, history
<1>1. ASSUME NEW w \in Wakers, WakerPost(w) PROVE EpochBound'
  BY <1>1 DEF Call, WakerPost
<1>2. ASSUME NEW x \in Executors, PendingOn(x) PROVE EpochBound'
  BY <1>2 DEF Call, PendingOn
<1>3. ASSUME NEW x \in Executors, PopOne(x) PROVE EpochBound'
  BY Zenon, <1>3 DEF PopOne
<1>4. ASSUME NEW p \in Threads, Schedule(p) PROVE EpochBound'
  <2>1. CASE LoadState(p)
    BY Zenon, <2>1 DEF Return, LoadState
  <2>2. CASE CasQueued(p)
    BY <2>2 DEF SawInv, SawAt, CasQueued
  <2>3. CASE LoadEpoch(p)
    BY Zenon, <2>3 DEF LoadEpoch
  <2>4. CASE RequestSlot(p)
    BY Zenon, <2>4 DEF Return, RequestSlot
  <2>5. CASE ClearStale(p)
    BY Zenon, <2>5 DEF clear_requested_thread_if, ClearStale
  <2>6. CASE ResolveState(p)
    BY Zenon, <2>6 DEF ResolveState
  <2>7. CASE ResolveEpoch(p)
    BY Zenon, <2>7 DEF Return, ResolveEpoch
  <2>8. CASE ResolveClear(p)
    BY Zenon, <2>8 DEF clear_requested_thread_if, Return, ResolveClear
  <2>9. CASE ResolveCas(p)
    BY Zenon, <2>9 DEF ResolveCas
  <2>10. CASE Enqueue(p)
    BY Zenon, <2>10 DEF Return, Enqueue
  <2>11. CASE CancelSchedule(p)
    BY Zenon, <2>11 DEF Return, CancelSchedule
  <2> QED BY Zenon, <1>4, <2>1, <2>2, <2>3, <2>4, <2>5, <2>6, <2>7, <2>8, <2>9, <2>10, <2>11 DEF
       Schedule
<1>5. ASSUME NEW x \in Executors, Execute(x) PROVE EpochBound'
  <2>1. CASE ExecuteCas(x)
    BY Zenon, <2>1 DEF ExecuteCas
  <2>2. CASE prepare_running_epoch(x)
    BY <2>2 DEF RunningPc, RunsExclusively, OwnerInv, OwnerAt, prepare_running_epoch
  <2>3. CASE StoreRunning(x)
    BY Zenon, <2>3 DEF StoreRunning
  <2>4. CASE FinishDone(x)
    BY Zenon, <2>4 DEF FinishDone
  <2>5. CASE FinishAgain(x)
    BY Zenon, <2>5 DEF FinishAgain
  <2>6. CASE FinishPending(x)
    BY Zenon, <2>6 DEF FinishPending
  <2>7. CASE TakeRequest(x)
    BY Zenon, <2>7 DEF TakeRequest
  <2>8. CASE CheckEpoch(x)
    BY Zenon, <2>8 DEF CheckEpoch
  <2>9. CASE enqueue_pending_blocking(x)
    BY Zenon, <2>9 DEF enqueue_pending_blocking
  <2>10. CASE BlockingPush(x)
    BY Zenon, <2>10 DEF BlockingPush
  <2>11. CASE ReleaseTask(x)
    BY Zenon, <2>11 DEF ReleaseTask
  <2> QED BY Zenon, <1>5, <2>1, <2>2, <2>3, <2>4, <2>5, <2>6, <2>7, <2>8, <2>9, <2>10, <2>11 DEF
       Execute
<1>6. CASE Recreate
  BY <1>6 DEF Recreate
<1>7. CASE UNCHANGED vars
  BY Zenon, <1>7 DEF vars
<1> QED BY Zenon, <1>1, <1>2, <1>3, <1>4, <1>5, <1>6, <1>7 DEF Next

-----------------------------------------------------------------------------
(* The steps that register a wake preserve the invariant behind "no wake is lost". *)

\* The calls of post(), by a waker or by the body of the task, keep WakeInv.
LEMMA CallsKeepWake ==
  ASSUME Contract, SafeInv, WakeInv, [Next]_vars, NEW p \in Threads,
         (p \in Wakers /\ WakerPost(p)) \/ (p \in Executors /\ PendingOn(p))
  PROVE  WakeInv'
<1>0. /\ TypeOK /\ QueuedOnce /\ RunsExclusively /\ OwnerInv /\ DoneInv /\ SawInv
      /\ OnePost /\ EpochBound /\ HomeInv /\ RequestInv /\ PostInv
  BY Zenon DEF WakeInv, SafeInv, SafeRest
<1>b. EpochBound'
  BY Zenon, <1>0, EpochStep
<1>1. /\ posts < MaxWakes /\ posts' = posts + 1 /\ unseen' = unseen \cup {p}
      /\ UNCHANGED <<state, request, runEpoch, ready, saw, epoch, value, home>>
      /\ Only(p) /\ pc'[p] = "load" /\ pc[p] \in {"idle", "body"}
      /\ p \in Wakers => home \in {"none", dest'[p]}
  <2>1. /\ \E t \in Targets : Call(p, t) /\ (p \in Wakers => home \in {"none", t})
        /\ pc[p] \in {"idle", "body"}
    BY Zenon, Parameters DEF Contract, WakerPost, PendingOn
  <2>2. PICK t \in Targets : Call(p, t) /\ (p \in Wakers => home \in {"none", t})
    BY Zenon, <2>1
  <2>3. dest'[p] = t /\ pc'[p] = "load" /\ Only(p)
    BY Zenon, <2>2, <1>0 DEF Only, TypeOK, Call, Goto
  <2> QED BY Zenon, <2>1, <2>2, <2>3 DEF Call, task
<1>2. posts = 0 /\ posts' = 1 /\ unseen = {} /\ unseen' = {p}
  <2>1. posts \in {0, 1} /\ (posts = 0 => unseen = {}) /\ MaxWakes = 1
    BY Zenon, <1>0 DEF OnePost, Contract
  <2> QED BY <1>1, <2>1
<1>3. request = None /\ state \in {"Created", "Running", "Pending"} /\ ~Taken
  <2>1. state \notin {"Queued", "Starting", "Done"} /\ state \in TaskState
    BY <1>2, <1>0 DEF OnePost, TypeOK
  <2>2. request = None /\ ~Taken
    BY Zenon, <1>2, <1>0 DEF RequestInv, Taken, HomeInv
  <2> QED BY Zenon, <2>1, <2>2 DEF TaskState
<1>4. \A q \in Threads : pc[q] \notin Early \cup Driving /\ ~Claims(q)
  BY Zenon, <1>2, <1>3, <1>0 DEF OnePost, QueuedOnce
<1>6. p \in Executors => home = p
  BY Zenon, <1>0, Parameters DEF HomeInv, WakerPost, PendingOn
<1>7. \A q \in Threads : q # p => pc'[q] = pc[q] /\ q \notin unseen'
  BY Zenon, <1>2, <1>1 DEF Only
<1>8. OnePost'
  <2>1. \A q \in Threads : pc'[q] # "stale" /\ (pc'[q] \in Early \cup Driving => q \in unseen')
    BY Zenon, <1>2, <1>4, <1>1, <1>7, <1>0 DEF OnePost
  <2>2. \A x \in Executors : pc'[x] # "againTake"
    BY Zenon, <1>4, <1>1, <1>7 DEF Claims, Claiming, Threads
  <2>3. \A w \in Wakers : w \in unseen' /\ home' # "none" => dest'[w] = home'
    BY Zenon, <1>1, <1>2
  <2>4. posts' \in {0, 1} /\ posts' # 0
    BY <1>2
  <2> QED BY Zenon, <1>1, <1>2, <1>3, <2>1, <2>2, <2>3, <2>4 DEF OnePost
<1>9. HomeInv'
  <2>1. \A x \in Executors : pc[x] = "pendingTake" =>
          state' \in {"Pending", "Queued"} /\ \A y \in Executors : ready'[y] > 0 => y = x
    BY Zenon, <1>1, <1>0 DEF HomeInv
  <2>2. ~Claims(p)' /\ (state' = "Created" => home = "none")
    BY Zenon, <1>1, <1>0 DEF Claims, Claiming, HomeInv
  <2> QED BY Zenon, <1>0, <1>1, <1>3, <1>6, <2>1, <2>2, HomeFrame DEF Taken
<1>10. RequestInv'
  BY Zenon, <1>1, <1>3 DEF RequestInv
<1>11. PostInv'
  <2>1. PostAt(p)'
    BY Zenon, <1>1, <1>3 DEF PostAt, Early, Resolving, Posting, SchedulePc
  <2>2. ASSUME NEW q \in Threads, q # p PROVE PostAt(q)'
    <3>1. pc'[q] = pc[q] /\ epoch'[q] = epoch[q] /\ q \notin unseen' /\ q \notin unseen
      BY Zenon, <1>1, <1>2, <1>7, <2>2
    <3>2. pc[q] \in Resolving => q \in Wakers /\ epoch[q] < runEpoch
      BY Zenon, <3>1, <1>0 DEF PostInv, PostAt
    <3> QED BY Zenon, <1>1, <1>4, <3>1, <3>2 DEF PostAt, Early, Driving
  <2> QED BY Zenon, <2>1, <2>2 DEF PostInv
<1> QED BY Zenon, <1>b, <1>8, <1>9, <1>10, <1>11 DEF WakeInv

\* The steps of request_schedule up to the request slot keep the outstanding post, the slot
\* and the state in a combination that WakeInv lists.
LEMMA RequestsKeepWake ==
  ASSUME Contract, SafeInv, WakeInv, [Next]_vars, NEW p \in Threads,
         LoadState(p) \/ CasQueued(p) \/ LoadEpoch(p) \/ RequestSlot(p) \/ ClearStale(p)
  PROVE  WakeInv'
<1>0. /\ TypeOK /\ QueuedOnce /\ RunsExclusively /\ OwnerInv /\ DoneInv /\ SawInv
      /\ OnePost /\ EpochBound /\ HomeInv /\ RequestInv /\ PostInv
  BY Zenon DEF WakeInv, SafeInv, SafeRest
<1>a. desired(p) \in Requests /\ desired(p).epoch = epoch[p] /\ desired(p) # None
  BY Zenon, <1>0, PackedRequest
<1>b. EpochBound'
  BY Zenon, <1>0, EpochStep
<1>c. /\ pc[p] \in Early /\ p \in unseen /\ posts = 1 /\ request = None
      /\ state \in {"Created", "Running", "Pending"} /\ Posting(p)
  <2>1. pc[p] \in Early
    BY Zenon, <1>0 DEF OnePost, Early, LoadState, CasQueued, LoadEpoch, RequestSlot, ClearStale
  <2>2. p \in unseen /\ posts \in {0, 1} /\ (posts = 0 => unseen = {})
    BY Zenon, <2>1, <1>0 DEF OnePost
  <2>3. posts = 1
    BY Zenon, <2>2
  <2> QED BY Zenon, <2>1, <2>2, <2>3, <1>0 DEF PostInv, PostAt, Posting, SchedulePc, Early
<1>d. \A x \in Executors : pc[x] \notin {"pendingCheck", "pendingCas"}
  BY Zenon, <1>c, <1>0 DEF HomeInv
<1>1. CASE LoadState(p)
  <2>1. /\ UNCHANGED <<state, request, runEpoch, ready, home, posts, unseen>> /\ Only(p)
        /\ dest'[p] = dest[p] /\ pc[p] = "load" /\ saw'[p] = state
        /\ pc'[p] = IF state = "Running" THEN "epoch" ELSE "cas"
    BY Zenon, <1>1, <1>c, <1>0 DEF Only, TypeOK, task, history, Goto, LoadState
  <2>2. /\ pc'[p] \in {"epoch", "cas"} /\ pc'[p] \in Early /\ ~Claims(p)'
        /\ pc'[p] \notin {"pendingTake", "pendingCheck", "pendingCas", "stale", "againTake"}
    BY Zenon, <2>1 DEF Claims, Claiming, Early
  <2>3. OnePost'
    BY Zenon, <1>0, <1>c, <2>1, <2>2, OnePostFrame
  <2>4. HomeInv'
    <3>1. /\ state' = "Created" => home = "none"
          /\ pc'[p] \in {"cas", "enqueue", "cancel"} /\ saw'[p] = "Created" => home = "none"
          /\ p \in Executors => home = p
      BY Zenon, <2>1, <1>0 DEF HomeInv, SelfPc
    <3>2. \A x \in Executors : pc[x] = "pendingTake" =>
            state' \in {"Pending", "Queued"} /\ \A y \in Executors : ready'[y] > 0 => y = x
      BY Zenon, <2>1, <1>0 DEF HomeInv
    <3> QED BY Zenon, <1>0, <1>d, <2>1, <2>2, <3>1, <3>2, HomeFrame
  <2>5. RequestInv'
    BY Zenon, <2>1, <1>c DEF RequestInv
  <2>6. PostInv'
    <3>1. PostAt(p)'
      BY Zenon, <2>1, <2>2, <1>c DEF PostAt, Resolving, Posting, SchedulePc
    <3> QED BY Zenon, <1>0, <1>c, <2>1, <3>1, PostAlone
  <2> QED BY Zenon, <1>b, <2>3, <2>4, <2>5, <2>6 DEF WakeInv
<1>2. CASE CasQueued(p)
  <2>1. /\ UNCHANGED <<request, runEpoch, ready, home, posts, unseen>> /\ Only(p)
        /\ dest'[p] = dest[p] /\ saw'[p] = saw[p] /\ pc[p] = "cas"
        /\ \/ state' = "Queued" /\ pc'[p] = "enqueue"
           \/ state' = state /\ pc'[p] = "load"
    BY Zenon, <1>2, <1>0 DEF Only, TypeOK, local, history, Goto, CasQueued
  <2>2. p \in Wakers /\ p \notin Executors
    BY Zenon, <2>1, <1>0, Parameters DEF OwnerInv, OwnerAt, SchedulePc, SelfPc, Threads
  <2>3. pc'[p] \notin {"pendingTake", "pendingCheck", "pendingCas", "stale", "againTake"}
    BY Zenon, <2>1
  <2>4. OnePost'
    BY Zenon, <1>0, <1>c, <2>1, <2>3, OnePostFrame
  <2>5. HomeInv'
    <3>1. /\ state' = "Created" => home = "none"
          /\ pc'[p] \in {"cas", "enqueue", "cancel"} /\ saw'[p] = "Created" => home = "none"
      BY Zenon, <2>1, <1>0 DEF HomeInv
    <3>2. \A x \in Executors : pc[x] = "pendingTake" => dest'[p] = x
      BY Zenon, <1>c, <2>1, <2>2, <1>0, Parameters DEF HomeInv, OnePost
    <3>3. Claims(p)' => pc'[p] \in {"enqueue", "cancel"}
      BY Zenon, <2>1 DEF Claims, Claiming
    <3>4. \A x \in Executors : pc[x] = "pendingTake" =>
            state' \in {"Pending", "Queued"} /\ \A y \in Executors : ready'[y] > 0 => y = x
      BY Zenon, <2>1, <1>0 DEF HomeInv
    <3> QED BY Zenon, <1>0, <1>d, <2>1, <2>2, <2>3, <3>1, <3>2, <3>3, <3>4, HomeFrame
  <2>6. RequestInv'
    BY Zenon, <2>1, <1>c DEF RequestInv
  <2>7. PostInv'
    <3>1. PostAt(p)'
      BY Zenon, <2>1, <1>c DEF PostAt, Resolving, Posting, SchedulePc, Early
    <3> QED BY Zenon, <1>0, <1>c, <2>1, <3>1, PostAlone
  <2> QED BY Zenon, <1>b, <2>4, <2>5, <2>6, <2>7 DEF WakeInv
<1>3. CASE LoadEpoch(p)
  <2>1. /\ UNCHANGED <<state, request, runEpoch, ready, home, posts, unseen>> /\ Only(p)
        /\ dest'[p] = dest[p] /\ pc[p] = "epoch" /\ pc'[p] = "slot" /\ epoch'[p] = runEpoch
    BY Zenon, <1>3, <1>0 DEF Only, TypeOK, task, history, Goto, LoadEpoch
  <2>2. ~Claims(p)' /\ pc'[p] \in Early
    BY Zenon, <2>1 DEF Claims, Claiming, Early
  <2>3. OnePost'
    BY Zenon, <1>0, <1>c, <2>1, <2>2, OnePostFrame
  <2>4. HomeInv'
    <3>1. (state' = "Created" => home = "none") /\ (p \in Executors => home = p)
      BY Zenon, <2>1, <1>0 DEF HomeInv, SelfPc
    <3>2. \A x \in Executors : pc[x] = "pendingTake" =>
            state' \in {"Pending", "Queued"} /\ \A y \in Executors : ready'[y] > 0 => y = x
      BY Zenon, <2>1, <1>0 DEF HomeInv
    <3> QED BY Zenon, <1>0, <1>d, <2>1, <2>2, <3>1, <3>2, HomeFrame
  <2>5. RequestInv'
    BY Zenon, <2>1, <1>c DEF RequestInv
  <2>6. PostInv'
    <3>1. state # "Created"
      BY Zenon, <2>1, <1>0 DEF PostInv, PostAt
    <3>2. PostAt(p)'
      BY Zenon, <2>1, <3>1, <1>c DEF PostAt, Resolving, Posting, SchedulePc
    <3> QED BY Zenon, <1>0, <1>c, <2>1, <3>2, PostAlone
  <2> QED BY Zenon, <1>b, <2>3, <2>4, <2>5, <2>6 DEF WakeInv
<1>4. CASE RequestSlot(p)
  <2>1. /\ UNCHANGED <<state, runEpoch, ready, home, posts, unseen>> /\ Only(p)
        /\ dest'[p] = dest[p] /\ epoch'[p] = epoch[p] /\ pc[p] = "slot" /\ pc'[p] = "resolve"
        /\ request' = desired(p)
    BY Zenon, <1>4, <1>c, <1>0 DEF Only, TypeOK, history, Goto, RequestSlot
  <2>2. ~Claims(p)' /\ pc'[p] \notin Early \cup Driving
    BY Zenon, <2>1 DEF Claims, Claiming, Early, Driving
  <2>3. state \in {"Running", "Pending"} /\ epoch[p] = runEpoch
    BY Zenon, <2>1, <1>c, <1>0 DEF PostInv, PostAt
  <2>4. OnePost'
    BY Zenon, <1>0, <1>c, <2>1, <2>2, OnePostFrame
  <2>5. HomeInv'
    <3>1. (state' = "Created" => home = "none") /\ (p \in Executors => home = p)
      BY Zenon, <2>1, <1>0 DEF HomeInv, SelfPc
    <3>2. \A x \in Executors : pc[x] = "pendingTake" =>
            state' \in {"Pending", "Queued"} /\ \A y \in Executors : ready'[y] > 0 => y = x
      BY Zenon, <2>1, <1>0 DEF HomeInv
    <3> QED BY Zenon, <1>0, <1>d, <2>1, <2>2, <3>1, <3>2, HomeFrame
  <2>6. RequestInv'
    BY Zenon, <2>1, <2>3, <1>a, <1>c DEF RequestInv
  <2>7. PostInv'
    <3>1. desired(p)' = desired(p) /\ epoch'[p] = runEpoch' /\ epoch'[p] <= runEpoch'
      <4>1. runEpoch \in Nat
        BY Zenon, <1>0 DEF TypeOK
      <4>2. runEpoch <= runEpoch
        BY <4>1
      <4> QED BY Zenon, <2>1, <2>3, <4>2 DEF desired
    <3>2. \A x \in Executors : pc'[x] # "run"
      BY Zenon, <2>1, <2>3, <1>0 DEF Only, OwnerInv, OwnerAt, Threads
    <3>3. PostAt(p)'
      BY Zenon, <2>1, <2>3, <3>1, <3>2, <1>c DEF PostAt, Early, Posting, SchedulePc
    <3> QED BY Zenon, <1>0, <1>c, <2>1, <3>3, PostAlone
  <2> QED BY Zenon, <1>b, <2>4, <2>5, <2>6, <2>7 DEF WakeInv
<1>5. CASE ClearStale(p)
  BY Zenon, <1>5, <1>0 DEF OnePost, ClearStale
<1> QED BY Zenon, <1>1, <1>2, <1>3, <1>4, <1>5

-----------------------------------------------------------------------------
(* The steps that resolve a registered wake preserve the invariant as well. *)

\* The steps of resolve_running_wake_request keep WakeInv.
LEMMA ResolutionsKeepWake ==
  ASSUME Contract, SafeInv, WakeInv, [Next]_vars, NEW p \in Threads,
         ResolveState(p) \/ ResolveEpoch(p) \/ ResolveClear(p) \/ ResolveCas(p)
  PROVE  WakeInv'
<1>0. /\ TypeOK /\ QueuedOnce /\ RunsExclusively /\ OwnerInv /\ DoneInv /\ SawInv
      /\ OnePost /\ EpochBound /\ HomeInv /\ RequestInv /\ PostInv
  BY Zenon DEF WakeInv, SafeInv, SafeRest
<1>a. desired(p) \in Requests /\ desired(p).epoch = epoch[p] /\ desired(p) # None
  BY Zenon, <1>0, PackedRequest
<1>b. EpochBound'
  BY Zenon, <1>0, EpochStep
<1>c. PostAt(p) /\ Posting(p)
  BY Zenon, <1>0 DEF PostInv, Posting, SchedulePc, ResolveState, ResolveEpoch, ResolveClear, ResolveCas
<1>d. state \in TaskState /\ (state \in {"Queued", "Starting", "Done"} => posts = 1)
  BY Zenon, <1>0 DEF TypeOK, OnePost
<1>e. /\ state = "Created" => home = "none"
      /\ \A x \in Executors : pc[x] = "pendingTake" =>
           state \in {"Pending", "Queued"} /\ \A y \in Executors : ready[y] > 0 => y = x
  BY Zenon, <1>0 DEF HomeInv
<1>1. CASE ResolveState(p)
  <2>1. /\ UNCHANGED <<state, request, runEpoch, ready, dest, epoch, home, posts, unseen>> /\ Only(p)
        /\ pc[p] = "resolve" /\ saw'[p] = state
        /\ pc'[p] = IF state = "Running" THEN "resolveEpoch" ELSE "clear"
    BY Zenon, <1>1, <1>0 DEF Only, TypeOK, task, history, Goto, ResolveState
  <2>2. pc'[p] \in {"resolveEpoch", "clear"} /\ ~Claims(p)' /\ pc'[p] \notin Early \cup Driving
    BY Zenon, <2>1 DEF Claims, Claiming, Early, Driving
  <2>3. OnePost'
    BY Zenon, <1>0, <1>c, <1>d, <2>1, <2>2, OnePostFrame
  <2>4. HomeInv'
    <3>1. p \in Executors => home = p
      BY Zenon, <2>1, <1>0 DEF HomeInv, SelfPc
    <3> QED BY Zenon, <1>0, <1>e, <2>1, <2>2, <3>1, HomeFrame
  <2>5. RequestInv'
    BY Zenon, <1>0, <2>1, RequestFrame
  <2>6. PostInv'
    <3>1. (Taken <=> Taken') /\ (Covered => Covered') /\ desired(p)' = desired(p)
      BY Zenon, <2>1, <2>2 DEF Only, Threads, Taken, Covered, desired
    <3>2. \A x \in Executors : pc'[x] = "run" => pc[x] = "run"
      BY Zenon, <2>1, <2>2 DEF Only, Threads
    <3>3. p \in unseen /\ state = "Running" => Covered
      BY Zenon, <1>a, <1>c, <2>1 DEF PostAt, Covered, Resolving
    <3>4. p \in unseen => state \notin {"Created", "Done"}
      BY Zenon, <1>c, <2>1 DEF PostAt, Resolving
    <3>5. Posting(p)'
      BY Zenon, <2>2 DEF Posting, SchedulePc
    <3>6. PostAt(p)'
      BY Zenon, <1>c, <1>d, <2>1, <2>2, <3>1, <3>2, <3>3, <3>4, <3>5 DEF PostAt, Early, Resolving, TaskState
    <3> QED BY Zenon, <1>0, <2>1, <2>2, <3>1, <3>6, PostFrame
  <2> QED BY Zenon, <1>b, <2>3, <2>4, <2>5, <2>6 DEF WakeInv
<1>2. CASE ResolveEpoch(p)
  <2>1. /\ UNCHANGED <<state, request, runEpoch, ready, dest, saw, epoch, home, posts, unseen>>
        /\ Only(p) /\ pc[p] = "resolveEpoch"
        /\ \/ pc'[p] \in {"idle", "posted"}
           \/ pc'[p] = "clear" /\ runEpoch # epoch[p]
    BY Zenon, <1>2, <1>0 DEF Only, TypeOK, task, local, history, Goto, Return, ResolveEpoch
  <2>2. pc'[p] \in {"idle", "posted", "clear"} /\ ~Claims(p)' /\ pc'[p] \notin Early \cup Driving
    BY Zenon, <2>1 DEF Claims, Claiming, Early, Driving
  <2>3. OnePost'
    BY Zenon, <1>0, <1>c, <1>d, <2>1, <2>2, OnePostFrame
  <2>4. HomeInv'
    <3>1. p \in Executors => home = p
      BY Zenon, <2>1, <1>0 DEF HomeInv, SelfPc
    <3> QED BY Zenon, <1>0, <1>e, <2>1, <2>2, <3>1, HomeFrame
  <2>5. RequestInv'
    BY Zenon, <1>0, <2>1, RequestFrame
  <2>6. PostInv'
    <3>1. (Taken <=> Taken') /\ (Covered => Covered') /\ desired(p)' = desired(p)
      BY Zenon, <2>1, <2>2 DEF Only, Threads, Taken, Covered, desired
    <3>2. \A x \in Executors : pc'[x] = "run" => pc[x] = "run"
      BY Zenon, <2>1, <2>2 DEF Only, Threads
    <3>3. p \in unseen => Covered
      BY Zenon, <1>c, <2>1 DEF PostAt
    <3>4. pc'[p] = "clear" /\ p \in unseen => state = "Starting"
      BY Zenon, <1>c, <2>1 DEF PostAt, Resolving
    <3>5. PostAt(p)'
      BY Zenon, <1>c, <2>1, <2>2, <3>1, <3>2, <3>3, <3>4 DEF PostAt, Early, Resolving
    <3> QED BY Zenon, <1>0, <2>1, <2>2, <3>1, <3>5, PostFrame
  <2> QED BY Zenon, <1>b, <2>3, <2>4, <2>5, <2>6 DEF WakeInv
<1>3. CASE ResolveClear(p)
  <2>1. /\ UNCHANGED <<state, runEpoch, ready, dest, saw, epoch, home, posts, unseen>>
        /\ Only(p) /\ pc[p] = "clear" /\ request' = IF request = desired(p) THEN None ELSE request
        /\ \/ request = desired(p) /\ saw[p] = "Pending" /\ pc'[p] = "resolveCas"
           \/ /\ request # desired(p) \/ saw[p] # "Pending"
              /\ pc'[p] \in {"idle", "posted"}
    BY Zenon, <1>3, <1>0 DEF Only, TypeOK, local, history, Goto, Return, clear_requested_thread_if, ResolveClear
  <2>2. p \in Wakers /\ p \notin Executors
    BY Zenon, <2>1, <1>0, Parameters DEF OwnerInv, OwnerAt, SchedulePc, SelfPc, Threads
  <2>3. request = desired(p) => p \in unseen
    <3>1. request = desired(p) => epoch[p] = runEpoch
      BY Zenon, <1>a, <1>0 DEF RequestInv
    <3>2. p \notin unseen => epoch[p] < runEpoch
      BY Zenon, <1>c, <2>1 DEF PostAt, Resolving
    <3>3. ~(runEpoch < runEpoch)
      <4>1. runEpoch \in Nat
        BY Zenon, <1>0 DEF TypeOK
      <4> QED BY <4>1
    <3> QED BY Zenon, <3>1, <3>2, <3>3
  <2>4. ~Claims(p)' /\ pc'[p] \notin Early /\ pc'[p] \in {"idle", "posted", "resolveCas"}
    BY Zenon, <2>1 DEF Claims, Claiming, Early
  <2>5. OnePost'
    <3>1. pc'[p] \in Early \cup Driving => p \in unseen
      BY Zenon, <2>1, <2>3, <2>4 DEF Driving
    <3> QED BY Zenon, <1>0, <1>c, <1>d, <2>1, <2>4, <3>1, OnePostFrame
  <2>6. HomeInv'
    <3>1. \A x \in Executors : pc[x] \in {"pendingCheck", "pendingCas"} =>
            UNCHANGED <<state, request, runEpoch, unseen>> /\ pc'[p] \notin Early \cup Driving
      BY Zenon, <2>1, <2>4, <1>a, <1>0 DEF HomeInv, Driving
    <3> QED BY Zenon, <1>0, <1>e, <2>1, <2>2, <2>4, <3>1, HomeFrame
  <2>7. RequestInv'
    BY Zenon, <2>1, <2>2, <1>0 DEF RequestInv, Only, Threads
  <2>8. PostInv'
    <3>1. \A x \in Executors : pc'[x] = pc[x]
      BY Zenon, <2>1, <2>2 DEF Only, Threads
    <3>2. ASSUME p \in unseen PROVE PostInv'
      <4>1. PostAt(p)'
        <5>1. CASE request = desired(p) /\ saw[p] = "Pending" /\ pc'[p] = "resolveCas"
          <6>1. state \in {"Queued", "Starting", "Pending"}
            BY Zenon, <5>1, <1>c, <1>d, <2>1, <3>2 DEF PostAt, Resolving, TaskState
          <6>2. state \notin {"Queued", "Starting"}
            BY Zenon, <5>1, <1>a, <1>c, <2>2, <1>0 DEF RequestInv, OnePost, NoPostInFlight
          <6>3. state' = "Pending" /\ request' = None /\ Posting(p)'
            BY Zenon, <5>1, <6>1, <6>2, <2>1 DEF Posting, SchedulePc
          <6> QED BY Zenon, <5>1, <6>3 DEF PostAt, Early, Resolving
        <5>2. CASE (request # desired(p) \/ saw[p] # "Pending") /\ pc'[p] \in {"idle", "posted"}
          <6>1. state \in {"Queued", "Starting"} \/ Taken
            BY Zenon, <5>2, <1>c, <2>1, <3>2 DEF PostAt, Resolving
          <6>2. Covered'
            BY Zenon, <6>1, <2>1, <3>1 DEF Covered, Taken
          <6> QED BY Zenon, <5>2, <6>2 DEF PostAt, Early, Resolving
        <5> QED BY Zenon, <2>1, <5>1, <5>2
      <4> QED BY Zenon, <1>0, <2>1, <3>2, <4>1, PostAlone
    <3>3. ASSUME p \notin unseen PROVE PostInv'
      <4>1. request' = request /\ pc'[p] \in {"idle", "posted"}
        BY Zenon, <2>1, <2>3, <3>3
      <4>2. (Taken <=> Taken') /\ (Covered => Covered')
        BY Zenon, <2>1, <3>1, <4>1 DEF Taken, Covered
      <4>3. PostAt(p)'
        BY Zenon, <2>1, <3>3, <4>1 DEF PostAt, Early, Resolving
      <4> QED BY Zenon, <1>0, <2>1, <4>1, <4>2, <4>3, PostFrame
    <3> QED BY Zenon, <3>2, <3>3
  <2> QED BY Zenon, <1>b, <2>5, <2>6, <2>7, <2>8 DEF WakeInv
<1>4. CASE ResolveCas(p)
  <2>1. /\ pc[p] = "resolveCas" /\ state = "Pending" /\ request = None /\ p \in unseen
        /\ saw[p] = "Pending" /\ p \in Wakers /\ p \notin Executors
    BY Zenon, <1>4, <1>c, <1>0, Parameters DEF PostAt, OnePost, SawInv, SawAt, OwnerInv, OwnerAt, Driving, Threads,
         SchedulePc, SelfPc, ResolveCas
  <2>2. /\ UNCHANGED <<request, runEpoch, ready, dest, saw, epoch, home, posts, unseen>>
        /\ Only(p) /\ state' = "Queued" /\ pc'[p] = "enqueue"
    BY Zenon, <1>4, <2>1, <1>0 DEF Only, TypeOK, local, history, Goto, ResolveCas
  <2>3. OnePost'
    <3>1. posts = 1
      BY Zenon, <2>1, <1>0 DEF OnePost
    <3> QED BY Zenon, <1>0, <1>c, <2>1, <2>2, <3>1, OnePostFrame
  <2>4. HomeInv'
    <3>1. \A x \in Executors : pc[x] = "pendingTake" => dest[p] = x
      BY Zenon, <1>c, <2>1, <1>0, Parameters DEF HomeInv, OnePost
    <3>2. \A x \in Executors : pc[x] \notin {"pendingCheck", "pendingCas"}
      BY Zenon, <2>1, <1>0 DEF HomeInv, Driving
    <3> QED BY Zenon, <1>0, <1>e, <2>1, <2>2, <3>1, <3>2, HomeFrame
  <2>5. RequestInv'
    BY Zenon, <2>1, <2>2 DEF RequestInv
  <2>6. PostInv'
    <3>1. PostAt(p)'
      BY Zenon, <2>1, <2>2 DEF PostAt, Early, Resolving, Posting, SchedulePc
    <3> QED BY Zenon, <1>0, <2>1, <2>2, <3>1, PostAlone
  <2> QED BY Zenon, <1>b, <2>3, <2>4, <2>5, <2>6 DEF WakeInv
<1> QED BY Zenon, <1>1, <1>2, <1>3, <1>4

\* enqueue() and the cancellation of a refused one keep WakeInv.
LEMMA EnqueuesKeepWake ==
  ASSUME Contract, SafeInv, WakeInv, [Next]_vars, NEW p \in Threads, Enqueue(p) \/ CancelSchedule(p)
  PROVE  WakeInv'
<1>0. /\ TypeOK /\ QueuedOnce /\ RunsExclusively /\ OwnerInv /\ DoneInv /\ SawInv
      /\ OnePost /\ EpochBound /\ HomeInv /\ RequestInv /\ PostInv
  BY Zenon DEF WakeInv, SafeInv, SafeRest
<1>b. EpochBound'
  BY Zenon, <1>0, EpochStep
<1>c. /\ pc[p] \in {"enqueue", "cancel"} /\ Posting(p) /\ Claims(p) /\ state = "Queued"
      /\ request = None /\ p \in unseen /\ posts = 1
  <2>1. pc[p] \in {"enqueue", "cancel"} /\ Claims(p) /\ pc[p] \in Driving /\ Posting(p)
    BY Zenon DEF Enqueue, CancelSchedule, Claims, Claiming, Driving, Posting, SchedulePc
  <2> QED BY Zenon, <2>1, <1>0 DEF QueuedOnce, OnePost, PostInv, PostAt
<1>d. p \in Wakers /\ p \notin Executors
  BY Zenon, <1>c, <1>0, Parameters DEF OwnerInv, OwnerAt, SchedulePc, SelfPc, Threads
<1>e. /\ saw[p] \in {"Created", "Pending"} /\ (saw[p] = "Created" => home = "none")
      /\ \A x \in Executors : pc[x] = "pendingTake" =>
           dest[p] = x /\ \A y \in Executors : ready[y] > 0 => y = x
      /\ \A x \in Executors : pc[x] \notin {"pendingCheck", "pendingCas"}
  BY Zenon, <1>c, <1>0 DEF HomeInv, SawInv, SawAt
<1>1. CASE Enqueue(p)
  <2>1. /\ UNCHANGED <<state, request, runEpoch, dest, saw, epoch, home, posts, unseen>>
        /\ Only(p) /\ pc'[p] \in {"idle", "posted", "cancel"}
    BY Zenon, <1>1, <1>0 DEF Only, TypeOK, task, local, history, Goto, Return, Enqueue
  <2>2. \A y \in Executors : ready'[y] > 0 => ready[y] > 0 \/ y = dest[p]
    BY Zenon, <1>1, <1>0 DEF TypeOK, Enqueue
  <2>3. OnePost'
    BY Zenon, <1>0, <1>c, <2>1, OnePostFrame
  <2>4. HomeInv'
    <3>1. \A x \in Executors : pc[x] = "pendingTake" =>
            dest'[p] = x /\ \A y \in Executors : ready'[y] > 0 => y = x
      BY Zenon, <1>e, <2>1, <2>2
    <3>2. Claims(p)' => pc'[p] \in {"enqueue", "cancel"}
      BY Zenon, <2>1 DEF Claims, Claiming
    <3> QED BY Zenon, <1>0, <1>c, <1>d, <1>e, <2>1, <3>1, <3>2, HomeFrame
  <2>5. RequestInv'
    BY Zenon, <1>c, <2>1 DEF RequestInv
  <2>6. PostInv'
    <3>1. PostAt(p)'
      BY Zenon, <1>c, <2>1 DEF PostAt, Early, Resolving, Covered
    <3> QED BY Zenon, <1>0, <1>c, <2>1, <3>1, PostAlone
  <2> QED BY Zenon, <1>b, <2>3, <2>4, <2>5, <2>6 DEF WakeInv
<1>2. CASE CancelSchedule(p)
  <2>1. /\ UNCHANGED <<request, runEpoch, ready, dest, saw, epoch, home>>
        /\ Only(p) /\ pc[p] = "cancel" /\ pc'[p] = "idle" /\ state' = saw[p]
        /\ unseen' = unseen \ {p} /\ posts' = posts - 1
    BY Zenon, <1>2, <1>c, <1>d, <1>0 DEF Only, TypeOK, local, Goto, Return, CancelSchedule
  <2>2. unseen' = {} /\ posts' = 0 /\ \A q \in Threads : q # p => q \notin unseen
    <3>1. \A q \in unseen : q = p
      BY Zenon, <1>c, <1>0 DEF OnePost
    <3>2. posts' = 0
      BY <1>c, <2>1
    <3> QED BY Zenon, <2>1, <3>1, <3>2
  <2>3. \A q \in Threads : pc'[q] \notin Early \cup Driving \cup {"stale"}
    BY Zenon, <2>1, <2>2, <1>0 DEF Only, OnePost, Early, Driving
  <2>4. OnePost'
    <3>1. \A x \in Executors : pc'[x] # "againTake"
      BY Zenon, <1>c, <1>d, <2>1, <1>0 DEF Only, QueuedOnce, Claims, Claiming, Threads
    <3>2. state' \notin {"Queued", "Starting", "Done"}
      BY Zenon, <1>e, <2>1
    <3>3. posts' \in {0, 1}
      BY Zenon, <2>2
    <3> QED BY Zenon, <2>2, <2>3, <3>1, <3>2, <3>3 DEF OnePost
  <2>5. HomeInv'
    <3>1. \A x \in Executors : pc[x] = "pendingTake" => state' \in {"Pending", "Queued"}
      <4>1. \A x \in Executors : pc[x] = "pendingTake" => home = x /\ x # "none"
        BY Zenon, <1>0, Parameters DEF HomeInv
      <4> QED BY Zenon, <1>e, <2>1, <4>1
    <3>2. ~Claims(p)'
      BY Zenon, <2>1 DEF Claims, Claiming
    <3> QED BY Zenon, <1>0, <1>c, <1>d, <1>e, <2>1, <3>1, <3>2, HomeFrame
  <2>6. RequestInv'
    BY Zenon, <1>c, <2>1 DEF RequestInv
  <2>7. PostInv'
    <3>1. PostAt(p)'
      BY Zenon, <2>1, <2>2 DEF PostAt, Early, Resolving
    <3>2. ASSUME NEW q \in Threads, q # p PROVE PostAt(q)'
      <4>1. pc'[q] = pc[q] /\ epoch'[q] = epoch[q] /\ q \notin unseen' /\ q \notin unseen
        BY Zenon, <2>1, <2>2, <3>2 DEF Only
      <4>2. pc[q] \in Resolving => q \in Wakers /\ epoch[q] < runEpoch
        BY Zenon, <4>1, <1>0 DEF PostInv, PostAt
      <4> QED BY Zenon, <2>1, <2>3, <4>1, <4>2 DEF PostAt, Early, Driving
    <3> QED BY Zenon, <3>1, <3>2 DEF PostInv
  <2> QED BY Zenon, <1>b, <2>4, <2>5, <2>6, <2>7 DEF WakeInv
<1> QED BY Zenon, <1>1, <1>2

\* Every step of a post(), of a waker or of a task body, keeps WakeInv.
LEMMA PostsKeepWake ==
  ASSUME Contract, SafeInv, WakeInv, [Next]_vars,
         \/ \E w \in Wakers : WakerPost(w)
         \/ \E x \in Executors : PendingOn(x)
         \/ \E p \in Threads : Schedule(p)
  PROVE  WakeInv'
<1>1. ASSUME NEW w \in Wakers, WakerPost(w) PROVE WakeInv'
  BY Zenon, <1>1, CallsKeepWake DEF Threads
<1>2. ASSUME NEW x \in Executors, PendingOn(x) PROVE WakeInv'
  BY Zenon, <1>2, CallsKeepWake DEF Threads
<1>3. ASSUME NEW p \in Threads, Schedule(p) PROVE WakeInv'
  BY Zenon, <1>3, RequestsKeepWake, ResolutionsKeepWake, EnqueuesKeepWake DEF Schedule
<1> QED BY Zenon, <1>1, <1>2, <1>3

-----------------------------------------------------------------------------
(* The steps of the executors preserve it too. *)

\* Popping, starting and finishing a run keep WakeInv, except for finish_pending, which has a
\* lemma of its own.
LEMMA RunsKeepWake ==
  ASSUME Contract, SafeInv, WakeInv, [Next]_vars, NEW x \in Executors,
         \/ PopOne(x) \/ ExecuteCas(x) \/ prepare_running_epoch(x) \/ StoreRunning(x)
         \/ FinishDone(x) \/ FinishAgain(x) \/ ReleaseTask(x)
  PROVE  WakeInv'
<1>0. /\ TypeOK /\ QueuedOnce /\ RunsExclusively /\ OwnerInv /\ DoneInv /\ SawInv
      /\ OnePost /\ EpochBound /\ HomeInv /\ RequestInv /\ PostInv
  BY Zenon DEF WakeInv, SafeInv, SafeRest
<1>a. x \in Threads /\ PostAt(x)
  BY Zenon, <1>0 DEF Threads, PostInv
<1>b. EpochBound'
  BY Zenon, <1>0, EpochStep
<1>d. /\ state \in {"Queued", "Starting", "Done"} => posts = 1
      /\ state = "Created" => home = "none"
  BY Zenon, <1>0 DEF OnePost, HomeInv
<1>1. CASE PopOne(x)
  <2>1. /\ UNCHANGED <<state, request, runEpoch, dest, saw, epoch, home, posts, unseen>>
        /\ Only(x) /\ pc[x] = "idle" /\ pc'[x] = "start" /\ ready[x] > 0
        /\ \A y \in Executors : y # x => ready'[y] = ready[y]
    BY Zenon, <1>1, <1>a, <1>0 DEF Only, TypeOK, task, local, history, Goto, PopOne
  <2>2. pc'[x] \notin Early \cup Driving /\ ~Posting(x)'
    BY Zenon, <2>1 DEF Early, Driving, Posting, SchedulePc
  <2>3. OnePost'
    BY Zenon, <1>0, <1>a, <1>d, <2>1, <2>2, OnePostFrame
  <2>4. HomeInv'
    <3>1. \A y \in Executors : pc[y] # "pendingTake"
      BY Zenon, <2>1, <1>0 DEF HomeInv
    <3>2. pc'[x] \notin {"body", "posted", "refused"} \cup SelfPc
      BY Zenon, <2>1 DEF SelfPc
    <3> QED BY Zenon, <1>0, <1>a, <1>d, <2>1, <2>2, <3>1, <3>2, HomeFrame
  <2>5. RequestInv'
    BY Zenon, <1>0, <1>a, <2>1, RequestFrame
  <2>6. PostInv'
    <3>1. (Taken <=> Taken') /\ (Covered => Covered')
      BY Zenon, <2>1 DEF Only, Threads, Taken, Covered
    <3>2. ~Posting(x)
      BY Zenon, <2>1 DEF Posting, SchedulePc
    <3>3. PostAt(x)'
      BY Zenon, <1>a, <2>1, <2>2, <3>1, <3>2 DEF PostAt, Resolving
    <3> QED BY Zenon, <1>0, <1>a, <2>1, <3>1, <3>3, PostFrame
  <2> QED BY Zenon, <1>b, <2>3, <2>4, <2>5, <2>6 DEF WakeInv
<1>2. CASE ExecuteCas(x)
  <2>1. state = "Queued" /\ Claims(x) /\ pc[x] = "start"
    BY Zenon, <1>2, <1>a, <1>0 DEF Claims, Claiming, QueuedOnce, ExecuteCas
  <2>2. /\ UNCHANGED <<request, runEpoch, ready, dest, saw, epoch, home, posts, unseen>>
        /\ Only(x) /\ pc'[x] = "prepare" /\ state' = "Starting"
    BY Zenon, <1>2, <1>a, <2>1, <1>0 DEF Only, TypeOK, local, history, Goto, ExecuteCas
  <2>3. pc'[x] \notin Early \cup Driving /\ ~Posting(x)' /\ ~Claims(x)'
    BY Zenon, <2>2 DEF Early, Driving, Posting, SchedulePc, Claims, Claiming
  <2>4. OnePost'
    BY Zenon, <1>0, <1>a, <1>d, <2>1, <2>2, <2>3, OnePostFrame
  <2>5. HomeInv'
    <3>1. \A y \in Executors : pc[y] \notin {"pendingTake", "pendingCheck", "pendingCas"}
      BY Zenon, <1>a, <2>1, <1>0 DEF HomeInv
    <3>2. pc'[x] \notin {"body", "posted", "refused"} \cup SelfPc
      BY Zenon, <2>2 DEF SelfPc
    <3> QED BY Zenon, <1>0, <1>a, <2>2, <2>3, <3>1, <3>2, HomeFrame
  <2>6. RequestInv'
    BY Zenon, <1>a, <2>1, <2>2, <1>0 DEF RequestInv, QueuedOnce, Claims, Claiming, Threads
  <2>7. PostInv'
    <3>1. Covered' /\ \A y \in Executors : pc'[y] = "run" => pc[y] = "run"
      BY Zenon, <2>2 DEF Covered, Only, Threads
    <3>2. PostAt(x)'
      BY Zenon, <2>2, <2>3, <3>1 DEF PostAt, Resolving
    <3>3. ASSUME NEW q \in Threads, q # x PROVE PostAt(q)'
      <4>1. PostAt(q) /\ pc'[q] = pc[q] /\ saw'[q] = saw[q] /\ epoch'[q] = epoch[q]
        BY Zenon, <2>2, <3>3, <1>0 DEF PostInv, Only
      <4>2. pc[q] \notin Early /\ pc[q] # "resolveCas"
        BY Zenon, <4>1, <2>1 DEF PostAt
      <4> QED BY Zenon, <2>1, <2>2, <3>1, <4>1, <4>2 DEF PostAt, Early
    <3> QED BY Zenon, <3>2, <3>3 DEF PostInv
  <2> QED BY Zenon, <1>b, <2>4, <2>5, <2>6, <2>7 DEF WakeInv
<1>3. CASE prepare_running_epoch(x)
  <2>1. /\ UNCHANGED <<state, request, ready, dest, saw, epoch, home, posts, unseen>>
        /\ Only(x) /\ pc[x] = "prepare" /\ pc'[x] = "run" /\ state = "Starting"
        /\ runEpoch' = runEpoch + 1
    BY Zenon, <1>3, <1>a, <1>0 DEF Only, TypeOK, OwnerInv, OwnerAt, local, history, Goto, prepare_running_epoch
  <2>2. pc'[x] \notin Early \cup Driving /\ ~Posting(x)' /\ ~Posting(x) /\ ~Claims(x)'
    BY Zenon, <2>1 DEF Early, Driving, Posting, SchedulePc, Claims, Claiming
  <2>3. OnePost'
    BY Zenon, <1>0, <1>a, <1>d, <2>1, <2>2, OnePostFrame
  <2>4. HomeInv'
    <3>1. \A y \in Executors : pc[y] \notin {"pendingTake", "pendingCheck", "pendingCas"}
      BY Zenon, <2>1, <1>0 DEF HomeInv
    <3>2. pc'[x] \notin {"body", "posted", "refused"} \cup SelfPc
      BY Zenon, <2>1 DEF SelfPc
    <3> QED BY Zenon, <1>0, <1>a, <1>d, <2>1, <2>2, <3>1, <3>2, HomeFrame
  <2>5. RequestInv'
    BY Zenon, <2>1, <1>0 DEF RequestInv
  <2>6. PostInv'
    <3>1. Covered'
      BY Zenon, <2>1 DEF Covered
    <3>2. ASSUME NEW q \in Threads PROVE
            /\ epoch[q] <= runEpoch => epoch[q] < runEpoch' /\ epoch[q] <= runEpoch'
            /\ epoch[q] < runEpoch => epoch[q] < runEpoch'
      <4>1. epoch[q] \in Nat /\ runEpoch \in Nat
        BY Zenon, <1>0 DEF TypeOK
      <4> QED BY <4>1, <2>1
    <3>3. PostAt(x)'
      BY Zenon, <2>1, <2>2, <3>1 DEF PostAt, Resolving
    <3>4. ASSUME NEW q \in Threads, q # x PROVE PostAt(q)'
      <4>1. PostAt(q) /\ pc'[q] = pc[q] /\ saw'[q] = saw[q] /\ epoch'[q] = epoch[q]
        BY Zenon, <2>1, <3>4, <1>0 DEF PostInv, Only
      <4>2. pc[q] \notin Early /\ pc[q] # "resolveCas"
        BY Zenon, <4>1, <2>1 DEF PostAt
      <4> QED BY Zenon, <2>1, <3>1, <3>2, <4>1, <4>2 DEF PostAt, Early
    <3> QED BY Zenon, <3>3, <3>4 DEF PostInv
  <2> QED BY Zenon, <1>b, <2>3, <2>4, <2>5, <2>6 DEF WakeInv
<1>4. CASE StoreRunning(x)
  <2>1. /\ UNCHANGED <<request, runEpoch, ready, dest, saw, epoch>> /\ Only(x)
        /\ pc[x] = "run" /\ pc'[x] = "body" /\ state = "Starting" /\ state' = "Running"
        /\ home' = x /\ posts' = 0 /\ unseen' = {}
    BY Zenon, <1>4, <1>a, <1>0 DEF Only, TypeOK, OwnerInv, OwnerAt, local, Goto, StoreRunning
  <2>2. \A q \in Threads : ~Claims(q) /\ pc[q] \notin Early \cup Driving
    <3>1. \A q \in Threads : ~Claims(q) /\ pc[q] \notin Early /\ pc[q] # "resolveCas"
      BY Zenon, <2>1, <1>0 DEF QueuedOnce, PostInv, PostAt
    <3> QED BY Zenon, <3>1 DEF Driving, Claims, Claiming
  <2>3. \A q \in Threads : q # x => pc'[q] = pc[q]
    BY Zenon, <2>1 DEF Only
  <2>4. \A q \in Threads : ~Claims(q)' /\ pc'[q] \notin Early \cup Driving
    BY Zenon, <2>1, <2>2, <2>3 DEF Claims, Claiming, Early, Driving
  <2>5. OnePost'
    <3>1. \A q \in Threads : pc'[q] # "stale" /\ pc'[q] # "againTake"
      BY Zenon, <2>1, <2>3, <2>4, <1>0 DEF OnePost, Claims, Claiming
    <3>2. posts' \in {0, 1}
      BY Zenon, <2>1
    <3> QED BY Zenon, <2>1, <2>4, <3>1, <3>2 DEF OnePost, Threads
  <2>6. HomeInv'
    <3>1. \A y \in Executors : y # x =>
            pc'[y] \notin {"body", "posted", "refused", "pendingTake", "pendingCheck", "pendingCas"} \cup SelfPc
      BY Zenon, <2>1, <2>3, <1>0 DEF HomeInv, OwnerInv, OwnerAt, Threads
    <3>2. \A q \in Threads : pc'[q] \notin {"cas", "enqueue", "cancel"}
      BY Zenon, <2>4 DEF Early, Driving
    <3> QED BY Zenon, <2>1, <3>1, <3>2 DEF HomeInv
  <2>7. RequestInv'
    BY Zenon, <2>1, <1>0 DEF RequestInv
  <2>8. PostInv'
    <3>1. ASSUME NEW q \in Threads PROVE PostAt(q)'
      <4>1. q \notin unseen' /\ pc'[q] \notin Early \cup Driving
        BY Zenon, <2>1, <2>4
      <4>2. pc'[q] \in Resolving => q # x /\ pc[q] \in Resolving /\ q \in Wakers
        <5>1. pc[x] \in RunningPc /\ pc'[x] \notin Resolving
          BY Zenon, <2>1 DEF RunningPc, Resolving
        <5>2. \A y \in Executors : pc[y] \in Resolving => y = x
          BY Zenon, <5>1, <1>0 DEF RunsExclusively, RunningPc, Resolving, SchedulePc
        <5> QED BY Zenon, <2>3, <5>1, <5>2 DEF Threads
      <4>3. pc[q] \in Resolving => epoch[q] < runEpoch
        BY Zenon, <2>1, <1>0 DEF PostInv, PostAt
      <4> QED BY Zenon, <2>1, <4>1, <4>2, <4>3 DEF PostAt, Early, Driving
    <3> QED BY Zenon, <3>1 DEF PostInv
  <2> QED BY Zenon, <1>b, <2>5, <2>6, <2>7, <2>8 DEF WakeInv
<1>5. CASE FinishDone(x) \/ FinishAgain(x)
  <2>1. /\ UNCHANGED <<request, runEpoch, ready, dest, saw, epoch, home, unseen>> /\ Only(x)
        /\ pc[x] \in {"body", "refused"} /\ posts' = 1 /\ NoPostInFlight /\ state = "Running"
        /\ \/ pc'[x] = "doneTake" /\ state' = "Done"
           \/ pc'[x] = "againTake" /\ state' = "Queued"
    BY Zenon, <1>5, <1>a, <1>0 DEF Only, TypeOK, OwnerInv, OwnerAt, Contract, local, Goto, FinishDone, FinishAgain
  <2>2. \A q \in Threads : pc'[q] \notin SchedulePc
    <3>1. pc[x] \in RunningPc /\ pc'[x] \notin SchedulePc /\ pc[x] \notin SchedulePc
      BY Zenon, <2>1 DEF RunningPc, SchedulePc
    <3>2. \A y \in Executors : pc[y] \notin SchedulePc
      BY Zenon, <3>1, <1>0 DEF RunsExclusively, RunningPc
    <3> QED BY Zenon, <2>1, <3>1, <3>2 DEF Only, NoPostInFlight, Posting, Threads
  <2>3. OnePost'
    <3>1. NoPostInFlight' /\ \A q \in Threads : pc'[q] # "stale" /\ pc'[q] \notin Early \cup Driving
      BY Zenon, <2>2 DEF NoPostInFlight, Posting, Early, Driving, SchedulePc, Threads
    <3>2. (\A q, r \in unseen' : q = r) /\ \A w \in Wakers : ~Posting(w)'
      BY Zenon, <2>1, <3>1, <1>0 DEF OnePost, NoPostInFlight
    <3>3. posts' \in {0, 1} /\ posts' # 0
      BY <2>1
    <3> QED BY Zenon, <2>1, <3>1, <3>2, <3>3 DEF OnePost
  <2>4. HomeInv'
    <3>1. \A y \in Executors : pc[y] \notin {"pendingTake", "pendingCheck", "pendingCas"}
      BY Zenon, <2>1, <1>0 DEF HomeInv
    <3>2. /\ pc'[x] \notin {"body", "posted", "refused"} \cup SelfPc
          /\ pc'[x] \notin {"cas", "enqueue", "cancel", "pendingTake", "pendingCheck", "pendingCas"}
      BY Zenon, <2>1 DEF SelfPc
    <3> QED BY Zenon, <1>0, <1>a, <2>1, <3>1, <3>2, HomeFrame
  <2>5. RequestInv'
    BY Zenon, <2>1, <1>0 DEF RequestInv
  <2>6. PostInv'
    BY Zenon, <2>1, <2>2 DEF PostInv, PostAt, Covered, Early, Resolving, SchedulePc
  <2> QED BY Zenon, <1>b, <2>3, <2>4, <2>5, <2>6 DEF WakeInv
<1>6. CASE ReleaseTask(x)
  <2>1. /\ UNCHANGED <<state, request, runEpoch, ready, dest, saw, epoch, home, posts, unseen>>
        /\ Only(x) /\ pc[x] = "finished" /\ pc'[x] = "idle" /\ state = "Done"
    BY Zenon, <1>6, <1>a, <1>0 DEF Only, TypeOK, DoneInv, task, local, history, Goto, ReleaseTask
  <2>2. pc'[x] \notin Early \cup Driving /\ ~Posting(x)' /\ ~Posting(x) /\ ~Claims(x)'
    BY Zenon, <2>1 DEF Early, Driving, Posting, SchedulePc, Claims, Claiming
  <2>3. OnePost'
    BY Zenon, <1>0, <1>a, <1>d, <2>1, <2>2, OnePostFrame
  <2>4. HomeInv'
    <3>1. \A y \in Executors : pc[y] \notin {"pendingTake", "pendingCheck", "pendingCas"}
      BY Zenon, <2>1, <1>0 DEF HomeInv
    <3>2. pc'[x] \notin {"body", "posted", "refused"} \cup SelfPc
      BY Zenon, <2>1 DEF SelfPc
    <3> QED BY Zenon, <1>0, <1>a, <1>d, <2>1, <2>2, <3>1, <3>2, HomeFrame
  <2>5. RequestInv'
    BY Zenon, <1>0, <1>a, <2>1, RequestFrame
  <2>6. PostInv'
    <3>1. (Taken <=> Taken') /\ Covered'
      BY Zenon, <2>1 DEF Only, Threads, Taken, Covered
    <3>2. PostAt(x)'
      BY Zenon, <2>1, <2>2, <3>1 DEF PostAt, Resolving
    <3> QED BY Zenon, <1>0, <1>a, <2>1, <3>1, <3>2, PostFrame
  <2> QED BY Zenon, <1>b, <2>3, <2>4, <2>5, <2>6 DEF WakeInv
<1> QED BY Zenon, <1>1, <1>2, <1>3, <1>4, <1>5, <1>6

\* The reuse of the slot for a new task, and a step of the environment, keep WakeInv.
LEMMA RecreateKeepsWake ==
  ASSUME Contract, SafeInv, WakeInv, [Next]_vars, Recreate \/ UNCHANGED vars
  PROVE  WakeInv'
<1>0. /\ TypeOK /\ QueuedOnce /\ RunsExclusively /\ OwnerInv /\ DoneInv /\ SawInv
      /\ OnePost /\ EpochBound /\ HomeInv /\ RequestInv /\ PostInv
  BY Zenon DEF WakeInv, SafeInv, SafeRest
<1>b. EpochBound'
  BY Zenon, <1>0, EpochStep
<1>1. CASE Recreate
  <2>1. /\ state = "Done" /\ state' = "Created" /\ request' = None /\ home' = "none"
        /\ posts' = MaxWakes - 1 /\ unseen' = {} /\ UNCHANGED pc /\ NoPostInFlight
    BY Zenon, <1>1, <1>0 DEF DoneInv, Recreate
  <2>2. posts' = 0
    BY <2>1 DEF Contract
  <2>3. \A q \in Threads : pc'[q] \notin SchedulePc /\ ~Claims(q)
    BY Zenon, <2>1, <1>0 DEF NoPostInFlight, Posting, OwnerInv, OwnerAt, QueuedOnce, Threads
  <2>4. OnePost'
    <3>1. \A q \in Threads : pc'[q] # "stale" /\ pc'[q] \notin Early \cup Driving /\ pc'[q] # "againTake"
      BY Zenon, <2>1, <2>3 DEF SchedulePc, Early, Driving, Claims, Claiming
    <3>2. posts' \in {0, 1}
      BY Zenon, <2>2
    <3> QED BY Zenon, <2>1, <2>2, <3>1, <3>2 DEF OnePost, Threads
  <2>5. HomeInv'
    BY Zenon, <2>1, <1>0 DEF OwnerInv, OwnerAt, HomeInv
  <2>6. RequestInv'
    BY Zenon, <2>1 DEF RequestInv
  <2>7. PostInv'
    BY Zenon, <2>1, <2>3 DEF PostInv, PostAt, SchedulePc, Early, Resolving
  <2> QED BY Zenon, <1>b, <2>4, <2>5, <2>6, <2>7 DEF WakeInv
<1>2. CASE UNCHANGED vars
  <2> USE <1>0, <1>2 DEF vars, task, local, slot, history, Posting, NoPostInFlight
  <2>1. OnePost'
    BY Zenon DEF OnePost
  <2>3. HomeInv'
    BY Zenon DEF Claims, HomeInv
  <2>4. RequestInv'
    BY Zenon DEF RequestInv
  <2>5. PostInv'
    <3>1. (Covered <=> Covered') /\ (Taken <=> Taken') /\ \A p : desired(p)' = desired(p)
      BY Zenon DEF desired, Taken, Covered
    <3> QED BY Zenon, <3>1 DEF PostInv, PostAt
  <2> QED BY Zenon, <1>b, <2>1, <2>3, <2>4, <2>5 DEF WakeInv
<1> QED BY Zenon, <1>1, <1>2

\* The steps of finish_pending, from the store of Pending to the push that it may end with,
\* keep WakeInv.
LEMMA FinishKeepsWake ==
  ASSUME Contract, SafeInv, WakeInv, [Next]_vars, NEW x \in Executors,
         \/ FinishPending(x) \/ TakeRequest(x) \/ CheckEpoch(x)
         \/ enqueue_pending_blocking(x) \/ BlockingPush(x)
  PROVE  WakeInv'
<1>0. /\ TypeOK /\ QueuedOnce /\ RunsExclusively /\ OwnerInv /\ DoneInv /\ SawInv
      /\ OnePost /\ EpochBound /\ HomeInv /\ RequestInv /\ PostInv
  BY Zenon DEF WakeInv, SafeInv, SafeRest
<1>a. x \in Threads /\ PostAt(x)
  BY Zenon, <1>0 DEF Threads, PostInv
<1>b. EpochBound'
  BY Zenon, <1>0, EpochStep
<1>d. /\ state \in {"Queued", "Starting", "Done"} => posts = 1
      /\ state = "Created" => home = "none"
  BY Zenon, <1>0 DEF OnePost, HomeInv
<1>1. CASE FinishPending(x)
  <2>1. /\ UNCHANGED <<request, runEpoch, ready, dest, saw, epoch, value, home, posts, unseen>>
        /\ Only(x) /\ pc[x] \in {"body", "posted"} /\ pc'[x] = "pendingTake"
        /\ state = "Running" /\ state' = "Pending" /\ home = x
    BY Zenon, <1>1, <1>a, <1>0 DEF Only, TypeOK, OwnerInv, OwnerAt, HomeInv, local, history, Goto, FinishPending
  <2>2. pc'[x] \notin Early \cup Driving /\ ~Posting(x)' /\ ~Posting(x) /\ pc[x] \notin Early \cup Driving
    BY Zenon, <2>1 DEF Early, Driving, Posting, SchedulePc
  <2>3. \A q \in Threads : q # x => pc'[q] = pc[q] /\ saw'[q] = saw[q] /\ epoch'[q] = epoch[q]
    BY Zenon, <2>1 DEF Only
  <2>4. OnePost'
    BY Zenon, <1>0, <1>a, <2>1, <2>2, OnePostFrame
  <2>5. HomeInv'
    <3>1. \A q \in Threads : ~Claims(q)
      BY Zenon, <2>1, <1>0 DEF QueuedOnce
    <3>2. (\A q \in Threads : ~Claims(q)') /\ \A y \in Executors : ~(ready'[y] > 0)
      BY Zenon, <2>1, <2>3, <3>1, <1>0 DEF Claims, Claiming, QueuedOnce
    <3>3. \A y \in Executors : y # x => pc'[y] \notin {"pendingTake", "pendingCheck", "pendingCas"}
      BY Zenon, <2>1, <2>3, <1>0 DEF HomeInv, Threads
    <3>4. \A q \in Threads : pc'[q] \in {"cas", "enqueue", "cancel"} /\ saw'[q] = "Created" => home' = "none"
      BY Zenon, <2>1, <2>3, <1>0 DEF HomeInv
    <3>5. \A y \in Executors : y # x /\ pc'[y] \in {"body", "posted", "refused"} \cup SelfPc => home' = y
      BY Zenon, <2>1, <2>3, <1>0 DEF HomeInv, Threads
    <3> QED BY Zenon, <2>1, <3>2, <3>3, <3>4, <3>5 DEF HomeInv
  <2>6. RequestInv'
    BY Zenon, <2>1, <1>0 DEF RequestInv
  <2>7. PostInv'
    <3>1. (Taken <=> Taken') /\ (Covered => Covered')
      BY Zenon, <1>a, <2>1, <2>3 DEF Threads, Taken, Covered
    <3>2. PostAt(x)'
      BY Zenon, <1>a, <2>1, <2>2, <3>1 DEF PostAt, Resolving
    <3>3. ASSUME NEW q \in Threads, q # x PROVE PostAt(q)'
      <4>1. /\ PostAt(q) /\ pc'[q] = pc[q] /\ saw'[q] = saw[q] /\ epoch'[q] = epoch[q]
            /\ desired(q)' = desired(q) /\ (Posting(q)' <=> Posting(q))
        BY Zenon, <2>1, <2>3, <3>3, <1>0 DEF PostInv, desired, Posting
      <4>2. pc[q] # "resolveCas" /\ (pc[q] = "clear" => q \notin unseen)
        BY Zenon, <4>1, <2>1 DEF PostAt
      <4>3. \A y \in Executors : pc'[y] = "run" => pc[y] = "run"
        BY Zenon, <2>1, <2>3 DEF Threads
      <4>4. pc[q] \in Resolving /\ q \in unseen =>
              /\ epoch[q] <= runEpoch /\ epoch[q] = runEpoch
              /\ \A y \in Executors : pc[y] = "run" => epoch[q] < runEpoch
              /\ request = desired(q) \/ Taken
        BY Zenon, <2>1, <4>1 DEF PostAt
      <4> QED BY Zenon, <2>1, <3>1, <4>1, <4>2, <4>3, <4>4 DEF PostAt
    <3> QED BY Zenon, <3>2, <3>3 DEF PostInv
  <2> QED BY Zenon, <1>b, <2>4, <2>5, <2>6, <2>7 DEF WakeInv
<1>2. CASE TakeRequest(x)
  <2>1. /\ UNCHANGED <<state, runEpoch, ready, dest, saw, epoch, home, posts, unseen>> /\ Only(x)
        /\ request' = None /\ value'[x] = request
        /\ \/ pc[x] = "doneTake" /\ pc'[x] = "finished"
           \/ pc[x] = "againTake" /\ pc'[x] = "againPush"
           \/ pc[x] = "pendingTake" /\ request = None /\ pc'[x] = "idle"
           \/ pc[x] = "pendingTake" /\ request # None /\ pc'[x] = "pendingCheck"
    BY Zenon, <1>2, <1>a, <1>0 DEF Only, TypeOK, history, Goto, TakeRequest
  <2>2. pc'[x] \notin Early \cup Driving /\ ~Posting(x)' /\ ~Posting(x)
    BY Zenon, <2>1 DEF Early, Driving, Posting, SchedulePc
  <2>3. \A q \in Threads : q # x => pc'[q] = pc[q] /\ saw'[q] = saw[q] /\ epoch'[q] = epoch[q]
    BY Zenon, <2>1 DEF Only
  <2>4. OnePost'
    BY Zenon, <1>0, <1>a, <1>d, <2>1, <2>2, OnePostFrame
  <2>5. RequestInv'
    BY Zenon, <2>1 DEF RequestInv
  <2>6. \A y \in Executors : y # x => pc[y] \notin {"pendingTake", "pendingCheck", "pendingCas"}
    <3>1. CASE pc[x] = "doneTake"
      BY Zenon, <3>1, <1>0 DEF DoneInv, HomeInv
    <3>2. CASE pc[x] = "againTake"
      <4>1. Claims(x) /\ state = "Queued"
        BY Zenon, <3>2, <1>a, <1>0 DEF Claims, Claiming, QueuedOnce
      <4> QED BY Zenon, <3>2, <4>1, <1>a, <1>0 DEF HomeInv
    <3>3. CASE pc[x] = "pendingTake"
      BY Zenon, <3>3, <1>0 DEF HomeInv
    <3> QED BY Zenon, <2>1, <3>1, <3>2, <3>3
  <2>7. CASE pc'[x] = "pendingCheck"
    <3>1. /\ pc[x] = "pendingTake" /\ request # None /\ request.epoch = runEpoch
          /\ unseen # {} /\ home = x /\ state = "Pending"
      <4>1. pc[x] = "pendingTake" /\ request # None
        BY Zenon, <2>1, <2>7
      <4>2. state # "Queued"
        <5>1. \A y \in Executors : pc[y] # "againTake"
          BY Zenon, <4>1, <1>0 DEF HomeInv, Claims, Claiming, Threads
        <5> QED BY Zenon, <4>1, <5>1, <1>0 DEF RequestInv
      <4> QED BY Zenon, <4>1, <4>2, <1>0 DEF RequestInv, HomeInv
    <3>2. \A q \in Threads : pc[q] \notin Early \cup Driving
      BY Zenon, <3>1, <1>0 DEF PostInv, PostAt, Driving
    <3>3. \A q \in Threads : pc'[q] \notin Early \cup Driving
      BY Zenon, <2>2, <2>3, <3>2
    <3>4. HomeInv'
      <4>1. \A y \in Executors : y # x => pc'[y] \notin {"pendingTake", "pendingCheck", "pendingCas"}
        BY Zenon, <2>3, <2>6 DEF Threads
      <4>2. \A q \in Threads : pc'[q] \notin {"cas", "enqueue", "cancel"}
        BY Zenon, <3>3 DEF Early, Driving
      <4>3. \A y \in Executors : y # x /\ pc'[y] \in {"body", "posted", "refused"} \cup SelfPc => home' = y
        BY Zenon, <2>1, <2>3, <1>0 DEF HomeInv, Threads
      <4>4. state' = "Pending" /\ value'[x].epoch = runEpoch' /\ unseen' # {} /\ home' = x
        BY Zenon, <2>1, <3>1
      <4>5. state' # "Created" /\ pc'[x] # "pendingTake"
        BY Zenon, <2>7, <4>4
      <4> QED BY Zenon, <2>1, <2>7, <3>3, <4>1, <4>2, <4>3, <4>4, <4>5 DEF HomeInv
    <3>5. PostInv'
      <4>1. Taken' /\ Covered'
        BY Zenon, <2>7 DEF Taken, Covered
      <4>2. PostAt(x)'
        BY Zenon, <2>2, <2>7, <4>1 DEF PostAt, Resolving
      <4>3. ASSUME NEW q \in Threads, q # x PROVE PostAt(q)'
        <5>1. PostAt(q) /\ pc'[q] = pc[q] /\ saw'[q] = saw[q] /\ epoch'[q] = epoch[q]
          BY Zenon, <2>3, <4>3, <1>0 DEF PostInv
        <5>2. \A y \in Executors : pc'[y] = "run" => pc[y] = "run"
          BY Zenon, <2>1, <2>3 DEF Threads
        <5>3. pc[q] \notin Early \cup Driving
          BY Zenon, <3>2
        <5> QED BY Zenon, <2>1, <4>1, <5>1, <5>2, <5>3 DEF PostAt, Early, Driving
      <4> QED BY Zenon, <4>2, <4>3 DEF PostInv
    <3> QED BY Zenon, <1>b, <2>4, <2>5, <3>4, <3>5 DEF WakeInv
  <2>8. CASE pc'[x] # "pendingCheck"
    <3>1. HomeInv'
      <4>1. /\ pc'[x] \notin {"body", "posted", "refused"} \cup SelfPc
            /\ pc'[x] \notin {"cas", "enqueue", "cancel", "pendingTake", "pendingCheck", "pendingCas"}
        BY Zenon, <2>1, <2>8 DEF SelfPc
      <4> QED BY Zenon, <1>0, <1>a, <1>d, <2>1, <2>6, <4>1, HomeFrame
    <3>2. CASE pc[x] \in {"doneTake", "againTake"}
      <4>1. NoPostInFlight /\ state \in {"Done", "Queued"}
        <5>1. CASE pc[x] = "doneTake"
          BY Zenon, <5>1, <1>0 DEF DoneInv, OnePost
        <5>2. CASE pc[x] = "againTake"
          BY Zenon, <5>2, <1>a, <1>0 DEF OnePost, Claims, Claiming, QueuedOnce
        <5> QED BY Zenon, <3>2, <5>1, <5>2
      <4>2. \A q \in Threads : ~Posting(q)
        BY Zenon, <4>1, <1>0 DEF NoPostInFlight, OwnerInv, OwnerAt, Posting, Threads
      <4>3. \A q \in Threads : pc'[q] \notin SchedulePc
        BY Zenon, <2>2, <2>3, <4>2 DEF Posting
      <4>4. PostInv'
        BY Zenon, <2>1, <4>1, <4>3 DEF PostInv, PostAt, Covered, Early, Resolving, SchedulePc
      <4> QED BY Zenon, <1>b, <2>4, <2>5, <3>1, <4>4 DEF WakeInv
    <3>3. CASE pc[x] \notin {"doneTake", "againTake"}
      <4>1. pc[x] = "pendingTake" /\ request = None /\ pc'[x] = "idle" /\ request' = request
        BY Zenon, <2>1, <2>8, <3>3
      <4>2. (Taken <=> Taken') /\ (Covered => Covered')
        BY Zenon, <2>1, <2>3, <4>1 DEF Taken, Covered, Threads
      <4>3. PostAt(x)'
        BY Zenon, <1>a, <2>1, <2>2, <4>1, <4>2 DEF PostAt, Resolving
      <4>4. PostInv'
        BY Zenon, <1>0, <1>a, <2>1, <4>1, <4>2, <4>3, PostFrame
      <4> QED BY Zenon, <1>b, <2>4, <2>5, <3>1, <4>4 DEF WakeInv
    <3> QED BY Zenon, <3>2, <3>3
  <2> QED BY Zenon, <2>7, <2>8
<1>3. CASE CheckEpoch(x)
  <2>1. /\ pc[x] = "pendingCheck" /\ state = "Pending" /\ value[x].epoch = runEpoch /\ request = None
        /\ unseen # {} /\ home = x /\ \A q \in Threads : pc[q] \notin Early \cup Driving
    BY Zenon, <1>3, <1>0 DEF HomeInv, CheckEpoch
  <2>2. /\ UNCHANGED <<state, request, runEpoch, ready, dest, saw, epoch, value, home, posts, unseen>>
        /\ Only(x) /\ pc'[x] = "pendingCas"
    BY Zenon, <1>3, <1>a, <2>1, <1>0 DEF Only, TypeOK, task, local, history, Goto, CheckEpoch
  <2>3. pc'[x] \notin Early \cup Driving /\ ~Posting(x)' /\ ~Posting(x)
    BY Zenon, <2>1, <2>2 DEF Early, Driving, Posting, SchedulePc
  <2>4. \A q \in Threads : q # x => pc'[q] = pc[q]
    BY Zenon, <2>2 DEF Only
  <2>5. OnePost'
    BY Zenon, <1>0, <1>a, <1>d, <2>2, <2>3, OnePostFrame
  <2>6. HomeInv'
    <3>1. \A y \in Executors : y # x => pc'[y] \notin {"pendingTake", "pendingCheck", "pendingCas"}
      BY Zenon, <2>1, <2>4, <1>0 DEF HomeInv, Threads
    <3>2. \A q \in Threads : pc'[q] \notin Early \cup Driving
      BY Zenon, <2>1, <2>3, <2>4
    <3>3. \A q \in Threads : pc'[q] \notin {"cas", "enqueue", "cancel"}
      BY Zenon, <3>2 DEF Early, Driving
    <3>4. \A y \in Executors : y # x /\ pc'[y] \in {"body", "posted", "refused"} \cup SelfPc => home' = y
      BY Zenon, <2>2, <2>4, <1>0 DEF HomeInv, Threads
    <3> QED BY Zenon, <2>1, <2>2, <3>1, <3>2, <3>3, <3>4 DEF HomeInv
  <2>7. RequestInv'
    BY Zenon, <1>0, <1>a, <2>1, <2>2, RequestFrame
  <2>8. PostInv'
    <3>1. Taken' /\ Covered'
      BY Zenon, <2>2 DEF Taken, Covered
    <3>2. PostAt(x)'
      BY Zenon, <2>2, <2>3, <3>1 DEF PostAt, Resolving
    <3> QED BY Zenon, <1>0, <1>a, <2>2, <3>1, <3>2, PostFrame
  <2> QED BY Zenon, <1>b, <2>5, <2>6, <2>7, <2>8 DEF WakeInv
<1>4. CASE enqueue_pending_blocking(x)
  <2>1. /\ pc[x] = "pendingCas" /\ state = "Pending" /\ request = None
        /\ unseen # {} /\ home = x /\ \A q \in Threads : pc[q] \notin Early \cup Driving
    BY Zenon, <1>4, <1>0 DEF HomeInv, enqueue_pending_blocking
  <2>2. /\ UNCHANGED <<request, runEpoch, ready, dest, saw, epoch, value, home, posts, unseen>>
        /\ Only(x) /\ pc'[x] = "pendingPush" /\ state' = "Queued"
    BY Zenon, <1>4, <1>a, <2>1, <1>0 DEF Only, TypeOK, local, history, Goto, enqueue_pending_blocking
  <2>3. pc'[x] \notin Early \cup Driving /\ ~Posting(x)' /\ ~Posting(x)
    BY Zenon, <2>1, <2>2 DEF Early, Driving, Posting, SchedulePc
  <2>4. \A q \in Threads : q # x => pc'[q] = pc[q]
    BY Zenon, <2>2 DEF Only
  <2>5. OnePost'
    <3>1. posts = 1
      BY Zenon, <2>1, <1>0 DEF OnePost
    <3> QED BY Zenon, <1>0, <1>a, <2>2, <2>3, <3>1, OnePostFrame
  <2>6. HomeInv'
    <3>1. \A y \in Executors : y # x => pc[y] \notin {"pendingTake", "pendingCheck", "pendingCas"}
      BY Zenon, <2>1, <1>0 DEF HomeInv
    <3>2. pc'[x] \notin {"body", "posted", "refused"} \cup SelfPc
      BY Zenon, <2>2 DEF SelfPc
    <3> QED BY Zenon, <1>0, <1>a, <2>2, <2>3, <3>1, <3>2, HomeFrame
  <2>7. RequestInv'
    BY Zenon, <2>1, <2>2 DEF RequestInv
  <2>8. PostInv'
    <3>1. Covered'
      BY Zenon, <2>2 DEF Covered
    <3>2. PostAt(x)'
      BY Zenon, <2>2, <2>3, <3>1 DEF PostAt, Resolving
    <3>3. ASSUME NEW q \in Threads, q # x PROVE PostAt(q)'
      <4>1. PostAt(q) /\ pc'[q] = pc[q] /\ saw'[q] = saw[q] /\ epoch'[q] = epoch[q]
        BY Zenon, <2>2, <3>3, <1>0 DEF PostInv, Only
      <4>2. pc[q] \notin Early \cup Driving
        BY Zenon, <2>1
      <4>3. \A y \in Executors : pc'[y] = "run" => pc[y] = "run"
        BY Zenon, <2>2, <2>4 DEF Threads
      <4> QED BY Zenon, <2>1, <2>2, <3>1, <4>1, <4>2, <4>3 DEF PostAt, Early, Driving
    <3> QED BY Zenon, <3>2, <3>3 DEF PostInv
  <2> QED BY Zenon, <1>b, <2>5, <2>6, <2>7, <2>8 DEF WakeInv
<1>5. CASE BlockingPush(x)
  <2>1. pc[x] \in {"pendingPush", "againPush"} /\ Claims(x) /\ state = "Queued"
    BY Zenon, <1>5, <1>a, <1>0 DEF Claims, Claiming, QueuedOnce, BlockingPush
  <2>2. /\ UNCHANGED <<state, request, runEpoch, dest, saw, epoch, home, posts, unseen>>
        /\ Only(x) /\ pc'[x] = "idle"
    BY Zenon, <1>5, <1>a, <1>0 DEF Only, TypeOK, task, local, history, Goto, BlockingPush
  <2>3. pc'[x] \notin Early \cup Driving /\ ~Posting(x)' /\ ~Posting(x) /\ ~Claims(x)'
    BY Zenon, <2>1, <2>2 DEF Early, Driving, Posting, SchedulePc, Claims, Claiming
  <2>4. OnePost'
    BY Zenon, <1>0, <1>a, <1>d, <2>2, <2>3, OnePostFrame
  <2>5. HomeInv'
    <3>1. \A y \in Executors : pc[y] \notin {"pendingTake", "pendingCheck", "pendingCas"}
      BY Zenon, <1>a, <2>1, <1>0 DEF HomeInv
    <3>2. pc'[x] \notin {"body", "posted", "refused"} \cup SelfPc
      BY Zenon, <2>2 DEF SelfPc
    <3> QED BY Zenon, <1>0, <1>a, <1>d, <2>2, <2>3, <3>1, <3>2, HomeFrame
  <2>6. RequestInv'
    BY Zenon, <1>0, <1>a, <2>1, <2>2, RequestFrame
  <2>7. PostInv'
    <3>1. Covered' /\ (Taken => Taken')
      BY Zenon, <2>1, <2>2 DEF Covered, Taken, Only, Threads
    <3>2. PostAt(x)'
      BY Zenon, <2>2, <2>3, <3>1 DEF PostAt, Resolving
    <3> QED BY Zenon, <1>0, <1>a, <2>2, <3>1, <3>2, PostFrame
  <2> QED BY Zenon, <1>b, <2>4, <2>5, <2>6, <2>7 DEF WakeInv
<1> QED BY Zenon, <1>1, <1>2, <1>3, <1>4, <1>5

\* Every step keeps WakeInv, whichever thread makes it.
LEMMA WakeStep == Contract /\ SafeInv /\ WakeInv /\ [Next]_vars => WakeInv'
<1> SUFFICES ASSUME Contract, SafeInv, WakeInv, [Next]_vars PROVE WakeInv'
  BY Zenon
<1>1. ASSUME NEW x \in Executors, PopOne(x) \/ Execute(x) PROVE WakeInv'
  BY Zenon, <1>1, RunsKeepWake, FinishKeepsWake DEF Execute
<1> QED BY Zenon, <1>1, PostsKeepWake, RecreateKeepsWake DEF Next

\* The post that the creator of a task still owes is the outstanding one.
LEMMA InitWake == Contract /\ Init => WakeInv
<1> SUFFICES ASSUME Contract, Init PROVE WakeInv
  BY Zenon
<1> USE Parameters DEF Contract, Init, Threads, Posting, NoPostInFlight, SchedulePc, SelfPc, Claims,
      Early, Driving, Resolving
<1>1. OnePost
  BY DEF OnePost
<1>2. EpochBound
  BY DEF EpochBound
<1>3. HomeInv
  BY Zenon DEF HomeInv
<1>4. RequestInv
  BY Zenon DEF RequestInv
<1>5. PostInv
  BY Zenon DEF PostInv, PostAt
<1> QED BY Zenon, <1>1, <1>2, <1>3, <1>4, <1>5 DEF WakeInv

-----------------------------------------------------------------------------

\* A program does not change how it uses its task.
LEMMA UsageStep == [Next]_vars => usage' = usage
  BY Zenon DEF ReleaseTask, BlockingPush, enqueue_pending_blocking, CheckEpoch, TakeRequest,
       FinishPending, FinishAgain, FinishDone, StoreRunning, prepare_running_epoch, ExecuteCas,
       Execute, CancelSchedule, Enqueue, ResolveCas, ResolveClear, ResolveEpoch, ResolveState,
       ClearStale, RequestSlot, LoadEpoch, CasQueued, LoadState, Schedule, Recreate, PopOne, Call,
       PendingOn, WakerPost, slot, vars, Next

\* Both inductive invariants hold in every reachable state of a program that
\* keeps the contract.
LEMMA WakeAlways == Spec => [](SafeInv /\ (Contract => WakeInv))
<1>1. Init => SafeInv /\ (Contract => WakeInv)
  BY Zenon, InitSafe, InitWake
<1>2. SafeInv /\ (Contract => WakeInv) /\ [Next]_vars => (SafeInv /\ (Contract => WakeInv))'
  <2> SUFFICES ASSUME SafeInv, Contract => WakeInv, [Next]_vars
               PROVE  SafeInv' /\ (Contract' => WakeInv')
    BY Zenon
  <2>1. Contract' => Contract
    BY Zenon, UsageStep DEF MaxWakes, Pinned, Contract
  <2> QED BY Zenon, <2>1, SafeStep, WakeStep
<1> QED BY <1>1, <1>2, PTL DEF Spec

\* Under the contract a post that returned true is never lost, whatever the
\* number of threads, tasks in the slot and refused enqueues.
THEOREM AcceptedWakesRunThm == Spec => []AcceptedWakesRun
<1>1. SafeInv /\ (Contract => WakeInv) => AcceptedWakesRun
  BY Zenon DEF Threads, SchedulePc, Posting, Taken, Covered, PostInv, PostAt, NoStrandedWake,
       AcceptedWakesRun, TypeOK, WakeInv, SafeInv, SafeRest
<1> QED BY <1>1, WakeAlways, PTL

\* Under the contract no assertion of the wake protocol can fail.
THEOREM AssertionsHoldThm == Spec => []AssertionsHold
<1>1. SafeInv /\ (Contract => WakeInv) => AssertionsHold
  <2> SUFFICES ASSUME SafeInv, WakeInv, NEW p \in Threads
               PROVE  /\ pc[p] \in {"start", "cancel"} => state = "Queued"
                      /\ pc[p] = "pendingCas" => state \in {"Pending", "Queued", "Starting", "Running"}
                      /\ pc[p] = "load" => state \notin {"Queued", "Done"}
                      /\ pc[p] = "slot" /\ request \notin {None, desired(p)} => request.epoch # epoch[p]
    BY Zenon DEF AssertionsHold
  <2>1. pc[p] \in {"start", "cancel"} => state = "Queued"
    BY Zenon DEF Claiming, Claims, QueuedOnce, SafeInv, SafeRest
  <2>2. pc[p] = "pendingCas" => state = "Pending"
    BY Zenon DEF HomeInv, SchedulePc, Threads, TypeOK, WakeInv, SafeInv, SafeRest
  <2>3. /\ pc[p] = "load" => state \notin {"Queued", "Done"}
        /\ pc[p] = "slot" => request = None
    BY Zenon DEF Early, PostInv, PostAt, WakeInv
  <2> QED BY Zenon, <2>1, <2>2, <2>3
<1> QED BY <1>1, WakeAlways, PTL
=============================================================================
