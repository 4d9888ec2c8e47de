----------------------- MODULE RuntimeLifecycleProofs -----------------------
(* Proofs about RuntimeLifecycle, for any number of threads and tasks.      *)
EXTENDS RuntimeLifecycle, FiniteSetTheorems, TLAPS

\* Posts that loaded Running after they had been counted, and posts counted in
\* active_external_posts_.
Deep == {"recheckGen"} \cup Admitted
Counted == {"recheckStatus", "leave"} \cup Deep
Inside(x) == {p \in Posters : ppc[p] \in Counted /\ ptarget[p] = x}

\* Where a controller is: in init(), waiting for the external posts, after them.
StartPc == {"build", "start", "publish"}
PostsPc == {"loadPosts", "waitPosts", "parkedPosts"}
PastPc == {"loadIdle", "waitIdle", "parkedIdle", "stop", "join", "cancel", "clear",
           "publishStopped"}

LType ==
    /\ status \in Status /\ built \in BOOLEAN
    /\ ppc \in [Callers -> PPc] /\ ptarget \in [Callers -> Executors] /\ pgen \in [Callers -> Int]
    /\ xpc \in [Executors -> XPc]
    /\ cpc \in [Controllers -> CPc] /\ ci \in [Controllers -> Executors]
    /\ DOMAIN active = Executors /\ generation \in Int

\* The status admits one controller at a time.
OneControl ==
    /\ \A k \in Controllers : cpc[k] \in StartPc => status = "Starting"
    /\ \A k \in Controllers : cpc[k] \in PostsPc \cup PastPc => status = "Stopping"
    /\ \A j, k \in Controllers : cpc[j] # "idle" /\ cpc[k] # "idle" => j = k
    /\ \A k \in Controllers : cpc[k] \notin PostsPc \cup {"stop", "join"} => ci[k] = 0

\* active_external_posts_ counts the posts between its two updates.
CountInv == \A x \in Executors : active[x] = Cardinality(Inside(x))

\* A post that loaded Running after it was counted is waited for.
PostersIn ==
    /\ \A p \in Posters : ppc[p] \in Deep => built /\ status \in {"Running", "Stopping"}
    /\ \A p \in Posters : ppc[p] \in Admitted => pgen[p] = generation
    /\ \A p \in Posters, k \in Controllers : ppc[p] \in Deep =>
          cpc[k] \notin PastPc /\ (cpc[k] \in PostsPc => ci[k] <= ptarget[p])

\* An executor posts from inside its loop, and is joined before the queues go.
ExecutorsIn ==
    /\ \A x \in Executors : ppc[x] # "idle" => xpc[x] \in {"posted", "callback"}
    /\ \A x \in Executors : ppc[x] \in {"idle", "status"} \cup Admitted
    /\ \A x \in Executors : ppc[x] \in Admitted => built /\ status \in {"Running", "Stopping"}

JoinInv ==
    /\ ~built => status # "Running" /\ \A k \in Controllers : cpc[k] \notin {"start", "publish"}
    /\ (\/ ~built \/ status = "Stopped"
        \/ \E k \in Controllers :
              cpc[k] \in {"build", "start", "cancel", "clear", "publishStopped"})
          => \A x \in Executors : xpc[x] = "none"
    /\ \A k \in Controllers : cpc[k] = "join" => \A x \in Executors : x < ci[k] => xpc[x] = "none"

LifeInv == LType /\ OneControl /\ CountInv /\ PostersIn /\ ExecutorsIn /\ JoinInv

\* Executor 0 is where a controller starts its rounds over the executors.
LEMMA ZeroIs == 0 \in Executors
  BY LifecycleParameters DEF Executors

\* Before the first init() nobody posts and nothing is built.
LEMMA InitLife == Init => LifeInv
<1> SUFFICES ASSUME Init PROVE LifeInv
  BY Zenon
<1> USE LifecycleParameters DEF Init
<1>1. LType
  <2>1. /\ ppc \in [Callers -> PPc] /\ ptarget \in [Callers -> Executors]
        /\ pgen \in [Callers -> Int]
    BY ZeroIs DEF PPc
  <2>2. xpc \in [Executors -> XPc] /\ DOMAIN active = Executors
    BY Zenon DEF XPc
  <2>3. cpc \in [Controllers -> CPc] /\ ci \in [Controllers -> Executors]
    BY Zenon, ZeroIs DEF CPc
  <2>4. status \in Status /\ built \in BOOLEAN
    BY Zenon DEF Status
  <2>5. generation \in Int
    OBVIOUS
  <2> QED BY Zenon, <2>1, <2>2, <2>3, <2>4, <2>5 DEF LType
<1>2. OneControl
  BY Zenon DEF OneControl, StartPc, PostsPc, PastPc
<1>3. CountInv
  <2>1. \A x \in Executors : Inside(x) = {}
    BY Zenon DEF Inside, Counted, Deep, Admitted, Callers
  <2> QED BY Zenon, <2>1, FS_EmptySet DEF CountInv
<1>4. PostersIn
  BY Zenon DEF PostersIn, Deep, Admitted, Callers
<1>5. ExecutorsIn /\ JoinInv
  BY Zenon DEF ExecutorsIn, JoinInv, Admitted, Callers
<1> QED BY Zenon, <1>1, <1>2, <1>3, <1>4, <1>5 DEF LifeInv

-----------------------------------------------------------------------------
(* The steps of post().                                                     *)

\* A step that neither enters nor leaves keeps every count.
LEMMA SameCount ==
    ASSUME LType, CountInv, NEW c \in Callers, UNCHANGED active,
           \A d \in Callers : d # c => ppc'[d] = ppc[d] /\ ptarget'[d] = ptarget[d],
           c \in Posters => (ppc'[c] \in Counted <=> ppc[c] \in Counted),
           c \in Posters /\ ppc[c] \in Counted => ptarget'[c] = ptarget[c]
    PROVE  CountInv'
<1>1. \A x \in Executors : Inside(x)' = Inside(x)
  BY Zenon DEF Inside, Callers
<1> QED BY Zenon, <1>1 DEF CountInv

\* Nobody's post moves.
LEMMA NoCount == CountInv /\ UNCHANGED <<active, ppc, ptarget>> => CountInv'
  BY Zenon DEF CountInv, Inside

\* Each step of post() keeps the invariant: the status is loaded again after the
\* post was counted.
LEMMA PostStep ==
    ASSUME IsFiniteSet(Posters), LifeInv, NEW c \in Callers, ContinuePost(c)
    PROVE  LifeInv'
<1> USE LifecycleParameters DEF LifeInv, runtime, counts, tasks, executors, posts, controls,
   rest, PGo, PostReturn
<1>0. (c \in Posters \/ c \in Executors) /\ 0 \in Executors
  BY Zenon, ZeroIs DEF Callers
<1>1. CASE LoadStatus(c)
  <2>1. LType'
    BY <1>1, <1>0 DEF LoadStatus, LType, PPc, CPc
  <2>2. OneControl' /\ JoinInv'
    BY Zenon, <1>1 DEF LoadStatus, OneControl, JoinInv, LType, StartPc, PostsPc, PastPc
  <2>3. CountInv'
    BY <1>1, <1>0, SameCount DEF LoadStatus, LType, Counted, Deep, Admitted, ExecutorsIn
  <2>4. PostersIn'
    BY <1>1, <1>0 DEF LoadStatus, LType, PostersIn, OneControl, JoinInv, Deep, Admitted,
       PostsPc, PastPc, Callers
  <2>5. ExecutorsIn'
    BY <1>1, <1>0 DEF LoadStatus, LType, ExecutorsIn, JoinInv, Admitted, Callers
  <2> QED BY Zenon, <2>1, <2>2, <2>3, <2>4, <2>5
<1>2. CASE RecheckStatus(c)
  <2>1. LType'
    BY Zenon, <1>2, <1>0 DEF RecheckStatus, LType, PPc, CPc
  <2>2. OneControl' /\ JoinInv'
    BY Zenon, <1>2 DEF RecheckStatus, OneControl, JoinInv, LType, StartPc, PostsPc, PastPc
  <2>3. CountInv'
    BY Zenon, <1>2, <1>0, SameCount DEF RecheckStatus, LType, Counted, Deep, Admitted, ExecutorsIn
  <2>4. PostersIn'
    BY <1>2, <1>0 DEF RecheckStatus, LType, PostersIn, OneControl, JoinInv, Deep, Admitted,
       PostsPc, PastPc, Callers
  <2>5. ExecutorsIn'
    BY Zenon, <1>2, <1>0 DEF RecheckStatus, LType, ExecutorsIn, JoinInv, Admitted, Callers
  <2> QED BY Zenon, <2>1, <2>2, <2>3, <2>4, <2>5
<1>3. CASE RecheckGeneration(c)
  <2>1. LType'
    BY Zenon, <1>3, <1>0 DEF RecheckGeneration, LType, PPc, CPc
  <2>2. OneControl' /\ JoinInv'
    BY Zenon, <1>3 DEF RecheckGeneration, OneControl, JoinInv, LType, StartPc, PostsPc, PastPc
  <2>3. CountInv'
    BY Zenon, <1>3, <1>0, SameCount DEF RecheckGeneration, LType, Counted, Deep, Admitted, ExecutorsIn
  <2>4. PostersIn'
    BY <1>3, <1>0 DEF RecheckGeneration, LType, PostersIn, OneControl, JoinInv, Deep, Admitted,
       PostsPc, PastPc, Callers
  <2>5. ExecutorsIn'
    BY <1>3, <1>0 DEF RecheckGeneration, LType, ExecutorsIn, JoinInv, Admitted, Callers
  <2> QED BY Zenon, <2>1, <2>2, <2>3, <2>4, <2>5
<1>4. CASE RequestSchedule(c)
  <2>1. LType'
    BY Zenon, <1>4, <1>0 DEF RequestSchedule, LType, PPc, CPc
  <2>2. OneControl' /\ JoinInv'
    BY Zenon, <1>4 DEF RequestSchedule, OneControl, JoinInv, LType, StartPc, PostsPc, PastPc
  <2>3. CountInv'
    BY <1>4, <1>0, SameCount DEF RequestSchedule, LType, Counted, Deep, Admitted, ExecutorsIn
  <2>4. PostersIn'
    BY <1>4, <1>0 DEF RequestSchedule, LType, PostersIn, OneControl, JoinInv, Deep, Admitted,
       PostsPc, PastPc, Callers
  <2>5. ExecutorsIn'
    BY <1>4, <1>0 DEF RequestSchedule, LType, ExecutorsIn, JoinInv, Admitted, Callers
  <2> QED BY Zenon, <2>1, <2>2, <2>3, <2>4, <2>5
<1>5. CASE RegisterTask(c)
  <2>1. LType'
    BY Zenon, <1>5, <1>0 DEF RegisterTask, LType, PPc, CPc
  <2>2. OneControl' /\ JoinInv'
    BY Zenon, <1>5 DEF RegisterTask, OneControl, JoinInv, LType, StartPc, PostsPc, PastPc
  <2>3. CountInv'
    BY Zenon, <1>5, <1>0, SameCount DEF RegisterTask, LType, Counted, Deep, Admitted, ExecutorsIn
  <2>4. PostersIn'
    BY <1>5, <1>0 DEF RegisterTask, LType, PostersIn, OneControl, JoinInv, Deep, Admitted,
       PostsPc, PastPc, Callers
  <2>5. ExecutorsIn'
    BY <1>5, <1>0 DEF RegisterTask, LType, ExecutorsIn, JoinInv, Admitted, Callers
  <2> QED BY Zenon, <2>1, <2>2, <2>3, <2>4, <2>5
<1>6. CASE CountTask(c)
  <2>1. LType'
    BY Zenon, <1>6, <1>0 DEF CountTask, LType, PPc, CPc
  <2>2. OneControl' /\ JoinInv'
    BY Zenon, <1>6 DEF CountTask, OneControl, JoinInv, LType, StartPc, PostsPc, PastPc
  <2>3. CountInv'
    BY Zenon, <1>6, <1>0, SameCount DEF CountTask, LType, Counted, Deep, Admitted, ExecutorsIn
  <2>4. PostersIn'
    BY <1>6, <1>0 DEF CountTask, LType, PostersIn, OneControl, JoinInv, Deep, Admitted, PostsPc,
       PastPc, Callers
  <2>5. ExecutorsIn'
    BY <1>6, <1>0 DEF CountTask, LType, ExecutorsIn, JoinInv, Admitted, Callers
  <2> QED BY Zenon, <2>1, <2>2, <2>3, <2>4, <2>5
<1>7. CASE Enqueue(c)
  <2>1. LType'
    BY <1>7, <1>0 DEF Enqueue, LType, PPc, CPc
  <2>2. OneControl' /\ JoinInv'
    BY Zenon, <1>7 DEF Enqueue, OneControl, JoinInv, LType, StartPc, PostsPc, PastPc
  <2>3. CountInv'
    BY <1>7, <1>0, SameCount DEF Enqueue, LType, Counted, Deep, Admitted, ExecutorsIn
  <2>4. PostersIn'
    BY <1>7, <1>0 DEF Enqueue, LType, PostersIn, OneControl, JoinInv, Deep, Admitted, PostsPc,
       PastPc, Callers
  <2>5. ExecutorsIn'
    BY <1>7, <1>0 DEF Enqueue, LType, ExecutorsIn, JoinInv, Admitted, Callers
  <2> QED BY Zenon, <2>1, <2>2, <2>3, <2>4, <2>5
<1>8. CASE UnregisterRefused(c)
  <2>1. LType'
    BY Zenon, <1>8, <1>0 DEF UnregisterRefused, LType, PPc, CPc
  <2>2. OneControl' /\ JoinInv'
    BY Zenon, <1>8 DEF UnregisterRefused, OneControl, JoinInv, LType, StartPc, PostsPc, PastPc
  <2>3. CountInv'
    BY <1>8, <1>0, SameCount DEF UnregisterRefused, LType, Counted, Deep, Admitted, ExecutorsIn
  <2>4. PostersIn'
    BY <1>8, <1>0 DEF UnregisterRefused, LType, PostersIn, OneControl, JoinInv, Deep, Admitted,
       PostsPc, PastPc, Callers
  <2>5. ExecutorsIn'
    BY Zenon, <1>8, <1>0 DEF UnregisterRefused, LType, ExecutorsIn, JoinInv, Admitted, Callers
  <2> QED BY Zenon, <2>1, <2>2, <2>3, <2>4, <2>5
<1>9. CASE UncountRefused(c)
  <2>1. LType'
    BY Zenon, <1>9, <1>0 DEF UncountRefused, LType, PPc, CPc
  <2>2. OneControl' /\ JoinInv'
    BY Zenon, <1>9 DEF UncountRefused, OneControl, JoinInv, LType, StartPc, PostsPc, PastPc
  <2>3. CountInv'
    BY <1>9, <1>0, SameCount DEF UncountRefused, LType, Counted, Deep, Admitted, ExecutorsIn
  <2>4. PostersIn'
    BY <1>9, <1>0 DEF UncountRefused, LType, PostersIn, OneControl, JoinInv, Deep, Admitted,
       PostsPc, PastPc, Callers
  <2>5. ExecutorsIn'
    BY Zenon, <1>9, <1>0 DEF UncountRefused, LType, ExecutorsIn, JoinInv, Admitted, Callers
  <2> QED BY Zenon, <2>1, <2>2, <2>3, <2>4, <2>5
<1>10. CASE NotifyRefused(c)
  <2>1. LType'
    BY Zenon, <1>10, <1>0 DEF NotifyRefused, LType, PPc, CPc, Unpark
  <2>2. OneControl' /\ JoinInv'
    BY Zenon, <1>10 DEF NotifyRefused, OneControl, JoinInv, LType, StartPc, PostsPc, PastPc, Unpark
  <2>3. CountInv'
    BY <1>10, <1>0, SameCount DEF NotifyRefused, LType, Counted, Deep, Admitted, ExecutorsIn
  <2>4. PostersIn'
    BY <1>10, <1>0 DEF NotifyRefused, LType, PostersIn, OneControl, JoinInv, Deep, Admitted,
       PostsPc, PastPc, Callers, Unpark
  <2>5. ExecutorsIn'
    BY Zenon, <1>10, <1>0 DEF NotifyRefused, LType, ExecutorsIn, JoinInv, Admitted, Callers, Unpark
  <2> QED BY Zenon, <2>1, <2>2, <2>3, <2>4, <2>5
<1>11. CASE CancelSchedule(c)
  <2>1. LType'
    BY <1>11, <1>0 DEF CancelSchedule, LType, PPc, CPc
  <2>2. OneControl' /\ JoinInv'
    BY Zenon, <1>11 DEF CancelSchedule, OneControl, JoinInv, LType, StartPc, PostsPc, PastPc
  <2>3. CountInv'
    BY Zenon, <1>11, <1>0, SameCount DEF CancelSchedule, LType, Counted, Deep, Admitted, ExecutorsIn
  <2>4. PostersIn'
    BY <1>11, <1>0 DEF CancelSchedule, LType, PostersIn, OneControl, JoinInv, Deep, Admitted,
       PostsPc, PastPc, Callers
  <2>5. ExecutorsIn'
    BY <1>11, <1>0 DEF CancelSchedule, LType, ExecutorsIn, JoinInv, Admitted, Callers
  <2> QED BY Zenon, <2>1, <2>2, <2>3, <2>4, <2>5
<1>12. CASE NotifyLeft(c)
  <2>1. LType'
    BY <1>12, <1>0 DEF NotifyLeft, LType, PPc, CPc
  <2>2. OneControl' /\ JoinInv'
    BY Zenon, <1>12 DEF NotifyLeft, OneControl, JoinInv, LType, StartPc, PostsPc, PastPc
  <2>3. CountInv'
    BY Zenon, <1>12, <1>0, SameCount DEF NotifyLeft, LType, Counted, Deep, Admitted, ExecutorsIn
  <2>4. PostersIn'
    BY <1>12, <1>0 DEF NotifyLeft, LType, PostersIn, OneControl, JoinInv, Deep, Admitted,
       PostsPc, PastPc, Callers
  <2>5. ExecutorsIn'
    BY Zenon, <1>12, <1>0 DEF NotifyLeft, LType, ExecutorsIn, JoinInv, Admitted, Callers
  <2> QED BY Zenon, <2>1, <2>2, <2>3, <2>4, <2>5
<1>13. CASE EnterPost(c)
  <2>1. LType'
    BY Zenon, <1>13, <1>0 DEF EnterPost, LType, PPc, CPc
  <2>2. OneControl' /\ JoinInv'
    BY Zenon, <1>13 DEF EnterPost, OneControl, JoinInv, LType, StartPc, PostsPc, PastPc
  <2>3. CountInv'
    <3>1. c \in Posters /\ c \notin Inside(ptarget[c]) /\ IsFiniteSet(Inside(ptarget[c]))
      BY Zenon, <1>13, <1>0, FS_Subset DEF EnterPost, ExecutorsIn, Admitted, Inside, Counted, Deep
    <3>2. Inside(ptarget[c])' = Inside(ptarget[c]) \cup {c}
      BY Zenon, <1>13, <3>1 DEF EnterPost, Inside, LType, Callers, Counted, Deep
    <3>3. \A x \in Executors : x # ptarget[c] => Inside(x)' = Inside(x)
      BY Zenon, <1>13 DEF EnterPost, Inside, LType, Callers, Counted, Deep
    <3>4. /\ active' = [active EXCEPT ![ptarget[c]] = @ + 1] /\ UNCHANGED ptarget
          /\ ptarget[c] \in Executors
      BY Zenon, <1>13 DEF EnterPost, LType
    <3>5. Cardinality(Inside(ptarget[c])') = Cardinality(Inside(ptarget[c])) + 1
      BY Zenon, <3>1, <3>2, FS_AddElement
    <3> QED BY Zenon, <3>3, <3>4, <3>5 DEF CountInv, LType
  <2>4. PostersIn'
    BY Zenon, <1>13, <1>0 DEF EnterPost, LType, PostersIn, OneControl, JoinInv, Deep, Admitted,
       PostsPc, PastPc, Callers
  <2>5. ExecutorsIn'
    BY Zenon, <1>13, <1>0 DEF EnterPost, LType, ExecutorsIn, JoinInv, Admitted, Callers
  <2> QED BY Zenon, <2>1, <2>2, <2>3, <2>4, <2>5
<1>14. CASE LeavePost(c)
  <2>1. LType'
    BY <1>14, <1>0 DEF LeavePost, LType, PPc, CPc
  <2>2. OneControl' /\ JoinInv'
    BY Zenon, <1>14 DEF LeavePost, OneControl, JoinInv, LType, StartPc, PostsPc, PastPc
  <2>3. CountInv'
    <3> DEFINE x0 == ptarget[c]
    <3>1. c \in Posters /\ c \in Inside(x0) /\ IsFiniteSet(Inside(x0))
      BY Zenon, <1>14, <1>0, FS_Subset DEF LeavePost, ExecutorsIn, Admitted, Inside, Counted, Deep
    <3>2. \A p \in Posters : p # c => ppc'[p] = ppc[p] /\ ptarget'[p] = ptarget[p]
      BY Zenon, <1>14 DEF LeavePost, LType, Callers
    <3>3. ppc'[c] \notin Counted
      BY <1>14 DEF LeavePost, LType, Callers, Counted, Deep, Admitted
    <3>4. \A x \in Executors : x # x0 => Inside(x)' = Inside(x)
      BY Zenon, <1>14, <3>2, <3>3 DEF Inside
    <3>5. active' = [active EXCEPT ![x0] = @ - 1] /\ x0 \in Executors
      BY Zenon, <1>14 DEF LeavePost, LType
    <3> HIDE DEF x0
    <3>6. \A x \in Executors : x = x0 => Inside(x)' = Inside(x0) \ {c}
      BY Zenon, <3>1, <3>2, <3>3 DEF Inside
    <3>7. Cardinality(Inside(x0) \ {c}) = Cardinality(Inside(x0)) - 1
      BY Zenon, <3>1, FS_RemoveElement
    <3> QED BY Zenon, <3>4, <3>5, <3>6, <3>7 DEF CountInv, LType
  <2>4. PostersIn'
    BY <1>14, <1>0 DEF LeavePost, LType, PostersIn, OneControl, JoinInv, Deep, Admitted,
       PostsPc, PastPc, Callers
  <2>5. ExecutorsIn'
    BY <1>14, <1>0 DEF LeavePost, LType, ExecutorsIn, JoinInv, Admitted, Callers
  <2> QED BY Zenon, <2>1, <2>2, <2>3, <2>4, <2>5
<1> QED BY Zenon, <1>1, <1>2, <1>3, <1>4, <1>5, <1>6, <1>7, <1>8, <1>9, <1>10, <1>11, <1>12, <1>13,
   <1>14 DEF ContinuePost

-----------------------------------------------------------------------------
(* The calls of post() and the steps of the executors.                      *)

\* A post that begins is not counted yet.
LEMMA BeginStep ==
    ASSUME LifeInv, NEW c \in Callers, PostBegin(c)
    PROVE  (xpc' \in [Executors -> XPc] => LType') /\ OneControl' /\ CountInv' /\ PostersIn'
<1> USE LifecycleParameters DEF LifeInv, runtime, counts, tasks, controls, rest
<1>0. /\ ppc[c] = "idle" /\ ppc' = [ppc EXCEPT ![c] = "status"]
      /\ ptarget' \in [Callers -> Executors]
      /\ \A d \in Callers : d # c => ptarget'[d] = ptarget[d] /\ pgen'[d] = pgen[d]
      /\ pgen' \in [Callers -> Int]
      /\ UNCHANGED <<status, generation, built, active, cpc, ci>>
  BY DEF PostBegin, LType
<1>1. (xpc' \in [Executors -> XPc] => LType') /\ OneControl'
  BY Zenon, <1>0 DEF LType, OneControl, PPc
<1>2. CountInv'
  BY Zenon, <1>0, SameCount DEF LType, Counted, Deep, Admitted
<1>3. PostersIn'
  BY Zenon, <1>0 DEF LType, PostersIn, Deep, Admitted, Callers
<1> QED BY Zenon, <1>1, <1>2, <1>3

\* run_loop() posts only from a callback or a task of its own, and ends when joined.
LEMMA ExecutorStep ==
    ASSUME LifeInv, NEW x \in Executors, RunLoop(x)
    PROVE  LifeInv'
<1> USE LifecycleParameters DEF LifeInv, runtime, counts, tasks, executors, posts, controls,
   waits, rest, XGo
<1>0. x \in Callers
  BY Zenon DEF Callers
<1>1. CASE PopTask(x)
  <2>1. LType' /\ OneControl'
    BY Zenon, <1>1 DEF PopTask, LType, OneControl, XPc, CPc, StartPc, PostsPc, PastPc
  <2>2. CountInv'
    BY Zenon, <1>1, NoCount DEF PopTask
  <2>3. PostersIn'
    BY Zenon, <1>1 DEF PopTask, LType, PostersIn, PostsPc, PastPc
  <2>4. ExecutorsIn' /\ JoinInv'
    BY <1>1 DEF PopTask, LType, ExecutorsIn, JoinInv
  <2> QED BY Zenon, <2>1, <2>2, <2>3, <2>4
<1>2. CASE FinishPending(x)
  <2>1. LType' /\ OneControl'
    BY Zenon, <1>2 DEF FinishPending, LType, OneControl, XPc, CPc, StartPc, PostsPc, PastPc
  <2>2. CountInv'
    BY Zenon, <1>2, NoCount DEF FinishPending
  <2>3. PostersIn'
    BY Zenon, <1>2 DEF FinishPending, LType, PostersIn, PostsPc, PastPc
  <2>4. ExecutorsIn' /\ JoinInv'
    BY Zenon, <1>2 DEF FinishPending, LType, ExecutorsIn, JoinInv
  <2> QED BY Zenon, <2>1, <2>2, <2>3, <2>4
<1>3. CASE FinishDone(x)
  <2>1. LType' /\ OneControl'
    BY Zenon, <1>3 DEF FinishDone, LType, OneControl, XPc, CPc, StartPc, PostsPc, PastPc
  <2>2. CountInv'
    BY Zenon, <1>3, NoCount DEF FinishDone
  <2>3. PostersIn'
    BY Zenon, <1>3 DEF FinishDone, LType, PostersIn, PostsPc, PastPc
  <2>4. ExecutorsIn' /\ JoinInv'
    BY Zenon, <1>3 DEF FinishDone, LType, ExecutorsIn, JoinInv
  <2> QED BY Zenon, <2>1, <2>2, <2>3, <2>4
<1>4. CASE UnregisterTask(x)
  <2>1. LType' /\ OneControl'
    BY Zenon, <1>4 DEF UnregisterTask, LType, OneControl, XPc, CPc, StartPc, PostsPc, PastPc
  <2>2. CountInv'
    BY Zenon, <1>4, NoCount DEF UnregisterTask
  <2>3. PostersIn'
    BY Zenon, <1>4 DEF UnregisterTask, LType, PostersIn, PostsPc, PastPc
  <2>4. ExecutorsIn' /\ JoinInv'
    BY Zenon, <1>4 DEF UnregisterTask, LType, ExecutorsIn, JoinInv
  <2> QED BY Zenon, <2>1, <2>2, <2>3, <2>4
<1>5. CASE UncountTask(x)
  <2>1. LType' /\ OneControl'
    BY Zenon, <1>5 DEF UncountTask, LType, OneControl, XPc, CPc, StartPc, PostsPc, PastPc
  <2>2. CountInv'
    BY Zenon, <1>5, NoCount DEF UncountTask
  <2>3. PostersIn'
    BY Zenon, <1>5 DEF UncountTask, LType, PostersIn, PostsPc, PastPc
  <2>4. ExecutorsIn' /\ JoinInv'
    BY Zenon, <1>5 DEF UncountTask, LType, ExecutorsIn, JoinInv
  <2> QED BY Zenon, <2>1, <2>2, <2>3, <2>4
<1>6. CASE NotifyIdle(x)
  <2>1. LType' /\ OneControl'
    BY Zenon, <1>6 DEF NotifyIdle, LType, OneControl, XPc, CPc, StartPc, PostsPc, PastPc, Unpark
  <2>2. CountInv'
    BY Zenon, <1>6, NoCount DEF NotifyIdle
  <2>3. PostersIn'
    BY Zenon, <1>6 DEF NotifyIdle, LType, PostersIn, PostsPc, PastPc, Unpark
  <2>4. ExecutorsIn' /\ JoinInv'
    BY Zenon, <1>6 DEF NotifyIdle, LType, ExecutorsIn, JoinInv, Unpark
  <2> QED BY Zenon, <2>1, <2>2, <2>3, <2>4
<1>7. CASE CheckStop(x)
  <2>1. LType' /\ OneControl'
    BY Zenon, <1>7 DEF CheckStop, LType, OneControl, XPc, CPc, StartPc, PostsPc, PastPc
  <2>2. CountInv'
    BY Zenon, <1>7, NoCount DEF CheckStop
  <2>3. PostersIn'
    BY Zenon, <1>7 DEF CheckStop, LType, PostersIn, PostsPc, PastPc
  <2>4. ExecutorsIn' /\ JoinInv'
    BY Zenon, <1>7 DEF CheckStop, LType, ExecutorsIn, JoinInv
  <2> QED BY Zenon, <2>1, <2>2, <2>3, <2>4
<1>8. CASE PollNothing(x)
  <2>1. LType' /\ OneControl'
    BY Zenon, <1>8 DEF PollNothing, LType, OneControl, XPc, CPc, StartPc, PostsPc, PastPc
  <2>2. CountInv'
    BY Zenon, <1>8, NoCount DEF PollNothing
  <2>3. PostersIn'
    BY Zenon, <1>8 DEF PollNothing, LType, PostersIn, PostsPc, PastPc
  <2>4. ExecutorsIn' /\ JoinInv'
    BY Zenon, <1>8 DEF PollNothing, LType, ExecutorsIn, JoinInv
  <2> QED BY Zenon, <2>1, <2>2, <2>3, <2>4
<1>9. CASE PollCompletes(x)
  <2>1. LType' /\ OneControl'
    BY Zenon, <1>9 DEF PollCompletes, LType, OneControl, XPc, CPc, StartPc, PostsPc, PastPc
  <2>2. CountInv'
    BY Zenon, <1>9, NoCount DEF PollCompletes
  <2>3. PostersIn'
    BY Zenon, <1>9 DEF PollCompletes, LType, PostersIn, PostsPc, PastPc
  <2>4. ExecutorsIn' /\ JoinInv'
    BY Zenon, <1>9 DEF PollCompletes, LType, ExecutorsIn, JoinInv
  <2> QED BY Zenon, <2>1, <2>2, <2>3, <2>4
<1>10. CASE CallbackReturns(x)
  <2>1. LType' /\ OneControl'
    BY Zenon, <1>10 DEF CallbackReturns, LType, OneControl, XPc, CPc, StartPc, PostsPc, PastPc
  <2>2. CountInv'
    BY Zenon, <1>10, NoCount DEF CallbackReturns
  <2>3. PostersIn'
    BY Zenon, <1>10 DEF CallbackReturns, LType, PostersIn, PostsPc, PastPc
  <2>4. ExecutorsIn' /\ JoinInv'
    BY Zenon, <1>10 DEF CallbackReturns, LType, ExecutorsIn, JoinInv
  <2> QED BY Zenon, <2>1, <2>2, <2>3, <2>4
<1>11. CASE TaskPost(x)
  <2>1. LType' /\ OneControl' /\ CountInv' /\ PostersIn'
    BY Zenon, <1>11, <1>0, BeginStep DEF TaskPost, LType, XPc
  <2>2. ExecutorsIn' /\ JoinInv'
    BY Zenon, <1>11, <1>0 DEF TaskPost, PostBegin, LType, ExecutorsIn, JoinInv, Admitted, Callers
  <2> QED BY Zenon, <2>1, <2>2
<1>12. CASE PollCallback(x)
  <2>1. LType' /\ OneControl' /\ CountInv' /\ PostersIn'
    BY Zenon, <1>12, <1>0, BeginStep DEF PollCallback, LType, XPc
  <2>2. ExecutorsIn' /\ JoinInv'
    BY Zenon, <1>12, <1>0 DEF PollCallback, PostBegin, LType, ExecutorsIn, JoinInv, Admitted, Callers
  <2> QED BY Zenon, <2>1, <2>2
<1> QED BY Zenon, <1>1, <1>2, <1>3, <1>4, <1>5, <1>6, <1>7, <1>8, <1>9, <1>10, <1>11, <1>12 DEF RunLoop

-----------------------------------------------------------------------------
(* init() and shutdown().                                                   *)

\* Each step of a controller keeps the invariant: the queues go only after the
\* counted posts have left and the executors were joined.
LEMMA ControlStep ==
    ASSUME IsFiniteSet(Posters), LifeInv, NEW k \in Controllers,
           InitCas(k) \/ ShutdownCas(k) \/ ContinueControl(k)
    PROVE  LifeInv'
<1> USE LifecycleParameters DEF LifeInv, runtime, counts, tasks, executors, posts, controls,
   rest, CGo
<1>1. CASE InitCas(k)
  <2>1. LType'
    BY Zenon, <1>1 DEF InitCas, LType, Status, XPc, CPc
  <2>2. OneControl'
    BY <1>1 DEF InitCas, LType, OneControl, CPc, StartPc, PostsPc, PastPc
  <2>3. CountInv'
    BY Zenon, <1>1, NoCount DEF InitCas
  <2>4. PostersIn'
    BY Zenon, <1>1 DEF InitCas, LType, OneControl, PostersIn, Deep, StartPc, PostsPc, PastPc, Callers
  <2>5. ExecutorsIn'
    BY Zenon, <1>1 DEF InitCas, LType, OneControl, ExecutorsIn, JoinInv, Admitted, StartPc, PostsPc,
       PastPc, Callers
  <2>6. JoinInv'
    BY Zenon, <1>1 DEF InitCas, LType, OneControl, JoinInv, StartPc, PostsPc, PastPc
  <2> QED BY Zenon, <2>1, <2>2, <2>3, <2>4, <2>5, <2>6
<1>2. CASE ShutdownCas(k)
  <2>1. LType'
    BY Zenon, <1>2 DEF ShutdownCas, LType, Status, XPc, CPc, Executors
  <2>2. OneControl'
    BY <1>2 DEF ShutdownCas, LType, OneControl, CPc, StartPc, PostsPc, PastPc, Executors
  <2>3. CountInv'
    BY Zenon, <1>2, NoCount DEF ShutdownCas
  <2>4. PostersIn'
    BY <1>2 DEF ShutdownCas, LType, OneControl, PostersIn, Deep, StartPc, PostsPc, PastPc,
       Callers, Executors
  <2>5. ExecutorsIn'
    BY Zenon, <1>2 DEF ShutdownCas, LType, OneControl, ExecutorsIn, JoinInv, Admitted, StartPc,
       PostsPc, PastPc, Callers, Executors
  <2>6. JoinInv'
    BY Zenon, <1>2 DEF ShutdownCas, LType, OneControl, JoinInv, StartPc, PostsPc, PastPc, Executors
  <2> QED BY Zenon, <2>1, <2>2, <2>3, <2>4, <2>5, <2>6
<1>3. CASE InitBuild(k)
  <2>1. LType'
    BY <1>3 DEF InitBuild, LType, Status, XPc, CPc
  <2>2. OneControl'
    BY Zenon, <1>3 DEF InitBuild, LType, OneControl, CPc, StartPc, PostsPc, PastPc
  <2>3. CountInv'
    BY Zenon, <1>3, NoCount DEF InitBuild
  <2>4. PostersIn'
    BY Zenon, <1>3 DEF InitBuild, LType, OneControl, PostersIn, Deep, StartPc, PostsPc, PastPc, Callers
  <2>5. ExecutorsIn'
    BY Zenon, <1>3 DEF InitBuild, LType, OneControl, ExecutorsIn, JoinInv, Admitted, StartPc, PostsPc,
       PastPc, Callers
  <2>6. JoinInv'
    BY Zenon, <1>3 DEF InitBuild, LType, OneControl, JoinInv, StartPc, PostsPc, PastPc
  <2> QED BY Zenon, <2>1, <2>2, <2>3, <2>4, <2>5, <2>6
<1>4. CASE InitStart(k)
  <2>1. LType'
    BY Zenon, <1>4 DEF InitStart, LType, Status, XPc, CPc
  <2>2. OneControl'
    BY Zenon, <1>4 DEF InitStart, LType, OneControl, CPc, StartPc, PostsPc, PastPc
  <2>3. CountInv'
    BY Zenon, <1>4, NoCount DEF InitStart
  <2>4. PostersIn'
    BY Zenon, <1>4 DEF InitStart, LType, OneControl, PostersIn, Deep, StartPc, PostsPc, PastPc, Callers
  <2>5. ExecutorsIn'
    BY Zenon, <1>4 DEF InitStart, LType, OneControl, ExecutorsIn, JoinInv, Admitted, StartPc, PostsPc,
       PastPc, Callers
  <2>6. JoinInv'
    BY Zenon, <1>4 DEF InitStart, LType, OneControl, JoinInv, StartPc, PostsPc, PastPc
  <2> QED BY Zenon, <2>1, <2>2, <2>3, <2>4, <2>5, <2>6
<1>5. CASE InitPublish(k)
  <2>1. LType'
    BY Zenon, <1>5 DEF InitPublish, LType, Status, XPc, CPc
  <2>2. OneControl'
    BY Zenon, <1>5 DEF InitPublish, LType, OneControl, CPc, StartPc, PostsPc, PastPc
  <2>3. CountInv'
    BY Zenon, <1>5, NoCount DEF InitPublish
  <2>4. PostersIn'
    BY Zenon, <1>5 DEF InitPublish, LType, OneControl, PostersIn, Deep, StartPc, PostsPc, PastPc, Callers
  <2>5. ExecutorsIn'
    BY Zenon, <1>5 DEF InitPublish, LType, OneControl, ExecutorsIn, JoinInv, Admitted, StartPc,
       PostsPc, PastPc, Callers
  <2>6. JoinInv'
    BY Zenon, <1>5 DEF InitPublish, LType, OneControl, JoinInv, StartPc, PostsPc, PastPc
  <2> QED BY Zenon, <2>1, <2>2, <2>3, <2>4, <2>5, <2>6
<1>6. CASE WaitPosts(k)
  <2>1. LType'
    BY Zenon, <1>6 DEF WaitPosts, LType, Status, XPc, CPc
  <2>2. OneControl'
    BY Zenon, <1>6 DEF WaitPosts, LType, OneControl, CPc, StartPc, PostsPc, PastPc
  <2>3. CountInv'
    BY Zenon, <1>6, NoCount DEF WaitPosts
  <2>4. PostersIn'
    BY Zenon, <1>6 DEF WaitPosts, LType, OneControl, PostersIn, Deep, StartPc, PostsPc, PastPc, Callers
  <2>5. ExecutorsIn'
    BY Zenon, <1>6 DEF WaitPosts, LType, OneControl, ExecutorsIn, JoinInv, Admitted, StartPc, PostsPc,
       PastPc, Callers
  <2>6. JoinInv'
    BY Zenon, <1>6 DEF WaitPosts, LType, OneControl, JoinInv, StartPc, PostsPc, PastPc
  <2> QED BY Zenon, <2>1, <2>2, <2>3, <2>4, <2>5, <2>6
<1>7. CASE LoadIdle(k)
  <2>1. LType'
    BY Zenon, <1>7 DEF LoadIdle, LType, Status, XPc, CPc
  <2>2. OneControl'
    BY Zenon, <1>7 DEF LoadIdle, LType, OneControl, CPc, StartPc, PostsPc, PastPc
  <2>3. CountInv'
    BY Zenon, <1>7, NoCount DEF LoadIdle
  <2>4. PostersIn'
    BY Zenon, <1>7 DEF LoadIdle, LType, OneControl, PostersIn, Deep, StartPc, PostsPc, PastPc, Callers
  <2>5. ExecutorsIn'
    BY Zenon, <1>7 DEF LoadIdle, LType, OneControl, ExecutorsIn, JoinInv, Admitted, StartPc, PostsPc,
       PastPc, Callers
  <2>6. JoinInv'
    BY Zenon, <1>7 DEF LoadIdle, LType, OneControl, JoinInv, StartPc, PostsPc, PastPc
  <2> QED BY Zenon, <2>1, <2>2, <2>3, <2>4, <2>5, <2>6
<1>8. CASE WaitIdle(k)
  <2>1. LType'
    BY Zenon, <1>8 DEF WaitIdle, LType, Status, XPc, CPc
  <2>2. OneControl'
    BY Zenon, <1>8 DEF WaitIdle, LType, OneControl, CPc, StartPc, PostsPc, PastPc
  <2>3. CountInv'
    BY Zenon, <1>8, NoCount DEF WaitIdle
  <2>4. PostersIn'
    BY Zenon, <1>8 DEF WaitIdle, LType, OneControl, PostersIn, Deep, StartPc, PostsPc, PastPc, Callers
  <2>5. ExecutorsIn'
    BY Zenon, <1>8 DEF WaitIdle, LType, OneControl, ExecutorsIn, JoinInv, Admitted, StartPc, PostsPc,
       PastPc, Callers
  <2>6. JoinInv'
    BY Zenon, <1>8 DEF WaitIdle, LType, OneControl, JoinInv, StartPc, PostsPc, PastPc
  <2> QED BY Zenon, <2>1, <2>2, <2>3, <2>4, <2>5, <2>6
<1>9. CASE RequestStop(k)
  <2>1. LType'
    BY <1>9 DEF RequestStop, LType, Status, XPc, CPc, Advance, Executors
  <2>2. OneControl'
    BY Zenon, <1>9 DEF RequestStop, LType, OneControl, CPc, StartPc, PostsPc, PastPc, Advance, Executors
  <2>3. CountInv'
    BY Zenon, <1>9, NoCount DEF RequestStop
  <2>4. PostersIn'
    BY Zenon, <1>9 DEF RequestStop, LType, OneControl, PostersIn, Deep, StartPc, PostsPc, PastPc,
       Callers, Advance, Executors
  <2>5. ExecutorsIn'
    BY Zenon, <1>9 DEF RequestStop, LType, OneControl, ExecutorsIn, JoinInv, Admitted, StartPc,
       PostsPc, PastPc, Callers, Advance, Executors
  <2>6. JoinInv'
    BY <1>9
       DEF RequestStop, LType, OneControl, JoinInv, StartPc, PostsPc, PastPc, Advance, Executors
  <2> QED BY Zenon, <2>1, <2>2, <2>3, <2>4, <2>5, <2>6
<1>10. CASE Join(k)
  <2>1. LType'
    BY <1>10 DEF Join, LType, Status, XPc, CPc, Advance, Executors, XGo
  <2>2. OneControl'
    BY Zenon, <1>10 DEF Join, LType, OneControl, CPc, StartPc, PostsPc, PastPc, Advance, Executors, XGo
  <2>3. CountInv'
    BY Zenon, <1>10, NoCount DEF Join
  <2>4. PostersIn'
    BY Zenon, <1>10 DEF Join, LType, OneControl, PostersIn, Deep, StartPc, PostsPc, PastPc, Callers,
       Advance, Executors, XGo
  <2>5. ExecutorsIn'
    BY <1>10 DEF Join, LType, OneControl, ExecutorsIn, JoinInv, Admitted, StartPc, PostsPc,
       PastPc, Callers, Advance, Executors, XGo
  <2>6. JoinInv'
    BY <1>10
       DEF Join, LType, OneControl, JoinInv, StartPc, PostsPc, PastPc, Advance, Executors, XGo
  <2> QED BY Zenon, <2>1, <2>2, <2>3, <2>4, <2>5, <2>6
<1>11. CASE CancelTasks(k)
  <2>1. LType'
    BY Zenon, <1>11 DEF CancelTasks, LType, Status, XPc, CPc
  <2>2. OneControl'
    BY Zenon, <1>11 DEF CancelTasks, LType, OneControl, CPc, StartPc, PostsPc, PastPc
  <2>3. CountInv'
    BY Zenon, <1>11, NoCount DEF CancelTasks
  <2>4. PostersIn'
    BY Zenon, <1>11
       DEF CancelTasks, LType, OneControl, PostersIn, Deep, StartPc, PostsPc, PastPc, Callers
  <2>5. ExecutorsIn'
    BY Zenon, <1>11 DEF CancelTasks, LType, OneControl, ExecutorsIn, JoinInv, Admitted, StartPc,
       PostsPc, PastPc, Callers
  <2>6. JoinInv'
    BY Zenon, <1>11 DEF CancelTasks, LType, OneControl, JoinInv, StartPc, PostsPc, PastPc
  <2> QED BY Zenon, <2>1, <2>2, <2>3, <2>4, <2>5, <2>6
<1>12. CASE Clear(k)
  <2>1. LType'
    BY Zenon, <1>12 DEF Clear, LType, Status, XPc, CPc
  <2>2. OneControl'
    BY Zenon, <1>12 DEF Clear, LType, OneControl, CPc, StartPc, PostsPc, PastPc
  <2>3. CountInv'
    BY Zenon, <1>12, NoCount DEF Clear
  <2>4. PostersIn'
    BY Zenon, <1>12 DEF Clear, LType, OneControl, PostersIn, Deep, StartPc, PostsPc, PastPc, Callers
  <2>5. ExecutorsIn'
    BY Zenon, <1>12 DEF Clear, LType, OneControl, ExecutorsIn, JoinInv, Admitted, StartPc, PostsPc,
       PastPc, Callers
  <2>6. JoinInv'
    BY Zenon, <1>12 DEF Clear, LType, OneControl, JoinInv, StartPc, PostsPc, PastPc
  <2> QED BY Zenon, <2>1, <2>2, <2>3, <2>4, <2>5, <2>6
<1>13. CASE PublishStopped(k)
  <2>1. LType'
    BY Zenon, <1>13 DEF PublishStopped, LType, Status, XPc, CPc
  <2>2. OneControl'
    BY Zenon, <1>13 DEF PublishStopped, LType, OneControl, CPc, StartPc, PostsPc, PastPc
  <2>3. CountInv'
    BY Zenon, <1>13, NoCount DEF PublishStopped
  <2>4. PostersIn'
    BY Zenon, <1>13
       DEF PublishStopped, LType, OneControl, PostersIn, Deep, StartPc, PostsPc, PastPc, Callers
  <2>5. ExecutorsIn'
    BY Zenon, <1>13 DEF PublishStopped, LType, OneControl, ExecutorsIn, JoinInv, Admitted, StartPc,
       PostsPc, PastPc, Callers
  <2>6. JoinInv'
    BY Zenon, <1>13 DEF PublishStopped, LType, OneControl, JoinInv, StartPc, PostsPc, PastPc
  <2> QED BY Zenon, <2>1, <2>2, <2>3, <2>4, <2>5, <2>6
<1>14. CASE LoadPosts(k)
  <2>0. \/ cpc'[k] = "waitPosts" /\ UNCHANGED ci
        \/ /\ active[ci[k]] = 0
           /\ \/ ci[k] = ThreadCount - 1 /\ cpc'[k] \in {"loadIdle", "stop"} /\ ci'[k] = 0
              \/ ci[k] # ThreadCount - 1 /\ cpc'[k] = "loadPosts" /\ ci'[k] = ci[k] + 1
    BY Zenon, <1>14 DEF LoadPosts, Advance, LType
  <2>a. /\ cpc[k] = "loadPosts"
        /\ UNCHANGED <<status, built, generation, ppc, ptarget, pgen, xpc, active>>
        /\ \A j \in Controllers : j # k => cpc'[j] = cpc[j] /\ ci'[j] = ci[j]
        /\ DOMAIN cpc' = Controllers /\ DOMAIN ci' = Controllers
    BY Zenon, <1>14 DEF LoadPosts, Advance, LType
  <2>1. LType'
    <3>1. \A j \in Controllers : cpc'[j] \in CPc /\ ci'[j] \in Executors
      <4>1. ci[k] \in 0..ThreadCount - 1 /\ ThreadCount \in Nat
        BY Zenon DEF LType, Executors
      <4>2. ci'[k] \in 0..ThreadCount - 1
        BY <2>0, <4>1
      <4>3. cpc'[k] \in CPc
        BY Zenon, <2>0 DEF CPc
      <4> QED BY Zenon, <2>a, <4>2, <4>3 DEF LType, Executors
    <3>2. cpc' = [j \in Controllers |-> cpc'[j]] /\ ci' = [j \in Controllers |-> ci'[j]]
      BY Zenon, <1>14 DEF LoadPosts, Advance, LType
    <3> QED BY Zenon, <2>a, <3>1, <3>2 DEF LType
  <2>2. OneControl'
    BY Zenon, <2>0, <2>a DEF LType, OneControl, StartPc, PostsPc, PastPc
  <2>3. CountInv'
    BY Zenon, <1>14, NoCount DEF LoadPosts
  <2>4. PostersIn'
    <3>1. ASSUME active[ci[k]] = 0, NEW p \in Posters, ppc[p] \in Deep PROVE ptarget[p] # ci[k]
      <4>1. ci[k] \in Executors /\ IsFiniteSet(Inside(ci[k]))
        BY Zenon, FS_Subset DEF LType, Inside
      <4>2. Inside(ci[k]) = {}
        BY Zenon, <3>1, <4>1, FS_EmptySet DEF CountInv
      <4> QED BY Zenon, <3>1, <4>2 DEF Inside, Counted
    <3>2. \A p \in Posters : ptarget[p] \in 0..ThreadCount - 1
      BY Zenon DEF LType, Callers, Executors
    <3>3. ci[k] \in 0..ThreadCount - 1
      BY Zenon DEF LType, Executors
    <3>4. \A p \in Posters : ppc[p] \in Deep => ci[k] <= ptarget[p]
      BY Zenon, <2>a DEF PostersIn, PostsPc
    <3>5. ASSUME NEW p \in Posters, ppc[p] \in Deep
          PROVE  cpc'[k] \notin PastPc /\ (cpc'[k] \in PostsPc => ci'[k] <= ptarget[p])
      BY <2>0, <3>1, <3>2, <3>3, <3>4, <3>5 DEF PastPc, PostsPc
    <3> QED BY Zenon, <2>a, <3>5 DEF PostersIn
  <2>5. ExecutorsIn'
    BY Zenon, <2>a DEF ExecutorsIn
  <2>6. JoinInv'
    BY Zenon, <2>0, <2>a DEF JoinInv
  <2> QED BY Zenon, <2>1, <2>2, <2>3, <2>4, <2>5, <2>6
<1> QED BY Zenon, <1>1, <1>2, <1>3, <1>4, <1>5, <1>6, <1>7, <1>8, <1>9, <1>10, <1>11, <1>12, <1>13,
   <1>14 DEF ContinueControl

\* The invariant of init(), shutdown() and the posts is inductive.
LEMMA LifeStep ==
    ASSUME IsFiniteSet(Posters), LifeInv, [Next]_vars
    PROVE  LifeInv'
<1> USE DEF runtime, counts, tasks, executors, posts, controls, waits, rest
<1>1. CASE UNCHANGED vars
  <2>1. CountInv'
    BY Zenon, <1>1, NoCount DEF vars, LifeInv
  <2> QED BY Zenon, <1>1, <2>1 DEF vars, LifeInv, LType, OneControl, PostersIn, ExecutorsIn, JoinInv
<1>2. ASSUME NEW k \in Controllers, InitCas(k) \/ ShutdownCas(k) \/ ContinueControl(k)
      PROVE  LifeInv'
  BY Zenon, <1>2, ControlStep
<1>3. ASSUME NEW p \in Posters, ExternalPost(p) PROVE LifeInv'
  <2>1. p \in Callers
    BY Zenon DEF Callers
  <2>2. LType' /\ OneControl' /\ CountInv' /\ PostersIn'
    BY Zenon, <1>3, <2>1, BeginStep DEF ExternalPost, LifeInv, LType
  <2>3. /\ UNCHANGED <<status, built, xpc, cpc, ci>>
        /\ \A c \in Callers : c # p => ppc'[c] = ppc[c]
    BY Zenon, <1>3 DEF ExternalPost, PostBegin, LifeInv, LType
  <2>4. \A x \in Executors : x # p /\ x \in Callers
    BY Zenon, LifecycleParameters DEF Callers
  <2>5. ExecutorsIn'
    BY Zenon, <2>3, <2>4 DEF LifeInv, ExecutorsIn
  <2>6. JoinInv'
    BY Zenon, <2>3 DEF LifeInv, JoinInv
  <2> QED BY Zenon, <2>2, <2>5, <2>6 DEF LifeInv
<1>4. ASSUME NEW c \in Callers, ContinuePost(c) PROVE LifeInv'
  BY Zenon, <1>4, PostStep
<1>5. ASSUME NEW x \in Executors, RunLoop(x) PROVE LifeInv'
  BY Zenon, <1>5, ExecutorStep
<1>6. ASSUME NEW t \in Tasks, EventArrives(t) PROVE LifeInv'
  <2>1. CountInv'
    BY Zenon, <1>6, NoCount DEF EventArrives, LifeInv
  <2> QED BY Zenon, <1>6, <2>1 DEF EventArrives, LifeInv, LType, OneControl, PostersIn, ExecutorsIn,
     JoinInv
<1> QED BY Zenon, <1>1, <1>2, <1>3, <1>4, <1>5, <1>6 DEF Next

\* For any number of controllers, posting threads, executors, tasks and calls of
\* init(): a post that try_enter_post let in works on executors and queues that
\* exist, and on those of the generation it entered.
THEOREM PostsSeeLiveQueuesThm ==
    ASSUME IsFiniteSet(Posters) PROVE Spec => []PostsSeeLiveQueues
<1>1. LifeInv => PostsSeeLiveQueues
  BY Zenon DEF LifeInv, PostersIn, ExecutorsIn, PostsSeeLiveQueues, Deep, Callers
<1>2. LifeInv /\ [Next]_vars => LifeInv'
  BY Zenon, LifeStep
<1> QED BY <1>1, <1>2, InitLife, PTL DEF Spec

-----------------------------------------------------------------------------
(* Tasks: who has a task, and what the registry knows of it.                *)

TState == {"Created", "Queued", "Running", "Pending", "Done"}

\* A caller before it schedules its task, and from then until the task is queued
\* or refused.
Before == {"status", "enter", "recheckStatus", "recheckGen", "schedule"}
Owning == {"register", "count", "enqueue", "unregister", "uncount", "notifyIdle", "cancel"}
\* An executor that has a task.
Busy == {"body", "posted", "unregister", "uncount"}

\* The tasks are cancelled and the queues not yet cleared; nobody runs or posts
\* between the cancellation and the next start.
Clearing == \E k \in Controllers : cpc[k] = "clear"
Down ==
    \/ status = "Stopped"
    \/ \E k \in Controllers : cpc[k] \in {"clear", "publishStopped", "build"}

TaskType ==
    /\ tstate \in [Tasks -> TState] /\ queue \in [Executors -> SUBSET Tasks]
    /\ registry \subseteq Tasks /\ accepted \subseteq Tasks /\ events \subseteq Tasks
    /\ DOMAIN ptask = Callers /\ DOMAIN cur = Executors

\* A task being posted belongs to one caller, and to no queue.
PostInv ==
    /\ \A c \in Callers : ppc[c] # "idle" => ptask[c] \in Tasks
    /\ \A c, d \in Callers :
          ppc[c] # "idle" /\ ppc[d] # "idle" /\ ptask[c] = ptask[d] => c = d
    /\ \A c \in Callers : ppc[c] \in Before => tstate[ptask[c]] = "Created"
    /\ \A c \in Callers :
          ppc[c] \in Owning => tstate[ptask[c]] = "Queued" /\ ptask[c] \notin accepted
    /\ \A c \in Callers, x \in Executors : ppc[c] \in Owning => ptask[c] \notin queue[x]
    /\ \A t \in accepted : tstate[t] # "Created"

\* A queued task is in one queue; an event is that of a pending task.
QueueInv ==
    /\ \A x \in Executors : \A t \in queue[x] : tstate[t] = "Queued" \/ Clearing
    /\ \A x, y \in Executors : \A t \in queue[x] : t \in queue[y] => x = y
    /\ \A t \in events : tstate[t] = "Pending" \/ Clearing

\* A task is run by one executor.
RunInv ==
    /\ \A x \in Executors : xpc[x] \in Busy => cur[x] \in Tasks
    /\ \A x \in Executors : xpc[x] \in {"body", "posted"} => tstate[cur[x]] = "Running"
    /\ \A x \in Executors : xpc[x] \in {"unregister", "uncount"} => tstate[cur[x]] = "Done"
    /\ \A x \in Executors : xpc[x] \notin Busy => cur[x] = NoTask
    /\ \A x, y \in Executors : xpc[x] \in Busy /\ xpc[y] \in Busy /\ cur[x] = cur[y] => x = y

\* The registry under StopImmediately, the counter under WaitForTasks.
PolicyInv ==
    /\ \A c \in Callers : ppc[c] \in {"register", "unregister"} => ~WaitForTasks
    /\ \A c \in Callers : ppc[c] \in {"count", "uncount", "notifyIdle"} => WaitForTasks
    /\ \A x \in Executors : xpc[x] = "unregister" => ~WaitForTasks
    /\ \A x \in Executors : xpc[x] = "uncount" => WaitForTasks
    /\ WaitForTasks => registry = {}

\* The registry has every accepted task that is not done, and only tasks that
\* wait, are queued or run.
RegistryInv ==
    /\ \A t \in registry : \/ tstate[t] \in {"Pending", "Queued"}
                           \/ \E x \in Executors : xpc[x] \in Busy /\ cur[x] = t
    /\ \A c \in Callers :
          ppc[c] \in {"enqueue", "unregister"} /\ ~WaitForTasks => ptask[c] \in registry
    /\ \A c \in Callers : ppc[c] = "cancel" => ptask[c] \notin registry
    /\ ~WaitForTasks => \A t \in accepted : t \in registry \/ tstate[t] = "Done"
    /\ Down => registry = {}

TaskInv == TaskType /\ PostInv /\ QueueInv /\ RunInv /\ PolicyInv /\ RegistryInv

\* A step that changes no posting caller, nor the task of one, keeps the
\* ownership of the tasks being posted.
LEMMA PostStays ==
  ASSUME PostInv, UNCHANGED <<ppc, ptask, accepted>>,
         \A c \in Callers : ppc[c] \in Before \cup Owning => tstate'[ptask[c]] = tstate[ptask[c]],
         \A c \in Callers, x \in Executors : ppc[c] \in Owning => ptask[c] \notin queue'[x],
         \A t \in accepted : tstate'[t] # "Created"
  PROVE  PostInv'
  BY Zenon DEF PostInv

\* A step that changes one task, which no caller is posting, keeps the ownership
\* of the tasks being posted.
LEMMA PostOther ==
  ASSUME TaskType, PostInv, UNCHANGED <<ppc, ptask, accepted>>,
         NEW t \in Tasks, NEW s, s # "Created", tstate[t] # "Created",
         tstate' = [tstate EXCEPT ![t] = s],
         \A c \in Callers : ppc[c] \in Owning => ptask[c] # t,
         \A y \in Executors : \A u \in queue'[y] : u \in queue[y] \/ u = t
  PROVE  PostInv'
<1>1. /\ \A u \in Tasks : u # t => tstate'[u] = tstate[u]
      /\ tstate'[t] = s
  BY Zenon DEF TaskType
<1>2. \A c \in Callers : ppc[c] \in Before \cup Owning => ptask[c] \in Tasks /\ ptask[c] # t
  BY Zenon DEF PostInv, Before, Owning
<1>3. \A c \in Callers : ppc[c] \in Before \cup Owning => tstate'[ptask[c]] = tstate[ptask[c]]
  BY Zenon, <1>1, <1>2
<1>4. \A u \in accepted : tstate'[u] # "Created"
  BY Zenon, <1>1 DEF PostInv, TaskType
<1>5. \A c \in Callers, y \in Executors : ppc[c] \in Owning => ptask[c] \notin queue'[y]
  BY Zenon DEF PostInv
<1> QED BY Zenon, <1>3, <1>4, <1>5, PostStays

\* A caller is done with its task.
LEMMA PostLeaves ==
  ASSUME TaskType, PostInv, NEW c \in Callers, ppc[c] # "idle",
         ppc'[c] = "idle" \/ (ppc'[c] \notin Before \cup Owning /\ ptask'[c] = ptask[c]),
         \A d \in Callers : d # c => ppc'[d] = ppc[d] /\ ptask'[d] = ptask[d],
         \A t \in Tasks : t # ptask[c] => tstate'[t] = tstate[t],
         ptask[c] \in accepted' => tstate'[ptask[c]] # "Created",
         accepted' = accepted \/ accepted' = accepted \cup {ptask[c]},
         \A y \in Executors : \A u \in queue'[y] : u \in queue[y] \/ u = ptask[c]
  PROVE  PostInv'
<1>1. /\ ptask[c] \in Tasks
      /\ \A d \in Callers : d # c /\ ppc[d] # "idle" => ptask[d] \in Tasks /\ ptask[d] # ptask[c]
  BY Zenon DEF PostInv
<1>2. "idle" \notin Before \cup Owning
  BY Zenon DEF Before, Owning
<1>3. \A d \in Callers : ppc'[d] # "idle" => ppc[d] # "idle" /\ ptask'[d] = ptask[d]
  BY Zenon
<1>4. ASSUME NEW d \in Callers, ppc'[d] \in Before \cup Owning
      PROVE  /\ d # c /\ ppc'[d] = ppc[d] /\ ptask'[d] = ptask[d] /\ ppc[d] # "idle"
             /\ ptask[d] # ptask[c] /\ tstate'[ptask[d]] = tstate[ptask[d]]
  <2>1. d # c
    BY Zenon, <1>2, <1>4
  <2>2. ppc'[d] = ppc[d] /\ ptask'[d] = ptask[d] /\ ppc[d] # "idle"
    BY Zenon, <1>2, <1>4, <2>1
  <2> QED BY Zenon, <1>1, <2>1, <2>2
<1>5. /\ \A d \in Callers : ppc'[d] # "idle" => ptask'[d] \in Tasks
      /\ \A d, e \in Callers :
            ppc'[d] # "idle" /\ ppc'[e] # "idle" /\ ptask'[d] = ptask'[e] => d = e
  <2>1. ASSUME NEW d \in Callers, ppc'[d] # "idle" PROVE ptask'[d] \in Tasks
    <3>1. ppc[d] # "idle" /\ ptask'[d] = ptask[d]
      BY Zenon, <1>3, <2>1
    <3> QED BY Zenon, <3>1 DEF PostInv
  <2>2. ASSUME NEW d \in Callers, NEW e \in Callers, ppc'[d] # "idle", ppc'[e] # "idle",
               ptask'[d] = ptask'[e]
        PROVE  d = e
    <3>1. ppc[d] # "idle" /\ ptask'[d] = ptask[d] /\ ppc[e] # "idle" /\ ptask'[e] = ptask[e]
      BY Zenon, <1>3, <2>2
    <3>2. ptask[d] = ptask[e]
      BY Zenon, <2>2, <3>1
    <3>3. ppc[d] # "idle" /\ ppc[e] # "idle" /\ ptask[d] = ptask[e] => d = e
      BY Zenon DEF PostInv
    <3> QED BY Zenon, <3>1, <3>2, <3>3
  <2> QED BY Zenon, <2>1, <2>2
<1>6. ASSUME NEW d \in Callers, ppc'[d] \in Before PROVE tstate'[ptask'[d]] = "Created"
  <2>1. ppc[d] \in Before /\ ptask'[d] = ptask[d] /\ tstate'[ptask[d]] = tstate[ptask[d]]
    BY Zenon, <1>4, <1>6
  <2> QED BY Zenon, <2>1 DEF PostInv
<1>7. ASSUME NEW d \in Callers, ppc'[d] \in Owning
      PROVE  /\ tstate'[ptask'[d]] = "Queued" /\ ptask'[d] \notin accepted'
             /\ \A x \in Executors : ptask'[d] \notin queue'[x]
  <2>1. /\ ppc[d] \in Owning /\ ptask'[d] = ptask[d] /\ tstate'[ptask[d]] = tstate[ptask[d]]
        /\ ptask[d] # ptask[c]
    BY Zenon, <1>4, <1>7
  <2>2. /\ tstate[ptask[d]] = "Queued" /\ ptask[d] \notin accepted
        /\ \A x \in Executors : ptask[d] \notin queue[x]
    BY Zenon, <2>1 DEF PostInv
  <2> QED BY Zenon, <2>1, <2>2
<1>9. ASSUME NEW t \in accepted' PROVE tstate'[t] # "Created"
  <2>1. CASE t = ptask[c]
    BY Zenon, <2>1
  <2>2. CASE t # ptask[c]
    <3>1. t \in accepted /\ t \in Tasks
      BY <2>2 DEF TaskType
    <3> QED BY Zenon, <2>2, <3>1 DEF PostInv
  <2> QED BY Zenon, <2>1, <2>2
<1> QED BY Zenon, <1>5, <1>6, <1>7, <1>9 DEF PostInv

\* A caller keeps its task, or takes it from Created to Queued.
LEMMA PostOwns ==
  ASSUME TaskType, PostInv, NEW c \in Callers, ppc[c] # "idle", ppc'[c] \in Owning,
         UNCHANGED <<ptask, accepted, queue>>,
         \A d \in Callers : d # c => ppc'[d] = ppc[d],
         \A t \in Tasks : t # ptask[c] => tstate'[t] = tstate[t],
         tstate'[ptask[c]] = "Queued", ptask[c] \notin accepted,
         \A x \in Executors : ptask[c] \notin queue[x]
  PROVE  PostInv'
<1>1. \A d \in Callers : d # c /\ ppc[d] # "idle" => ptask[d] \in Tasks /\ ptask[d] # ptask[c]
  BY Zenon DEF PostInv
<1>2. /\ "idle" \notin Before \cup Owning
      /\ \A l \in Owning : l \notin Before
  BY Zenon DEF Before, Owning
<1>3. \A d \in Callers : ppc'[d] # "idle" => ppc[d] # "idle"
  BY Zenon
<1>4. ASSUME NEW d \in Callers, ppc'[d] \in Before PROVE tstate'[ptask[d]] = "Created"
  <2>1. d # c /\ ppc[d] \in Before /\ ppc[d] # "idle"
    BY Zenon, <1>2, <1>4
  <2>2. tstate'[ptask[d]] = tstate[ptask[d]]
    BY Zenon, <1>1, <2>1
  <2> QED BY Zenon, <2>1, <2>2 DEF PostInv
<1>5. ASSUME NEW d \in Callers, ppc'[d] \in Owning
      PROVE  /\ tstate'[ptask[d]] = "Queued" /\ ptask[d] \notin accepted
             /\ \A x \in Executors : ptask[d] \notin queue[x]
  <2>1. CASE d = c
    BY Zenon, <2>1
  <2>2. CASE d # c
    <3>1. ppc[d] \in Owning /\ ppc[d] # "idle"
      BY Zenon, <1>2, <1>5, <2>2
    <3>2. tstate'[ptask[d]] = tstate[ptask[d]]
      BY Zenon, <1>1, <2>2, <3>1
    <3> QED BY Zenon, <3>1, <3>2 DEF PostInv
  <2> QED BY Zenon, <2>1, <2>2
<1>6. \A t \in accepted : tstate'[t] # "Created"
  BY Zenon DEF PostInv, TaskType
<1>7. /\ \A d \in Callers : ppc'[d] # "idle" => ptask[d] \in Tasks
      /\ \A d, e \in Callers :
            ppc'[d] # "idle" /\ ppc'[e] # "idle" /\ ptask[d] = ptask[e] => d = e
  BY Zenon, <1>3 DEF PostInv
<1> QED BY Zenon, <1>4, <1>5, <1>6, <1>7 DEF PostInv

\* A caller that neither schedules its task nor comes to own one keeps the
\* ownership of the tasks being posted.
LEMMA PostGoesOn ==
  ASSUME PostInv, UNCHANGED <<tstate, queue, accepted>>,
         \A d \in Callers : ppc'[d] # "idle" => ppc[d] # "idle" /\ ptask'[d] = ptask[d],
         \A d \in Callers : ppc'[d] \in Before => ppc[d] \in Before,
         \A d \in Callers : ppc'[d] \in Owning => ppc[d] \in Owning
  PROVE  PostInv'
<1>1. "idle" \notin Before \cup Owning
  BY Zenon DEF Before, Owning
<1>2. \A d \in Callers : ppc'[d] \in Before \cup Owning => ptask'[d] = ptask[d]
  BY Zenon, <1>1
<1>3. \A d \in Callers : ppc'[d] # "idle" => ptask'[d] \in Tasks
  BY Zenon DEF PostInv
<1>4. ASSUME NEW d \in Callers, NEW e \in Callers, ppc'[d] # "idle", ppc'[e] # "idle",
             ptask'[d] = ptask'[e]
      PROVE  d = e
  <2>1. ppc[d] # "idle" /\ ppc[e] # "idle" /\ ptask[d] = ptask[e]
    BY Zenon, <1>4
  <2> QED BY Zenon, <2>1 DEF PostInv
<1>5. \A d \in Callers : ppc'[d] \in Before => tstate'[ptask'[d]] = "Created"
  BY Zenon, <1>2 DEF PostInv
<1>6. ASSUME NEW d \in Callers, ppc'[d] \in Owning
      PROVE  /\ tstate'[ptask'[d]] = "Queued" /\ ptask'[d] \notin accepted'
             /\ \A x \in Executors : ptask'[d] \notin queue'[x]
  BY Zenon, <1>2, <1>6 DEF PostInv
<1>7. \A t \in accepted' : tstate'[t] # "Created"
  BY Zenon DEF PostInv
<1> QED BY Zenon, <1>3, <1>4, <1>5, <1>6, <1>7 DEF PostInv

\* Before the first init() no task is posted.
LEMMA InitTasks == Init => TaskInv
<1> SUFFICES ASSUME Init PROVE TaskInv
  BY Zenon
<1>1. TaskType
  BY Zenon DEF Init, TaskType, TState
<1>2. PostInv /\ QueueInv
  BY Zenon DEF Init, PostInv, QueueInv, Before, Owning
<1>3. RunInv /\ PolicyInv
  BY Zenon DEF Init, RunInv, PolicyInv, Busy
<1>4. RegistryInv
  BY Zenon DEF Init, RegistryInv
<1> QED BY Zenon, <1>1, <1>2, <1>3, <1>4 DEF TaskInv

\* While tasks are cancelled and until the next start the executors are joined and
\* no post is inside.
LEMMA DownIsQuiet ==
    ASSUME LifeInv, Down \/ Clearing \/ \E k \in Controllers : cpc[k] = "cancel"
    PROVE  /\ \A x \in Executors : xpc[x] = "none"
           /\ \A c \in Callers : ppc[c] \notin Admitted
<1>1. \A x \in Executors : xpc[x] = "none"
  BY Zenon DEF LifeInv, JoinInv, Down, Clearing
<1>2. \A x \in Executors : ppc[x] \notin Admitted
  BY Zenon, <1>1 DEF LifeInv, ExecutorsIn, Admitted
<1>3. \A p \in Posters : ppc[p] \notin Admitted
  <2> SUFFICES ASSUME NEW p \in Posters, ppc[p] \in Admitted PROVE FALSE
    BY Zenon
  <2>1. status \in {"Running", "Stopping"} /\ \A k \in Controllers : cpc[k] \notin PastPc
    BY Zenon DEF LifeInv, PostersIn, Deep
  <2>2. \A k \in Controllers : cpc[k] # "build"
    BY Zenon, <2>1 DEF LifeInv, OneControl, StartPc
  <2> QED BY Zenon, <2>1, <2>2 DEF Down, Clearing, PastPc
<1> QED BY Zenon, <1>1, <1>2, <1>3 DEF Callers

\* A step of a controller, or of an executor that has no task, which leaves the
\* tasks alone.
LEMMA TasksFrame ==
    ASSUME TaskInv,
           UNCHANGED <<tstate, queue, registry, accepted, events, deploy, cur, ppc, ptask>>,
           \A x \in Executors : xpc'[x] = xpc[x] \/ (xpc[x] \notin Busy /\ xpc'[x] \notin Busy),
           Clearing => Clearing', Down' => registry = {}
    PROVE  TaskInv'
<1> USE DEF TaskInv, WaitForTasks
<1>1. TaskType' /\ PostInv'
  BY Zenon DEF TaskType, PostInv
<1>2. QueueInv'
  BY Zenon DEF QueueInv
<1>3. RunInv' /\ PolicyInv'
  BY Zenon DEF RunInv, PolicyInv, Busy
<1>4. RegistryInv'
  BY Zenon DEF RegistryInv
<1> QED BY Zenon, <1>1, <1>2, <1>3, <1>4

\* A step of a post that leaves the tasks alone.
LEMMA PostFrame ==
    ASSUME TaskInv, LType, NEW c \in Callers,
           UNCHANGED <<tstate, queue, registry, accepted, events, deploy, cur, xpc>>,
           Clearing => Clearing', Down' => registry = {},
           DOMAIN ptask' = Callers,
           \A d \in Callers : d # c => ppc'[d] = ppc[d] /\ ptask'[d] = ptask[d],
           ppc'[c] # "idle" => ppc[c] # "idle" /\ ptask'[c] = ptask[c],
           ppc'[c] \in Before => ppc[c] \in Before,
           ppc'[c] \in Owning => ppc[c] \in Owning,
           ppc'[c] \in {"register", "unregister"} => ~WaitForTasks,
           ppc'[c] \in {"count", "uncount", "notifyIdle"} => WaitForTasks,
           ppc'[c] \in {"enqueue", "unregister"} /\ ~WaitForTasks => ptask[c] \in registry,
           ppc'[c] = "cancel" => ptask[c] \notin registry
    PROVE  TaskInv'
<1> USE DEF TaskInv, WaitForTasks
<1>1. TaskType'
  BY Zenon DEF TaskType
<1>2. PostInv'
  <2>1. /\ \A d \in Callers : ppc'[d] # "idle" => ppc[d] # "idle" /\ ptask'[d] = ptask[d]
        /\ \A d \in Callers : ppc'[d] \in Before => ppc[d] \in Before
        /\ \A d \in Callers : ppc'[d] \in Owning => ppc[d] \in Owning
    BY Zenon
  <2> QED BY Zenon, <2>1, PostGoesOn
<1>3. QueueInv' /\ RunInv'
  BY Zenon DEF QueueInv, RunInv
<1>4. PolicyInv'
  BY Zenon DEF PolicyInv
<1>5. RegistryInv'
  BY Zenon DEF RegistryInv
<1> QED BY Zenon, <1>1, <1>2, <1>3, <1>4, <1>5

\* Nobody's controller moves to or from the points between cancellation and start.
LEMMA SameDown ==
    ASSUME UNCHANGED <<status, cpc>> PROVE (Clearing' <=> Clearing) /\ (Down' <=> Down)
  BY Zenon DEF Clearing, Down

\* Nor does one that a counter wakes.
LEMMA UnparkDown ==
    ASSUME UNCHANGED status,
           \A k \in Controllers : \/ cpc'[k] = cpc[k]
                                  \/ /\ cpc[k] \in {"parkedIdle", "parkedPosts"}
                                     /\ cpc'[k] \in {"waitIdle", "waitPosts"}
    PROVE  (Clearing' <=> Clearing) /\ (Down' <=> Down)
  BY Zenon DEF Clearing, Down

\* The steps of a post that move the task: it is scheduled, registered, queued, or
\* taken back after a refusal.
LEMMA PostTaskStep ==
    ASSUME LifeInv, TaskInv, NEW c \in Callers,
           \/ RequestSchedule(c) \/ RegisterTask(c) \/ Enqueue(c) \/ UnregisterRefused(c)
           \/ CancelSchedule(c)
    PROVE  TaskInv'
<1> USE DEF LifeInv, TaskInv, runtime, counts, tasks, executors, posts, controls, waits, rest,
   PGo, PostReturn, WaitForTasks
<1>1. ppc[c] \in Admitted /\ ppc[c] # "idle" /\ ptask[c] \in Tasks
  BY Zenon DEF RequestSchedule, RegisterTask, Enqueue, UnregisterRefused, CancelSchedule, Admitted,
     PostInv
<1>2. ~Down /\ ~Clearing /\ ~Down' /\ ~Clearing'
  BY Zenon, <1>1, DownIsQuiet, SameDown DEF RequestSchedule, RegisterTask, Enqueue, UnregisterRefused,
     CancelSchedule
<1>3. ptarget[c] \in Executors
  BY Zenon DEF LType
<1>4. CASE RequestSchedule(c)
  <2>1. TaskType'
    BY Zenon, <1>4, <1>1 DEF RequestSchedule, TaskType, TState
  <2>2. tstate[ptask[c]] = "Created" /\ ppc[c] = "schedule"
    BY Zenon, <1>4 DEF RequestSchedule, PostInv, Before
  <2>3. PostInv'
    <3>1. /\ UNCHANGED <<ptask, accepted, queue>> /\ ppc'[c] \in {"count", "register"}
          /\ \A d \in Callers : d # c => ppc'[d] = ppc[d]
          /\ tstate' = [tstate EXCEPT ![ptask[c]] = "Queued"]
      BY Zenon, <1>4 DEF RequestSchedule, LType
    <3>2. /\ \A t \in Tasks : t # ptask[c] => tstate'[t] = tstate[t]
          /\ tstate'[ptask[c]] = "Queued" /\ ppc'[c] \in Owning
      BY Zenon, <1>1, <3>1 DEF TaskType, Owning
    <3>3. ptask[c] \notin accepted /\ \A x \in Executors : ptask[c] \notin queue[x]
      BY Zenon, <1>2, <2>2 DEF PostInv, QueueInv
    <3> QED BY Zenon, <1>1, <3>1, <3>2, <3>3, PostOwns
  <2>4. QueueInv'
    BY Zenon, <1>4, <1>1, <1>2, <2>2 DEF RequestSchedule, QueueInv, TaskType
  <2>5. RunInv'
    BY Zenon, <1>4, <1>1, <2>2 DEF RequestSchedule, RunInv, TaskType, Busy
  <2>6. PolicyInv'
    BY Zenon, <1>4 DEF RequestSchedule, PolicyInv, LType
  <2>7. RegistryInv'
    BY Zenon, <1>4, <1>1, <1>2, <2>2 DEF RequestSchedule, RegistryInv, TaskType, LType
  <2> QED BY Zenon, <2>1, <2>3, <2>4, <2>5, <2>6, <2>7
<1>5. CASE RegisterTask(c)
  <2>1. TaskType' /\ QueueInv'
    BY Zenon, <1>5, <1>1, <1>2 DEF RegisterTask, TaskType, QueueInv
  <2>2. PostInv'
    <3>1. /\ UNCHANGED <<ptask, accepted, queue, tstate>> /\ ppc[c] \in Owning /\ ppc'[c] \in Owning
          /\ \A d \in Callers : d # c => ppc'[d] = ppc[d]
      BY Zenon, <1>5 DEF RegisterTask, LType, Owning
    <3>2. /\ tstate[ptask[c]] = "Queued" /\ ptask[c] \notin accepted
          /\ \A x \in Executors : ptask[c] \notin queue[x]
      BY Zenon, <3>1 DEF PostInv
    <3> QED BY Zenon, <1>1, <3>1, <3>2, PostOwns
  <2>3. RunInv' /\ PolicyInv'
    BY Zenon, <1>5 DEF RegisterTask, RunInv, PolicyInv, LType
  <2>4. tstate[ptask[c]] = "Queued"
    BY Zenon, <1>5 DEF RegisterTask, PostInv, Owning
  <2>5. RegistryInv'
    <3>1. /\ registry' = registry \cup {ptask[c]} /\ ppc'[c] = "enqueue" /\ ptask' = ptask
          /\ \A d \in Callers : d # c => ppc'[d] = ppc[d]
          /\ UNCHANGED <<tstate, xpc, cur, accepted, deploy>>
      BY Zenon, <1>5 DEF RegisterTask, LType
    <3>2. \A d \in Callers : d # c /\ ppc[d] # "idle" => ptask[d] # ptask[c]
      BY Zenon, <1>1 DEF PostInv
    <3>3. \A d \in Callers :
            ppc'[d] \in {"enqueue", "unregister"} /\ ~WaitForTasks => ptask[d] \in registry'
      BY Zenon, <3>1 DEF RegistryInv
    <3>4. \A d \in Callers : ppc'[d] = "cancel" => ptask[d] \notin registry'
      BY Zenon, <3>1, <3>2 DEF RegistryInv
    <3>5. ~WaitForTasks => \A t \in accepted : t \in registry' \/ tstate[t] = "Done"
      BY Zenon, <3>1 DEF RegistryInv
    <3>6. \A t \in registry' : \/ tstate[t] \in {"Pending", "Queued"}
                                \/ \E x \in Executors : xpc[x] \in Busy /\ cur[x] = t
      BY Zenon, <2>4, <3>1 DEF RegistryInv
    <3> QED BY Zenon, <1>2, <3>1, <3>3, <3>4, <3>5, <3>6 DEF RegistryInv
  <2> QED BY Zenon, <2>1, <2>2, <2>3, <2>5
<1>6. CASE Enqueue(c)
  <2>0. ppc[c] = "enqueue" /\ tstate[ptask[c]] = "Queued"
    BY Zenon, <1>6 DEF Enqueue, PostInv, Owning
  <2>1. CASE Cardinality(queue[ptarget[c]]) < Capacity /\ accepted' = accepted \cup {ptask[c]}
             /\ queue' = [queue EXCEPT ![ptarget[c]] = @ \cup {ptask[c]}]
             /\ (IF c \in Executors THEN PostReturn(c) ELSE PGo(c, "leave"))
    <3>1. TaskType'
      BY Zenon, <1>6, <1>1, <1>3, <2>1 DEF Enqueue, TaskType
    <3>2. /\ ppc'[c] \in {"idle", "leave"}
          /\ \A d \in Callers : d # c => ppc'[d] = ppc[d] /\ ptask'[d] = ptask[d]
          /\ (ppc'[c] = "idle" \/ ptask'[c] = ptask[c])
      BY Zenon, <2>1 DEF TaskType, LType
    <3>3. PostInv'
      <4>1. /\ TaskType /\ PostInv /\ ppc[c] # "idle"
            /\ ppc'[c] = "idle" \/ (ppc'[c] \notin Before \cup Owning /\ ptask'[c] = ptask[c])
        BY Zenon, <1>1, <2>0, <3>2 DEF Before, Owning
      <4>2. tstate' = tstate /\ accepted' = accepted \cup {ptask[c]}
        BY Zenon, <1>6, <2>1 DEF Enqueue
      <4>3. \A y \in Executors : \A u \in queue'[y] : u \in queue[y] \/ u = ptask[c]
        BY Zenon, <1>1, <2>1 DEF TaskType
      <4> QED BY Zenon, <2>0, <3>2, <4>1, <4>2, <4>3, PostLeaves
    <3>4. QueueInv'
      <4>1. /\ UNCHANGED <<tstate, events>>
            /\ \A y \in Executors :
                  queue'[y] = IF y = ptarget[c] THEN queue[y] \cup {ptask[c]} ELSE queue[y]
        BY Zenon, <1>6, <2>1 DEF Enqueue, TaskType
      <4>2. \A y \in Executors : ptask[c] \notin queue[y]
        BY Zenon, <2>0 DEF PostInv, Owning
      <4>3. \A y \in Executors : \A u \in queue'[y] :
              u \in queue[y] \/ (u = ptask[c] /\ y = ptarget[c])
        BY Zenon, <4>1
      <4>4. \A y \in Executors : \A u \in queue'[y] : tstate'[u] = "Queued"
        BY Zenon, <1>2, <2>0, <4>1, <4>3 DEF QueueInv
      <4>5. \A y, z \in Executors : \A u \in queue'[y] : u \in queue'[z] => y = z
        <5>1. ASSUME NEW y \in Executors, NEW z \in Executors, NEW u \in queue'[y], u \in queue'[z]
              PROVE  y = z
          <6>1. CASE u = ptask[c]
            BY Zenon, <4>2, <4>3, <5>1, <6>1
          <6>2. CASE u # ptask[c]
            <7>1. u \in queue[y] /\ u \in queue[z]
              BY Zenon, <4>3, <5>1, <6>2
            <7> QED BY Zenon, <7>1 DEF QueueInv
          <6> QED BY Zenon, <6>1, <6>2
        <5> QED BY Zenon, <5>1
      <4>6. \A u \in events' : tstate'[u] = "Pending"
        BY Zenon, <1>2, <4>1 DEF QueueInv
      <4> QED BY Zenon, <4>4, <4>5, <4>6 DEF QueueInv
    <3>5. RunInv' /\ PolicyInv'
      BY Zenon, <1>6, <3>2 DEF Enqueue, RunInv, PolicyInv
    <3>6. RegistryInv'
      BY Zenon, <1>6, <1>2, <2>0, <2>1, <3>2 DEF Enqueue, RegistryInv
    <3> QED BY Zenon, <3>1, <3>3, <3>4, <3>5, <3>6
  <2>2. CASE /\ PGo(c, IF WaitForTasks THEN "uncount" ELSE "unregister")
             /\ UNCHANGED <<queue, accepted>>
    <3>1. ~WaitForTasks => ptask[c] \in registry
      BY Zenon, <2>0 DEF RegistryInv
    <3> QED BY Zenon, <1>6, <1>2, <2>0, <2>2, <3>1, PostFrame DEF Enqueue, TaskType, LType, Before,
       Owning
  <2> QED BY Zenon, <1>6, <2>1, <2>2 DEF Enqueue
<1>7. CASE UnregisterRefused(c)
  <2>1. TaskType' /\ QueueInv'
    BY Zenon, <1>7, <1>2 DEF UnregisterRefused, TaskType, QueueInv
  <2>2. PostInv'
    <3>1. /\ UNCHANGED <<ptask, accepted, queue, tstate>> /\ ppc[c] \in Owning /\ ppc'[c] \in Owning
          /\ \A d \in Callers : d # c => ppc'[d] = ppc[d]
      BY Zenon, <1>7 DEF UnregisterRefused, LType, Owning
    <3>2. /\ tstate[ptask[c]] = "Queued" /\ ptask[c] \notin accepted
          /\ \A x \in Executors : ptask[c] \notin queue[x]
      BY Zenon, <3>1 DEF PostInv
    <3> QED BY Zenon, <1>1, <3>1, <3>2, PostOwns
  <2>3. RunInv' /\ PolicyInv'
    BY Zenon, <1>7 DEF UnregisterRefused, RunInv, PolicyInv, LType
  <2>4. ptask[c] \notin accepted /\ ppc[c] = "unregister"
    BY Zenon, <1>7 DEF UnregisterRefused, PostInv, Owning
  <2>5. RegistryInv'
    <3>1. /\ registry' = registry \ {ptask[c]} /\ ppc'[c] = "cancel" /\ ptask' = ptask
          /\ \A d \in Callers : d # c => ppc'[d] = ppc[d]
          /\ UNCHANGED <<tstate, xpc, cur, accepted, deploy>>
      BY Zenon, <1>7 DEF UnregisterRefused, LType
    <3>2. \A d \in Callers : d # c /\ ppc[d] # "idle" => ptask[d] # ptask[c]
      BY Zenon, <2>4 DEF PostInv
    <3>3. \A d \in Callers :
            ppc'[d] \in {"enqueue", "unregister"} /\ ~WaitForTasks => ptask[d] \in registry'
      BY Zenon, <3>1, <3>2 DEF RegistryInv
    <3>4. \A d \in Callers : ppc'[d] = "cancel" => ptask[d] \notin registry'
      BY Zenon, <3>1 DEF RegistryInv
    <3>5. ~WaitForTasks => \A t \in accepted : t \in registry' \/ tstate[t] = "Done"
      BY Zenon, <2>4, <3>1 DEF RegistryInv
    <3>6. /\ \A t \in registry' : \/ tstate[t] \in {"Pending", "Queued"}
                                   \/ \E x \in Executors : xpc[x] \in Busy /\ cur[x] = t
          /\ Down' => registry' = {}
      BY Zenon, <1>2, <3>1 DEF RegistryInv
    <3> QED BY Zenon, <3>1, <3>3, <3>4, <3>5, <3>6 DEF RegistryInv
  <2> QED BY Zenon, <2>1, <2>2, <2>3, <2>5
<1>8. CASE CancelSchedule(c)
  <2>0. ppc[c] = "cancel" /\ tstate[ptask[c]] = "Queued" /\ ptask[c] \notin accepted
    BY Zenon, <1>8 DEF CancelSchedule, PostInv, Owning
  <2>1. TaskType'
    BY Zenon, <1>8, <1>1 DEF CancelSchedule, TaskType, TState
  <2>2. /\ ppc'[c] \in {"idle", "leave"}
        /\ \A d \in Callers : d # c => ppc'[d] = ppc[d] /\ ptask'[d] = ptask[d]
        /\ (ppc'[c] = "idle" \/ ptask'[c] = ptask[c])
    BY Zenon, <1>8 DEF CancelSchedule, TaskType, LType
  <2>3. PostInv'
    <3>1. /\ ppc[c] # "idle"
          /\ ppc'[c] = "idle" \/ (ppc'[c] \notin Before \cup Owning /\ ptask'[c] = ptask[c])
      BY Zenon, <2>0, <2>2 DEF Before, Owning
    <3>2. /\ \A t \in Tasks : t # ptask[c] => tstate'[t] = tstate[t]
          /\ ptask[c] \notin accepted' /\ accepted' = accepted /\ queue' = queue
      <4>1. /\ tstate' = [tstate EXCEPT ![ptask[c]] = "Created"]
            /\ accepted' = accepted /\ queue' = queue
        BY Zenon, <1>8 DEF CancelSchedule, rest
      <4> QED BY Zenon, <2>0, <4>1 DEF TaskType
    <3> QED BY Zenon, <2>2, <3>1, <3>2, PostLeaves
  <2>4. QueueInv'
    <3>1. \A t \in Tasks : t # ptask[c] => tstate'[t] = tstate[t]
      BY Zenon, <1>8 DEF CancelSchedule, TaskType
    <3>2. queue' = queue /\ events' = events /\ \A y \in Executors : queue[y] \subseteq Tasks
      BY Zenon, <1>8 DEF CancelSchedule, TaskType
    <3>3. /\ \A y \in Executors : ptask[c] \notin queue[y]
          /\ ptask[c] \in events => Clearing
      BY Zenon, <2>0 DEF PostInv, QueueInv, Owning
    <3>4. \A x \in Executors : \A t \in queue[x] : tstate'[t] = "Queued" \/ Clearing
      BY Zenon, <3>1, <3>2, <3>3 DEF QueueInv
    <3>5. \A t \in events : tstate'[t] = "Pending" \/ Clearing
      BY Zenon, <3>1, <3>3 DEF QueueInv, TaskType
    <3>6. \A x, y \in Executors : \A t \in queue[x] : t \in queue[y] => x = y
      BY Zenon DEF QueueInv
    <3> QED BY Zenon, <1>2, <3>2, <3>4, <3>5, <3>6 DEF QueueInv
  <2>5. RunInv' /\ PolicyInv'
    BY Zenon, <1>8, <1>1, <2>0, <2>2 DEF CancelSchedule, RunInv, PolicyInv, TaskType, Busy
  <2>6. ptask[c] \notin registry
    BY Zenon, <2>0 DEF RegistryInv
  <2>7. RegistryInv'
    <3>1. /\ UNCHANGED <<registry, xpc, cur, accepted, deploy>>
          /\ \A t \in Tasks : t # ptask[c] => tstate'[t] = tstate[t]
      BY Zenon, <1>8 DEF CancelSchedule, TaskType
    <3>2. \A t \in registry \cup accepted : tstate'[t] = tstate[t]
      BY Zenon, <2>0, <2>6, <3>1 DEF TaskType
    <3>3. \A d \in Callers : ppc'[d] \in {"enqueue", "unregister", "cancel"} =>
            ppc'[d] = ppc[d] /\ ptask'[d] = ptask[d]
      BY Zenon, <2>2
    <3>4. /\ \A d \in Callers :
                ppc'[d] \in {"enqueue", "unregister"} /\ ~WaitForTasks => ptask'[d] \in registry
          /\ \A d \in Callers : ppc'[d] = "cancel" => ptask'[d] \notin registry
      BY Zenon, <3>3 DEF RegistryInv
    <3>5. ~WaitForTasks => \A t \in accepted : t \in registry \/ tstate'[t] = "Done"
      BY Zenon, <3>2 DEF RegistryInv
    <3>6. \A t \in registry : \/ tstate'[t] \in {"Pending", "Queued"}
                               \/ \E x \in Executors : xpc[x] \in Busy /\ cur[x] = t
      BY Zenon, <3>2 DEF RegistryInv
    <3> QED BY Zenon, <1>2, <3>1, <3>4, <3>5, <3>6 DEF RegistryInv
  <2> QED BY Zenon, <2>1, <2>3, <2>4, <2>5, <2>7
<1> QED BY Zenon, <1>4, <1>5, <1>6, <1>7, <1>8

\* Each step of post() keeps the tasks' invariant.
LEMMA PostTasks ==
    ASSUME LifeInv, TaskInv, NEW c \in Callers, ContinuePost(c)
    PROVE  TaskInv'
<1> USE DEF LifeInv, TaskInv, runtime, counts, tasks, executors, posts, controls, waits, rest,
   PGo, PostReturn
<1>0. (Down => registry = {}) /\ DOMAIN ptask = Callers /\ ppc \in [Callers -> PPc]
  BY Zenon DEF RegistryInv, TaskType, LType
<1>1. CASE LoadStatus(c) \/ EnterPost(c) \/ RecheckStatus(c) \/ RecheckGeneration(c)
  <2>1. /\ ppc[c] \in Before /\ ppc[c] # "idle" /\ ppc'[c] \in Before \cup {"idle", "leave"}
        /\ DOMAIN ptask' = Callers
        /\ \A d \in Callers : d # c => ppc'[d] = ppc[d] /\ ptask'[d] = ptask[d]
        /\ ppc'[c] # "idle" => ptask'[c] = ptask[c]
    BY Zenon, <1>0, <1>1 DEF LoadStatus, EnterPost, RecheckStatus, RecheckGeneration, Before
  <2>2. UNCHANGED <<tstate, queue, registry, accepted, events, deploy, cur, xpc, status, cpc>>
    BY Zenon, <1>1 DEF LoadStatus, EnterPost, RecheckStatus, RecheckGeneration
  <2> QED BY Zenon, <1>0, <2>1, <2>2, SameDown, PostFrame DEF Before, Owning
<1>2. CASE CountTask(c) \/ UncountRefused(c)
  <2>0. WaitForTasks /\ registry = {}
    BY Zenon, <1>2 DEF CountTask, UncountRefused, PolicyInv
  <2> QED BY <1>0, <1>2, <2>0, SameDown, PostFrame DEF CountTask, UncountRefused, Before, Owning
<1>3. CASE NotifyRefused(c)
  <2>0. WaitForTasks /\ registry = {}
    BY Zenon, <1>3 DEF NotifyRefused, PolicyInv
  <2>1. (Clearing' <=> Clearing) /\ (Down' <=> Down)
    BY Zenon, <1>3, UnparkDown DEF NotifyRefused, Unpark, LType
  <2> QED BY Zenon, <1>0, <1>3, <2>0, <2>1, PostFrame DEF NotifyRefused, Before, Owning
<1>4. CASE LeavePost(c)
  <2>1. /\ ppc[c] # "idle" /\ ppc'[c] \in {"idle", "notify"}
        /\ DOMAIN ptask' = Callers
        /\ \A d \in Callers : d # c => ppc'[d] = ppc[d] /\ ptask'[d] = ptask[d]
        /\ ppc'[c] # "idle" => ptask'[c] = ptask[c]
    BY Zenon, <1>0, <1>4 DEF LeavePost
  <2>2. UNCHANGED <<tstate, queue, registry, accepted, events, deploy, cur, xpc, status, cpc>>
    BY Zenon, <1>4 DEF LeavePost
  <2> QED BY Zenon, <1>0, <2>1, <2>2, SameDown, PostFrame DEF Before, Owning
<1>5. CASE NotifyLeft(c)
  <2>1. (Clearing' <=> Clearing) /\ (Down' <=> Down)
    BY Zenon, <1>5, UnparkDown DEF NotifyLeft, LType
  <2> QED BY Zenon, <1>0, <1>5, <2>1, PostFrame DEF NotifyLeft, Before, Owning
<1> QED BY Zenon, <1>1, <1>2, <1>3, <1>4, <1>5, PostTaskStep DEF ContinuePost

\* A caller begins to post a task that nobody has.
LEMMA BeginTasks ==
    ASSUME LifeInv, TaskInv, NEW c \in Callers, PostBegin(c), UNCHANGED cur,
           \/ UNCHANGED xpc
           \/ /\ c \in Executors /\ \A x \in Executors : x # c => xpc'[x] = xpc[x]
              /\ \/ xpc[c] = "body" /\ xpc'[c] = "posted"
                 \/ xpc[c] = "poll" /\ xpc'[c] = "callback"
    PROVE  TaskInv'
<1> USE DEF LifeInv, TaskInv, runtime, counts, tasks, posts, controls, waits, rest, WaitForTasks
<1>1. PICK t \in Tasks : /\ tstate[t] = "Created" /\ \A d \in Callers : ptask[d] # t
                         /\ ptask' = [ptask EXCEPT ![c] = t]
  BY Zenon DEF PostBegin
<1>2. /\ ppc[c] = "idle" /\ ppc'[c] = "status" /\ ptask'[c] = t
      /\ \A d \in Callers : d # c => ppc'[d] = ppc[d] /\ ptask'[d] = ptask[d]
  BY Zenon, <1>1 DEF PostBegin, LType, TaskType
<1>3. (Clearing' <=> Clearing) /\ (Down' <=> Down)
  BY Zenon, SameDown DEF PostBegin
<1>4. TaskType' /\ QueueInv'
  BY Zenon, <1>1, <1>3 DEF PostBegin, TaskType, QueueInv
<1>5. PostInv'
  BY <1>1, <1>2 DEF PostBegin, PostInv, Before, Owning
<1>6. RunInv'
  BY DEF PostBegin, RunInv, Busy
<1>7. PolicyInv'
  BY <1>2 DEF PostBegin, PolicyInv
<1>8. \A x \in Executors : xpc'[x] \in Busy <=> xpc[x] \in Busy
  BY Zenon DEF Busy
<1>9. RegistryInv'
  BY <1>2, <1>3, <1>8 DEF PostBegin, RegistryInv
<1> QED BY Zenon, <1>4, <1>5, <1>6, <1>7, <1>9

\* An executor finishes a run of its task, which it leaves in the registry only
\* when the task waits or the executor has still to take it out.
LEMMA RegistryMoves ==
  ASSUME TaskType, RegistryInv, NEW x \in Executors, xpc[x] \in Busy, cur[x] \in Tasks,
         UNCHANGED <<ppc, ptask, accepted, deploy>>, ~Down',
         \A y \in Executors : y # x => xpc'[y] = xpc[y] /\ cur'[y] = cur[y],
         \A t \in Tasks : t # cur[x] => tstate'[t] = tstate[t],
         registry' = registry \/ registry' = registry \ {cur[x]},
         cur[x] \in registry' => tstate'[cur[x]] = "Pending" \/ (xpc'[x] \in Busy /\ cur'[x] = cur[x]),
         ~WaitForTasks /\ cur[x] \in accepted => cur[x] \in registry' \/ tstate'[cur[x]] = "Done",
         \A c \in Callers : ppc[c] \in {"enqueue", "unregister"} => ptask[c] # cur[x]
  PROVE  RegistryInv'
<1>1. ASSUME NEW t \in registry'
      PROVE  \/ tstate'[t] \in {"Pending", "Queued"}
             \/ \E y \in Executors : xpc'[y] \in Busy /\ cur'[y] = t
  <2>1. CASE t = cur[x]
    BY Zenon, <1>1, <2>1
  <2>2. CASE t # cur[x]
    <3>1. t \in registry /\ tstate'[t] = tstate[t]
      BY Zenon, <1>1, <2>2 DEF TaskType
    <3>2. CASE tstate[t] \in {"Pending", "Queued"}
      BY Zenon, <3>1, <3>2
    <3>3. ASSUME NEW y \in Executors, xpc[y] \in Busy, cur[y] = t
          PROVE  xpc'[y] \in Busy /\ cur'[y] = t
      BY Zenon, <2>2, <3>3
    <3> QED BY Zenon, <3>1, <3>2, <3>3 DEF RegistryInv
  <2> QED BY Zenon, <2>1, <2>2
<1>2. WaitForTasks' = WaitForTasks
  BY Zenon DEF WaitForTasks
<1>3. /\ \A c \in Callers :
            ppc'[c] \in {"enqueue", "unregister"} /\ ~WaitForTasks' => ptask'[c] \in registry'
      /\ \A c \in Callers : ppc'[c] = "cancel" => ptask'[c] \notin registry'
  BY Zenon, <1>2 DEF RegistryInv
<1>4. ASSUME ~WaitForTasks', NEW t \in accepted' PROVE t \in registry' \/ tstate'[t] = "Done"
  <2>1. t \in accepted /\ t \in Tasks /\ ~WaitForTasks
    BY Zenon, <1>2, <1>4 DEF TaskType
  <2>2. t \in registry \/ tstate[t] = "Done"
    BY Zenon, <2>1 DEF RegistryInv
  <2>3. CASE t = cur[x]
    BY Zenon, <2>1, <2>3
  <2>4. CASE t # cur[x]
    BY Zenon, <2>1, <2>2, <2>4
  <2> QED BY Zenon, <2>3, <2>4
<1> QED BY Zenon, <1>1, <1>3, <1>4 DEF RegistryInv

\* The steps of an executor that take, finish or resume a task.
LEMMA RunTaskStep ==
    ASSUME LifeInv, TaskInv, NEW x \in Executors,
           \/ PopTask(x) \/ FinishPending(x) \/ FinishDone(x) \/ UnregisterTask(x)
           \/ UncountTask(x) \/ PollCompletes(x)
    PROVE  TaskInv'
<1> USE DEF LifeInv, TaskInv, runtime, counts, tasks, posts, controls, waits, rest, WaitForTasks,
   XGo
<1>1. xpc[x] # "none" /\ DOMAIN xpc = Executors
  BY Zenon DEF PopTask, FinishPending, FinishDone, UnregisterTask, UncountTask, PollCompletes, LType
<1>2. ~Down /\ ~Clearing /\ ~Down' /\ ~Clearing'
  BY Zenon, <1>1, DownIsQuiet, SameDown DEF PopTask, FinishPending, FinishDone, UnregisterTask,
     UncountTask, PollCompletes
<1>3. CASE PopTask(x)
  <2>0. CASE queue[x] = {} /\ XGo(x, "checkStop") /\ UNCHANGED <<queue, tstate, cur, didWork>>
    BY Zenon, <1>1, <1>2, <1>3, <2>0, TasksFrame DEF PopTask, Busy
  <2>1. ASSUME NEW t \in queue[x], queue' = [queue EXCEPT ![x] = @ \ {t}],
               tstate' = [tstate EXCEPT ![t] = "Running"], cur' = [cur EXCEPT ![x] = t],
               XGo(x, "body")
        PROVE  TaskInv'
    <3>1. /\ t \in Tasks /\ tstate[t] = "Queued" /\ xpc[x] \notin Busy
          /\ \A y \in Executors : y # x => t \notin queue[y]
      BY Zenon, <1>2, <1>3, <2>1 DEF PopTask, TaskType, QueueInv, Busy
    <3>2. TaskType'
      BY Zenon, <1>3, <2>1, <3>1 DEF PopTask, TaskType, TState
    <3>3. \A c \in Callers : ppc[c] \in Owning => ptask[c] # t
      <4>1. \A c \in Callers : ppc[c] \in Owning => ptask[c] \notin queue[x]
        BY Zenon DEF PostInv
      <4> QED BY Zenon, <2>1, <4>1
    <3>4. PostInv'
      <4>1. UNCHANGED <<ppc, ptask, accepted>> /\ tstate[t] # "Created" /\ "Running" # "Created"
        BY Zenon, <1>3, <3>1 DEF PopTask
      <4>2. \A y \in Executors : \A u \in queue'[y] : u \in queue[y] \/ u = t
        BY Zenon, <2>1 DEF TaskType
      <4> QED BY Zenon, <2>1, <3>1, <3>3, <4>1, <4>2, PostOther
    <3>5. QueueInv'
      <4>1. /\ events' = events /\ \A u \in Tasks : u # t => tstate'[u] = tstate[u]
            /\ \A y \in Executors :
                  queue'[y] = IF y = x THEN queue[y] \ {t} ELSE queue[y]
        BY Zenon, <1>3, <2>1 DEF PopTask, TaskType
      <4>2. \A y \in Executors : \A u \in queue'[y] : u \in queue[y] /\ u # t /\ u \in Tasks
        BY Zenon, <3>1, <4>1 DEF TaskType
      <4>3. \A y \in Executors : \A u \in queue'[y] : tstate'[u] = "Queued"
        BY Zenon, <1>2, <4>1, <4>2 DEF QueueInv
      <4>4. \A y, z \in Executors : \A u \in queue'[y] : u \in queue'[z] => y = z
        BY Zenon, <4>2 DEF QueueInv
      <4>5. \A u \in events' : tstate'[u] = "Pending"
        <5>1. \A u \in events : tstate[u] = "Pending" /\ u # t /\ u \in Tasks
          BY Zenon, <1>2, <3>1 DEF QueueInv, TaskType
        <5> QED BY Zenon, <4>1, <5>1
      <4> QED BY Zenon, <4>3, <4>4, <4>5 DEF QueueInv
    <3>6. \A y \in Executors : xpc[y] \in Busy => cur[y] # t
      BY Zenon, <3>1 DEF RunInv, Busy
    <3>7. RunInv'
      BY Zenon, <1>1, <2>1, <3>1, <3>6 DEF RunInv, TaskType, Busy
    <3>8. PolicyInv'
      BY Zenon, <1>1, <1>3, <2>1 DEF PopTask, PolicyInv
    <3>9. RegistryInv'
      <4>1. /\ UNCHANGED <<registry, accepted, deploy, ppc, ptask>>
            /\ \A u \in Tasks : u # t => tstate'[u] = tstate[u]
            /\ \A y \in Executors : y # x => xpc'[y] = xpc[y] /\ cur'[y] = cur[y]
            /\ xpc'[x] = "body" /\ cur'[x] = t
        BY Zenon, <1>1, <1>3, <2>1 DEF PopTask, TaskType
      <4>2. xpc'[x] \in Busy /\ \A y \in Executors : xpc[y] \in Busy => y # x
        BY Zenon, <3>1, <4>1 DEF Busy
      <4>3. ASSUME NEW u \in registry, u # t
            PROVE  \/ tstate'[u] \in {"Pending", "Queued"}
                   \/ \E y \in Executors : xpc'[y] \in Busy /\ cur'[y] = u
        <5>1. tstate'[u] = tstate[u]
          BY Zenon, <4>1, <4>3 DEF TaskType
        <5>2. ASSUME NEW y \in Executors, xpc[y] \in Busy, cur[y] = u
              PROVE  xpc'[y] \in Busy /\ cur'[y] = u
          BY Zenon, <4>1, <4>2, <5>2
        <5> QED BY Zenon, <5>1, <5>2 DEF RegistryInv
      <4>4. \A u \in registry : \/ tstate'[u] \in {"Pending", "Queued"}
                                 \/ \E y \in Executors : xpc'[y] \in Busy /\ cur'[y] = u
        BY Zenon, <4>1, <4>2, <4>3
      <4>5. ~WaitForTasks => \A u \in accepted : u \in registry \/ tstate'[u] = "Done"
        <5>1. ASSUME ~WaitForTasks, NEW u \in accepted PROVE u \in registry \/ tstate'[u] = "Done"
          <6>1. u \in registry \/ (tstate[u] = "Done" /\ u # t /\ u \in Tasks)
            BY Zenon, <3>1, <5>1 DEF RegistryInv, TaskType
          <6> QED BY Zenon, <4>1, <6>1
        <5> QED BY Zenon, <5>1
      <4> QED BY Zenon, <1>2, <4>1, <4>4, <4>5 DEF RegistryInv
    <3> QED BY Zenon, <3>2, <3>4, <3>5, <3>7, <3>8, <3>9
  <2> QED BY Zenon, <1>3, <2>0, <2>1 DEF PopTask
<1>4. CASE FinishPending(x)
  <2>1. cur[x] \in Tasks /\ tstate[cur[x]] = "Running" /\ xpc[x] \in Busy /\ xpc'[x] = "loop"
    BY Zenon, <1>1, <1>4 DEF FinishPending, RunInv, Busy
  <2>2. TaskType'
    BY Zenon, <1>4, <2>1 DEF FinishPending, TaskType, TState
  <2>3. PostInv'
    <3>1. /\ UNCHANGED <<ppc, ptask, accepted, queue>> /\ tstate[cur[x]] # "Created"
          /\ tstate' = [tstate EXCEPT ![cur[x]] = "Pending"] /\ "Pending" # "Created"
      BY Zenon, <1>4, <2>1 DEF FinishPending
    <3>2. \A c \in Callers : ppc[c] \in Owning => ptask[c] # cur[x]
      BY Zenon, <2>1 DEF PostInv
    <3> QED BY Zenon, <2>1, <3>1, <3>2, PostOther
  <2>4. QueueInv'
    BY Zenon, <1>2, <1>4, <2>1 DEF FinishPending, QueueInv, TaskType
  <2>5. RunInv'
    BY Zenon, <1>1, <1>4, <2>1 DEF FinishPending, RunInv, TaskType, Busy
  <2>6. PolicyInv'
    BY Zenon, <1>1, <1>4 DEF FinishPending, PolicyInv
  <2>7. RegistryInv'
    <3>1. /\ UNCHANGED <<ppc, ptask, accepted, deploy, registry>>
          /\ \A y \in Executors : y # x => xpc'[y] = xpc[y] /\ cur'[y] = cur[y]
          /\ \A t \in Tasks : t # cur[x] => tstate'[t] = tstate[t]
          /\ tstate'[cur[x]] = "Pending"
      BY Zenon, <1>1, <1>4, <2>1 DEF FinishPending, TaskType
    <3>2. \A c \in Callers : ppc[c] \in {"enqueue", "unregister"} => ptask[c] # cur[x]
      BY Zenon, <2>1 DEF PostInv, Owning
    <3>3. ~WaitForTasks /\ cur[x] \in accepted => cur[x] \in registry'
      BY Zenon, <2>1, <3>1 DEF RegistryInv
    <3>4. tstate'[cur[x]] = "Pending"
      BY Zenon, <3>1
    <3> QED BY Zenon, <1>2, <2>1, <3>1, <3>2, <3>3, <3>4, RegistryMoves
  <2> QED BY Zenon, <2>2, <2>3, <2>4, <2>5, <2>6, <2>7
<1>5. CASE FinishDone(x)
  <2>1. cur[x] \in Tasks /\ tstate[cur[x]] = "Running" /\ xpc[x] \in Busy /\ xpc'[x] \in Busy
    BY Zenon, <1>1, <1>5 DEF FinishDone, RunInv, Busy
  <2>2. TaskType'
    BY Zenon, <1>5, <2>1 DEF FinishDone, TaskType, TState
  <2>3. PostInv'
    <3>1. /\ UNCHANGED <<ppc, ptask, accepted, queue>> /\ tstate[cur[x]] # "Created"
          /\ tstate' = [tstate EXCEPT ![cur[x]] = "Done"] /\ "Done" # "Created"
      BY Zenon, <1>5, <2>1 DEF FinishDone
    <3>2. \A c \in Callers : ppc[c] \in Owning => ptask[c] # cur[x]
      BY Zenon, <2>1 DEF PostInv
    <3> QED BY Zenon, <2>1, <3>1, <3>2, PostOther
  <2>4. QueueInv'
    BY Zenon, <1>2, <1>5, <2>1 DEF FinishDone, QueueInv, TaskType
  <2>5. RunInv'
    BY Zenon, <1>1, <1>5, <2>1 DEF FinishDone, RunInv, TaskType, Busy
  <2>6. PolicyInv'
    BY Zenon, <1>1, <1>5 DEF FinishDone, PolicyInv
  <2>7. RegistryInv'
    <3>1. /\ UNCHANGED <<ppc, ptask, accepted, deploy, registry>>
          /\ \A y \in Executors : y # x => xpc'[y] = xpc[y] /\ cur'[y] = cur[y]
          /\ \A t \in Tasks : t # cur[x] => tstate'[t] = tstate[t]
          /\ tstate'[cur[x]] = "Done"
      BY Zenon, <1>1, <1>5, <2>1 DEF FinishDone, TaskType
    <3>2. \A c \in Callers : ppc[c] \in {"enqueue", "unregister"} => ptask[c] # cur[x]
      BY Zenon, <2>1 DEF PostInv, Owning
    <3>3. ~WaitForTasks /\ cur[x] \in accepted => cur[x] \in registry'
      BY Zenon, <2>1, <3>1 DEF RegistryInv
    <3>4. xpc'[x] \in Busy /\ cur' = cur
      BY Zenon, <1>5, <2>1 DEF FinishDone
    <3> QED BY Zenon, <1>2, <2>1, <3>1, <3>2, <3>3, <3>4, RegistryMoves
  <2> QED BY Zenon, <2>2, <2>3, <2>4, <2>5, <2>6, <2>7
<1>6. CASE UnregisterTask(x)
  <2>1. cur[x] \in Tasks /\ tstate[cur[x]] = "Done" /\ xpc[x] \in Busy /\ xpc'[x] = "loop"
    BY Zenon, <1>1, <1>6 DEF UnregisterTask, RunInv, Busy
  <2>2. TaskType' /\ QueueInv'
    BY Zenon, <1>2, <1>6 DEF UnregisterTask, TaskType, QueueInv
  <2>3. PostInv'
    BY Zenon, <1>6 DEF UnregisterTask, PostInv
  <2>4. RunInv' /\ PolicyInv'
    BY Zenon, <1>1, <1>6, <2>1 DEF UnregisterTask, RunInv, PolicyInv, TaskType, Busy
  <2>5. \A c \in Callers : ppc[c] \in Owning => ptask[c] # cur[x]
    BY Zenon, <2>1 DEF PostInv
  <2>6. RegistryInv'
    <3>1. /\ UNCHANGED <<ppc, ptask, accepted, deploy, tstate>>
          /\ \A y \in Executors : y # x => xpc'[y] = xpc[y] /\ cur'[y] = cur[y]
          /\ registry' = registry \ {cur[x]}
      BY Zenon, <1>1, <1>6 DEF UnregisterTask, TaskType
    <3>2. \A c \in Callers : ppc[c] \in {"enqueue", "unregister"} => ptask[c] # cur[x]
      BY Zenon, <2>5 DEF Owning
    <3> QED BY Zenon, <1>2, <2>1, <3>1, <3>2, RegistryMoves
  <2> QED BY Zenon, <2>2, <2>3, <2>4, <2>6
<1>7. CASE UncountTask(x)
  <2>1. xpc[x] \in Busy /\ xpc'[x] \in {"notifyIdle", "loop"} /\ WaitForTasks /\ registry = {}
    BY Zenon, <1>1, <1>7 DEF UncountTask, PolicyInv, Busy
  <2>2. TaskType' /\ QueueInv'
    BY Zenon, <1>2, <1>7 DEF UncountTask, TaskType, QueueInv
  <2>3. PostInv'
    BY Zenon, <1>7 DEF UncountTask, PostInv
  <2>4. RunInv' /\ PolicyInv'
    BY Zenon, <1>1, <1>7, <2>1 DEF UncountTask, RunInv, PolicyInv, TaskType, Busy
  <2>5. RegistryInv'
    BY Zenon, <1>7, <2>1 DEF UncountTask, RegistryInv
  <2> QED BY Zenon, <2>2, <2>3, <2>4, <2>5
<1>8. CASE PollCompletes(x)
  <2>0. CASE UNCHANGED <<tstate, queue, events>>
    BY Zenon, <1>1, <1>2, <1>8, <2>0, TasksFrame DEF PollCompletes, Busy
  <2>1. ASSUME NEW t \in events, tstate' = [tstate EXCEPT ![t] = "Queued"],
               queue' = [queue EXCEPT ![x] = @ \cup {t}], events' = events \ {t}
        PROVE  TaskInv'
    <3>1. t \in Tasks /\ tstate[t] = "Pending"
      BY Zenon, <1>2, <2>1 DEF TaskType, QueueInv
    <3>2. TaskType'
      BY <1>8, <2>1, <3>1 DEF PollCompletes, TaskType, TState
    <3>3. PostInv'
      <4>1. UNCHANGED <<ppc, ptask, accepted>> /\ tstate[t] # "Created" /\ "Queued" # "Created"
        BY Zenon, <1>8, <3>1 DEF PollCompletes
      <4>2. \A y \in Executors : \A u \in queue'[y] : u \in queue[y] \/ u = t
        BY Zenon, <2>1 DEF TaskType
      <4>3. \A c \in Callers : ppc[c] \in Owning => ptask[c] # t
        BY Zenon, <3>1 DEF PostInv
      <4> QED BY Zenon, <2>1, <3>1, <4>1, <4>2, <4>3, PostOther
    <3>4. QueueInv'
      BY <1>2, <1>8, <2>1, <3>1 DEF PollCompletes, QueueInv, TaskType
    <3>5. RunInv' /\ PolicyInv'
      <4>1. /\ \A y \in Executors : y # x => xpc'[y] = xpc[y]
            /\ xpc[x] = "poll" /\ xpc'[x] = "loop"
            /\ UNCHANGED <<ppc, registry, cur, deploy>>
        BY Zenon, <1>1, <1>8 DEF PollCompletes
      <4>2. PolicyInv'
        BY Zenon, <4>1 DEF PolicyInv
      <4>3. \A y \in Executors : xpc'[y] \in Busy => xpc'[y] = xpc[y] /\ y # x
        BY Zenon, <4>1 DEF Busy
      <4>4. \A y \in Executors : xpc[y] \in Busy => cur[y] \in Tasks /\ tstate'[cur[y]] = tstate[cur[y]]
        <5>1. \A y \in Executors : xpc[y] \in Busy => cur[y] \in Tasks /\ cur[y] # t
          BY Zenon, <3>1 DEF RunInv, Busy
        <5> QED BY Zenon, <2>1, <5>1 DEF TaskType
      <4>5. {"body", "posted", "unregister", "uncount"} \subseteq Busy /\ "poll" \notin Busy
        BY Zenon DEF Busy
      <4>6. RunInv'
        <5>1. \A y \in Executors : xpc'[y] \notin Busy => xpc[y] \notin Busy
          BY Zenon, <4>1, <4>5
        <5>2. /\ \A y \in Executors : xpc'[y] \in {"body", "posted"} => tstate'[cur[y]] = "Running"
              /\ \A y \in Executors : xpc'[y] \in {"unregister", "uncount"} => tstate'[cur[y]] = "Done"
          <6>1. ASSUME NEW y \in Executors, xpc'[y] \in Busy
                PROVE  xpc[y] = xpc'[y] /\ tstate'[cur[y]] = tstate[cur[y]]
            BY Zenon, <4>3, <4>4, <6>1
          <6>2. \A y \in Executors : xpc'[y] \in {"body", "posted"} => tstate'[cur[y]] = "Running"
            BY Zenon, <4>5, <6>1 DEF RunInv
          <6>3. \A y \in Executors : xpc'[y] \in {"unregister", "uncount"} => tstate'[cur[y]] = "Done"
            BY Zenon, <4>5, <6>1 DEF RunInv
          <6> QED BY Zenon, <6>2, <6>3
        <5>3. /\ \A y \in Executors : xpc'[y] \in Busy => cur[y] \in Tasks
              /\ \A y \in Executors : xpc'[y] \notin Busy => cur[y] = NoTask
          BY Zenon, <4>3, <5>1 DEF RunInv
        <5>4. \A y, z \in Executors : xpc'[y] \in Busy /\ xpc'[z] \in Busy /\ cur[y] = cur[z] => y = z
          BY Zenon, <4>3 DEF RunInv
        <5> QED BY Zenon, <4>1, <5>2, <5>3, <5>4 DEF RunInv
      <4> QED BY Zenon, <4>2, <4>6
    <3>6. /\ tstate'[t] = "Queued" /\ \A u \in Tasks : u # t => tstate'[u] = tstate[u]
          /\ \A y \in Executors : xpc'[y] \in Busy <=> xpc[y] \in Busy
          /\ UNCHANGED <<registry, accepted, cur, ppc, ptask, deploy>>
      BY Zenon, <1>1, <1>8, <2>1, <3>1 DEF PollCompletes, TaskType, Busy
    <3>7. registry \subseteq Tasks /\ accepted \subseteq Tasks
      BY Zenon DEF TaskType
    <3>8. RegistryInv'
      BY <1>2, <3>1, <3>6, <3>7 DEF RegistryInv
    <3> QED BY Zenon, <3>2, <3>3, <3>4, <3>5, <3>8
  <2> QED BY Zenon, <1>8, <2>0, <2>1 DEF PollCompletes
<1> QED BY Zenon, <1>3, <1>4, <1>5, <1>6, <1>7, <1>8

\* Each step of an executor keeps the tasks' invariant.
LEMMA RunTasks ==
    ASSUME LifeInv, TaskInv, NEW x \in Executors, RunLoop(x)
    PROVE  TaskInv'
<1> USE DEF LifeInv, TaskInv, runtime, counts, tasks, posts, controls, waits, rest, XGo
<1>0. (Down => registry = {}) /\ DOMAIN xpc = Executors /\ x \in Callers
  BY Zenon DEF RegistryInv, LType, Callers
<1>1. CASE CheckStop(x) \/ PollNothing(x) \/ CallbackReturns(x)
  BY Zenon, <1>0, <1>1, SameDown, TasksFrame DEF CheckStop, PollNothing, CallbackReturns, Busy
<1>2. CASE NotifyIdle(x)
  <2>1. (Clearing' <=> Clearing) /\ (Down' <=> Down)
    BY Zenon, <1>2, UnparkDown DEF NotifyIdle, Unpark, LType
  <2> QED BY Zenon, <1>0, <1>2, <2>1, TasksFrame DEF NotifyIdle, Busy
<1>3. CASE TaskPost(x) \/ PollCallback(x)
  BY Zenon, <1>0, <1>3, BeginTasks DEF TaskPost, PollCallback
<1> QED BY Zenon, <1>1, <1>2, <1>3, RunTaskStep DEF RunLoop

\* Each step of init() and shutdown() keeps the tasks' invariant.
LEMMA ControlTasks ==
    ASSUME LifeInv, TaskInv, NEW k \in Controllers,
           InitCas(k) \/ ShutdownCas(k) \/ ContinueControl(k)
    PROVE  TaskInv'
<1> USE DEF LifeInv, TaskInv, runtime, counts, tasks, executors, posts, controls, waits, rest,
   CGo, WaitForTasks
<1>0. /\ Down => registry = {}
      /\ DOMAIN xpc = Executors /\ DOMAIN cpc = Controllers /\ ci[k] \in Executors
      /\ \A j \in Controllers : cpc[k] # "idle" /\ j # k => cpc[j] = "idle"
  BY Zenon DEF RegistryInv, LType, OneControl
<1>1. CASE InitCas(k) \/ ShutdownCas(k)
  BY Zenon, <1>0, <1>1, TasksFrame DEF InitCas, ShutdownCas, Clearing, Down
<1>2. CASE InitPublish(k) \/ WaitPosts(k) \/ LoadIdle(k) \/ WaitIdle(k) \/ PublishStopped(k)
  BY Zenon, <1>0, <1>2, TasksFrame DEF InitPublish, WaitPosts, LoadIdle, WaitIdle, PublishStopped,
     Clearing, Down
<1>3. CASE LoadPosts(k) \/ RequestStop(k)
  BY Zenon, <1>0, <1>3, TasksFrame DEF LoadPosts, RequestStop, Advance, Clearing, Down
<1>4. CASE InitStart(k)
  <2>1. \A x \in Executors : xpc[x] = "none" /\ xpc'[x] = "loop"
    BY Zenon, <1>4 DEF InitStart, JoinInv
  <2> QED BY Zenon, <1>0, <1>4, <2>1, TasksFrame DEF InitStart, Busy, Clearing, Down
<1>5. CASE Join(k)
  <2>1. \A x \in Executors : xpc'[x] = xpc[x] \/ (xpc[x] = "exited" /\ xpc'[x] = "none")
    BY Zenon, <1>0, <1>5 DEF Join, XGo
  <2> QED BY Zenon, <1>0, <1>5, <2>1, TasksFrame DEF Join, Advance, Busy, Clearing, Down
<1>6. CASE InitBuild(k)
  <2>0. /\ \A x \in Executors : xpc[x] = "none"
        /\ \A c \in Callers : ppc[c] \notin Admitted
        /\ registry = {} /\ ~Clearing /\ ~Clearing'
    BY Zenon, <1>0, <1>6, DownIsQuiet DEF InitBuild, Down, Clearing
  <2>1. TaskType' /\ QueueInv'
    BY Zenon, <1>6, <2>0 DEF InitBuild, TaskType, QueueInv
  <2>2. PostInv'
    BY Zenon, <1>6, <2>0 DEF InitBuild, PostInv
  <2>3. RunInv' /\ PolicyInv'
    BY Zenon, <1>6, <2>0 DEF InitBuild, RunInv, PolicyInv
  <2>4. RegistryInv'
    BY Zenon, <1>6, <2>0 DEF InitBuild, RegistryInv
  <2> QED BY Zenon, <2>1, <2>2, <2>3, <2>4
<1>7. CASE CancelTasks(k)
  <2>0. /\ \A x \in Executors : xpc[x] = "none"
        /\ \A c \in Callers : ppc[c] \notin Admitted
        /\ Clearing'
    BY Zenon, <1>0, <1>7, DownIsQuiet DEF CancelTasks, Clearing
  <2>1. /\ \A t \in Tasks :
              tstate'[t] = tstate[t] \/ (tstate'[t] = "Done" /\ tstate[t] # "Created")
        /\ ~WaitForTasks => \A t \in registry : tstate'[t] = "Done"
    BY Zenon, <1>7, <2>0 DEF CancelTasks, Cancelled, RegistryInv, TaskType, Busy
  <2>2. TaskType'
    BY Zenon, <1>7 DEF CancelTasks, Cancelled, TaskType, TState
  <2>3. PostInv'
    <3>1. PostInv /\ UNCHANGED <<ppc, ptask, accepted, queue>>
      BY Zenon, <1>7 DEF CancelTasks, posts, rest
    <3>2. \A c \in Callers : ppc[c] \in Before \cup Owning => ppc[c] \in Before /\ ptask[c] \in Tasks
      BY Zenon, <2>0 DEF PostInv, Before, Owning, Admitted
    <3>3. \A c \in Callers : ppc[c] \in Before \cup Owning => tstate'[ptask[c]] = tstate[ptask[c]]
      <4> SUFFICES ASSUME NEW c \in Callers, ppc[c] \in Before \cup Owning
                   PROVE  tstate'[ptask[c]] = tstate[ptask[c]]
        BY Zenon
      <4>1. ptask[c] \in Tasks /\ tstate[ptask[c]] = "Created"
        BY Zenon, <3>2 DEF PostInv
      <4> QED BY Zenon, <2>1, <4>1
    <3>4. \A t \in accepted : tstate'[t] # "Created"
      BY Zenon, <2>1 DEF PostInv, TaskType
    <3> QED BY Zenon, <3>1, <3>3, <3>4, PostStays DEF PostInv
  <2>4. QueueInv' /\ RunInv' /\ PolicyInv'
    BY Zenon, <1>7, <2>0 DEF CancelTasks, QueueInv, RunInv, PolicyInv, Busy
  <2>5. RegistryInv'
    <3>1. registry' = {} /\ UNCHANGED <<accepted, ppc, ptask, deploy>>
      BY Zenon, <1>7 DEF CancelTasks
    <3>2. \A c \in Callers : ppc[c] \notin {"enqueue", "unregister"}
      BY Zenon, <2>0 DEF Admitted
    <3>3. ~WaitForTasks => \A t \in accepted : tstate'[t] = "Done"
      BY Zenon, <2>1 DEF RegistryInv, TaskType
    <3> QED BY Zenon, <3>1, <3>2, <3>3 DEF RegistryInv
  <2> QED BY Zenon, <2>2, <2>3, <2>4, <2>5
<1>8. CASE Clear(k)
  <2>0. /\ \A x \in Executors : xpc[x] = "none"
        /\ \A c \in Callers : ppc[c] \notin Admitted
        /\ registry = {}
    BY Zenon, <1>0, <1>8, DownIsQuiet DEF Clear, Down, Clearing
  <2>1. TaskType' /\ QueueInv'
    BY Zenon, <1>8 DEF Clear, TaskType, QueueInv
  <2>2. PostInv'
    BY Zenon, <1>8 DEF Clear, PostInv
  <2>3. RunInv' /\ PolicyInv'
    BY Zenon, <1>8 DEF Clear, RunInv, PolicyInv
  <2>4. RegistryInv'
    BY Zenon, <1>8, <2>0 DEF Clear, RegistryInv
  <2> QED BY Zenon, <2>1, <2>2, <2>3, <2>4
<1> QED BY Zenon, <1>1, <1>2, <1>3, <1>4, <1>5, <1>6, <1>7, <1>8 DEF ContinueControl

\* The tasks' invariant is inductive.
LEMMA TaskStep ==
    ASSUME LifeInv, TaskInv, [Next]_vars
    PROVE  TaskInv'
<1> USE DEF runtime, counts, tasks, executors, posts, controls, waits, rest
<1>0. Down => registry = {}
  BY Zenon DEF TaskInv, RegistryInv
<1>1. CASE UNCHANGED vars
  BY Zenon, <1>0, <1>1, SameDown, TasksFrame DEF vars
<1>2. ASSUME NEW k \in Controllers, InitCas(k) \/ ShutdownCas(k) \/ ContinueControl(k)
      PROVE  TaskInv'
  BY Zenon, <1>2, ControlTasks
<1>3. ASSUME NEW p \in Posters, ExternalPost(p) PROVE TaskInv'
  BY Zenon, <1>3, BeginTasks DEF ExternalPost, Callers
<1>4. ASSUME NEW c \in Callers, ContinuePost(c) PROVE TaskInv'
  BY Zenon, <1>4, PostTasks
<1>5. ASSUME NEW x \in Executors, RunLoop(x) PROVE TaskInv'
  BY Zenon, <1>5, RunTasks
<1>6. ASSUME NEW t \in Tasks, EventArrives(t) PROVE TaskInv'
  <2>1. (Clearing' <=> Clearing) /\ (Down' <=> Down)
    BY Zenon, <1>6, SameDown DEF EventArrives
  <2>2. TaskType' /\ PostInv' /\ QueueInv'
    BY Zenon, <1>6, <2>1 DEF EventArrives, TaskInv, TaskType, PostInv, QueueInv
  <2>3. RunInv' /\ PolicyInv' /\ RegistryInv'
    BY Zenon, <1>6, <2>1 DEF EventArrives, TaskInv, RunInv, PolicyInv, RegistryInv, WaitForTasks
  <2> QED BY Zenon, <2>2, <2>3 DEF TaskInv
<1> QED BY Zenon, <1>1, <1>2, <1>3, <1>4, <1>5, <1>6 DEF Next

\* For any number of controllers, posting threads, executors, tasks and calls of
\* init(): when shutdown() cancels the registered tasks, each of them waits or is
\* queued, no thread runs or posts one, and no executor has a task: the assertion
\* of cancel_registered_task.
THEOREM CancelsQuietTasksThm ==
    ASSUME IsFiniteSet(Posters) PROVE Spec => []CancelsQuietTasks
<1>1. LifeInv /\ TaskInv => CancelsQuietTasks
  BY Zenon, DownIsQuiet DEF TaskInv, RegistryInv, RunInv, CancelsQuietTasks, Busy
<1>2. LifeInv /\ TaskInv /\ [Next]_vars => LifeInv' /\ TaskInv'
  BY Zenon, LifeStep, TaskStep
<1> QED BY <1>1, <1>2, InitLife, InitTasks, PTL DEF Spec

-----------------------------------------------------------------------------
(* unfinished_tasks_ under WaitForTasks.                                     *)

\* The tasks the counter counts: from on_task_started to on_task_finished.
InFlight ==
    {t \in Tasks : \/ \E c \in Callers : ppc[c] \in {"enqueue", "uncount"} /\ ptask[c] = t
                   \/ \E x \in Executors : t \in queue[x]
                   \/ \E x \in Executors : xpc[x] \in Busy /\ cur[x] = t
                   \/ tstate[t] = "Pending"}

\* wait_for_idle has seen zero, and the runtime has not been started again.
Drained == Down \/ \E k \in Controllers : cpc[k] \in {"stop", "join", "cancel"}

IdleInv ==
    /\ deploy \in Deployments
    /\ WaitForTasks => /\ unfinished = Cardinality(InFlight)
                       /\ \A t \in accepted : t \in InFlight \/ tstate[t] = "Done"
                       /\ Drained => InFlight = {}
                       /\ \A x \in Executors : xpc[x] # "callback"

\* Under WaitForTasks no callback of a net channel posts.
TasksOnly == \A d \in Deployments : d.wait => ~d.callbacks

\* Before the first init() nothing is counted.
LEMMA InitIdle == Init => IdleInv
<1> SUFFICES ASSUME Init PROVE IdleInv
  BY Zenon
<1>1. InFlight = {}
  BY Zenon DEF Init, InFlight, Busy
<1>2. Cardinality({}) = 0
  BY Zenon, FS_EmptySet
<1> QED BY Zenon, <1>1, <1>2 DEF Init, IdleInv

\* A step that counts and moves no task.
LEMMA IdleFrame ==
    ASSUME IdleInv, WaitForTasks,
           UNCHANGED <<unfinished, accepted, deploy>>, InFlight' = InFlight,
           \A t \in accepted : tstate[t] = "Done" => tstate'[t] = "Done",
           Drained' => InFlight = {},
           \A x \in Executors : xpc'[x] = xpc[x] \/ xpc'[x] # "callback"
    PROVE  IdleInv'
  BY Zenon DEF IdleInv, WaitForTasks

\* Nobody counts a task once the counter was seen at zero: a post that is inside
\* is that of a running task, which is counted itself.
LEMMA NoPostDrained ==
    ASSUME LifeInv, TaskInv, IdleInv, WaitForTasks, NEW c \in Callers, ppc[c] \in Admitted
    PROVE  ~Drained
<1> SUFFICES ASSUME Drained PROVE FALSE
  BY Zenon
<1>1. ~Down
  BY Zenon, DownIsQuiet
<1>2. PICK k \in Controllers : cpc[k] \in {"stop", "join", "cancel"}
  BY Zenon, <1>1 DEF Drained
<1>3. c \notin Posters
  BY Zenon, <1>2 DEF LifeInv, PostersIn, Deep, PastPc
<1>4. c \in Executors /\ xpc[c] = "posted"
  BY Zenon, <1>3 DEF Callers, LifeInv, ExecutorsIn, Admitted, IdleInv
<1>5. cur[c] \in InFlight
  BY Zenon, <1>4 DEF InFlight, TaskInv, RunInv, Busy
<1> QED BY Zenon, <1>5 DEF IdleInv

\* Each step of post() keeps the counter right.
LEMMA PostIdle ==
    ASSUME IsFiniteSet(Tasks), LifeInv, TaskInv, IdleInv, WaitForTasks, NEW c \in Callers,
           ContinuePost(c)
    PROVE  IdleInv'
<1> USE DEF runtime, counts, tasks, executors, posts, controls, waits, rest, PGo, PostReturn
<1>0. /\ DOMAIN ppc = Callers /\ DOMAIN ptask = Callers /\ ptarget[c] \in Executors
      /\ tstate \in [Tasks -> TState] /\ queue \in [Executors -> SUBSET Tasks]
      /\ accepted \subseteq Tasks /\ (Drained => InFlight = {})
  BY Zenon DEF LifeInv, LType, TaskInv, TaskType, IdleInv
<1>a. IsFiniteSet(InFlight)
  BY Zenon, FS_Subset DEF InFlight
<1>b. UNCHANGED <<status, cpc>> => (Drained' <=> Drained)
  BY Zenon DEF Drained, Down
<1>1. CASE LoadStatus(c) \/ EnterPost(c) \/ RecheckStatus(c) \/ RecheckGeneration(c)
           \/ LeavePost(c)
  <2>1. /\ ppc[c] \notin {"enqueue", "uncount"} /\ ppc'[c] \notin {"enqueue", "uncount"}
        /\ \A d \in Callers : d # c => ppc'[d] = ppc[d] /\ ptask'[d] = ptask[d]
        /\ UNCHANGED <<tstate, queue, cur, xpc, unfinished, accepted, deploy, status, cpc>>
    BY Zenon, <1>0, <1>1 DEF LoadStatus, EnterPost, RecheckStatus, RecheckGeneration, LeavePost
  <2>2. InFlight' = InFlight
    BY Zenon, <2>1 DEF InFlight
  <2> QED BY Zenon, <1>0, <1>b, <2>1, <2>2, IdleFrame
<1>2. CASE RequestSchedule(c)
  <2>1. /\ ptask[c] \in Tasks /\ tstate[ptask[c]] = "Created" /\ ppc[c] = "schedule"
        /\ ppc'[c] = "count"
    BY Zenon, <1>0, <1>2 DEF RequestSchedule, TaskInv, PostInv, Before
  <2>2. InFlight' = InFlight
    BY Zenon, <1>0, <1>2, <2>1 DEF RequestSchedule, InFlight
  <2> QED BY Zenon, <1>0, <1>2, <1>b, <2>1, <2>2, IdleFrame DEF RequestSchedule
<1>3. CASE CountTask(c)
  <2>1. /\ ptask[c] \in Tasks /\ tstate[ptask[c]] = "Queued" /\ ppc[c] = "count"
        /\ \A d \in Callers : ppc[d] # "idle" /\ ptask[d] = ptask[c] => d = c
        /\ \A x \in Executors : ptask[c] \notin queue[x]
    BY Zenon, <1>3 DEF CountTask, TaskInv, PostInv, Owning
  <2>2. \A x \in Executors : xpc[x] \in Busy => cur[x] # ptask[c]
    BY Zenon, <2>1 DEF TaskInv, RunInv, Busy
  <2>3. ptask[c] \notin InFlight
    BY Zenon, <2>1, <2>2 DEF InFlight
  <2>4. InFlight' = InFlight \cup {ptask[c]}
    BY Zenon, <1>0, <1>3, <2>1 DEF CountTask, InFlight
  <2>5. Cardinality(InFlight') = Cardinality(InFlight) + 1
    BY Zenon, <1>a, <2>3, <2>4, FS_AddElement
  <2>6. ~Drained /\ ~Drained'
    BY Zenon, <1>3, <1>b, <2>1, NoPostDrained DEF CountTask, Admitted
  <2> QED BY Zenon, <1>3, <2>4, <2>5, <2>6 DEF CountTask, IdleInv, WaitForTasks
<1>4. CASE Enqueue(c)
  <2>1. ptask[c] \in InFlight /\ ppc[c] = "enqueue" /\ ptask[c] \in Tasks
    BY Zenon, <1>4 DEF Enqueue, InFlight, TaskInv, PostInv
  <2>2. CASE UNCHANGED <<queue, accepted>> /\ PGo(c, "uncount")
    <3>1. InFlight' = InFlight
      BY Zenon, <1>0, <1>4, <2>1, <2>2 DEF Enqueue, InFlight
    <3> QED BY Zenon, <1>0, <1>4, <1>b, <2>2, <3>1, IdleFrame DEF Enqueue
  <2>3. CASE /\ queue' = [queue EXCEPT ![ptarget[c]] = @ \cup {ptask[c]}]
             /\ accepted' = accepted \cup {ptask[c]}
             /\ (IF c \in Executors THEN PostReturn(c) ELSE PGo(c, "leave"))
    <3>1. /\ ppc'[c] \in {"idle", "leave"}
          /\ \A d \in Callers : d # c => ppc'[d] = ppc[d] /\ ptask'[d] = ptask[d]
      BY Zenon, <1>0, <2>3
    <3>2. InFlight' = InFlight
      <4>1. /\ UNCHANGED <<tstate, xpc, cur>> /\ ptarget[c] \in Executors
            /\ \A y \in Executors :
                  queue'[y] = IF y = ptarget[c] THEN queue[y] \cup {ptask[c]} ELSE queue[y]
        BY Zenon, <1>0, <1>4, <2>3 DEF Enqueue, LifeInv, LType
      <4>2. ptask[c] \in InFlight'
        BY Zenon, <2>1, <4>1 DEF InFlight
      <4>3. ASSUME NEW t \in Tasks, t # ptask[c] PROVE t \in InFlight' <=> t \in InFlight
        <5>1. \A y \in Executors : t \in queue'[y] <=> t \in queue[y]
          BY Zenon, <4>1, <4>3
        <5>2. (\E d \in Callers : ppc'[d] \in {"enqueue", "uncount"} /\ ptask'[d] = t)
                <=> \E d \in Callers : ppc[d] \in {"enqueue", "uncount"} /\ ptask[d] = t
          BY Zenon, <3>1, <4>3
        <5> QED BY Zenon, <4>1, <5>1, <5>2 DEF InFlight
      <4>4. InFlight \subseteq Tasks /\ InFlight' \subseteq Tasks
        BY Zenon DEF InFlight
      <4>5. \A u \in Tasks : u \in InFlight' <=> u \in InFlight
        BY Zenon, <2>1, <4>2, <4>3
      <4> QED BY Zenon, <4>4, <4>5
    <3> QED BY Zenon, <1>4, <1>b, <2>1, <2>3, <3>2 DEF Enqueue, IdleInv, WaitForTasks
  <2> QED BY Zenon, <1>4, <2>2, <2>3 DEF Enqueue
<1>5. CASE UncountRefused(c)
  <2>1. /\ ptask[c] \in Tasks /\ tstate[ptask[c]] = "Queued" /\ ppc[c] = "uncount"
        /\ \A d \in Callers : ppc[d] # "idle" /\ ptask[d] = ptask[c] => d = c
        /\ \A x \in Executors : ptask[c] \notin queue[x]
        /\ ptask[c] \notin accepted
    BY Zenon, <1>5 DEF UncountRefused, TaskInv, PostInv, Owning
  <2>2. \A x \in Executors : xpc[x] \in Busy => cur[x] # ptask[c]
    BY Zenon, <2>1 DEF TaskInv, RunInv, Busy
  <2>3. ptask[c] \in InFlight
    BY Zenon, <2>1 DEF InFlight
  <2>4. InFlight' = InFlight \ {ptask[c]}
    <3>1. /\ UNCHANGED <<tstate, xpc, cur, queue, ptask>> /\ ppc'[c] \in {"notifyIdle", "cancel"}
          /\ \A d \in Callers : d # c => ppc'[d] = ppc[d]
      BY Zenon, <1>0, <1>5 DEF UncountRefused
    <3>2. ptask[c] \notin InFlight'
      BY Zenon, <2>1, <2>2, <3>1 DEF InFlight
    <3>3. ASSUME NEW t \in Tasks, t # ptask[c] PROVE t \in InFlight' <=> t \in InFlight
      <4>1. (\E d \in Callers : ppc'[d] \in {"enqueue", "uncount"} /\ ptask'[d] = t)
              <=> \E d \in Callers : ppc[d] \in {"enqueue", "uncount"} /\ ptask[d] = t
        BY Zenon, <3>1, <3>3
      <4> QED BY Zenon, <3>1, <4>1 DEF InFlight
    <3>4. InFlight \subseteq Tasks /\ InFlight' \subseteq Tasks
      BY Zenon DEF InFlight
    <3> QED BY Zenon, <3>2, <3>3, <3>4
  <2>5. Cardinality(InFlight') = Cardinality(InFlight) - 1
    BY Zenon, <1>a, <2>3, <2>4, FS_RemoveElement
  <2> QED BY Zenon, <1>5, <1>b, <2>1, <2>4, <2>5 DEF UncountRefused, IdleInv, WaitForTasks
<1>6. CASE NotifyRefused(c) \/ NotifyLeft(c)
  <2>1. Drained' <=> Drained
    BY Zenon, <1>6 DEF NotifyRefused, NotifyLeft, Unpark, Drained, Down
  <2>2. /\ ppc[c] \notin {"enqueue", "uncount"} /\ ppc'[c] \notin {"enqueue", "uncount"}
        /\ \A d \in Callers : d # c => ppc'[d] = ppc[d] /\ ptask'[d] = ptask[d]
        /\ UNCHANGED <<tstate, queue, cur, xpc, unfinished, accepted, deploy>>
    BY Zenon, <1>0, <1>6 DEF NotifyRefused, NotifyLeft
  <2>3. InFlight' = InFlight
    BY Zenon, <2>2 DEF InFlight
  <2> QED BY Zenon, <1>0, <2>1, <2>2, <2>3, IdleFrame
<1>7. CASE CancelSchedule(c)
  <2>1. ptask[c] \in Tasks /\ tstate[ptask[c]] = "Queued" /\ ppc[c] = "cancel"
    BY Zenon, <1>7 DEF CancelSchedule, TaskInv, PostInv, Owning
  <2>2. /\ ppc'[c] \in {"idle", "leave"}
        /\ \A d \in Callers : d # c => ppc'[d] = ppc[d] /\ ptask'[d] = ptask[d]
    BY Zenon, <1>0, <1>7 DEF CancelSchedule
  <2>3. InFlight' = InFlight
    <3>1. /\ UNCHANGED <<xpc, cur, queue>>
          /\ \A t \in Tasks : tstate'[t] = "Pending" <=> tstate[t] = "Pending"
      BY Zenon, <1>0, <1>7, <2>1 DEF CancelSchedule
    <3>2. \A d \in Callers :
            /\ (ppc'[d] \in {"enqueue", "uncount"} <=> ppc[d] \in {"enqueue", "uncount"})
            /\ (ppc'[d] \in {"enqueue", "uncount"} => ptask'[d] = ptask[d])
      BY Zenon, <2>1, <2>2
    <3>3. ASSUME NEW t \in Tasks PROVE t \in InFlight' <=> t \in InFlight
      <4>1. (\E d \in Callers : ppc'[d] \in {"enqueue", "uncount"} /\ ptask'[d] = t)
              <=> \E d \in Callers : ppc[d] \in {"enqueue", "uncount"} /\ ptask[d] = t
        BY Zenon, <3>2
      <4> QED BY Zenon, <3>1, <4>1 DEF InFlight
    <3>4. InFlight \subseteq Tasks /\ InFlight' \subseteq Tasks
      BY Zenon DEF InFlight
    <3> QED BY Zenon, <3>3, <3>4
  <2> QED BY Zenon, <1>0, <1>7, <1>b, <2>1, <2>3, IdleFrame DEF CancelSchedule
<1>8. ~RegisterTask(c) /\ ~UnregisterRefused(c)
  BY Zenon DEF RegisterTask, UnregisterRefused, TaskInv, PolicyInv
<1> QED BY Zenon, <1>1, <1>2, <1>3, <1>4, <1>5, <1>6, <1>7, <1>8 DEF ContinuePost

\* Each step of an executor keeps the counter right.
LEMMA RunIdle ==
    ASSUME IsFiniteSet(Tasks), TasksOnly, LifeInv, TaskInv, IdleInv, WaitForTasks,
           NEW x \in Executors, RunLoop(x)
    PROVE  IdleInv'
<1> USE DEF runtime, counts, tasks, posts, controls, waits, rest, XGo
<1>0. /\ DOMAIN xpc = Executors /\ DOMAIN cur = Executors /\ DOMAIN ppc = Callers
      /\ x \in Callers /\ DOMAIN ptask = Callers
      /\ tstate \in [Tasks -> TState] /\ queue \in [Executors -> SUBSET Tasks]
      /\ accepted \subseteq Tasks /\ events \subseteq Tasks /\ (Drained => InFlight = {})
  BY Zenon DEF LifeInv, LType, TaskInv, TaskType, IdleInv, Callers
<1>a. IsFiniteSet(InFlight)
  BY Zenon, FS_Subset DEF InFlight
<1>b. UNCHANGED <<status, cpc>> => (Drained' <=> Drained)
  BY Zenon DEF Drained, Down
<1>c. xpc[x] # "none" => ~Clearing
  BY Zenon, DownIsQuiet
<1>1. CASE PopTask(x)
  <2>1. CASE queue[x] = {} /\ XGo(x, "checkStop") /\ UNCHANGED <<queue, tstate, cur, didWork>>
    <3>1. InFlight' = InFlight
      BY Zenon, <1>0, <1>1, <2>1 DEF PopTask, InFlight, Busy
    <3> QED BY Zenon, <1>0, <1>1, <1>b, <2>1, <3>1, IdleFrame DEF PopTask
  <2>2. ASSUME NEW t \in queue[x], queue' = [queue EXCEPT ![x] = @ \ {t}],
               tstate' = [tstate EXCEPT ![t] = "Running"], cur' = [cur EXCEPT ![x] = t],
               XGo(x, "body")
        PROVE  IdleInv'
    <3>1. t \in Tasks /\ tstate[t] = "Queued" /\ xpc[x] \notin Busy /\ xpc'[x] = "body"
      BY Zenon, <1>0, <1>1, <1>c, <2>2 DEF PopTask, TaskInv, QueueInv, Busy
    <3>2. InFlight' = InFlight
      <4>1. /\ UNCHANGED <<ppc, ptask>> /\ \A u \in Tasks : u # t => tstate'[u] = tstate[u]
            /\ \A y \in Executors : queue'[y] = IF y = x THEN queue[y] \ {t} ELSE queue[y]
            /\ \A y \in Executors : y # x => xpc'[y] = xpc[y] /\ cur'[y] = cur[y]
            /\ cur'[x] = t
        BY Zenon, <1>0, <1>1, <2>2 DEF PopTask
      <4>2. t \in InFlight /\ t \in InFlight'
        BY Zenon, <2>2, <3>1, <4>1 DEF InFlight, Busy
      <4>3. ASSUME NEW u \in Tasks, u # t PROVE u \in InFlight' <=> u \in InFlight
        <5>1. \A y \in Executors : u \in queue'[y] <=> u \in queue[y]
          BY Zenon, <4>1, <4>3
        <5>2. \A y \in Executors : xpc'[y] \in Busy /\ cur'[y] = u <=> xpc[y] \in Busy /\ cur[y] = u
          BY Zenon, <3>1, <4>1, <4>3
        <5>3. tstate'[u] = tstate[u]
          BY Zenon, <4>1, <4>3
        <5> QED BY Zenon, <4>1, <5>1, <5>2, <5>3 DEF InFlight
      <4>4. InFlight \subseteq Tasks /\ InFlight' \subseteq Tasks
        BY Zenon DEF InFlight
      <4>5. \A u \in Tasks : u \in InFlight' <=> u \in InFlight
        BY Zenon, <4>2, <4>3
      <4> QED BY Zenon, <4>4, <4>5
    <3> QED BY Zenon, <1>0, <1>1, <1>b, <2>2, <3>1, <3>2, IdleFrame DEF PopTask
  <2> QED BY Zenon, <1>1, <2>1, <2>2 DEF PopTask
<1>2. CASE FinishPending(x)
  <2>1. cur[x] \in Tasks /\ tstate[cur[x]] = "Running" /\ xpc[x] \in Busy /\ xpc'[x] = "loop"
    BY Zenon, <1>0, <1>2 DEF FinishPending, TaskInv, RunInv, Busy
  <2>2. InFlight' = InFlight
    BY Zenon, <1>0, <1>2, <2>1 DEF FinishPending, InFlight, Busy
  <2> QED BY Zenon, <1>0, <1>2, <1>b, <2>1, <2>2, IdleFrame DEF FinishPending
<1>3. CASE FinishDone(x)
  <2>1. cur[x] \in Tasks /\ tstate[cur[x]] = "Running" /\ xpc[x] \in Busy /\ xpc'[x] = "uncount"
    BY Zenon, <1>0, <1>3 DEF FinishDone, TaskInv, RunInv, Busy
  <2>2. InFlight' = InFlight
    BY Zenon, <1>0, <1>3, <2>1 DEF FinishDone, InFlight, Busy
  <2> QED BY Zenon, <1>0, <1>3, <1>b, <2>1, <2>2, IdleFrame DEF FinishDone
<1>4. CASE UncountTask(x)
  <2>1. /\ cur[x] \in Tasks /\ tstate[cur[x]] = "Done" /\ xpc[x] \in Busy
        /\ xpc'[x] \in {"notifyIdle", "loop"}
        /\ \A y \in Executors : xpc[y] \in Busy /\ cur[y] = cur[x] => y = x
    BY Zenon, <1>0, <1>4 DEF UncountTask, TaskInv, RunInv, Busy
  <2>2. \A c \in Callers : ppc[c] \in {"enqueue", "uncount"} => ptask[c] # cur[x]
    BY Zenon, <2>1 DEF TaskInv, PostInv, Owning
  <2>3. \A y \in Executors : cur[x] \notin queue[y]
    BY Zenon, <1>4, <1>c, <2>1 DEF UncountTask, TaskInv, QueueInv
  <2>4. cur[x] \in InFlight
    BY Zenon, <2>1 DEF InFlight
  <2>5. InFlight' = InFlight \ {cur[x]}
    BY Zenon, <1>0, <1>4, <2>1, <2>2, <2>3 DEF UncountTask, InFlight, Busy
  <2>6. Cardinality(InFlight') = Cardinality(InFlight) - 1
    BY Zenon, <1>a, <2>4, <2>5, FS_RemoveElement
  <2>7. \A y \in Executors : xpc'[y] # "callback"
    BY Zenon, <1>0, <1>4 DEF UncountTask, IdleInv
  <2> QED BY Zenon, <1>4, <1>b, <2>1, <2>5, <2>6, <2>7 DEF UncountTask, IdleInv, WaitForTasks
<1>5. CASE NotifyIdle(x)
  <2>1. Drained' <=> Drained
    BY Zenon, <1>5 DEF NotifyIdle, Unpark, Drained, Down
  <2>2. InFlight' = InFlight
    BY Zenon, <1>0, <1>5 DEF NotifyIdle, InFlight, Busy
  <2> QED BY Zenon, <1>0, <1>5, <2>1, <2>2, IdleFrame DEF NotifyIdle
<1>6. CASE CheckStop(x) \/ PollNothing(x) \/ CallbackReturns(x)
  <2>1. /\ \A y \in Executors : xpc'[y] \in Busy <=> xpc[y] \in Busy
        /\ UNCHANGED <<tstate, queue, cur, ppc, ptask, unfinished, accepted, deploy, status, cpc>>
    BY Zenon, <1>0, <1>6 DEF CheckStop, PollNothing, CallbackReturns, Busy
  <2>2. InFlight' = InFlight
    BY Zenon, <2>1 DEF InFlight
  <2>3. \A y \in Executors : xpc'[y] = xpc[y] \/ xpc'[y] # "callback"
    BY Zenon, <1>0, <1>6 DEF CheckStop, PollNothing, CallbackReturns
  <2> QED BY Zenon, <1>0, <1>b, <2>1, <2>2, <2>3, IdleFrame
<1>7. CASE PollCompletes(x)
  <2>1. CASE UNCHANGED <<tstate, queue, events>>
    <3>1. InFlight' = InFlight
      BY Zenon, <1>0, <1>7, <2>1 DEF PollCompletes, InFlight, Busy
    <3> QED BY Zenon, <1>0, <1>7, <1>b, <2>1, <3>1, IdleFrame DEF PollCompletes
  <2>2. ASSUME NEW t \in events, tstate' = [tstate EXCEPT ![t] = "Queued"],
               queue' = [queue EXCEPT ![x] = @ \cup {t}]
        PROVE  IdleInv'
    <3>1. t \in Tasks /\ tstate[t] = "Pending"
      BY Zenon, <1>0, <1>7, <1>c, <2>2 DEF PollCompletes, TaskInv, QueueInv
    <3>2. InFlight' = InFlight
      BY Zenon, <1>0, <1>7, <2>2, <3>1 DEF PollCompletes, InFlight, Busy
    <3> QED BY Zenon, <1>0, <1>7, <1>b, <2>2, <3>1, <3>2, IdleFrame DEF PollCompletes
  <2> QED BY Zenon, <1>7, <2>1, <2>2 DEF PollCompletes
<1>8. CASE TaskPost(x)
  <2>1. ppc[x] = "idle" /\ ppc'[x] = "status" /\ xpc[x] = "body" /\ xpc'[x] = "posted"
    BY Zenon, <1>0, <1>8 DEF TaskPost, PostBegin
  <2>2. /\ \A d \in Callers : d # x => ppc'[d] = ppc[d] /\ ptask'[d] = ptask[d]
        /\ \A y \in Executors : y # x => xpc'[y] = xpc[y]
        /\ UNCHANGED <<tstate, queue, cur, unfinished, accepted, deploy, status, cpc>>
    BY Zenon, <1>0, <1>8 DEF TaskPost, PostBegin
  <2>3. InFlight' = InFlight
    BY Zenon, <2>1, <2>2 DEF InFlight, Busy
  <2> QED BY Zenon, <1>0, <1>b, <2>1, <2>2, <2>3, IdleFrame
<1>9. ~UnregisterTask(x) /\ ~PollCallback(x)
  BY Zenon DEF UnregisterTask, PollCallback, TaskInv, PolicyInv, IdleInv, TasksOnly, WaitForTasks,
     IoCallbacks
<1> QED BY Zenon, <1>1, <1>2, <1>3, <1>4, <1>5, <1>6, <1>7, <1>8, <1>9 DEF RunLoop

\* Each step of init() and shutdown() keeps the counter right.
LEMMA ControlIdle ==
    ASSUME IsFiniteSet(Tasks), LifeInv, TaskInv, IdleInv, WaitForTasks, NEW k \in Controllers,
           InitCas(k) \/ ShutdownCas(k) \/ ContinueControl(k)
    PROVE  IdleInv'
<1> USE DEF runtime, counts, tasks, executors, posts, controls, waits, rest, CGo
<1>0. /\ DOMAIN xpc = Executors /\ DOMAIN cpc = Controllers /\ ci[k] \in Executors
      /\ queue \in [Executors -> SUBSET Tasks] /\ tstate \in [Tasks -> TState]
      /\ (Drained => InFlight = {}) /\ accepted \subseteq Tasks
      /\ \A j \in Controllers : cpc[k] # "idle" /\ j # k => cpc[j] = "idle"
  BY Zenon DEF LifeInv, LType, OneControl, TaskInv, TaskType, IdleInv
<1>1. CASE InitCas(k) \/ ShutdownCas(k) \/ InitPublish(k) \/ WaitPosts(k) \/ WaitIdle(k)
           \/ PublishStopped(k)
  <2>1. UNCHANGED <<tstate, queue, cur, xpc, ppc, ptask, unfinished, accepted, deploy>>
    BY Zenon, <1>1 DEF InitCas, ShutdownCas, InitPublish, WaitPosts, WaitIdle, PublishStopped
  <2>2. InFlight' = InFlight
    BY Zenon, <2>1 DEF InFlight
  <2>3. Drained' => Drained
    BY Zenon, <1>0, <1>1 DEF InitCas, ShutdownCas, InitPublish, WaitPosts, WaitIdle, PublishStopped,
       Drained, Down
  <2> QED BY Zenon, <1>0, <2>1, <2>2, <2>3, IdleFrame
<1>2. CASE LoadPosts(k) \/ RequestStop(k)
  <2>1. UNCHANGED <<tstate, queue, cur, xpc, ppc, ptask, unfinished, accepted, deploy>>
    BY Zenon, <1>2 DEF LoadPosts, RequestStop
  <2>2. InFlight' = InFlight
    BY Zenon, <2>1 DEF InFlight
  <2>3. Drained' => Drained
    BY Zenon, <1>0, <1>2 DEF LoadPosts, RequestStop, Advance, Drained, Down
  <2> QED BY Zenon, <1>0, <2>1, <2>2, <2>3, IdleFrame
<1>3. CASE LoadIdle(k)
  <2>1. UNCHANGED <<tstate, queue, cur, xpc, ppc, ptask, unfinished, accepted, deploy>>
    BY Zenon, <1>3 DEF LoadIdle
  <2>2. InFlight' = InFlight
    BY Zenon, <2>1 DEF InFlight
  <2>3. IsFiniteSet(InFlight)
    BY Zenon, FS_Subset DEF InFlight
  <2>4. unfinished = 0 => InFlight = {}
    BY Zenon, <2>3, FS_EmptySet DEF IdleInv
  <2>5. unfinished # 0 => (Drained' => Drained)
    BY Zenon, <1>0, <1>3 DEF LoadIdle, Drained, Down
  <2> QED BY Zenon, <1>0, <2>1, <2>2, <2>4, <2>5, IdleFrame
<1>4. CASE InitStart(k) \/ Join(k)
  <2>1. /\ UNCHANGED <<tstate, queue, cur, ppc, ptask, unfinished, accepted, deploy, status>>
        /\ \A x \in Executors :
              xpc'[x] = xpc[x] \/ (xpc[x] \notin Busy /\ xpc'[x] \in {"loop", "none"})
    <3>1. CASE InitStart(k)
      <4>1. \A x \in Executors : xpc[x] = "none" /\ xpc'[x] = "loop"
        BY Zenon, <3>1 DEF InitStart, LifeInv, JoinInv
      <4> QED BY Zenon, <3>1, <4>1 DEF InitStart, Busy
    <3>2. CASE Join(k)
      <4>1. /\ xpc[ci[k]] = "exited" /\ xpc'[ci[k]] = "none"
            /\ \A x \in Executors : x # ci[k] => xpc'[x] = xpc[x]
        BY Zenon, <1>0, <3>2 DEF Join, XGo
      <4> QED BY Zenon, <3>2, <4>1 DEF Join, Busy
    <3> QED BY Zenon, <1>4, <3>1, <3>2
  <2>2. InFlight' = InFlight
    BY Zenon, <2>1 DEF InFlight, Busy
  <2>3. Drained' => Drained
    BY Zenon, <1>0, <1>4 DEF InitStart, Join, Advance, Drained, Down
  <2> QED BY Zenon, <1>0, <2>1, <2>2, <2>3, IdleFrame
<1>5. CASE InitBuild(k) \/ Clear(k)
  <2>1. InFlight = {}
    BY Zenon, <1>0, <1>5 DEF InitBuild, Clear, Drained, Down
  <2>2. /\ UNCHANGED <<tstate, cur, xpc, ppc, ptask, accepted, deploy>>
        /\ \A x \in Executors : queue'[x] = {}
        /\ unfinished' = unfinished \/ unfinished' = 0
    BY Zenon, <1>5 DEF InitBuild, Clear
  <2>3. InFlight' = {}
    BY Zenon, <2>1, <2>2 DEF InFlight
  <2>4. Cardinality({}) = 0
    BY Zenon, FS_EmptySet
  <2> QED BY Zenon, <2>1, <2>2, <2>3, <2>4 DEF IdleInv, WaitForTasks
<1>6. CASE CancelTasks(k)
  <2>1. /\ tstate' = tstate
        /\ UNCHANGED <<queue, cur, xpc, ppc, ptask, unfinished, accepted, deploy>>
    BY Zenon, <1>0, <1>6 DEF CancelTasks
  <2>2. InFlight' = InFlight
    BY Zenon, <2>1 DEF InFlight
  <2>3. Drained
    BY Zenon, <1>6 DEF CancelTasks, Drained
  <2> QED BY Zenon, <1>0, <2>1, <2>2, <2>3, IdleFrame
<1> QED BY Zenon, <1>1, <1>2, <1>3, <1>4, <1>5, <1>6 DEF ContinueControl

\* The invariant of unfinished_tasks_ is inductive.
LEMMA IdleStep ==
    ASSUME IsFiniteSet(Tasks), TasksOnly, LifeInv, TaskInv, IdleInv, [Next]_vars
    PROVE  IdleInv'
<1> USE DEF runtime, counts, tasks, executors, posts, controls, waits, rest
<1>1. UNCHANGED deploy
  BY Zenon DEF Next, vars, ContinueControl, ContinuePost, RunLoop, InitCas, ShutdownCas, InitBuild,
     InitStart, InitPublish, LoadPosts, WaitPosts, LoadIdle, WaitIdle, RequestStop, Join,
     CancelTasks, Clear, PublishStopped, ExternalPost, PostBegin, LoadStatus, EnterPost,
     RecheckStatus, RecheckGeneration, RequestSchedule, RegisterTask, CountTask, Enqueue,
     UnregisterRefused, UncountRefused, NotifyRefused, CancelSchedule, LeavePost, NotifyLeft,
     PopTask, TaskPost, FinishPending, FinishDone, UnregisterTask, UncountTask, NotifyIdle,
     CheckStop, PollNothing, PollCompletes, PollCallback, CallbackReturns, EventArrives
<1>2. CASE ~WaitForTasks
  BY Zenon, <1>1, <1>2 DEF IdleInv, WaitForTasks
<1>3. CASE WaitForTasks
  <2>0. Drained => InFlight = {}
    BY Zenon, <1>3 DEF IdleInv
  <2>1. CASE UNCHANGED vars
    <3>1. InFlight' = InFlight /\ (Drained' <=> Drained)
      BY Zenon, <2>1 DEF vars, InFlight, Drained, Down
    <3> QED BY Zenon, <1>3, <2>0, <2>1, <3>1, IdleFrame DEF vars
  <2>2. ASSUME NEW k \in Controllers, InitCas(k) \/ ShutdownCas(k) \/ ContinueControl(k)
        PROVE  IdleInv'
    BY Zenon, <1>3, <2>2, ControlIdle
  <2>3. ASSUME NEW p \in Posters, ExternalPost(p) PROVE IdleInv'
    <3>1. /\ p \in Callers /\ ppc[p] = "idle" /\ ppc'[p] = "status"
          /\ \A d \in Callers : d # p => ppc'[d] = ppc[d] /\ ptask'[d] = ptask[d]
          /\ UNCHANGED <<tstate, queue, cur, xpc, unfinished, accepted, deploy, status, cpc>>
      BY Zenon, <2>3 DEF ExternalPost, PostBegin, Callers, LifeInv, LType, TaskInv, TaskType
    <3>2. InFlight' = InFlight /\ (Drained' <=> Drained)
      BY Zenon, <3>1 DEF InFlight, Drained, Down
    <3> QED BY Zenon, <1>3, <2>0, <3>1, <3>2, IdleFrame
  <2>4. ASSUME NEW c \in Callers, ContinuePost(c) PROVE IdleInv'
    BY Zenon, <1>3, <2>4, PostIdle
  <2>5. ASSUME NEW x \in Executors, RunLoop(x) PROVE IdleInv'
    BY Zenon, <1>3, <2>5, RunIdle
  <2>6. ASSUME NEW t \in Tasks, EventArrives(t) PROVE IdleInv'
    <3>1. UNCHANGED <<tstate, queue, cur, xpc, ppc, ptask, unfinished, accepted, deploy, status,
                      cpc>>
      BY Zenon, <2>6 DEF EventArrives
    <3>2. InFlight' = InFlight /\ (Drained' <=> Drained)
      BY Zenon, <3>1 DEF InFlight, Drained, Down
    <3> QED BY Zenon, <1>3, <2>0, <3>1, <3>2, IdleFrame
  <2> QED BY Zenon, <2>1, <2>2, <2>3, <2>4, <2>5, <2>6 DEF Next
<1> QED BY Zenon, <1>2, <1>3

\* For any number of controllers, posting threads, executors, tasks and calls of
\* init(), under either shutdown policy, when no callback of a net channel posts
\* under WaitForTasks: once the runtime is stopped, every task whose post returned
\* true has finished or was cancelled by shutdown().
THEOREM AcceptedSettleThm ==
    ASSUME IsFiniteSet(Posters), IsFiniteSet(Tasks), TasksOnly PROVE Spec => []AcceptedSettle
<1>1. LifeInv /\ TaskInv /\ IdleInv => AcceptedSettle
  BY Zenon DEF TaskInv, RegistryInv, IdleInv, AcceptedSettle, Drained, Down
<1>2. LifeInv /\ TaskInv /\ IdleInv /\ [Next]_vars => LifeInv' /\ TaskInv' /\ IdleInv'
  BY Zenon, LifeStep, TaskStep, IdleStep
<1> QED BY <1>1, <1>2, InitLife, InitTasks, InitIdle, PTL DEF Spec
=============================================================================
