------------------------- MODULE ExecutorLoopProofs -------------------------
(* Proofs about ExecutorLoop, for any number of pushing threads and pushes. *)
EXTENDS ExecutorLoop, SequenceTheorems, TLAPS

LoopType ==
    /\ deploy \in Deployments
    /\ local \in Nat /\ spsc \in [Sources -> Nat]
    /\ mpsc \in Seq([by : Externals, published : BOOLEAN])
    /\ wakeEpoch \in 0..EpochSpan - 1
    /\ readyBits \subseteq Sources
    /\ pc \in PopPc \cup LoopPc /\ frame \in Frame
    /\ pc \in {"clear", "repop", "remark"} => frame.src \in Sources
    /\ ppc \in [Threads -> PushPc]

\* The epoch wraps.
LEMMA EpochWraps == \A n \in Nat : (n + 1) % EpochSpan \in 0..EpochSpan - 1
  BY LoopParameters

\* A bumped epoch stays in range.
LEMMA EpochBumped ==
    ASSUME wakeEpoch \in 0..EpochSpan - 1, BumpEpoch
    PROVE  wakeEpoch' \in 0..EpochSpan - 1
<1>1. wakeEpoch \in Nat
  BY LoopParameters
<1> QED BY Zenon, <1>1, EpochWraps DEF BumpEpoch

\* The program points the executor gives its frame.
LEMMA FrameType ==
    ASSUME LoopType
    PROVE  /\ PopDone \in Frame
           /\ \A m \in SUBSET Sources : [frame EXCEPT !.mask = m] \in Frame
           /\ \A s \in Sources : [frame EXCEPT !.src = s] \in Frame
           /\ \A m \in SUBSET Sources, s \in Sources :
                 [frame EXCEPT !.mask = m, !.src = s] \in Frame
           /\ [frame EXCEPT !.sleepy = TRUE] \in Frame
           /\ [frame EXCEPT !.didWork = TRUE] \in Frame
           /\ \A e \in 0..EpochSpan - 1 : [frame EXCEPT !.observed = e] \in Frame
           /\ [frame EXCEPT !.sleepy = FALSE, !.didWork = FALSE, !.observed = 0] \in Frame
<1> USE LoopParameters DEF LoopType, Frame
<1>1. PopDone \in Frame
  BY Zenon DEF PopDone
<1>2. \A m \in SUBSET Sources : [frame EXCEPT !.mask = m] \in Frame
  BY Zenon
<1>3. \A s \in Sources : [frame EXCEPT !.src = s] \in Frame
  BY Zenon
<1>4. \A m \in SUBSET Sources, s \in Sources : [frame EXCEPT !.mask = m, !.src = s] \in Frame
  BY Zenon
<1>5. [frame EXCEPT !.sleepy = TRUE] \in Frame /\ [frame EXCEPT !.didWork = TRUE] \in Frame
  BY Zenon
<1>6. \A e \in 0..EpochSpan - 1 : [frame EXCEPT !.observed = e] \in Frame
  BY Zenon
<1>7. [frame EXCEPT !.sleepy = FALSE, !.didWork = FALSE, !.observed = 0] \in Frame
  <2>1. 0 \in 0..EpochSpan - 1
    OBVIOUS
  <2> QED BY Zenon, <2>1
<1> QED BY Zenon, <1>1, <1>2, <1>3, <1>4, <1>5, <1>6, <1>7

\* The executor starts with empty queues.
LEMMA InitLoopType == Init => LoopType
  BY LoopParameters DEF Init, LoopType, Frame, Threads, Producers, PopPc, LoopPc, PushPc

QueueType ==
    /\ local \in Nat /\ spsc \in [Sources -> Nat]
    /\ mpsc \in Seq([by : Externals, published : BOOLEAN])

ExecType ==
    /\ pc \in PopPc \cup LoopPc /\ frame \in Frame
    /\ pc \in {"clear", "repop", "remark"} => frame.src \in Sources

\* A pop leaves well-typed queues.
LEMMA PopType ==
    ASSUME LoopType
    PROVE  /\ \A s \in Sources : PopSpsc(s) => QueueType'
           /\ PopMpsc => QueueType'
<1>1. ASSUME NEW s \in Sources, PopSpsc(s) PROVE QueueType'
  <2>1. spsc[s] - 1 \in Nat
    BY <1>1 DEF PopSpsc, LoopType
  <2> QED BY Zenon, <1>1, <2>1 DEF PopSpsc, LoopType, QueueType
<1>2. ASSUME PopMpsc PROVE QueueType'
  <2>1. mpsc # <<>> => Tail(mpsc) \in Seq([by : Externals, published : BOOLEAN])
    BY DEF LoopType
  <2> QED BY Zenon, <1>2, <2>1 DEF PopMpsc, HeadPublished, LoopType, QueueType
<1> QED BY Zenon, <1>1, <1>2

\* Every step of run_loop() keeps the types.
LEMMA LoopTypeStep ==
    ASSUME LoopType, run_loop \/ IoEvent \/ Flush
    PROVE  LoopType'
<1> DEFINE Rest == UNCHANGED <<deploy, wakeEpoch, ppc>>
<1> USE DEF queues, flags, wake, exec, others, rest
<1>1. CASE PopLocal
  <2>1. QueueType'
    BY <1>1 DEF PopLocal, LoopType, QueueType
  <2>2. ExecType'
    BY Zenon, <1>1, FrameType
       DEF PopLocal, LoopType, ExecType, Go, GoWith, LoopTop, Found, NotFound, PopPc, LoopPc
  <2>3. readyBits' \subseteq Sources /\ Rest
    BY Zenon, <1>1 DEF PopLocal, LoopType
  <2> QED BY Zenon, <2>1, <2>2, <2>3 DEF LoopType, QueueType, ExecType
<1>2. CASE PopReady
  <2>0. frame.mask \subseteq Sources
    BY Zenon DEF LoopType, Frame
  <2>1. QueueType'
    BY Zenon, <1>2, <2>0, PopType DEF PopReady, LoopType, QueueType
  <2>2. ExecType'
    <3>1. ASSUME NEW s \in frame.mask, GoWith("clear", [frame EXCEPT !.mask = @ \ {s},
       !.src = s]) PROVE ExecType'
      <4>1. frame'.src = s /\ frame' \in Frame
        BY <2>0, <3>1, FrameType DEF GoWith, LoopType, Frame
      <4> QED BY Zenon, <2>0, <3>1, <4>1 DEF GoWith, ExecType, PopPc
    <3>2. ASSUME Found \/ GoWith("fallback", [frame EXCEPT !.mask = Sources]) PROVE ExecType'
      BY Zenon, <3>2, FrameType DEF Found, GoWith, ExecType, PopPc, LoopPc
    <3> QED BY Zenon, <1>2, <3>1, <3>2 DEF PopReady
  <2>3. readyBits' \subseteq Sources /\ Rest
    BY Zenon, <1>2 DEF PopReady, LoopType
  <2> QED BY Zenon, <2>1, <2>2, <2>3 DEF LoopType, QueueType, ExecType
<1>3. CASE ClearReady
  <2>1. QueueType'
    BY Zenon, <1>3 DEF ClearReady, LoopType, QueueType
  <2>2. ExecType'
    BY Zenon, <1>3, FrameType
       DEF ClearReady, LoopType, ExecType, Go, GoWith, LoopTop, Found, NotFound, PopPc, LoopPc
  <2>3. readyBits' \subseteq Sources /\ Rest
    BY Zenon, <1>3 DEF ClearReady, LoopType
  <2> QED BY Zenon, <2>1, <2>2, <2>3 DEF LoopType, QueueType, ExecType
<1>4. CASE RepopReady
  <2>1. QueueType'
    BY Zenon, <1>4, PopType DEF RepopReady, LoopType, QueueType
  <2>2. ExecType'
    BY Zenon, <1>4, FrameType
       DEF RepopReady, LoopType, ExecType, Go, GoWith, LoopTop, Found, NotFound, PopPc, LoopPc
  <2>3. readyBits' \subseteq Sources /\ Rest
    BY Zenon, <1>4 DEF RepopReady, LoopType
  <2> QED BY Zenon, <2>1, <2>2, <2>3 DEF LoopType, QueueType, ExecType
<1>5. CASE RemarkReady
  <2>1. QueueType'
    BY Zenon, <1>5 DEF RemarkReady, LoopType, QueueType
  <2>2. ExecType'
    BY Zenon, <1>5, FrameType
       DEF RemarkReady, LoopType, ExecType, Go, GoWith, LoopTop, Found, NotFound, PopPc, LoopPc
  <2>3. readyBits' \subseteq Sources /\ Rest
    BY Zenon, <1>5 DEF RemarkReady, LoopType
  <2> QED BY Zenon, <2>1, <2>2, <2>3 DEF LoopType, QueueType, ExecType
<1>6. CASE PopFallback
  <2>0. frame.mask \subseteq Sources
    BY Zenon DEF LoopType, Frame
  <2>1. QueueType'
    BY Zenon, <1>6, <2>0, PopType DEF PopFallback, LoopType, QueueType
  <2>2. ExecType'
    <3>1. ASSUME NEW s \in frame.mask, GoWith("remark", [frame EXCEPT !.src = s]) PROVE ExecType'
      <4>1. frame'.src = s /\ frame' \in Frame
        BY <2>0, <3>1, FrameType DEF GoWith, LoopType, Frame
      <4> QED BY Zenon, <2>0, <3>1, <4>1 DEF GoWith, ExecType, PopPc
    <3>2. ASSUME NEW s \in frame.mask, GoWith("fallback", [frame EXCEPT !.mask = @ \ {s}])
          PROVE  ExecType'
      <4>1. frame.mask \ {s} \in SUBSET Sources
        BY Zenon, <2>0
      <4> QED BY Zenon, <3>2, <4>1, FrameType DEF GoWith, ExecType, PopPc
    <3>3. ASSUME NEW l \in {"extPop", "extLast"}, Go(l) PROVE ExecType'
      BY Zenon, <3>3 DEF LoopType, Go, ExecType, PopPc
    <3> QED BY Zenon, <1>6, <3>1, <3>2, <3>3 DEF PopFallback
  <2>3. readyBits' \subseteq Sources /\ Rest
    BY Zenon, <1>6 DEF PopFallback, LoopType
  <2> QED BY Zenon, <2>1, <2>2, <2>3 DEF LoopType, QueueType, ExecType
<1>7. CASE PopExternal
  <2>1. QueueType'
    BY Zenon, <1>7, PopType DEF PopExternal, LoopType, QueueType
  <2>2. ExecType'
    BY Zenon, <1>7, FrameType
       DEF PopExternal, LoopType, ExecType, Go, GoWith, LoopTop, Found, NotFound, PopPc, LoopPc
  <2>3. readyBits' \subseteq Sources /\ Rest
    BY Zenon, <1>7 DEF PopExternal, LoopType
  <2> QED BY Zenon, <2>1, <2>2, <2>3 DEF LoopType, QueueType, ExecType
<1>8. CASE ClearExternal
  <2>1. QueueType'
    BY Zenon, <1>8 DEF ClearExternal, LoopType, QueueType
  <2>2. ExecType'
    BY Zenon, <1>8, FrameType DEF ClearExternal, LoopType, ExecType, Go, GoWith, LoopTop, Found,
       NotFound, PopPc, LoopPc
  <2>3. readyBits' \subseteq Sources /\ Rest
    BY Zenon, <1>8 DEF ClearExternal, LoopType
  <2> QED BY Zenon, <2>1, <2>2, <2>3 DEF LoopType, QueueType, ExecType
<1>9. CASE RepopExternal
  <2>1. QueueType'
    BY Zenon, <1>9, PopType DEF RepopExternal, LoopType, QueueType
  <2>2. ExecType'
    BY Zenon, <1>9, FrameType DEF RepopExternal, LoopType, ExecType, Go, GoWith, LoopTop, Found,
       NotFound, PopPc, LoopPc
  <2>3. readyBits' \subseteq Sources /\ Rest
    BY Zenon, <1>9 DEF RepopExternal, LoopType
  <2> QED BY Zenon, <2>1, <2>2, <2>3 DEF LoopType, QueueType, ExecType
<1>10. CASE SetExternal
  <2>1. QueueType'
    BY Zenon, <1>10 DEF SetExternal, LoopType, QueueType
  <2>2. ExecType'
    BY Zenon, <1>10, FrameType
       DEF SetExternal, LoopType, ExecType, Go, GoWith, LoopTop, Found, NotFound, PopPc, LoopPc
  <2>3. readyBits' \subseteq Sources /\ Rest
    BY Zenon, <1>10 DEF SetExternal, LoopType
  <2> QED BY Zenon, <2>1, <2>2, <2>3 DEF LoopType, QueueType, ExecType
<1>11. CASE PopExternalLast
  <2>1. QueueType'
    BY Zenon, <1>11, PopType DEF PopExternalLast, LoopType, QueueType
  <2>2. ExecType'
    BY Zenon, <1>11, FrameType DEF PopExternalLast, LoopType, ExecType, Go, GoWith, LoopTop, Found,
       NotFound, PopPc, LoopPc
  <2>3. readyBits' \subseteq Sources /\ Rest
    BY Zenon, <1>11 DEF PopExternalLast, LoopType
  <2> QED BY Zenon, <2>1, <2>2, <2>3 DEF LoopType, QueueType, ExecType
<1>12. CASE ExecuteTask
  <2>1. QueueType'
    BY <1>12 DEF ExecuteTask, LoopType, QueueType
  <2>2. ExecType'
    BY Zenon, <1>12, FrameType
       DEF ExecuteTask, LoopType, ExecType, Go, GoWith, LoopTop, Found, NotFound, PopPc, LoopPc
  <2>3. readyBits' \subseteq Sources /\ Rest
    BY Zenon, <1>12 DEF ExecuteTask, LoopType
  <2> QED BY Zenon, <2>1, <2>2, <2>3 DEF LoopType, QueueType, ExecType
<1>13. CASE CheckStop
  <2>1. QueueType'
    BY Zenon, <1>13 DEF CheckStop, LoopType, QueueType
  <2>2. ExecType'
    BY Zenon, <1>13, FrameType
       DEF CheckStop, LoopType, ExecType, Go, GoWith, LoopTop, Found, NotFound, PopPc, LoopPc
  <2>3. readyBits' \subseteq Sources /\ Rest
    BY Zenon, <1>13 DEF CheckStop, LoopType
  <2> QED BY Zenon, <2>1, <2>2, <2>3 DEF LoopType, QueueType, ExecType
<1>14. CASE PollNow
  <2>1. QueueType'
    BY Zenon, <1>14 DEF PollNow, LoopType, QueueType
  <2>2. ExecType'
    BY Zenon, <1>14, FrameType
       DEF PollNow, LoopType, ExecType, Go, GoWith, LoopTop, Found, NotFound, PopPc, LoopPc
  <2>3. readyBits' \subseteq Sources /\ Rest
    BY Zenon, <1>14 DEF PollNow, LoopType
  <2> QED BY Zenon, <2>1, <2>2, <2>3 DEF LoopType, QueueType, ExecType
<1>15. CASE DrainRead
  <2>1. QueueType'
    BY Zenon, <1>15 DEF DrainRead, LoopType, QueueType
  <2>2. ExecType'
    BY Zenon, <1>15, FrameType
       DEF DrainRead, LoopType, ExecType, Go, GoWith, LoopTop, Found, NotFound, PopPc, LoopPc
  <2>3. readyBits' \subseteq Sources /\ Rest
    BY Zenon, <1>15 DEF DrainRead, LoopType
  <2> QED BY Zenon, <2>1, <2>2, <2>3 DEF LoopType, QueueType, ExecType
<1>16. CASE DrainFlag
  <2>1. QueueType'
    BY Zenon, <1>16 DEF DrainFlag, LoopType, QueueType
  <2>2. ExecType'
    BY Zenon, <1>16, FrameType
       DEF DrainFlag, LoopType, ExecType, Go, GoWith, LoopTop, Found, NotFound, PopPc, LoopPc
  <2>3. readyBits' \subseteq Sources /\ Rest
    BY Zenon, <1>16 DEF DrainFlag, LoopType
  <2> QED BY Zenon, <2>1, <2>2, <2>3 DEF LoopType, QueueType, ExecType
<1>17. CASE Observe
  <2>1. QueueType'
    BY Zenon, <1>17 DEF Observe, LoopType, QueueType
  <2>2. ExecType'
    BY Zenon, <1>17, FrameType
       DEF Observe, LoopType, ExecType, Go, GoWith, LoopTop, Found, NotFound, PopPc, LoopPc
  <2>3. readyBits' \subseteq Sources /\ Rest
    BY Zenon, <1>17 DEF Observe, LoopType
  <2> QED BY Zenon, <2>1, <2>2, <2>3 DEF LoopType, QueueType, ExecType
<1>18. CASE SleepOn
  <2>1. QueueType'
    BY Zenon, <1>18 DEF SleepOn, LoopType, QueueType
  <2>2. ExecType'
    BY Zenon, <1>18, FrameType
       DEF SleepOn, LoopType, ExecType, Go, GoWith, LoopTop, Found, NotFound, PopPc, LoopPc
  <2>3. readyBits' \subseteq Sources /\ Rest
    BY Zenon, <1>18 DEF SleepOn, LoopType
  <2> QED BY Zenon, <2>1, <2>2, <2>3 DEF LoopType, QueueType, ExecType
<1>19. CASE CheckStopAgain
  <2>1. QueueType'
    BY Zenon, <1>19 DEF CheckStopAgain, LoopType, QueueType
  <2>2. ExecType'
    BY Zenon, <1>19, FrameType DEF CheckStopAgain, LoopType, ExecType, Go, GoWith, LoopTop, Found,
       NotFound, PopPc, LoopPc
  <2>3. readyBits' \subseteq Sources /\ Rest
    BY Zenon, <1>19 DEF CheckStopAgain, LoopType
  <2> QED BY Zenon, <2>1, <2>2, <2>3 DEF LoopType, QueueType, ExecType
<1>20. CASE CheckEpoch
  <2>1. QueueType'
    BY Zenon, <1>20 DEF CheckEpoch, LoopType, QueueType
  <2>2. ExecType'
    BY Zenon, <1>20, FrameType
       DEF CheckEpoch, LoopType, ExecType, Go, GoWith, LoopTop, Found, NotFound, PopPc, LoopPc
  <2>3. readyBits' \subseteq Sources /\ Rest
    BY Zenon, <1>20 DEF CheckEpoch, LoopType
  <2> QED BY Zenon, <2>1, <2>2, <2>3 DEF LoopType, QueueType, ExecType
<1>21. CASE Wait
  <2>1. QueueType'
    BY Zenon, <1>21 DEF Wait, LoopType, QueueType
  <2>2. ExecType'
    BY Zenon, <1>21, FrameType
       DEF Wait, LoopType, ExecType, Go, GoWith, LoopTop, Found, NotFound, PopPc, LoopPc
  <2>3. readyBits' \subseteq Sources /\ Rest
    BY Zenon, <1>21 DEF Wait, LoopType
  <2> QED BY Zenon, <2>1, <2>2, <2>3 DEF LoopType, QueueType, ExecType
<1>22. CASE IoEvent
  <2>1. QueueType'
    BY <1>22 DEF IoEvent, LoopType, QueueType
  <2>2. ExecType'
    BY Zenon, <1>22, FrameType
       DEF IoEvent, LoopType, ExecType, Go, GoWith, LoopTop, Found, NotFound, PopPc, LoopPc
  <2>3. readyBits' \subseteq Sources /\ Rest
    BY Zenon, <1>22 DEF IoEvent, LoopType
  <2> QED BY Zenon, <2>1, <2>2, <2>3 DEF LoopType, QueueType, ExecType
<1>23. CASE Awake
  <2>1. QueueType'
    BY Zenon, <1>23 DEF Awake, LoopType, QueueType
  <2>2. ExecType'
    BY Zenon, <1>23, FrameType
       DEF Awake, LoopType, ExecType, Go, GoWith, LoopTop, Found, NotFound, PopPc, LoopPc
  <2>3. readyBits' \subseteq Sources /\ Rest
    BY Zenon, <1>23 DEF Awake, LoopType
  <2> QED BY Zenon, <2>1, <2>2, <2>3 DEF LoopType, QueueType, ExecType
<1>24. CASE Flush
  <2>1. QueueType'
    BY Zenon, <1>24 DEF Flush, LoopType, QueueType
  <2>2. ExecType'
    BY Zenon, <1>24, FrameType
       DEF Flush, LoopType, ExecType, Go, GoWith, LoopTop, Found, NotFound, PopPc, LoopPc
  <2>3. readyBits' \subseteq Sources /\ Rest
    BY Zenon, <1>24 DEF Flush, LoopType
  <2> QED BY Zenon, <2>1, <2>2, <2>3 DEF LoopType, QueueType, ExecType
<1> QED BY Zenon, <1>1, <1>2, <1>3, <1>4, <1>5, <1>6, <1>7, <1>8, <1>9, <1>10, <1>11, <1>12, <1>13,
   <1>14, <1>15, <1>16, <1>17, <1>18, <1>19, <1>20, <1>21, <1>22, <1>23, <1>24
        DEF run_loop, pop_one

\* Every step of a pushing thread keeps them.
LEMMA ThreadTypeStep ==
    ASSUME LoopType,
           \/ \E s \in Sources : PushSpsc(s)
           \/ \E e \in Externals : ClaimMpsc(e)
           \/ \E t \in Threads : Continue(t)
           \/ request_stop
    PROVE  LoopType'
<1> USE DEF queues, flags, wake, exec, others, rest, LoopType, PGo, PushPc
<1>1. ASSUME NEW s \in Sources, PushSpsc(s) PROVE LoopType'
  BY <1>1 DEF PushSpsc, Threads, Producers
<1>2. ASSUME NEW e \in Externals, ClaimMpsc(e) PROVE LoopType'
  BY <1>2 DEF ClaimMpsc, Threads, Producers
<1>3. ASSUME NEW t \in Threads, Continue(t) PROVE LoopType'
  <2> USE <1>3
  <2>1. CASE notify_force(t)
    <3>1. wakeEpoch' \in 0..EpochSpan - 1
      BY Zenon, <2>1, EpochBumped DEF notify_force
    <3> QED BY Zenon, <2>1, <3>1 DEF notify_force
  <2>2. CASE notify(t)
    <3>1. wakeEpoch' \in 0..EpochSpan - 1
      BY Zenon, <2>2, EpochBumped DEF notify
    <3> QED BY Zenon, <2>2, <3>1 DEF notify
  <2>3. CASE LoadSleeping(t)
    BY Zenon, <2>3 DEF LoadSleeping
  <2>4. CASE CasSleeping(t)
    BY Zenon, <2>4 DEF CasSleeping
  <2>5. CASE CasWakePending(t)
    BY Zenon, <2>5 DEF CasWakePending
  <2>6. CASE WriteEventfd(t)
    BY Zenon, <2>6 DEF WriteEventfd
  <2>7. CASE NotifyOne(t)
    BY Zenon, <2>7 DEF NotifyOne, PopPc, LoopPc
  <2>8. CASE t \in Sources /\ MarkReady(t)
    BY Zenon, <2>8 DEF MarkReady
  <2>9. CASE t \in Externals /\ PublishMpsc(t)
    <3>1. mpsc' \in Seq([by : Externals, published : BOOLEAN])
      <4> DEFINE Slot == [by : Externals, published : BOOLEAN]
      <4>1. /\ DOMAIN mpsc = 1..Len(mpsc) /\ Len(mpsc) \in Nat
            /\ \A k \in 1..Len(mpsc) : mpsc[k] \in Slot
        <5> HIDE DEF Slot
        <5>1. mpsc \in Seq(Slot)
          BY Zenon DEF Slot
        <5> QED BY Zenon, <5>1, LenProperties, ElementOfSeq
      <4>2. \A k \in 1..Len(mpsc) :
               (IF mpsc[k].by = t THEN [mpsc[k] EXCEPT !.published = TRUE] ELSE mpsc[k]) \in Slot
        BY Zenon, <4>1
      <4> HIDE DEF Slot
      <4>3. mpsc' \in [1..Len(mpsc) -> Slot]
        BY Zenon, <2>9, <4>1, <4>2 DEF PublishMpsc
      <4>4. mpsc' \in Seq(Slot)
        BY <4>1, <4>3, SeqDef
      <4> QED BY Zenon, <4>4 DEF Slot
    <3> QED BY Zenon, <2>9, <3>1 DEF PublishMpsc
  <2>10. CASE LoadExternalReady(t)
    BY Zenon, <2>10 DEF LoadExternalReady
  <2>11. CASE SetExternalReady(t)
    BY Zenon, <2>11 DEF SetExternalReady
  <2> QED BY Zenon, <2>1, <2>2, <2>3, <2>4, <2>5, <2>6, <2>7, <2>8, <2>9, <2>10, <2>11 DEF Continue
<1>4. ASSUME request_stop PROVE LoopType'
  BY Zenon, <1>4 DEF request_stop, Threads
<1> QED BY Zenon, <1>1, <1>2, <1>3, <1>4

\* The types are inductive.
LEMMA NextLoopType == LoopType /\ [Next]_vars => LoopType'
<1> SUFFICES ASSUME LoopType, [Next]_vars PROVE LoopType'
  BY Zenon
<1>1. CASE UNCHANGED vars
  BY Zenon, <1>1 DEF vars, queues, flags, wake, exec, others, rest, LoopType
<1>2. CASE Next
  BY Zenon, <1>2, LoopTypeStep, ThreadTypeStep DEF Next
<1> QED BY Zenon, <1>1, <1>2

-----------------------------------------------------------------------------
(* pop_one's clear and re-pop.                                              *)

\* pop_one clears a ready bit only over an empty link, or one whose producer is
\* still to set it.
LEMMA ReadyBitStep ==
    ASSUME LoopType, ReadyBitKept, [Next]_vars
    PROVE  ReadyBitKept'
<1> SUFFICES ASSUME NEW s \in Sources, spsc'[s] > 0, ppc'[s] # "mark"
             PROVE  s \in readyBits' \/ (frame'.src = s /\ pc' \in {"repop", "remark"})
  BY Zenon DEF ReadyBitKept
<1> USE DEF queues, flags, wake, exec, others, rest, LoopType, Go, GoWith, PGo, ReadyBitKept
<1>0. s \in Threads
  BY Zenon DEF Threads, Producers
<1>s. CASE UNCHANGED vars
  BY Zenon, <1>s DEF vars
<1>1. CASE PopLocal
  BY Zenon, <1>1 DEF PopLocal, Found, Frame
<1>2. CASE PopReady
  BY Zenon, <1>2 DEF PopReady, PopSpsc, Found, PopDone, Frame
<1>3. CASE ClearReady
  BY Zenon, <1>3 DEF ClearReady, Frame
<1>4. CASE RepopReady
  BY <1>4 DEF RepopReady, PopSpsc, Frame
<1>5. CASE RemarkReady
  BY Zenon, <1>5 DEF RemarkReady, Found, Frame
<1>6. CASE PopFallback
  BY Zenon, <1>6 DEF PopFallback, PopSpsc, Frame
<1>7. CASE PopExternal
  BY Zenon, <1>7 DEF PopExternal, PopMpsc, Found, Frame
<1>8. CASE ClearExternal
  BY Zenon, <1>8 DEF ClearExternal, Frame
<1>9. CASE RepopExternal
  BY Zenon, <1>9 DEF RepopExternal, PopMpsc, Frame
<1>10. CASE SetExternal
  BY Zenon, <1>10 DEF SetExternal, Found, Frame
<1>11. CASE PopExternalLast
  BY Zenon, <1>11 DEF PopExternalLast, PopMpsc, Found, NotFound, Frame
<1>12. CASE ExecuteTask
  BY Zenon, <1>12 DEF ExecuteTask, LoopTop, Frame
<1>13. CASE CheckStop
  BY Zenon, <1>13 DEF CheckStop, LoopTop, Frame
<1>14. CASE PollNow
  BY Zenon, <1>14 DEF PollNow, Frame
<1>15. CASE DrainRead
  BY Zenon, <1>15 DEF DrainRead, Frame
<1>16. CASE DrainFlag
  BY Zenon, <1>16 DEF DrainFlag, LoopTop, Frame
<1>17. CASE Observe
  BY Zenon, <1>17 DEF Observe, Frame
<1>18. CASE SleepOn
  BY Zenon, <1>18 DEF SleepOn, Frame
<1>19. CASE CheckStopAgain
  BY Zenon, <1>19 DEF CheckStopAgain, Frame
<1>20. CASE CheckEpoch
  BY Zenon, <1>20 DEF CheckEpoch, Frame
<1>21. CASE Wait
  BY Zenon, <1>21 DEF Wait, Frame
<1>22. CASE IoEvent
  BY Zenon, <1>22 DEF IoEvent, LoopTop, Frame
<1>23. CASE Awake
  BY Zenon, <1>23 DEF Awake, LoopTop, Frame
<1>24. CASE Flush
  BY Zenon, <1>24 DEF Flush, Frame
<1>25. ASSUME NEW r \in Sources, PushSpsc(r)
       PROVE  s \in readyBits' \/ (frame'.src = s /\ pc' \in {"repop", "remark"})
  BY Zenon, <1>25, <1>0 DEF PushSpsc
<1>26. ASSUME NEW e \in Externals, ClaimMpsc(e)
       PROVE  s \in readyBits' \/ (frame'.src = s /\ pc' \in {"repop", "remark"})
  BY Zenon, <1>26, <1>0, LoopParameters DEF ClaimMpsc
<1>27. ASSUME NEW t \in Threads, Continue(t)
       PROVE  s \in readyBits' \/ (frame'.src = s /\ pc' \in {"repop", "remark"})
  <2>1. CASE MarkReady(t)
    BY Zenon, <1>0, <2>1 DEF MarkReady
  <2>2. CASE ~MarkReady(t)
    <3>1. UNCHANGED <<spsc, readyBits, frame>> /\ (ppc[s] = "mark" => ppc'[s] = "mark")
      BY Zenon, <1>27, <1>0, <2>2
         DEF Continue, notify_force, notify, LoadSleeping, CasSleeping, CasWakePending,
         WriteEventfd, NotifyOne, PublishMpsc, LoadExternalReady, SetExternalReady
    <3>2. pc' = pc \/ pc = "parked"
      BY Zenon, <1>27, <2>2
         DEF Continue, notify_force, notify, LoadSleeping, CasSleeping, CasWakePending,
         WriteEventfd, NotifyOne, PublishMpsc, LoadExternalReady, SetExternalReady
    <3> QED BY Zenon, <3>1, <3>2
  <2> QED BY Zenon, <2>1, <2>2
<1>28. CASE request_stop
  BY Zenon, <1>28, <1>0, LoopParameters DEF request_stop
<1> QED BY Zenon, <1>s, <1>1, <1>2, <1>3, <1>4, <1>5, <1>6, <1>7, <1>8, <1>9, <1>10, <1>11, <1>12,
   <1>13, <1>14, <1>15, <1>16, <1>17, <1>18, <1>19, <1>20, <1>21, <1>22, <1>23, <1>24, <1>25,
      <1>26, <1>27, <1>28
        DEF Next, run_loop, pop_one

\* For any number of sources and pushes, whatever the stores the processor
\* delays: a link that holds a marked task keeps its ready bit.
THEOREM ReadyBitKeptThm == Spec => []ReadyBitKept
<1>1. Init => ReadyBitKept
  BY DEF Init, ReadyBitKept
<1> QED BY <1>1, InitLoopType, NextLoopType, ReadyBitStep, PTL DEF Spec

-----------------------------------------------------------------------------
(* The sleep of an IO thread.                                               *)

\* Somebody has written the eventfd or is about to.
Alert == eventfd \/ \E t \in Threads : ppc[t] \in {"native", "write"}

\* sleeping_ has been set, and the executor has not decided to stay awake.
Announced == pc \in {"checkStop2", "checkEpoch", "wait"} \/ (pc \in PopPc /\ frame.sleepy)

\* The check made after sleeping_ was set found the link from s empty.
Behind(s) ==
    \/ pc \in {"checkEpoch", "wait"}
    \/ /\ frame.sleepy
       /\ \/ pc \in {"extPop", "extClear", "extRepop", "extLast"}
          \/ pc = "fallback" /\ s \notin frame.mask

FlagType ==
    /\ flag \in [extReady : BOOLEAN, sleeping : BOOLEAN, ioWakePending : BOOLEAN]
    /\ pc # "parked" /\ \A t \in Threads : ppc[t] # "notifyOne"

\* A pending wake has a write behind it, or the executor is about to reset it.
WakeKept ==
    flag.ioWakePending => eventfd \/ (\E t \in Threads : ppc[t] = "write") \/ pc = "drainFlag"

\* Whoever takes sleeping_ from the executor wakes it.
SleepKept == Announced => flag.sleeping \/ Alert

LocalSeen == Announced /\ pc \notin {"checkStop2", "pop"} => local = 0

StopSeen ==
    Announced /\ pc # "checkStop2" /\ stopRequested => ppc["stopper"] = "notifyForce" \/ Alert

LinksSeen ==
    \A s \in Sources : Behind(s) /\ spsc[s] > 0 =>
        ppc[s] \in {"mark", "notify", "loadSleeping", "casSleeping"} \/ Alert

Telling == {"publish", "loadReady", "setReady", "notify", "notifyForce",
            "loadSleeping", "casSleeping"}

ExternalsSeen ==
    pc \in {"checkEpoch", "wait"} /\ mpsc # <<>> =>
        (\E e \in Externals : ppc[e] \in Telling) \/ Alert

\* A claimed slot is published by the thread that claimed it.
Claimed == \A i \in 1..Len(mpsc) : ~mpsc[i].published => ppc[mpsc[i].by] = "publish"

SleepInv ==
    /\ FlagType /\ WakeKept /\ SleepKept /\ LocalSeen /\ StopSeen
    /\ LinksSeen /\ ExternalsSeen /\ Claimed

\* The executor starts awake.
LEMMA InitSleep == Init /\ IoThread => SleepInv
  BY LoopParameters
     DEF Init, SleepInv, FlagType, WakeKept, SleepKept, LocalSeen, StopSeen, LinksSeen,
         ExternalsSeen, Claimed, Announced, Behind, Threads, Producers

\* A pop leaves the claims of the other slots alone.
LEMMA PopClaimed == ASSUME LoopType, Claimed, PopMpsc, UNCHANGED ppc PROVE Claimed'
<1> DEFINE Slot == [by : Externals, published : BOOLEAN]
<1> HIDE DEF Slot
<1>1. mpsc \in Seq(Slot) /\ mpsc # <<>> /\ mpsc' = Tail(mpsc)
  BY Zenon DEF LoopType, PopMpsc, HeadPublished, Slot
<1>2. /\ Len(mpsc') = Len(mpsc) - 1 /\ Len(mpsc) \in Nat
      /\ \A i \in 1..Len(mpsc') : i + 1 \in 1..Len(mpsc) /\ mpsc'[i] = mpsc[i + 1]
  BY <1>1, HeadTailProperties, LenProperties
<1> QED BY <1>2 DEF Claimed

\* The executor is sure of the links and of the external queue once it announced.
LEMMA BehindAnnounced == \A s \in Sources : Behind(s) => Announced
  BY Zenon DEF Behind, Announced, PopPc

\* Every step of run_loop() keeps the invariant.
LEMMA LoopSleepStep ==
    ASSUME IoThread, LoopType, SleepInv, run_loop \/ IoEvent \/ Flush
    PROVE  SleepInv'
<1> USE DEF SleepInv, queues, flags, wake, exec, others, rest, Go, GoWith
<1>1. CASE PopLocal
  <2>1. FlagType'
    BY Zenon, <1>1 DEF PopLocal, FlagType, Found
  <2>2. UNCHANGED <<eventfd, stopRequested, ppc>> /\ (Alert' <=> Alert)
    BY Zenon, <1>1 DEF PopLocal, Alert
  <2>3. WakeKept'
    BY <1>1, <2>2 DEF PopLocal, WakeKept, LoopType, FlagType, Found
  <2>4. SleepKept' /\ LocalSeen' /\ StopSeen'
    BY <1>1, <2>2 DEF PopLocal, SleepKept, LocalSeen, StopSeen, Announced, PopPc, LoopType,
       Frame, FlagType, Found
  <2>5. LinksSeen'
    BY Zenon, <1>1, <2>2 DEF PopLocal, LinksSeen, Behind, LoopType, Frame, Found
  <2>6. ExternalsSeen' /\ Claimed'
    BY Zenon, <1>1, <2>2 DEF PopLocal, ExternalsSeen, Claimed, LoopType, HeadPublished, Found
  <2> QED BY Zenon, <2>1, <2>3, <2>4, <2>5, <2>6
<1>2. CASE PopReady
  <2>1. FlagType'
    BY Zenon, <1>2 DEF PopReady, FlagType, PopSpsc, Found, PopDone
  <2>2. UNCHANGED <<eventfd, stopRequested, ppc>> /\ (Alert' <=> Alert)
    BY Zenon, <1>2 DEF PopReady, Alert
  <2>a. /\ UNCHANGED <<flag, local>> /\ pc = "bits"
        /\ \/ pc' \in {"execute", "foundAwake"}
           \/ pc' \in {"clear", "fallback"} /\ frame'.sleepy = frame.sleepy
    BY Zenon, <1>2 DEF PopReady, LoopType, Frame, PopSpsc, Found, PopDone
  <2>3. WakeKept'
    BY Zenon, <2>2, <2>a DEF WakeKept
  <2>4. SleepKept' /\ LocalSeen' /\ StopSeen'
    BY Zenon, <2>2, <2>a DEF SleepKept, LocalSeen, StopSeen, Announced, PopPc
  <2>5. LinksSeen'
    BY Zenon, <1>2, <2>2 DEF PopReady, LinksSeen, Behind, LoopType, Frame, PopSpsc, Found, PopDone
  <2>6. ExternalsSeen' /\ Claimed'
    BY Zenon, <1>2, <2>2
       DEF PopReady, ExternalsSeen, Claimed, LoopType, HeadPublished, PopSpsc, Found, PopDone
  <2> QED BY Zenon, <2>1, <2>3, <2>4, <2>5, <2>6
<1>3. CASE ClearReady
  <2>1. FlagType'
    BY Zenon, <1>3 DEF ClearReady, FlagType
  <2>2. UNCHANGED <<eventfd, stopRequested, ppc>> /\ (Alert' <=> Alert)
    BY Zenon, <1>3 DEF ClearReady, Alert
  <2>3. WakeKept'
    BY <1>3, <2>2 DEF ClearReady, WakeKept, LoopType, FlagType
  <2>4. SleepKept' /\ LocalSeen' /\ StopSeen'
    BY <1>3, <2>2 DEF ClearReady, SleepKept, LocalSeen, StopSeen, Announced, PopPc, LoopType,
       Frame, FlagType
  <2>5. LinksSeen'
    BY Zenon, <1>3, <2>2 DEF ClearReady, LinksSeen, Behind, LoopType, Frame
  <2>6. ExternalsSeen' /\ Claimed'
    BY Zenon, <1>3, <2>2 DEF ClearReady, ExternalsSeen, Claimed, LoopType, HeadPublished
  <2> QED BY Zenon, <2>1, <2>3, <2>4, <2>5, <2>6
<1>4. CASE RepopReady
  <2>1. FlagType'
    BY Zenon, <1>4 DEF RepopReady, FlagType, PopSpsc
  <2>2. UNCHANGED <<eventfd, stopRequested, ppc>> /\ (Alert' <=> Alert)
    BY Zenon, <1>4 DEF RepopReady, Alert
  <2>3. WakeKept'
    BY <1>4, <2>2 DEF RepopReady, WakeKept, LoopType, FlagType, PopSpsc
  <2>4. SleepKept' /\ LocalSeen' /\ StopSeen'
    BY <1>4, <2>2 DEF RepopReady, SleepKept, LocalSeen, StopSeen, Announced, PopPc, LoopType,
       Frame, FlagType, PopSpsc
  <2>5. LinksSeen'
    BY Zenon, <1>4, <2>2 DEF RepopReady, LinksSeen, Behind, LoopType, Frame, PopSpsc
  <2>6. ExternalsSeen' /\ Claimed'
    BY Zenon, <1>4, <2>2 DEF RepopReady, ExternalsSeen, Claimed, LoopType, HeadPublished, PopSpsc
  <2> QED BY Zenon, <2>1, <2>3, <2>4, <2>5, <2>6
<1>5. CASE RemarkReady
  <2>1. FlagType'
    BY Zenon, <1>5 DEF RemarkReady, FlagType, Found
  <2>2. UNCHANGED <<eventfd, stopRequested, ppc>> /\ (Alert' <=> Alert)
    BY Zenon, <1>5 DEF RemarkReady, Alert
  <2>3. WakeKept'
    BY <1>5, <2>2 DEF RemarkReady, WakeKept, LoopType, FlagType, Found
  <2>4. SleepKept' /\ LocalSeen' /\ StopSeen'
    BY Zenon, <1>5, <2>2 DEF RemarkReady, SleepKept, LocalSeen, StopSeen, Announced, PopPc, LoopType,
       Frame, FlagType, Found
  <2>5. LinksSeen'
    BY Zenon, <1>5, <2>2 DEF RemarkReady, LinksSeen, Behind, LoopType, Frame, Found
  <2>6. ExternalsSeen' /\ Claimed'
    BY Zenon, <1>5, <2>2 DEF RemarkReady, ExternalsSeen, Claimed, LoopType, HeadPublished, Found
  <2> QED BY Zenon, <2>1, <2>3, <2>4, <2>5, <2>6
<1>6. CASE PopFallback
  <2>1. FlagType'
    BY Zenon, <1>6 DEF PopFallback, FlagType, PopSpsc
  <2>2. UNCHANGED <<eventfd, stopRequested, ppc>> /\ (Alert' <=> Alert)
    BY Zenon, <1>6 DEF PopFallback, Alert
  <2>a. /\ UNCHANGED <<flag, local>> /\ pc = "fallback"
        /\ pc' \in {"remark", "fallback", "extPop", "extLast"} /\ frame'.sleepy = frame.sleepy
    BY Zenon, <1>6 DEF PopFallback, LoopType, Frame, PopSpsc
  <2>3. WakeKept'
    BY Zenon, <2>2, <2>a DEF WakeKept
  <2>4. SleepKept' /\ LocalSeen' /\ StopSeen'
    BY Zenon, <2>2, <2>a DEF SleepKept, LocalSeen, StopSeen, Announced, PopPc
  <2>5. LinksSeen'
    BY <1>6, <2>2 DEF PopFallback, LinksSeen, Behind, LoopType, Frame, PopSpsc
  <2>6. ExternalsSeen' /\ Claimed'
    BY Zenon, <1>6, <2>2 DEF PopFallback, ExternalsSeen, Claimed, LoopType, HeadPublished, PopSpsc
  <2> QED BY Zenon, <2>1, <2>3, <2>4, <2>5, <2>6
<1>7. CASE PopExternal
  <2>1. FlagType'
    BY Zenon, <1>7 DEF PopExternal, FlagType, PopMpsc, Found
  <2>2. UNCHANGED <<eventfd, stopRequested, ppc>> /\ (Alert' <=> Alert)
    BY Zenon, <1>7 DEF PopExternal, Alert
  <2>3. WakeKept'
    BY <1>7, <2>2 DEF PopExternal, WakeKept, LoopType, FlagType, PopMpsc, Found
  <2>4. SleepKept' /\ LocalSeen' /\ StopSeen'
    BY <1>7, <2>2 DEF PopExternal, SleepKept, LocalSeen, StopSeen, Announced, PopPc, LoopType,
       Frame, FlagType, PopMpsc, Found
  <2>5. LinksSeen'
    BY Zenon, <1>7, <2>2 DEF PopExternal, LinksSeen, Behind, LoopType, Frame, PopMpsc, Found
  <2>6. ExternalsSeen' /\ Claimed'
    BY Zenon, <1>7, <2>2, PopClaimed DEF PopExternal, ExternalsSeen, Claimed, Found
  <2> QED BY Zenon, <2>1, <2>3, <2>4, <2>5, <2>6
<1>8. CASE ClearExternal
  <2>1. FlagType'
    BY Zenon, <1>8 DEF ClearExternal, FlagType, Store
  <2>2. UNCHANGED <<eventfd, stopRequested, ppc>> /\ (Alert' <=> Alert)
    BY Zenon, <1>8 DEF ClearExternal, Alert
  <2>3. WakeKept'
    BY <1>8, <2>2 DEF ClearExternal, WakeKept, LoopType, FlagType, Store
  <2>4. SleepKept' /\ LocalSeen' /\ StopSeen'
    BY <1>8, <2>2 DEF ClearExternal, SleepKept, LocalSeen, StopSeen, Announced, PopPc, LoopType,
       Frame, FlagType, Store
  <2>5. LinksSeen'
    BY Zenon, <1>8, <2>2 DEF ClearExternal, LinksSeen, Behind, LoopType, Frame, Store
  <2>6. ExternalsSeen' /\ Claimed'
    BY Zenon, <1>8, <2>2 DEF ClearExternal, ExternalsSeen, Claimed, LoopType, HeadPublished, Store
  <2> QED BY Zenon, <2>1, <2>3, <2>4, <2>5, <2>6
<1>9. CASE RepopExternal
  <2>1. FlagType'
    BY Zenon, <1>9 DEF RepopExternal, FlagType, PopMpsc
  <2>2. UNCHANGED <<eventfd, stopRequested, ppc>> /\ (Alert' <=> Alert)
    BY Zenon, <1>9 DEF RepopExternal, Alert
  <2>3. WakeKept'
    BY <1>9, <2>2 DEF RepopExternal, WakeKept, LoopType, FlagType, PopMpsc
  <2>4. SleepKept' /\ LocalSeen' /\ StopSeen'
    BY <1>9, <2>2 DEF RepopExternal, SleepKept, LocalSeen, StopSeen, Announced, PopPc, LoopType,
       Frame, FlagType, PopMpsc
  <2>5. LinksSeen'
    BY Zenon, <1>9, <2>2 DEF RepopExternal, LinksSeen, Behind, LoopType, Frame, PopMpsc
  <2>6. ExternalsSeen' /\ Claimed'
    BY Zenon, <1>9, <2>2, PopClaimed DEF RepopExternal, ExternalsSeen, Claimed
  <2> QED BY Zenon, <2>1, <2>3, <2>4, <2>5, <2>6
<1>10. CASE SetExternal
  <2>1. FlagType'
    BY Zenon, <1>10 DEF SetExternal, FlagType, Found, Store
  <2>2. UNCHANGED <<eventfd, stopRequested, ppc>> /\ (Alert' <=> Alert)
    BY Zenon, <1>10 DEF SetExternal, Alert
  <2>3. WakeKept'
    BY SMTT(20), <1>10, <2>2 DEF SetExternal, WakeKept, LoopType, FlagType, Found, Store
  <2>4. SleepKept' /\ LocalSeen' /\ StopSeen'
    BY Zenon, <1>10, <2>2 DEF SetExternal, SleepKept, LocalSeen, StopSeen, Announced, PopPc, LoopType,
       Frame, FlagType, Found, Store
  <2>5. LinksSeen'
    BY Zenon, <1>10, <2>2 DEF SetExternal, LinksSeen, Behind, LoopType, Frame, Found, Store
  <2>6. ExternalsSeen' /\ Claimed'
    BY Zenon, <1>10, <2>2 DEF SetExternal, ExternalsSeen, Claimed, LoopType, HeadPublished, Found, Store
  <2> QED BY Zenon, <2>1, <2>3, <2>4, <2>5, <2>6
<1>11. CASE PopExternalLast
  <2>1. FlagType'
    BY Zenon, <1>11 DEF PopExternalLast, FlagType, PopMpsc, Found, NotFound, PopDone
  <2>2. UNCHANGED <<eventfd, stopRequested, ppc>> /\ (Alert' <=> Alert)
    BY Zenon, <1>11 DEF PopExternalLast, Alert
  <2>3. WakeKept'
    BY <1>11, <2>2
       DEF PopExternalLast, WakeKept, LoopType, FlagType, PopMpsc, Found, NotFound, PopDone
  <2>4. SleepKept' /\ LocalSeen' /\ StopSeen'
    BY <1>11, <2>2 DEF PopExternalLast, SleepKept, LocalSeen, StopSeen, Announced, PopPc,
       LoopType, Frame, FlagType, PopMpsc, Found, NotFound, PopDone
  <2>5. LinksSeen'
    BY Zenon, <1>11, <2>2 DEF PopExternalLast, LinksSeen, Behind, LoopType, Frame, PopMpsc, Found,
       NotFound, PopDone
  <2>6. ExternalsSeen' /\ Claimed'
    <3>1. CASE PopMpsc /\ Found
      BY Zenon, <1>11, <2>2, <3>1, PopClaimed DEF PopExternalLast, ExternalsSeen, Found
    <3>2. CASE ~HeadPublished /\ UNCHANGED queues
      <4>1. ASSUME mpsc # <<>> PROVE \E e \in Externals : ppc[e] \in Telling
        <5>1. 1 \in 1..Len(mpsc) /\ mpsc[1].by \in Externals /\ ~mpsc[1].published
          <6> DEFINE Slot == [by : Externals, published : BOOLEAN]
          <6>1. mpsc \in Seq(Slot)
            BY Zenon DEF LoopType
          <6> HIDE DEF Slot
          <6>2. 1 \in 1..Len(mpsc) /\ mpsc[1] \in Slot /\ Head(mpsc) = mpsc[1]
            BY <4>1, <6>1
          <6> QED BY Zenon, <3>2, <4>1, <6>2 DEF HeadPublished, Slot
        <5> QED BY Zenon, <5>1 DEF Claimed, Telling
      <4> QED BY Zenon, <2>2, <3>2, <4>1 DEF ExternalsSeen, Claimed
    <3> QED BY Zenon, <1>11, <3>1, <3>2 DEF PopExternalLast
  <2> QED BY Zenon, <2>1, <2>3, <2>4, <2>5, <2>6
<1>12. CASE ExecuteTask
  <2>1. FlagType'
    BY Zenon, <1>12 DEF ExecuteTask, FlagType, LoopTop
  <2>2. UNCHANGED <<eventfd, stopRequested, ppc>> /\ (Alert' <=> Alert)
    BY Zenon, <1>12 DEF ExecuteTask, Alert
  <2>3. WakeKept'
    BY <1>12, <2>2 DEF ExecuteTask, WakeKept, LoopType, FlagType, LoopTop
  <2>4. SleepKept' /\ LocalSeen' /\ StopSeen'
    BY Zenon, <1>12, <2>2 DEF ExecuteTask, SleepKept, LocalSeen, StopSeen, Announced, PopPc, LoopType,
       Frame, FlagType, LoopTop
  <2>5. LinksSeen'
    BY Zenon, <1>12, <2>2 DEF ExecuteTask, LinksSeen, Behind, LoopType, Frame, LoopTop
  <2>6. ExternalsSeen' /\ Claimed'
    BY Zenon, <1>12, <2>2 DEF ExecuteTask, ExternalsSeen, Claimed, LoopType, HeadPublished, LoopTop
  <2> QED BY Zenon, <2>1, <2>3, <2>4, <2>5, <2>6
<1>13. CASE CheckStop
  <2>1. FlagType'
    BY Zenon, <1>13 DEF CheckStop, FlagType, LoopTop
  <2>2. UNCHANGED <<eventfd, stopRequested, ppc>> /\ (Alert' <=> Alert)
    BY Zenon, <1>13 DEF CheckStop, Alert
  <2>3. WakeKept'
    BY <1>13, <2>2 DEF CheckStop, WakeKept, LoopType, FlagType, LoopTop
  <2>4. SleepKept' /\ LocalSeen' /\ StopSeen'
    BY Zenon, <1>13, <2>2 DEF CheckStop, SleepKept, LocalSeen, StopSeen, Announced, PopPc, LoopType,
       Frame, FlagType, LoopTop
  <2>5. LinksSeen'
    BY Zenon, <1>13, <2>2 DEF CheckStop, LinksSeen, Behind, LoopType, Frame, LoopTop
  <2>6. ExternalsSeen' /\ Claimed'
    BY Zenon, <1>13, <2>2 DEF CheckStop, ExternalsSeen, Claimed, LoopType, HeadPublished, LoopTop
  <2> QED BY Zenon, <2>1, <2>3, <2>4, <2>5, <2>6
<1>14. CASE PollNow
  <2>1. FlagType'
    BY Zenon, <1>14 DEF PollNow, FlagType
  <2>2. UNCHANGED <<eventfd, stopRequested, ppc>> /\ (Alert' <=> Alert)
    BY Zenon, <1>14 DEF PollNow, Alert
  <2>3. WakeKept'
    BY <1>14, <2>2 DEF PollNow, WakeKept, LoopType, FlagType
  <2>4. SleepKept' /\ LocalSeen' /\ StopSeen'
    BY Zenon, <1>14, <2>2
       DEF PollNow, SleepKept, LocalSeen, StopSeen, Announced, PopPc, LoopType, Frame, FlagType
  <2>5. LinksSeen'
    BY Zenon, <1>14, <2>2 DEF PollNow, LinksSeen, Behind, LoopType, Frame
  <2>6. ExternalsSeen' /\ Claimed'
    BY Zenon, <1>14, <2>2 DEF PollNow, ExternalsSeen, Claimed, LoopType, HeadPublished
  <2> QED BY Zenon, <2>1, <2>3, <2>4, <2>5, <2>6
<1>15. CASE DrainRead
  <2>1. FlagType'
    BY Zenon, <1>15 DEF DrainRead, FlagType
  <2>2. UNCHANGED <<stopRequested, ppc>>
    BY Zenon, <1>15 DEF DrainRead
  <2>3. WakeKept'
    BY Zenon, <1>15, <2>2 DEF DrainRead, WakeKept, LoopType, FlagType
  <2>4. SleepKept' /\ LocalSeen' /\ StopSeen'
    BY Zenon, <1>15, <2>2 DEF DrainRead, SleepKept, LocalSeen, StopSeen, Announced, PopPc, LoopType,
       Frame, FlagType
  <2>5. LinksSeen'
    BY Zenon, <1>15, <2>2 DEF DrainRead, LinksSeen, Behind, LoopType, Frame
  <2>6. ExternalsSeen' /\ Claimed'
    BY Zenon, <1>15, <2>2 DEF DrainRead, ExternalsSeen, Claimed, LoopType, HeadPublished
  <2> QED BY Zenon, <2>1, <2>3, <2>4, <2>5, <2>6
<1>16. CASE DrainFlag
  <2>1. FlagType'
    BY Zenon, <1>16 DEF DrainFlag, FlagType, LoopTop, Store
  <2>2. UNCHANGED <<eventfd, stopRequested, ppc>> /\ (Alert' <=> Alert)
    BY Zenon, <1>16 DEF DrainFlag, Alert
  <2>3. WakeKept'
    BY Zenon, <1>16, <2>2 DEF DrainFlag, WakeKept, LoopType, FlagType, LoopTop, Store
  <2>4. SleepKept' /\ LocalSeen' /\ StopSeen'
    BY Zenon, <1>16, <2>2 DEF DrainFlag, SleepKept, LocalSeen, StopSeen, Announced, PopPc, LoopType,
       Frame, FlagType, LoopTop, Store
  <2>5. LinksSeen'
    BY Zenon, <1>16, <2>2 DEF DrainFlag, LinksSeen, Behind, LoopType, Frame, LoopTop, Store
  <2>6. ExternalsSeen' /\ Claimed'
    BY Zenon, <1>16, <2>2 DEF DrainFlag, ExternalsSeen, Claimed, LoopType, HeadPublished, LoopTop, Store
  <2> QED BY Zenon, <2>1, <2>3, <2>4, <2>5, <2>6
<1>17. CASE Observe
  <2>1. FlagType'
    BY Zenon, <1>17 DEF Observe, FlagType
  <2>2. UNCHANGED <<eventfd, stopRequested, ppc>> /\ (Alert' <=> Alert)
    BY Zenon, <1>17 DEF Observe, Alert
  <2>3. WakeKept'
    BY <1>17, <2>2 DEF Observe, WakeKept, LoopType, FlagType
  <2>4. SleepKept' /\ LocalSeen' /\ StopSeen'
    BY Zenon, <1>17, <2>2
       DEF Observe, SleepKept, LocalSeen, StopSeen, Announced, PopPc, LoopType, Frame, FlagType
  <2>5. LinksSeen'
    BY Zenon, <1>17, <2>2 DEF Observe, LinksSeen, Behind, LoopType, Frame
  <2>6. ExternalsSeen' /\ Claimed'
    BY Zenon, <1>17, <2>2 DEF Observe, ExternalsSeen, Claimed, LoopType, HeadPublished
  <2> QED BY Zenon, <2>1, <2>3, <2>4, <2>5, <2>6
<1>18. CASE SleepOn
  <2>1. FlagType'
    BY Zenon, <1>18 DEF SleepOn, FlagType, Store
  <2>2. UNCHANGED <<eventfd, stopRequested, ppc>> /\ (Alert' <=> Alert)
    BY Zenon, <1>18 DEF SleepOn, Alert
  <2>3. WakeKept'
    BY <1>18, <2>2 DEF SleepOn, WakeKept, LoopType, FlagType, Store
  <2>4. SleepKept' /\ LocalSeen' /\ StopSeen'
    BY Zenon, <1>18, <2>2 DEF SleepOn, SleepKept, LocalSeen, StopSeen, Announced, PopPc, LoopType,
       Frame, FlagType, Store
  <2>5. LinksSeen'
    BY Zenon, <1>18, <2>2 DEF SleepOn, LinksSeen, Behind, LoopType, Frame, Store
  <2>6. ExternalsSeen' /\ Claimed'
    BY Zenon, <1>18, <2>2 DEF SleepOn, ExternalsSeen, Claimed, LoopType, HeadPublished, Store
  <2> QED BY Zenon, <2>1, <2>3, <2>4, <2>5, <2>6
<1>19. CASE CheckStopAgain
  <2>1. FlagType'
    BY Zenon, <1>19 DEF CheckStopAgain, FlagType
  <2>2. UNCHANGED <<eventfd, stopRequested, ppc>> /\ (Alert' <=> Alert)
    BY Zenon, <1>19 DEF CheckStopAgain, Alert
  <2>3. WakeKept'
    BY <1>19, <2>2 DEF CheckStopAgain, WakeKept, LoopType, FlagType
  <2>4. SleepKept' /\ LocalSeen' /\ StopSeen'
    BY <1>19, <2>2 DEF CheckStopAgain, SleepKept, LocalSeen, StopSeen, Announced, PopPc,
       LoopType, Frame, FlagType
  <2>5. LinksSeen'
    BY Zenon, <1>19, <2>2 DEF CheckStopAgain, LinksSeen, Behind, LoopType, Frame
  <2>6. ExternalsSeen' /\ Claimed'
    BY Zenon, <1>19, <2>2 DEF CheckStopAgain, ExternalsSeen, Claimed, LoopType, HeadPublished
  <2> QED BY Zenon, <2>1, <2>3, <2>4, <2>5, <2>6
<1>20. CASE CheckEpoch
  <2>1. FlagType'
    BY Zenon, <1>20 DEF CheckEpoch, FlagType
  <2>2. UNCHANGED <<eventfd, stopRequested, ppc>> /\ (Alert' <=> Alert)
    BY Zenon, <1>20 DEF CheckEpoch, Alert
  <2>3. WakeKept'
    BY <1>20, <2>2 DEF CheckEpoch, WakeKept, LoopType, FlagType
  <2>4. SleepKept' /\ LocalSeen' /\ StopSeen'
    BY <1>20, <2>2 DEF CheckEpoch, SleepKept, LocalSeen, StopSeen, Announced, PopPc, LoopType,
       Frame, FlagType
  <2>5. LinksSeen'
    BY Zenon, <1>20, <2>2 DEF CheckEpoch, LinksSeen, Behind, LoopType, Frame
  <2>6. ExternalsSeen' /\ Claimed'
    BY Zenon, <1>20, <2>2 DEF CheckEpoch, ExternalsSeen, Claimed, LoopType, HeadPublished
  <2> QED BY Zenon, <2>1, <2>3, <2>4, <2>5, <2>6
<1>21. CASE Wait
  <2>1. FlagType'
    BY Zenon, <1>21 DEF Wait, FlagType
  <2>2. UNCHANGED <<eventfd, stopRequested, ppc>> /\ (Alert' <=> Alert)
    BY Zenon, <1>21 DEF Wait, Alert
  <2>3. WakeKept'
    BY <1>21, <2>2 DEF Wait, WakeKept, LoopType, FlagType
  <2>4. SleepKept' /\ LocalSeen' /\ StopSeen'
    BY Zenon, <1>21, <2>2
       DEF Wait, SleepKept, LocalSeen, StopSeen, Announced, PopPc, LoopType, Frame, FlagType
  <2>5. LinksSeen'
    BY Zenon, <1>21, <2>2 DEF Wait, LinksSeen, Behind, LoopType, Frame
  <2>6. ExternalsSeen' /\ Claimed'
    BY Zenon, <1>21, <2>2 DEF Wait, ExternalsSeen, Claimed, LoopType, HeadPublished
  <2> QED BY Zenon, <2>1, <2>3, <2>4, <2>5, <2>6
<1>22. CASE IoEvent
  <2>1. FlagType'
    BY Zenon, <1>22 DEF IoEvent, FlagType, LoopTop
  <2>2. UNCHANGED <<eventfd, stopRequested, ppc>> /\ (Alert' <=> Alert)
    BY Zenon, <1>22 DEF IoEvent, Alert
  <2>3. WakeKept'
    BY <1>22, <2>2 DEF IoEvent, WakeKept, LoopType, FlagType, LoopTop
  <2>4. SleepKept' /\ LocalSeen' /\ StopSeen'
    BY Zenon, <1>22, <2>2 DEF IoEvent, SleepKept, LocalSeen, StopSeen, Announced, PopPc, LoopType,
       Frame, FlagType, LoopTop
  <2>5. LinksSeen'
    BY Zenon, <1>22, <2>2 DEF IoEvent, LinksSeen, Behind, LoopType, Frame, LoopTop
  <2>6. ExternalsSeen' /\ Claimed'
    BY Zenon, <1>22, <2>2 DEF IoEvent, ExternalsSeen, Claimed, LoopType, HeadPublished, LoopTop
  <2> QED BY Zenon, <2>1, <2>3, <2>4, <2>5, <2>6
<1>23. CASE Awake
  <2>1. FlagType'
    BY Zenon, <1>23 DEF Awake, FlagType, LoopTop, Store
  <2>2. UNCHANGED <<eventfd, stopRequested, ppc>> /\ (Alert' <=> Alert)
    BY Zenon, <1>23 DEF Awake, Alert
  <2>3. WakeKept'
    BY <1>23, <2>2 DEF Awake, WakeKept, LoopType, FlagType, LoopTop, Store
  <2>4. SleepKept' /\ LocalSeen' /\ StopSeen'
    BY Zenon, <1>23, <2>2 DEF Awake, SleepKept, LocalSeen, StopSeen, Announced, PopPc, LoopType, Frame,
       FlagType, LoopTop, Store
  <2>5. LinksSeen'
    BY Zenon, <1>23, <2>2 DEF Awake, LinksSeen, Behind, LoopType, Frame, LoopTop, Store
  <2>6. ExternalsSeen' /\ Claimed'
    BY Zenon, <1>23, <2>2 DEF Awake, ExternalsSeen, Claimed, LoopType, HeadPublished, LoopTop, Store
  <2> QED BY Zenon, <2>1, <2>3, <2>4, <2>5, <2>6
<1>24. CASE Flush
  BY Zenon, <1>24 DEF Flush, FlagType, WakeKept, SleepKept, LocalSeen, StopSeen, LinksSeen,
     ExternalsSeen, Claimed, Announced, Behind, Alert
<1> QED BY Zenon, <1>1, <1>2, <1>3, <1>4, <1>5, <1>6, <1>7, <1>8, <1>9, <1>10, <1>11, <1>12, <1>13,
   <1>14, <1>15, <1>16, <1>17, <1>18, <1>19, <1>20, <1>21, <1>22, <1>23, <1>24
        DEF run_loop, pop_one

\* What a thread's step leaves alone: the executor's place and its tasks.
Elsewhere == UNCHANGED <<pc, frame, local, deploy>>

\* A thread's step keeps what is known of the links, when it does not stop telling
\* the executor of its own.
LEMMA LinksFrame ==
    ASSUME LinksSeen, Elsewhere, NEW s \in Threads, \A t \in Threads : t # s => ppc'[t] = ppc[t],
           Alert /\ Announced => Alert', \A t \in Sources : t # s => spsc'[t] = spsc[t],
           s \in Sources /\ Behind(s) =>
              \/ ppc'[s] \in {"mark", "notify", "loadSleeping", "casSleeping"} \/ Alert'
              \/ /\ spsc'[s] = spsc[s]
                 /\ ppc[s] \notin {"mark", "notify", "loadSleeping", "casSleeping"}
    PROVE  LinksSeen'
<1> SUFFICES ASSUME NEW t \in Sources, Behind(t)', spsc'[t] > 0
             PROVE  ppc'[t] \in {"mark", "notify", "loadSleeping", "casSleeping"} \/ Alert'
  BY Zenon DEF LinksSeen
<1>1. Behind(t) /\ Announced /\ t \in Threads
  BY Zenon, BehindAnnounced DEF Elsewhere, Behind, Threads, Producers
<1>2. spsc[t] > 0 => ppc[t] \in {"mark", "notify", "loadSleeping", "casSleeping"} \/ Alert
  BY Zenon, <1>1 DEF LinksSeen
<1>3. CASE t # s
  BY Zenon, <1>1, <1>2, <1>3
<1>4. CASE t = s
  BY Zenon, <1>1, <1>2, <1>4
<1> QED BY Zenon, <1>3, <1>4

\* The slots of the external queue are claimed by the threads outside.
LEMMA ClaimersAre ==
    ASSUME LoopType
    PROVE  /\ Len(mpsc) \in Nat /\ DOMAIN mpsc = 1..Len(mpsc)
           /\ \A i \in 1..Len(mpsc) :
                 mpsc[i] \in [by : Externals, published : BOOLEAN] /\ mpsc[i].by \in Threads
<1> DEFINE Slot == [by : Externals, published : BOOLEAN]
<1>1. mpsc \in Seq(Slot) /\ Externals \subseteq Threads
  BY Zenon DEF LoopType, Threads, Producers
<1>2. \A m \in Slot : m.by \in Externals
  OBVIOUS
<1> HIDE DEF Slot
<1>3. Len(mpsc) \in Nat /\ DOMAIN mpsc = 1..Len(mpsc) /\ \A i \in 1..Len(mpsc) : mpsc[i] \in Slot
  BY <1>1
<1> QED BY Zenon, <1>1, <1>2, <1>3 DEF Slot

\* A thread that is not publishing a slot leaves the claims alone.
LEMMA ClaimedFrame ==
    ASSUME LoopType, Claimed, UNCHANGED mpsc, NEW s \in Threads, ppc[s] # "publish",
           \A t \in Threads : t # s => ppc'[t] = ppc[t]
    PROVE  Claimed'
<1> QED BY Zenon, ClaimersAre DEF Claimed

\* A claim is its thread's until it publishes the slot.
LEMMA ClaimKept ==
    ASSUME LoopType, Claimed, NEW s \in Externals, ClaimMpsc(s) \/ PublishMpsc(s)
    PROVE  Claimed'
<1>0. s \in Threads /\ \A t \in Threads : t # s => ppc'[t] = ppc[t]
  BY Zenon DEF LoopType, ClaimMpsc, PublishMpsc, PGo, Threads, Producers
<1>1. CASE ClaimMpsc(s)
  <2> DEFINE new == [by |-> s, published |-> FALSE]
             Slot == [by : Externals, published : BOOLEAN]
  <2>1. mpsc' = Append(mpsc, new) /\ ppc'[s] = "publish" /\ new.by = s /\ mpsc \in Seq(Slot) /\ new \in Slot
    BY Zenon, <1>0, <1>1 DEF ClaimMpsc, PGo, LoopType
  <2> HIDE DEF new, Slot
  <2>2. \A i \in 1..Len(mpsc') : mpsc'[i] = new \/ (i \in 1..Len(mpsc) /\ mpsc'[i] = mpsc[i])
    BY <2>1, AppendProperties, LenProperties
  <2>3. ASSUME NEW i \in 1..Len(mpsc'), ~mpsc'[i].published PROVE ppc'[mpsc'[i].by] = "publish"
    <3>1. CASE mpsc'[i] = new
      BY Zenon, <2>1, <3>1
    <3>2. CASE i \in 1..Len(mpsc) /\ mpsc'[i] = mpsc[i]
      <4>1. ppc[mpsc[i].by] = "publish" /\ mpsc[i].by \in Threads
        BY Zenon, <2>3, <3>2, ClaimersAre DEF Claimed
      <4> QED BY Zenon, <1>0, <2>1, <3>2, <4>1
    <3> QED BY Zenon, <2>2, <3>1, <3>2
  <2> QED BY Zenon, <2>3 DEF Claimed
<1>2. CASE PublishMpsc(s)
  <2>1. /\ mpsc' = [i \in DOMAIN mpsc |->
                      IF mpsc[i].by = s THEN [mpsc[i] EXCEPT !.published = TRUE] ELSE mpsc[i]]
        /\ mpsc \in Seq([by : Externals, published : BOOLEAN])
    BY Zenon, <1>2 DEF PublishMpsc, LoopType
  <2>2. Len(mpsc') = Len(mpsc)
    BY <2>1
  <2>3. ASSUME NEW i \in 1..Len(mpsc), ~mpsc'[i].published PROVE ppc'[mpsc'[i].by] = "publish"
    <3>1. mpsc[i] \in [by : Externals, published : BOOLEAN] /\ mpsc[i].by \in Threads /\ i \in DOMAIN mpsc
      BY Zenon, ClaimersAre
    <3>2. mpsc'[i] = IF mpsc[i].by = s THEN [mpsc[i] EXCEPT !.published = TRUE] ELSE mpsc[i]
      BY Zenon, <2>1, <3>1
    <3>3. mpsc[i].by # s
      BY <2>3, <3>1, <3>2
    <3>4. mpsc'[i] = mpsc[i]
      BY Zenon, <3>2, <3>3
    <3>5. ppc[mpsc[i].by] = "publish"
      BY Zenon, <2>3, <3>4 DEF Claimed
    <3> QED BY Zenon, <1>0, <3>1, <3>3, <3>4, <3>5
  <2> QED BY Zenon, <2>2, <2>3 DEF Claimed
<1> QED BY Zenon, <1>1, <1>2

\* Every step of a push or of request_stop keeps the invariant: it leaves the
\* executor alone, and a thread that has work for it does not stop telling it
\* before the eventfd is written.
LEMMA ThreadSleepStep ==
    ASSUME IoThread, ~raced', LoopType, SleepInv,
           \/ \E s \in Sources : PushSpsc(s)
           \/ \E e \in Externals : ClaimMpsc(e)
           \/ \E t \in Threads : Continue(t)
           \/ request_stop
    PROVE  SleepInv'
<1> USE LoopParameters DEF SleepInv, queues, flags, wake, exec, others, rest, PGo, Elsewhere
<1>0. Sources \subseteq Threads /\ Externals \subseteq Threads /\ "stopper" \in Threads
  BY Zenon DEF Threads, Producers
<1>1. ASSUME NEW s \in Sources, PushSpsc(s) PROVE SleepInv'
  <2>1. Elsewhere /\ FlagType'
    BY Zenon, <1>1, <1>0 DEF PushSpsc, FlagType, LoopType
  <2>2. \A t \in Threads : t # s => ppc'[t] = ppc[t]
    BY Zenon, <1>1 DEF PushSpsc, LoopType
  <2>3. Alert /\ Announced => Alert'
    BY Zenon, <1>1, <1>0, <2>2 DEF PushSpsc, Alert, Announced, WakeKept, LoopType, FlagType, PopPc
  <2>4. WakeKept'
    BY Zenon, <1>1, <1>0, <2>1, <2>2 DEF PushSpsc, WakeKept, LoopType, FlagType
  <2>5. SleepKept' /\ LocalSeen'
    BY Zenon, <1>1, <1>0, <2>1, <2>3
       DEF PushSpsc, SleepKept, LocalSeen, Announced, LoopType, FlagType, Alert
  <2>6. StopSeen'
    BY Zenon, <1>1, <1>0, <2>1, <2>2, <2>3 DEF PushSpsc, StopSeen, Announced, LoopType, Alert
  <2>7. LinksSeen'
    <3>1. ppc'[s] = "mark" /\ \A t \in Sources : t # s => spsc'[t] = spsc[t]
      BY Zenon, <1>1, <1>0 DEF PushSpsc, LoopType
    <3> QED BY Zenon, <1>1, <1>0, <2>1, <2>2, <2>3, <3>1, LinksFrame
  <2>8. ExternalsSeen'
    BY Zenon, <1>1, <1>0, <2>1, <2>2, <2>3
       DEF PushSpsc, ExternalsSeen, SleepKept, Announced, Telling, LoopType, FlagType, Alert
  <2>9. Claimed'
    <3>1. UNCHANGED mpsc /\ ppc[s] # "publish"
      BY Zenon, <1>1 DEF PushSpsc
    <3> QED BY Zenon, <1>1, <1>0, <2>2, <3>1, ClaimedFrame
  <2> QED BY Zenon, <2>1, <2>4, <2>5, <2>6, <2>7, <2>8, <2>9
<1>2. ASSUME NEW s \in Externals, ClaimMpsc(s) PROVE SleepInv'
  <2>1. Elsewhere /\ FlagType'
    BY Zenon, <1>2, <1>0 DEF ClaimMpsc, FlagType, LoopType
  <2>2. \A t \in Threads : t # s => ppc'[t] = ppc[t]
    BY Zenon, <1>2 DEF ClaimMpsc, LoopType
  <2>3. Alert /\ Announced => Alert'
    BY Zenon, <1>2, <1>0, <2>2 DEF ClaimMpsc, Alert, Announced, WakeKept, LoopType, FlagType, PopPc
  <2>4. WakeKept'
    BY Zenon, <1>2, <1>0, <2>1, <2>2 DEF ClaimMpsc, WakeKept, LoopType, FlagType
  <2>5. SleepKept' /\ LocalSeen'
    BY Zenon, <1>2, <1>0, <2>1, <2>3
       DEF ClaimMpsc, SleepKept, LocalSeen, Announced, LoopType, FlagType, Alert
  <2>6. StopSeen'
    BY Zenon, <1>2, <1>0, <2>1, <2>2, <2>3 DEF ClaimMpsc, StopSeen, Announced, LoopType, Alert
  <2>7. LinksSeen'
    BY Zenon, <1>2, <1>0, <2>1, <2>2, <2>3, BehindAnnounced
       DEF ClaimMpsc, LinksSeen, Behind, SleepKept, LoopType, FlagType, Alert
  <2>8. ExternalsSeen'
    BY Zenon, <1>2, <1>0, <2>1, <2>2, <2>3
       DEF ClaimMpsc, ExternalsSeen, SleepKept, Announced, Telling, LoopType, FlagType, Alert
  <2>9. Claimed'
    BY Zenon, <1>2, ClaimKept
  <2> QED BY Zenon, <2>1, <2>4, <2>5, <2>6, <2>7, <2>8, <2>9
<1>3. ASSUME request_stop PROVE SleepInv'
  <2>1. Elsewhere /\ FlagType'
    BY Zenon, <1>3, <1>0 DEF request_stop, FlagType, LoopType
  <2>2. \A t \in Threads : t # "stopper" => ppc'[t] = ppc[t]
    BY Zenon, <1>3 DEF request_stop, LoopType
  <2>3. Alert /\ Announced => Alert'
    BY Zenon, <1>3, <1>0, <2>2 DEF request_stop, Alert, Announced, WakeKept, LoopType, FlagType, PopPc
  <2>4. WakeKept'
    BY Zenon, <1>3, <1>0, <2>1, <2>2 DEF request_stop, WakeKept, LoopType, FlagType
  <2>5. SleepKept' /\ LocalSeen'
    BY Zenon, <1>3, <1>0, <2>1, <2>3
       DEF request_stop, SleepKept, LocalSeen, Announced, LoopType, FlagType, Alert
  <2>6. StopSeen'
    BY Zenon, <1>3, <1>0, <2>1, <2>2, <2>3 DEF request_stop, StopSeen, Announced, LoopType, Alert
  <2>7. LinksSeen'
    <3>1. UNCHANGED spsc
      BY Zenon, <1>3 DEF request_stop
    <3>2. "stopper" \notin Sources
      BY Zenon
    <3> QED BY Zenon, <1>3, <1>0, <2>1, <2>2, <2>3, <3>1, <3>2, LinksFrame
  <2>8. ExternalsSeen'
    BY Zenon, <1>3, <1>0, <2>1, <2>2, <2>3
       DEF request_stop, ExternalsSeen, SleepKept, Announced, Telling, LoopType, FlagType, Alert
  <2>9. Claimed'
    <3>1. UNCHANGED mpsc /\ ppc["stopper"] # "publish"
      BY Zenon, <1>3 DEF request_stop
    <3> QED BY Zenon, <1>3, <1>0, <2>2, <3>1, ClaimedFrame
  <2> QED BY Zenon, <2>1, <2>4, <2>5, <2>6, <2>7, <2>8, <2>9
<1>4. ASSUME NEW s \in Sources, MarkReady(s) PROVE SleepInv'
  <2>1. Elsewhere /\ FlagType'
    BY Zenon, <1>4, <1>0 DEF MarkReady, FlagType, LoopType
  <2>2. \A t \in Threads : t # s => ppc'[t] = ppc[t]
    BY Zenon, <1>4 DEF MarkReady, LoopType
  <2>3. Alert /\ Announced => Alert'
    BY Zenon, <1>4, <1>0, <2>2 DEF MarkReady, Alert, Announced, WakeKept, LoopType, FlagType, PopPc
  <2>4. WakeKept'
    BY Zenon, <1>4, <1>0, <2>1, <2>2 DEF MarkReady, WakeKept, LoopType, FlagType
  <2>5. SleepKept' /\ LocalSeen'
    BY Zenon, <1>4, <1>0, <2>1, <2>3
       DEF MarkReady, SleepKept, LocalSeen, Announced, LoopType, FlagType, Alert
  <2>6. StopSeen'
    BY Zenon, <1>4, <1>0, <2>1, <2>2, <2>3 DEF MarkReady, StopSeen, Announced, LoopType, Alert
  <2>7. LinksSeen'
    BY Zenon, <1>4, <1>0, <2>1, <2>2, <2>3, BehindAnnounced
       DEF MarkReady, LinksSeen, Behind, SleepKept, LoopType, FlagType, Alert
  <2>8. ExternalsSeen'
    BY Zenon, <1>4, <1>0, <2>1, <2>2, <2>3
       DEF MarkReady, ExternalsSeen, SleepKept, Announced, Telling, LoopType, FlagType, Alert
  <2>9. Claimed'
    <3>1. UNCHANGED mpsc /\ ppc[s] # "publish"
      BY Zenon, <1>4 DEF MarkReady
    <3> QED BY Zenon, <1>4, <1>0, <2>2, <3>1, ClaimedFrame
  <2> QED BY Zenon, <2>1, <2>4, <2>5, <2>6, <2>7, <2>8, <2>9
<1>5. ASSUME NEW s \in Externals, PublishMpsc(s) PROVE SleepInv'
  <2>1. Elsewhere /\ FlagType'
    BY Zenon, <1>5, <1>0 DEF PublishMpsc, FlagType, LoopType
  <2>2. \A t \in Threads : t # s => ppc'[t] = ppc[t]
    BY Zenon, <1>5 DEF PublishMpsc, LoopType
  <2>3. Alert /\ Announced => Alert'
    BY Zenon, <1>5, <1>0, <2>2 DEF PublishMpsc, Alert, Announced, WakeKept, LoopType, FlagType, PopPc
  <2>4. WakeKept'
    BY Zenon, <1>5, <1>0, <2>1, <2>2 DEF PublishMpsc, WakeKept, LoopType, FlagType
  <2>5. SleepKept' /\ LocalSeen'
    BY Zenon, <1>5, <1>0, <2>1, <2>3
       DEF PublishMpsc, SleepKept, LocalSeen, Announced, LoopType, FlagType, Alert
  <2>6. StopSeen'
    BY Zenon, <1>5, <1>0, <2>1, <2>2, <2>3 DEF PublishMpsc, StopSeen, Announced, LoopType, Alert
  <2>7. LinksSeen'
    <3>1. UNCHANGED spsc
      BY Zenon, <1>5 DEF PublishMpsc
    <3>2. s \notin Sources
      BY Zenon, <1>5
    <3> QED BY Zenon, <1>5, <1>0, <2>1, <2>2, <2>3, <3>1, <3>2, LinksFrame
  <2>8. ExternalsSeen'
    BY Zenon, <1>5, <1>0, <2>1, <2>2, <2>3
       DEF PublishMpsc, ExternalsSeen, SleepKept, Announced, Telling, LoopType, FlagType, Alert
  <2>9. Claimed'
    BY Zenon, <1>5, ClaimKept
  <2> QED BY Zenon, <2>1, <2>4, <2>5, <2>6, <2>7, <2>8, <2>9
<1>6. ASSUME NEW s \in Externals, LoadExternalReady(s) PROVE SleepInv'
  <2>1. Elsewhere /\ FlagType'
    BY Zenon, <1>6, <1>0 DEF LoadExternalReady, FlagType, LoopType
  <2>2. \A t \in Threads : t # s => ppc'[t] = ppc[t]
    BY Zenon, <1>6 DEF LoadExternalReady, LoopType
  <2>3. Alert /\ Announced => Alert'
    BY Zenon, <1>6, <1>0, <2>2
       DEF LoadExternalReady, Alert, Announced, WakeKept, LoopType, FlagType, PopPc
  <2>4. WakeKept'
    BY Zenon, <1>6, <1>0, <2>1, <2>2 DEF LoadExternalReady, WakeKept, LoopType, FlagType
  <2>5. SleepKept' /\ LocalSeen'
    BY Zenon, <1>6, <1>0, <2>1, <2>3
       DEF LoadExternalReady, SleepKept, LocalSeen, Announced, LoopType, FlagType, Alert
  <2>6. StopSeen'
    BY Zenon, <1>6, <1>0, <2>1, <2>2, <2>3 DEF LoadExternalReady, StopSeen, Announced, LoopType, Alert
  <2>7. LinksSeen'
    <3>1. UNCHANGED spsc
      BY Zenon, <1>6 DEF LoadExternalReady
    <3>2. s \notin Sources
      BY Zenon, <1>6
    <3> QED BY Zenon, <1>6, <1>0, <2>1, <2>2, <2>3, <3>1, <3>2, LinksFrame
  <2>8. ExternalsSeen'
    BY Zenon, <1>6, <1>0, <2>1, <2>2, <2>3 DEF LoadExternalReady, ExternalsSeen, SleepKept, Announced,
       Telling, LoopType, FlagType, Alert
  <2>9. Claimed'
    <3>1. UNCHANGED mpsc /\ ppc[s] # "publish"
      BY Zenon, <1>6 DEF LoadExternalReady
    <3> QED BY Zenon, <1>6, <1>0, <2>2, <3>1, ClaimedFrame
  <2> QED BY Zenon, <2>1, <2>4, <2>5, <2>6, <2>7, <2>8, <2>9
<1>7. ASSUME NEW s \in Externals, SetExternalReady(s) PROVE SleepInv'
  <2>0. /\ ppc[s] = "setReady" /\ PGo(s, "notifyForce")
        /\ flag' = flag \/ flag' = [flag EXCEPT !.extReady = TRUE]
        /\ UNCHANGED <<queues, readyBits, wake, exec, pushed, rest>>
    BY Zenon, <1>7 DEF SetExternalReady, WriteMemory
  <2>1. Elsewhere /\ FlagType'
    BY Zenon, <2>0, <1>0 DEF FlagType, LoopType
  <2>2. \A t \in Threads : t # s => ppc'[t] = ppc[t]
    BY Zenon, <2>0 DEF LoopType
  <2>3. Alert /\ Announced => Alert'
    BY Zenon, <2>0, <1>0, <2>2
       DEF Alert, Announced, WakeKept, LoopType, FlagType, PopPc
  <2>4. WakeKept'
    BY Zenon, <2>0, <1>0, <2>1, <2>2 DEF WakeKept, LoopType, FlagType
  <2>5. SleepKept' /\ LocalSeen'
    BY Zenon, <2>0, <1>0, <2>1, <2>3
       DEF SleepKept, LocalSeen, Announced, LoopType, FlagType, Alert
  <2>6. StopSeen'
    BY Zenon, <2>0, <1>0, <2>1, <2>2, <2>3 DEF StopSeen, Announced, LoopType, Alert
  <2>7. LinksSeen'
    BY Zenon, <2>0, <1>0, <2>1, <2>2, <2>3, BehindAnnounced
       DEF LinksSeen, Behind, SleepKept, LoopType, FlagType, Alert
  <2>8. ExternalsSeen'
    BY Zenon, <2>0, <1>0, <2>1, <2>2, <2>3 DEF ExternalsSeen, SleepKept, Announced,
       Telling, LoopType, FlagType, Alert
  <2>9. Claimed'
    <3>1. UNCHANGED mpsc /\ ppc[s] # "publish"
      BY Zenon, <2>0
    <3> QED BY Zenon, <2>0, <1>0, <2>2, <3>1, ClaimedFrame
  <2> QED BY Zenon, <2>1, <2>4, <2>5, <2>6, <2>7, <2>8, <2>9
<1>8. ASSUME NEW s \in Threads, notify_force(s) PROVE SleepInv'
  <2>1. Elsewhere /\ FlagType'
    BY Zenon, <1>8, <1>0 DEF notify_force, FlagType, LoopType
  <2>2. \A t \in Threads : t # s => ppc'[t] = ppc[t]
    BY Zenon, <1>8 DEF notify_force, LoopType
  <2>3. Alert /\ Announced => Alert'
    BY Zenon, <1>8, <1>0, <2>2 DEF notify_force, Alert, Announced, WakeKept, LoopType, FlagType, PopPc
  <2>4. WakeKept'
    BY Zenon, <1>8, <1>0, <2>1, <2>2 DEF notify_force, WakeKept, LoopType, FlagType
  <2>5. SleepKept' /\ LocalSeen'
    BY Zenon, <1>8, <1>0, <2>1, <2>3
       DEF notify_force, SleepKept, LocalSeen, Announced, LoopType, FlagType, Alert
  <2>6. StopSeen'
    BY Zenon, <1>8, <1>0, <2>1, <2>2, <2>3 DEF notify_force, StopSeen, Announced, LoopType, Alert
  <2>7. LinksSeen'
    BY Zenon, <1>8, <1>0, <2>1, <2>2, <2>3, BehindAnnounced
       DEF notify_force, LinksSeen, Behind, SleepKept, LoopType, FlagType, Alert
  <2>8. ExternalsSeen'
    BY Zenon, <1>8, <1>0, <2>1, <2>2, <2>3
       DEF notify_force, ExternalsSeen, SleepKept, Announced, Telling, LoopType, FlagType, Alert
  <2>9. Claimed'
    <3>1. UNCHANGED mpsc /\ ppc[s] # "publish"
      BY Zenon, <1>8 DEF notify_force
    <3> QED BY Zenon, <1>8, <1>0, <2>2, <3>1, ClaimedFrame
  <2> QED BY Zenon, <2>1, <2>4, <2>5, <2>6, <2>7, <2>8, <2>9
<1>9. ASSUME NEW s \in Threads, notify(s) PROVE SleepInv'
  <2>1. Elsewhere /\ FlagType'
    BY Zenon, <1>9, <1>0 DEF notify, FlagType, LoopType
  <2>2. \A t \in Threads : t # s => ppc'[t] = ppc[t]
    BY Zenon, <1>9 DEF notify, LoopType
  <2>3. Alert /\ Announced => Alert'
    BY Zenon, <1>9, <1>0, <2>2 DEF notify, Alert, Announced, WakeKept, LoopType, FlagType, PopPc
  <2>4. WakeKept'
    BY Zenon, <1>9, <1>0, <2>1, <2>2 DEF notify, WakeKept, LoopType, FlagType
  <2>5. SleepKept' /\ LocalSeen'
    BY Zenon, <1>9, <1>0, <2>1, <2>3
       DEF notify, SleepKept, LocalSeen, Announced, LoopType, FlagType, Alert
  <2>6. StopSeen'
    BY Zenon, <1>9, <1>0, <2>1, <2>2, <2>3 DEF notify, StopSeen, Announced, LoopType, Alert
  <2>7. LinksSeen'
    <3>1. UNCHANGED spsc
      BY Zenon, <1>9 DEF notify
    <3>2. ppc'[s] = "loadSleeping"
      BY Zenon, <1>9 DEF notify, LoopType
    <3> QED BY Zenon, <1>9, <1>0, <2>1, <2>2, <2>3, <3>1, <3>2, LinksFrame
  <2>8. ExternalsSeen'
    BY Zenon, <1>9, <1>0, <2>1, <2>2, <2>3
       DEF notify, ExternalsSeen, SleepKept, Announced, Telling, LoopType, FlagType, Alert
  <2>9. Claimed'
    <3>1. UNCHANGED mpsc /\ ppc[s] # "publish"
      BY Zenon, <1>9 DEF notify
    <3> QED BY Zenon, <1>9, <1>0, <2>2, <3>1, ClaimedFrame
  <2> QED BY Zenon, <2>1, <2>4, <2>5, <2>6, <2>7, <2>8, <2>9
<1>10. ASSUME NEW s \in Threads, LoadSleeping(s) PROVE SleepInv'
  <2>0. /\ ppc[s] = "loadSleeping" /\ UNCHANGED flag /\ PGo(s, IF flag.sleeping THEN "casSleeping" ELSE "idle")
        /\ UNCHANGED <<queues, readyBits, wake, exec, pushed, rest>>
    BY Zenon, <1>10 DEF LoadSleeping, Meet, Memory
  <2>1. Elsewhere /\ FlagType'
    BY Zenon, <2>0, <1>0 DEF FlagType, LoopType
  <2>2. \A t \in Threads : t # s => ppc'[t] = ppc[t]
    BY Zenon, <2>0 DEF LoopType
  <2>3. Alert /\ Announced => Alert'
    BY Zenon, <2>0, <1>0, <2>2 DEF Alert, Announced, WakeKept, LoopType, FlagType, PopPc
  <2>4. WakeKept'
    BY Zenon, <2>0, <1>0, <2>1, <2>2 DEF WakeKept, LoopType, FlagType
  <2>5. SleepKept' /\ LocalSeen'
    BY Zenon, <2>0, <1>0, <2>1, <2>3
       DEF SleepKept, LocalSeen, Announced, LoopType, FlagType, Alert
  <2>6. StopSeen'
    BY Zenon, <2>0, <1>0, <2>1, <2>2, <2>3 DEF StopSeen, Announced, LoopType, Alert
  <2>7. LinksSeen'
    <3>1. UNCHANGED spsc
      BY Zenon, <2>0
    <3>2. Announced => ppc'[s] = "casSleeping" \/ Alert'
      BY Zenon, <2>0, <2>3 DEF LoopType, SleepKept
    <3>3. s \in Sources /\ Behind(s) => ppc'[s] = "casSleeping" \/ Alert'
      BY Zenon, <3>2, BehindAnnounced
    <3> QED BY Zenon, <1>0, <2>1, <2>2, <2>3, <3>1, <3>3, LinksFrame
  <2>8. ExternalsSeen'
    BY Zenon, <2>0, <1>0, <2>1, <2>2, <2>3
       DEF ExternalsSeen, SleepKept, Announced, Telling, LoopType, FlagType, Alert
  <2>9. Claimed'
    <3>1. UNCHANGED mpsc /\ ppc[s] # "publish"
      BY Zenon, <2>0
    <3> QED BY Zenon, <2>0, <1>0, <2>2, <3>1, ClaimedFrame
  <2> QED BY Zenon, <2>1, <2>4, <2>5, <2>6, <2>7, <2>8, <2>9
<1>11. ASSUME NEW s \in Threads, CasSleeping(s) PROVE SleepInv'
  <2>0. /\ ppc[s] = "casSleeping" /\ flag' = [flag EXCEPT !.sleeping = FALSE] /\ PGo(s, IF flag.sleeping THEN "native" ELSE "idle")
        /\ UNCHANGED <<queues, readyBits, wake, exec, pushed, rest>>
    BY Zenon, <1>11 DEF CasSleeping, Meet, Memory, WriteMemory
  <2>1. Elsewhere /\ FlagType'
    BY Zenon, <2>0, <1>0 DEF FlagType, LoopType
  <2>2. \A t \in Threads : t # s => ppc'[t] = ppc[t]
    BY Zenon, <2>0 DEF LoopType
  <2>3. Alert /\ Announced => Alert'
    BY Zenon, <2>0, <1>0, <2>2 DEF Alert, Announced, WakeKept, LoopType, FlagType, PopPc
  <2>4. WakeKept'
    BY Zenon, <2>0, <1>0, <2>1, <2>2 DEF WakeKept, LoopType, FlagType
  <2>5. SleepKept' /\ LocalSeen'
    BY Zenon, <2>0, <1>0, <2>1, <2>3
       DEF SleepKept, LocalSeen, Announced, LoopType, FlagType, Alert
  <2>6. StopSeen'
    BY Zenon, <2>0, <1>0, <2>1, <2>2, <2>3 DEF StopSeen, Announced, LoopType, Alert
  <2>7. LinksSeen'
    <3>1. UNCHANGED spsc
      BY Zenon, <2>0
    <3>2. Announced => Alert'
      BY Zenon, <2>0, <2>3 DEF LoopType, SleepKept, Alert
    <3>3. s \in Sources /\ Behind(s) => Alert'
      BY Zenon, <3>2, BehindAnnounced
    <3> QED BY Zenon, <1>0, <2>1, <2>2, <2>3, <3>1, <3>3, LinksFrame
  <2>8. ExternalsSeen'
    BY Zenon, <2>0, <1>0, <2>1, <2>2, <2>3
       DEF ExternalsSeen, SleepKept, Announced, Telling, LoopType, FlagType, Alert
  <2>9. Claimed'
    <3>1. UNCHANGED mpsc /\ ppc[s] # "publish"
      BY Zenon, <2>0
    <3> QED BY Zenon, <2>0, <1>0, <2>2, <3>1, ClaimedFrame
  <2> QED BY Zenon, <2>1, <2>4, <2>5, <2>6, <2>7, <2>8, <2>9
<1>12. ASSUME NEW s \in Threads, CasWakePending(s) PROVE SleepInv'
  <2>0. /\ ppc[s] = "native" /\ flag' = [flag EXCEPT !.ioWakePending = TRUE] /\ PGo(s, IF flag.ioWakePending THEN "idle" ELSE "write")
        /\ UNCHANGED <<queues, readyBits, wake, exec, pushed, rest>>
    BY Zenon, <1>12 DEF CasWakePending, Meet, Memory, WriteMemory
  <2>1. Elsewhere /\ FlagType'
    BY Zenon, <2>0, <1>0 DEF FlagType, LoopType
  <2>2. \A t \in Threads : t # s => ppc'[t] = ppc[t]
    BY Zenon, <2>0 DEF LoopType
  <2>3. Alert /\ Announced => Alert'
    BY Zenon, <2>0, <1>0, <2>2 DEF Alert, Announced, WakeKept, LoopType, FlagType, PopPc
  <2>4. WakeKept'
    BY Zenon, <2>0, <1>0, <2>1, <2>2 DEF WakeKept, LoopType, FlagType
  <2>5. SleepKept' /\ LocalSeen'
    BY Zenon, <2>0, <1>0, <2>1, <2>3
       DEF SleepKept, LocalSeen, Announced, LoopType, FlagType, Alert
  <2>6. StopSeen'
    BY Zenon, <2>0, <1>0, <2>1, <2>2, <2>3 DEF StopSeen, Announced, LoopType, Alert
  <2>7. LinksSeen'
    <3>1. UNCHANGED spsc
      BY Zenon, <2>0
    <3>2. ppc[s] = "native"
      BY Zenon, <2>0
    <3> QED BY Zenon, <1>0, <2>1, <2>2, <2>3, <3>1, <3>2, LinksFrame
  <2>8. ExternalsSeen'
    BY Zenon, <2>0, <1>0, <2>1, <2>2, <2>3 DEF ExternalsSeen, SleepKept, Announced,
       Telling, LoopType, FlagType, Alert
  <2>9. Claimed'
    <3>1. UNCHANGED mpsc /\ ppc[s] # "publish"
      BY Zenon, <2>0
    <3> QED BY Zenon, <2>0, <1>0, <2>2, <3>1, ClaimedFrame
  <2> QED BY Zenon, <2>1, <2>4, <2>5, <2>6, <2>7, <2>8, <2>9
<1>13. ASSUME NEW s \in Threads, WriteEventfd(s) PROVE SleepInv'
  <2>1. Elsewhere /\ FlagType'
    BY Zenon, <1>13, <1>0 DEF WriteEventfd, FlagType, LoopType
  <2>2. \A t \in Threads : t # s => ppc'[t] = ppc[t]
    BY Zenon, <1>13 DEF WriteEventfd, LoopType
  <2>3. Alert /\ Announced => Alert'
    BY Zenon, <1>13, <1>0, <2>2 DEF WriteEventfd, Alert, Announced, WakeKept, LoopType, FlagType, PopPc
  <2>4. WakeKept'
    BY Zenon, <1>13, <1>0, <2>1, <2>2 DEF WriteEventfd, WakeKept, LoopType, FlagType
  <2>5. SleepKept' /\ LocalSeen'
    BY Zenon, <1>13, <1>0, <2>1, <2>3
       DEF WriteEventfd, SleepKept, LocalSeen, Announced, LoopType, FlagType, Alert
  <2>6. StopSeen'
    BY Zenon, <1>13, <1>0, <2>1, <2>2, <2>3 DEF WriteEventfd, StopSeen, Announced, LoopType, Alert
  <2>7. LinksSeen'
    BY Zenon, <1>13, <1>0, <2>1, <2>2, <2>3, BehindAnnounced
       DEF WriteEventfd, LinksSeen, Behind, SleepKept, LoopType, FlagType, Alert
  <2>8. ExternalsSeen'
    BY Zenon, <1>13, <1>0, <2>1, <2>2, <2>3
       DEF WriteEventfd, ExternalsSeen, SleepKept, Announced, Telling, LoopType, FlagType, Alert
  <2>9. Claimed'
    <3>1. UNCHANGED mpsc /\ ppc[s] # "publish"
      BY Zenon, <1>13 DEF WriteEventfd
    <3> QED BY Zenon, <1>13, <1>0, <2>2, <3>1, ClaimedFrame
  <2> QED BY Zenon, <2>1, <2>4, <2>5, <2>6, <2>7, <2>8, <2>9
<1>14. ASSUME NEW s \in Threads, NotifyOne(s) PROVE SleepInv'
  BY Zenon, <1>14 DEF NotifyOne, FlagType
<1> QED BY Zenon, <1>1, <1>2, <1>3, <1>4, <1>5, <1>6, <1>7, <1>8, <1>9, <1>10, <1>11, <1>12, <1>13,
   <1>14 DEF Continue

\* The history only grows, and the executor's kind never changes.
LEMMA RacedStays == ASSUME [Next]_vars PROVE (raced => raced') /\ (IoThread' <=> IoThread)
<1> DEFINE Same == raced' = raced /\ deploy' = deploy
<1> USE DEF flags, rest
<1>1. ASSUME UNCHANGED vars PROVE Same
  BY Zenon, <1>1 DEF vars
<1>2. ASSUME pop_one PROVE Same
  <2>1. CASE PopLocal \/ PopReady \/ ClearReady \/ RepopReady \/ RemarkReady \/ PopFallback
    BY Zenon, <2>1 DEF PopLocal, PopReady, ClearReady, RepopReady, RemarkReady, PopFallback
  <2>2. CASE PopExternal \/ ClearExternal \/ RepopExternal \/ SetExternal \/ PopExternalLast
    BY Zenon, <2>2
       DEF PopExternal, ClearExternal, RepopExternal, SetExternal, PopExternalLast, Store
  <2> QED BY Zenon, <1>2, <2>1, <2>2 DEF pop_one
<1>3. ASSUME ExecuteTask \/ CheckStop \/ PollNow \/ DrainRead \/ DrainFlag \/ Observe PROVE Same
  BY Zenon, <1>3 DEF ExecuteTask, CheckStop, PollNow, DrainRead, DrainFlag, Observe, Store
<1>4. ASSUME SleepOn \/ CheckStopAgain \/ CheckEpoch \/ Wait \/ Awake \/ IoEvent \/ Flush
      PROVE  Same
  BY Zenon, <1>4 DEF SleepOn, CheckStopAgain, CheckEpoch, Wait, Awake, IoEvent, Flush, Store
<1>5. ASSUME NEW t \in Threads, Continue(t) PROVE Same \/ ((raced => raced') /\ deploy' = deploy)
  <2>1. CASE notify_force(t) \/ notify(t) \/ WriteEventfd(t) \/ NotifyOne(t)
    BY Zenon, <2>1 DEF notify_force, notify, WriteEventfd, NotifyOne
  <2>2. CASE LoadSleeping(t) \/ CasSleeping(t) \/ CasWakePending(t)
    <3>1. ASSUME NEW f, Meet(f) PROVE raced => raced'
      BY <3>1 DEF Meet
    <3> QED BY Zenon, <2>2, <3>1 DEF LoadSleeping, CasSleeping, CasWakePending
  <2>3. CASE MarkReady(t) \/ PublishMpsc(t) \/ LoadExternalReady(t) \/ SetExternalReady(t)
    BY Zenon, <2>3 DEF MarkReady, PublishMpsc, LoadExternalReady, SetExternalReady
  <2> QED BY Zenon, <1>5, <2>1, <2>2, <2>3 DEF Continue
<1>6. ASSUME (\E s \in Sources : PushSpsc(s)) \/ (\E e \in Externals : ClaimMpsc(e)) \/ request_stop
      PROVE  Same
  BY Zenon, <1>6 DEF PushSpsc, ClaimMpsc, request_stop
<1>7. Same \/ ((raced => raced') /\ deploy' = deploy)
  BY Zenon, <1>1, <1>2, <1>3, <1>4, <1>5, <1>6 DEF Next, run_loop
<1>8. deploy' = deploy /\ (raced => raced')
  BY <1>7
<1> QED BY Zenon, <1>8 DEF IoThread

\* What is known of an IO thread none of whose notifiers has met a delayed store.
SleepSafe == IoThread /\ ~raced => SleepInv

\* The sleep invariant is inductive.
LEMMA NextSleep ==
    ASSUME LoopType, SleepSafe, [Next]_vars
    PROVE  SleepSafe'
<1> SUFFICES ASSUME IoThread', ~raced' PROVE SleepInv'
  BY Zenon DEF SleepSafe
<1>0. IoThread /\ SleepInv
  BY Zenon, RacedStays DEF SleepSafe
<1>1. CASE UNCHANGED vars
  BY Zenon, <1>0, <1>1 DEF vars, queues, flags, wake, exec, others, rest, SleepInv, FlagType, WakeKept,
     SleepKept, LocalSeen, StopSeen, LinksSeen, ExternalsSeen, Claimed, Announced, Behind, Alert
<1>2. CASE Next
  BY Zenon, <1>0, <1>2, LoopSleepStep, ThreadSleepStep DEF Next
<1> QED BY Zenon, <1>1, <1>2

\* For any number of pushing threads and pushes, wherever the wake epoch wraps and
\* however many of its stores the processor delays: an IO thread never blocks in
\* epoll_wait while a queue holds a task, or a stop is requested, that everybody has
\* told it of, unless a notifier met sleeping_ or io_wake_pending_ while the
\* executor's own store to it was still on its way to memory.
THEOREM SleepsWhenIdleThm == Spec => [](IoThread => SleepsWhenIdle)
<1>1. LoopType /\ SleepInv => NoSleepOverWork
  <2> SUFFICES ASSUME LoopType, SleepInv, Asleep, \A t \in Threads : ppc[t] = "idle"
               PROVE  /\ local = 0 /\ mpsc = <<>> /\ ~stopRequested
                      /\ \A s \in Sources : spsc[s] = 0
    BY Zenon DEF NoSleepOverWork
  <2>1. pc = "wait" /\ ~Alert /\ Announced
    BY Zenon DEF Asleep, SleepInv, FlagType, Alert, Announced
  <2>2. local = 0
    BY Zenon, <2>1 DEF SleepInv, LocalSeen
  <2>3. \A s \in Sources : spsc[s] = 0
    <3>0. spsc \in [Sources -> Nat]
      BY Zenon DEF LoopType
    <3>1. Sources \subseteq Threads
      BY Zenon DEF Threads, Producers
    <3>2. ASSUME NEW s \in Sources PROVE spsc[s] = 0
      <4>1. ~(spsc[s] > 0)
        BY Zenon, <2>1, <3>1 DEF SleepInv, LinksSeen, Behind
      <4> QED BY <3>0, <4>1
    <3> QED BY Zenon, <3>2
  <2>4. mpsc = <<>>
    <3>1. Externals \subseteq Threads
      BY Zenon DEF Threads, Producers
    <3> QED BY Zenon, <2>1, <3>1 DEF SleepInv, ExternalsSeen, Telling
  <2>5. ~stopRequested
    <3>1. "stopper" \in Threads
      BY Zenon DEF Threads
    <3> QED BY Zenon, <2>1, <3>1 DEF SleepInv, StopSeen
  <2> QED BY Zenon, <2>2, <2>3, <2>4, <2>5
<1>2. LoopType /\ SleepSafe => (IoThread => SleepsWhenIdle)
  BY Zenon, <1>1 DEF SleepSafe, SleepsWhenIdle
<1>3. Init => SleepSafe
  BY Zenon, InitSleep DEF SleepSafe
<1>4. LoopType /\ SleepSafe /\ [Next]_vars => SleepSafe'
  BY Zenon, NextSleep
<1> QED BY <1>2, <1>3, <1>4, InitLoopType, NextLoopType, PTL DEF Spec
=============================================================================
