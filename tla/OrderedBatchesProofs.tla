------------------------ MODULE OrderedBatchesProofs ------------------------
(* Ordered batches for any number of shards, batches, submissions and       *)
(* retries: shards apply in order, a group counts its shards, and success   *)
(* means that every shard has applied the batch. The steps that end a shard *)
(* or start, end or cancel a batch; the others are in OrderedBatchesSteps.  *)
EXTENDS OrderedBatchesSteps

-----------------------------------------------------------------------------
(* The end of a shard, and the steps that move an apply task.               *)

\* complete() closes the shard of executor e: what holds whether it is the last one or not.
LEMMA ShardCompleted ==
  ASSUME FanOutInv, NEW e \in Executors, NEW b, b = run[e].batch, run[e].at = "sub",
         setup' = setup, run' = [run EXCEPT ![e] = AfterComplete(e)],
         \A t \in Shards : Item("shard", b) \in Sent(Apply, t)' <=> Item("shard", b) \in Sent(Apply, t)
  PROVE  /\ b \in Batches /\ stop # "cancelled" /\ GroupInv /\ e \in Open(b)
         /\ Open(b)' = Open(b) \ {e} /\ OnceInv(b)' /\ (Loops(b)' <=> Loops(b))
         /\ \A t \in Shards : Undecided(b, t) => t # e /\ Undecided(b, t)'
         /\ run' \in [Executors -> Runs] /\ RunOk(e)'
         /\ \A d \in Executors : d # e => run'[d] = run[d]
         /\ run'[e].kind \in {"dispatch", "shard"} => run'[e].batch = b
<1>0. BatchType /\ ChannelInv /\ RunInv /\ setup \in Setups /\ run \in [Executors -> Runs]
  BY Zenon DEF FanOutInv, BatchType
<1>1. /\ e \in Shards /\ b \in Batches /\ stop # "cancelled" /\ GroupInv /\ e \in Open(b)
      /\ \/ run[e].kind = "dispatch" /\ e = Apply /\ run[e].shard = e
         \/ run[e].kind = "shard" /\ e # Apply
  BY Zenon, InShard
<1>2. /\ Apply' = Apply /\ Apply \in Executors /\ Shards \subseteq Executors /\ Executors \subseteq Sources
  BY Zenon, <1>0, <1>1, Places DEF Apply
<1>3. OnceInv(b)
  BY Zenon, <1>1 DEF GroupInv, BatchInv
<1>4. \A t \in Shards : Queued(b, t)' <=> Queued(b, t)
  BY Zenon, <1>2 DEF Queued
<1>5. CASE run[e].kind = "dispatch" /\ e = Apply /\ run[e].shard = e
  <2>1. /\ run' \in [Executors -> Runs]
        /\ \A d \in Executors : d # e => run'[d] = run[d]
        /\ run'[e].kind = "dispatch" /\ run'[e].batch = b
        /\ run'[e].shard = e + 1 /\ run'[e].at = "post" /\ e + 1 \in 1 .. ShardCount + 1
    <3> DEFINE r == [run[e] EXCEPT !.at = "post", !.shard = @ + 1]
    <3>1. run[e] \in Runs /\ e + 1 \in 1 .. ShardCount + 1 /\ e + 1 \in 0 .. ShardCount + 1
      BY <1>0, <1>1, BatchParameters DEF Shards
    <3>2. r \in Runs /\ r.kind = "dispatch" /\ r.batch = b /\ r.shard = e + 1 /\ r.at = "post"
      BY <1>5, <3>1 DEF Runs, Steps
    <3>3. run' = [run EXCEPT ![e] = r]
      BY Zenon, <1>5 DEF AfterComplete
    <3> HIDE DEF r
    <3> QED BY Zenon, <1>0, <3>1, <3>2, <3>3
  <2>2. RunOk(e)'
    BY Zenon, <1>1, <1>2, <1>5, <2>1 DEF RunOk
  <2>3. Loops(b) /\ Loops(b)'
    BY Zenon, <1>2, <1>5, <2>1 DEF Loops
  <2>4. \A t \in Shards : /\ Ahead(b, t) <=> e <= t
                          /\ Ahead(b, t)' <=> e + 1 <= t
    BY Zenon, <1>2, <1>5, <2>1, <2>3 DEF Ahead
  <2>5. /\ \A t \in Shards : /\ e + 1 <= t <=> e <= t /\ t # e
                             /\ e < t <=> e <= t /\ t # e
        /\ e <= e
    BY <1>1 DEF Shards
  <2>6. \A t \in Shards : /\ Working(b, t)' <=> Working(b, t)
                          /\ Working(b, t) => run'[t] = run[t] /\ t # e
    BY Zenon, <1>2, <1>5, <2>1 DEF Working
  <2>7. ~Queued(b, e) /\ ~Working(b, e)
    BY Zenon, <1>1, <1>3, <2>4, <2>5 DEF OnceInv
  <2>8. Open(b)' = Open(b) \ {e}
    BY Zenon, <1>1, <1>4, <2>4, <2>5, <2>6, <2>7 DEF Open
  <2>9. OnceInv(b)'
    BY Zenon, <1>3, <1>4, <2>4, <2>5, <2>6 DEF OnceInv
  <2>10. ASSUME NEW t \in Shards, Undecided(b, t) PROVE t # e /\ Undecided(b, t)'
    <3>1. t # e
      BY Zenon, <1>5, <2>5, <2>7, <2>10 DEF Undecided
    <3>2. Ahead(b, t) => Ahead(b, t)'
      BY Zenon, <2>4, <2>5, <3>1
    <3> QED BY Zenon, <1>2, <1>4, <1>5, <2>1, <2>6, <2>10, <3>1, <3>2 DEF Undecided
  <2> QED BY Zenon, <1>1, <2>1, <2>2, <2>3, <2>8, <2>9, <2>10
<1>6. CASE run[e].kind = "shard" /\ e # Apply
  <2>1. run' = [run EXCEPT ![e] = Idle]
    BY Zenon, <1>6 DEF AfterComplete
  <2>2. Idle \in Runs /\ Idle.kind = "idle"
    BY BatchParameters DEF Idle, Runs, Steps
  <2>3. /\ run' \in [Executors -> Runs] /\ run'[e] = Idle
        /\ \A d \in Executors : d # e => run'[d] = run[d]
    BY Zenon, <1>0, <2>1, <2>2
  <2>4. RunOk(e)'
    BY Zenon, <2>3 DEF RunOk
  <2>5. run'[Apply] = run[Apply] /\ (Loops(b)' <=> Loops(b)) /\ \A t \in Shards : Ahead(b, t)' <=> Ahead(b, t)
    BY Zenon, <1>2, <1>6, <2>3 DEF Loops, Ahead
  <2>6. \A t \in Shards : /\ Working(b, t)' <=> Working(b, t) /\ t # e
                          /\ t # e => run'[t] = run[t]
    BY Zenon, <1>2, <2>2, <2>3 DEF Working
  <2>7. Working(b, e) /\ ~Queued(b, e) /\ ~Ahead(b, e)
    BY Zenon, <1>1, <1>3, <1>6 DEF OnceInv, Working
  <2>8. Open(b)' = Open(b) \ {e}
    BY Zenon, <1>1, <1>4, <2>5, <2>6, <2>7 DEF Open
  <2>9. OnceInv(b)'
    BY Zenon, <1>3, <1>4, <2>5, <2>6 DEF OnceInv
  <2>10. ASSUME NEW t \in Shards, Undecided(b, t) PROVE t # e /\ Undecided(b, t)'
    <3>1. t # e
      BY Zenon, <2>7, <2>10 DEF Undecided
    <3> QED BY Zenon, <1>2, <1>4, <2>5, <2>6, <2>10, <3>1 DEF Undecided
  <2> QED BY Zenon, <1>1, <2>2, <2>3, <2>4, <2>5, <2>8, <2>9, <2>10
<1> QED BY Zenon, <1>1, <1>5, <1>6

\* The counter of a group goes down by the shard that completed.
LEMMA OneLess ==
  ASSUME NEW b, NEW e \in Open(b), Open(b)' = Open(b) \ {e}
  PROVE  /\ Cardinality(Open(b)) \in Nat /\ Cardinality(Open(b)') = Cardinality(Open(b)) - 1
         /\ Cardinality(Open(b)) = 1 <=> Open(b)' = {}
<1>1. IsFiniteSet(Shards)
  BY BatchParameters, FS_Interval DEF Shards
<1>2. IsFiniteSet(Open(b))
  <2>1. Open(b) \subseteq Shards
    BY Zenon DEF Open
  <2> QED BY Zenon, <1>1, <2>1, FS_Subset
<1>3. /\ Cardinality(Open(b)) \in Nat /\ IsFiniteSet(Open(b) \ {e})
      /\ Cardinality(Open(b) \ {e}) = Cardinality(Open(b)) - 1
  BY Zenon, <1>2, FS_CardinalityType, FS_RemoveElement
<1>4. Cardinality(Open(b) \ {e}) = 0 <=> Open(b) \ {e} = {}
  BY Zenon, <1>3, FS_EmptySet
<1>5. Cardinality(Open(b)) = 1 <=> Cardinality(Open(b) \ {e}) = 0
  BY <1>3
<1> QED BY Zenon, <1>3, <1>4, <1>5

\* RuntimeParallelGroup::complete by a shard that is not the last one.
LEMMA CompleteOneStep ==
  ASSUME FanOutInv, NEW e \in Executors, complete(e), NEW b, b = run[e].batch, group[b].pending # 1
  PROVE  FanOutInv'
<1>0. /\ BatchType /\ ChannelInv /\ setup \in Setups
      /\ queue \in [Sources -> [Executors -> Seq(Items)]]
      /\ task \in [Batches -> [state : TaskStates, requested : BOOLEAN, failures : Nat, tries : Nat]]
      /\ group \in [Batches -> [pending : Nat, failed : Nat]]
  BY Zenon DEF FanOutInv, BatchType
<1>1. /\ run[e].at = "sub" /\ run' = [run EXCEPT ![e] = AfterComplete(e)]
      /\ group' = [group EXCEPT ![b].pending = @ - 1] /\ UNCHANGED <<task, queue>>
      /\ UNCHANGED <<setup, submits, inbox, next, buffered, last, handled, stop>>
  BY Zenon DEF complete
<1>2. ChannelInv' /\ Apply' = Apply /\ \A t, c : Sent(t, c)' = Sent(t, c)
  BY Zenon, <1>0, <1>1, SameQueues DEF Apply
<1>3. /\ b \in Batches /\ stop # "cancelled" /\ GroupInv /\ e \in Open(b)
      /\ Open(b)' = Open(b) \ {e} /\ OnceInv(b)' /\ (Loops(b)' <=> Loops(b))
      /\ \A t \in Shards : Undecided(b, t) => t # e /\ Undecided(b, t)'
      /\ run' \in [Executors -> Runs] /\ RunOk(e)'
      /\ \A d \in Executors : d # e => run'[d] = run[d]
      /\ run'[e].kind \in {"dispatch", "shard"} => run'[e].batch = b
  BY Zenon, <1>1, <1>2, ShardCompleted
<1>4. BatchInv(b) /\ TokenInv /\ group[b] \in [pending : Nat, failed : Nat]
  BY Zenon, <1>0, <1>3 DEF GroupInv
<1>5. /\ group[b].pending = Cardinality(Open(b))
      /\ Cardinality(Open(b)) \in Nat /\ Cardinality(Open(b)') = Cardinality(Open(b)) - 1
      /\ Open(b)' # {}
  BY Zenon, <1>3, <1>4, OneLess DEF BatchInv, CountInv
<1>6. /\ group' \in [Batches -> [pending : Nat, failed : Nat]]
      /\ group'[b].pending = group[b].pending - 1 /\ group'[b].failed = group[b].failed
      /\ \A c \in Batches : c # b => group'[c] = group[c]
  <2> DEFINE g == [group[b] EXCEPT !.pending = @ - 1]
  <2>1. group[b].pending - 1 \in Nat
    <3>1. Open(b) # {} /\ IsFiniteSet(Open(b))
      <4>1. IsFiniteSet(Shards) /\ Open(b) \subseteq Shards
        BY BatchParameters, FS_Interval DEF Shards, Open
      <4> QED BY Zenon, <1>3, <4>1, FS_Subset
    <3>2. Cardinality(Open(b)) # 0
      BY Zenon, <3>1, FS_EmptySet
    <3> QED BY <1>5, <3>2
  <2>2. g \in [pending : Nat, failed : Nat] /\ g.pending = group[b].pending - 1 /\ g.failed = group[b].failed
    BY <1>4, <2>1
  <2>3. group' = [group EXCEPT ![b] = g]
    BY Zenon, <1>1
  <2> HIDE DEF g
  <2> QED BY Zenon, <1>0, <1>3, <2>2, <2>3
<1>7. About(e, b)
  BY Zenon, <1>1, <1>2, <1>3, <1>6 DEF About
<1>8. \A s \in Sources : Sent(s, Apply)' = Sent(s, Apply)
  BY Zenon, <1>1, <1>2 DEF Sent
<1>9. TokenInv' /\ (Waits(b)' <=> Waits(b))
  <2>1. TokenInv'
    BY <1>4, <1>8 DEF TokenInv
  <2> QED BY Zenon, <1>8, <2>1 DEF Waits
<1>10. PhaseInv(b)'
  BY <1>1, <1>3, <1>4, <1>5, <1>9 DEF BatchInv, PhaseInv
<1>11. CountInv(b)'
  BY Zenon, <1>5, <1>6 DEF CountInv
<1>12. AppliedInv(b)'
  <2>1. Applied(b)' <=> Applied(b)
    BY Zenon, <1>1 DEF Applied
  <2> QED BY ZenonT(60), <1>1, <1>3, <1>4, <1>5, <1>6, <1>8, <2>1 DEF BatchInv, AppliedInv
<1>13. task'[b].state = "succeeded" => Applied(b)
  BY Zenon, <1>1, <1>3 DEF FanOutInv, SuccessMeansApplied, Applied
<1> QED BY Zenon, <1>0, <1>1, <1>2, <1>3, <1>6, <1>7, <1>9, <1>10, <1>11, <1>12, <1>13, MoveStep DEF BatchInv

\* RuntimeParallelGroup::complete by the last shard: set_task_parallel_failures, and the
\* owner is posted if it waits, or finds the wake when its run ends.
LEMMA CompleteLastStep ==
  ASSUME FanOutInv, NEW e \in Executors, complete(e), NEW b, b = run[e].batch, group[b].pending = 1
  PROVE  FanOutInv'
<1> DEFINE m == Item("resume", b)
<1>0. /\ BatchType /\ ChannelInv /\ setup \in Setups
      /\ queue \in [Sources -> [Executors -> Seq(Items)]]
      /\ task \in [Batches -> [state : TaskStates, requested : BOOLEAN, failures : Nat, tries : Nat]]
      /\ group \in [Batches -> [pending : Nat, failed : Nat]]
  BY Zenon DEF FanOutInv, BatchType
<1>1. /\ run[e].at = "sub" /\ run' = [run EXCEPT ![e] = AfterComplete(e)]
      /\ group' = [group EXCEPT ![b] = NoGroup] /\ ResumeOwner(e, b)
      /\ UNCHANGED <<setup, submits, inbox, next, buffered, last, handled, stop>>
  BY Zenon DEF complete
<1>2. b \in Batches /\ GroupInv /\ stop # "cancelled"
  BY Zenon, <1>1, InShard
<1>3. /\ Apply' = Apply /\ Apply \in Executors /\ Shards \subseteq Executors /\ Executors \subseteq Sources
      /\ e \in Sources
  BY Zenon, <1>0, <1>1, Places DEF Apply
<1>4. /\ BatchInv(b) /\ TokenInv /\ group[b] \in [pending : Nat, failed : Nat]
      /\ task[b] \in [state : TaskStates, requested : BOOLEAN, failures : Nat, tries : Nat]
  BY Zenon, <1>0, <1>2 DEF GroupInv
<1>5. m \in Items /\ m.batch = b /\ m.kind = "resume" /\ m # Item("shard", b)
  BY Zenon, <1>2 DEF m, Items, Item, Kinds
<1>6. /\ group' \in [Batches -> [pending : Nat, failed : Nat]] /\ group'[b] = NoGroup
      /\ \A c \in Batches : c # b => group'[c] = group[c]
  <2>1. NoGroup \in [pending : Nat, failed : Nat]
    BY DEF NoGroup
  <2> QED BY Zenon, <1>0, <1>1, <1>2, <2>1
\* What is known whether the owner waits or runs.
<1>7. ASSUME \A t \in Shards : Item("shard", b) \in Sent(Apply, t)' <=> Item("shard", b) \in Sent(Apply, t)
      PROVE  /\ Open(b) # {} /\ Open(b)' = {} /\ OnceInv(b)' /\ CountInv(b)' /\ (Loops(b)' <=> Loops(b))
             /\ run' \in [Executors -> Runs] /\ RunOk(e)'
             /\ \A d \in Executors : d # e => run'[d] = run[d]
             /\ run[e].kind \in {"dispatch", "shard"} => run[e].batch = b
             /\ run'[e].kind \in {"dispatch", "shard"} => run'[e].batch = b
             /\ group[b].failed = 0 => Applied(b)
  <2>1. /\ e \in Open(b) /\ Open(b)' = Open(b) \ {e} /\ OnceInv(b)' /\ (Loops(b)' <=> Loops(b))
        /\ \A t \in Shards : Undecided(b, t) => t # e /\ Undecided(b, t)'
        /\ run' \in [Executors -> Runs] /\ RunOk(e)'
        /\ \A d \in Executors : d # e => run'[d] = run[d]
        /\ run'[e].kind \in {"dispatch", "shard"} => run'[e].batch = b
    BY Zenon, <1>1, <1>7, ShardCompleted
  <2>2. Open(b)' = {} /\ Cardinality(Open(b)') = 0
    <3>1. group[b].pending = Cardinality(Open(b))
      BY Zenon, <1>4 DEF BatchInv, CountInv
    <3>2. /\ Cardinality(Open(b)) \in Nat /\ Cardinality(Open(b)') = Cardinality(Open(b)) - 1
          /\ Cardinality(Open(b)) = 1 <=> Open(b)' = {}
      BY Zenon, <2>1, OneLess
    <3> QED BY <3>1, <3>2
  <2>3. CountInv(b)'
    <3>1. NoGroup.pending = 0
      BY DEF NoGroup
    <3> QED BY Zenon, <1>6, <2>2, <3>1 DEF CountInv
  <2>4. \A t \in Shards : ~Undecided(b, t)
    <3>1. \A t \in Shards : Undecided(b, t)' => t \in Open(b)'
      BY Zenon DEF Undecided, Open
    <3> QED BY Zenon, <2>1, <2>2, <3>1
  <2>5. group[b].failed = 0 => ~(group[b].failed > 0)
    BY <1>4
  <2>6. group[b].failed = 0 => Applied(b)
    BY Zenon, <1>4, <2>1, <2>4, <2>5 DEF BatchInv, AppliedInv, Applied
  <2> QED BY Zenon, <2>1, <2>2, <2>3, <2>6
<1>8. Applied(b)' <=> Applied(b)
  BY Zenon, <1>1 DEF Applied
<1>9. group[b].failed \in Nat
  BY <1>4
<1> HIDE DEF m
<1>10. CASE task[b].state = "pending"
  <2>1. /\ task' = [task EXCEPT ![b].failures = group[b].failed, ![b].state = "queued"]
        /\ queue' = Post(e, Apply, m, queue)
    BY Zenon, <1>1, <1>10 DEF ResumeOwner, m
  <2>2. /\ task' \in [Batches -> [state : TaskStates, requested : BOOLEAN, failures : Nat, tries : Nat]]
        /\ task'[b].state = "queued" /\ task'[b].requested = task[b].requested
        /\ task'[b].failures = group[b].failed
        /\ \A c \in Batches : c # b => task'[c] = task[c]
    <3> DEFINE k == [[task[b] EXCEPT !.failures = group[b].failed] EXCEPT !.state = "queued"]
    <3>1. /\ k \in [state : TaskStates, requested : BOOLEAN, failures : Nat, tries : Nat]
          /\ k.state = "queued" /\ k.requested = task[b].requested /\ k.failures = group[b].failed
      BY <1>4, <1>9 DEF TaskStates
    <3>2. task' = [task EXCEPT ![b] = k]
      BY <1>0, <1>2, <2>1
    <3> HIDE DEF k
    <3> QED BY Zenon, <1>0, <1>2, <3>1, <3>2
  <2>3. ~Waits(b) /\ ~Loops(b) /\ ~task[b].requested /\ m \notin Sent(e, Apply)
    <3>1. ~Waits(b) /\ ~Loops(b) /\ ~task[b].requested
      BY Zenon, <1>4, <1>10 DEF BatchInv, PhaseInv
    <3> QED BY Zenon, <1>3, <3>1 DEF Waits, m
  <2>4. /\ queue' \in [Sources -> [Executors -> Seq(Items)]]
        /\ Sent(e, Apply)' = Sent(e, Apply) \cup {m}
        /\ \A t \in Sources, c \in Executors : t # e \/ c # Apply => Sent(t, c)' = Sent(t, c)
    <3> DEFINE a == Apply
    <3>1. a \in Executors /\ m \notin Sent(e, a) /\ queue' = Post(e, a, m, queue)
      BY Zenon, <1>3, <2>1, <2>3
    <3>2. PICK d \in Executors : d = Apply
      BY Zenon, <1>3
    <3>3. /\ queue' \in [Sources -> [Executors -> Seq(Items)]]
          /\ Sent(e, d)' = Sent(e, d) \cup {m}
          /\ \A t \in Sources, c \in Executors : t # e \/ c # d => Sent(t, c)' = Sent(t, c)
      BY <1>0, <1>3, <1>5, <3>1, <3>2, PostEffect
    <3>4. Sent(e, Apply)' = Sent(e, d)'
      BY Zenon, <1>3, <3>2 DEF Sent
    <3> QED BY Zenon, <1>3, <3>2, <3>3, <3>4
  <2>5. ChannelInv'
    <3>1. PICK d \in Executors : d = Apply
      BY Zenon, <1>3
    <3> QED BY <1>0, <1>1, <1>3, <1>5, <2>1, <2>3, <3>1, PostKept
  <2>6. \A t \in Shards : Item("shard", b) \in Sent(Apply, t)' <=> Item("shard", b) \in Sent(Apply, t)
    <3> SUFFICES ASSUME NEW t \in Shards
                 PROVE  Item("shard", b) \in Elems(queue'[Apply][t]) <=> Item("shard", b) \in Elems(queue[Apply][t])
      BY Zenon, <1>3 DEF Sent
    <3>1. CASE e = Apply /\ t = Apply
      <4>1. Elems(queue'[e][Apply']) = Elems(queue[e][Apply]) \cup {m}
        BY Zenon, <2>4 DEF Sent
      <4> QED BY Zenon, <1>3, <1>5, <3>1, <4>1
    <3>2. CASE e # Apply \/ t # Apply
      BY Zenon, <1>3, <2>4, <3>2 DEF Sent
    <3> QED BY Zenon, <3>1, <3>2
  <2>7. TokenInv' /\ Waits(b)'
    <3>1. \A t \in Sources : t # e => Sent(t, Apply)' = Sent(t, Apply)
      BY Zenon, <1>3, <2>4 DEF Sent
    <3> QED BY Zenon, <1>0, <1>1, <1>2, <1>3, <1>4, <2>3, <2>4, <3>1, TokenPosted DEF m
  <2>8. About(e, b)
    <3>1. \A t \in Sources, c \in Executors : \A x \in Items : x.batch # b => (x \in Sent(t, c)' <=> x \in Sent(t, c))
      <4> SUFFICES ASSUME NEW t \in Sources, NEW c \in Executors, NEW x \in Items, x.batch # b
                   PROVE  x \in Elems(queue'[t][c]) <=> x \in Elems(queue[t][c])
        BY Zenon DEF Sent
      <4>1. x # m
        BY Zenon, <1>5
      <4>2. CASE t = e /\ c = Apply
        <5>1. Elems(queue'[e][Apply']) = Elems(queue[e][Apply]) \cup {m}
          BY Zenon, <2>4 DEF Sent
        <5> QED BY Zenon, <1>3, <4>1, <4>2, <5>1
      <4>3. CASE t # e \/ c # Apply
        BY Zenon, <2>4, <4>3 DEF Sent
      <4> QED BY Zenon, <4>2, <4>3
    <3> QED BY Zenon, <1>6, <1>7, <2>2, <2>6, <3>1 DEF About
  <2>9. PhaseInv(b)'
    <3>1. b >= next => FALSE
      BY Zenon, <1>4, <1>10 DEF BatchInv, PhaseInv
    <3> QED BY <1>1, <1>7, <2>2, <2>3, <2>6, <2>7, <3>1 DEF PhaseInv
  <2>10. AppliedInv(b)'
    BY Zenon, <1>7, <1>8, <2>2, <2>3, <2>6 DEF AppliedInv
  <2> QED BY Zenon, <1>0, <1>1, <1>2, <1>6, <1>7, <2>2, <2>4, <2>5, <2>6, <2>7, <2>8, <2>9, <2>10, MoveStep
             DEF BatchInv
<1>11. CASE task[b].state = "running"
  <2>1. /\ task' = [task EXCEPT ![b].failures = group[b].failed, ![b].requested = TRUE]
        /\ queue' = queue
    BY Zenon, <1>1, <1>11 DEF ResumeOwner
  <2>2. /\ task' \in [Batches -> [state : TaskStates, requested : BOOLEAN, failures : Nat, tries : Nat]]
        /\ task'[b].state = "running" /\ task'[b].requested = TRUE
        /\ task'[b].failures = group[b].failed
        /\ \A c \in Batches : c # b => task'[c] = task[c]
    <3> DEFINE k == [[task[b] EXCEPT !.failures = group[b].failed] EXCEPT !.requested = TRUE]
    <3>1. /\ k \in [state : TaskStates, requested : BOOLEAN, failures : Nat, tries : Nat]
          /\ k.state = "running" /\ k.requested = TRUE /\ k.failures = group[b].failed
      BY <1>4, <1>9, <1>11 DEF TaskStates
    <3>2. task' = [task EXCEPT ![b] = k]
      BY <1>0, <1>2, <2>1
    <3> HIDE DEF k
    <3> QED BY Zenon, <1>0, <1>2, <3>1, <3>2
  <2>3. ChannelInv' /\ \A t, c : Sent(t, c)' = Sent(t, c)
    BY Zenon, <1>0, <1>1, <2>1, SameQueues
  <2>4. \A t \in Shards : Item("shard", b) \in Sent(Apply, t)' <=> Item("shard", b) \in Sent(Apply, t)
    BY Zenon, <1>3, <2>1 DEF Sent
  <2>5. About(e, b)
    BY Zenon, <1>6, <1>7, <2>2, <2>3, <2>4 DEF About
  <2>6. \A s \in Sources : Sent(s, Apply)' = Sent(s, Apply)
    BY Zenon, <1>3, <2>1 DEF Sent
  <2>7. TokenInv' /\ ~Waits(b)' /\ Loops(b)
    <3>1. TokenInv'
      BY <1>4, <2>6 DEF TokenInv
    <3>2. ~Waits(b) /\ Loops(b)
      BY Zenon, <1>4, <1>11 DEF BatchInv, PhaseInv
    <3> QED BY Zenon, <2>6, <3>1, <3>2 DEF Waits
  <2>8. PhaseInv(b)'
    <3>1. b >= next => FALSE
      BY Zenon, <1>4, <1>11 DEF BatchInv, PhaseInv
    <3> QED BY <1>1, <1>7, <2>2, <2>4, <2>7, <3>1 DEF PhaseInv
  <2>9. AppliedInv(b)'
    BY Zenon, <1>7, <1>8, <2>2, <2>4 DEF AppliedInv
  <2> QED BY Zenon, <1>0, <1>1, <1>2, <1>6, <1>7, <2>1, <2>2, <2>3, <2>4, <2>5, <2>7, <2>8, <2>9, MoveStep
             DEF BatchInv
<1>12. task[b].state = "pending" \/ task[b].state = "running"
  BY Zenon, <1>1 DEF ResumeOwner
<1> QED BY Zenon, <1>10, <1>11, <1>12

\* An idle executor takes task m of batch b from the queue of source s.
Takes(e, s, m, b) ==
  /\ run[e] = Idle /\ queue[s][e] # <<>> /\ m = Head(queue[s][e]) /\ b = m.batch
  /\ queue' = [queue EXCEPT ![s][e] = Tail(@)]
  /\ UNCHANGED <<setup, submits, inbox, next, buffered, last, handled, stop>>

\* pop_one hands the apply task of a batch to the executor of the apply tasks.
LEMMA TaskPopped ==
  ASSUME FanOutInv, NEW e \in Executors, NEW s \in Sources, NEW m, NEW b, Takes(e, s, m, b),
         m.kind \in {"apply", "resume"}
  PROVE  /\ e = Apply /\ b \in Batches /\ stop # "cancelled" /\ GroupInv
         /\ queue' \in [Sources -> [Executors -> Seq(Items)]] /\ ChannelInv' /\ TokenInv' /\ ~Waits(b)'
         /\ task[b].state = "queued" /\ ~task[b].requested /\ ~Loops(b) /\ ~(b >= next)
         /\ Open(b) = {} /\ group[b] = NoGroup
         /\ m.kind = "resume" /\ task[b].failures = 0 => Applied(b)
         /\ \A t \in Shards : ~Queued(b, t)'
         /\ \A t \in Sources, c \in Executors : \A x \in Items : x.batch # b => (x \in Sent(t, c)' <=> x \in Sent(t, c))
<1>a. /\ run[e] = Idle /\ queue[s][e] # <<>> /\ m = Head(queue[s][e]) /\ b = m.batch
      /\ queue' = [queue EXCEPT ![s][e] = Tail(@)]
      /\ UNCHANGED <<setup, submits, inbox, next, buffered, last, handled, stop>>
  BY Zenon DEF Takes
<1> USE <1>a
<1>0. /\ BatchType /\ ChannelInv /\ EndInv /\ setup \in Setups /\ (stop # "cancelled" => GroupInv)
  BY Zenon DEF FanOutInv, BatchType
<1>1. /\ queue' \in [Sources -> [Executors -> Seq(Items)]]
      /\ m \in Items /\ m \in Sent(s, e) /\ Sent(s, e)' = Sent(s, e) \ {m}
      /\ \A t \in Sources, c \in Executors : t # s \/ c # e => Sent(t, c)' = Sent(t, c)
  BY <1>0, PopEffect
<1>2. ChannelInv'
  BY Zenon, <1>0, PopKept
<1>3. e = Apply /\ Apply' = Apply /\ Shards \subseteq Executors /\ Apply \in Sources
  <2>1. e = Apply
    BY Zenon, <1>0, <1>1 DEF ChannelInv
  <2> QED BY Zenon, <1>0, <2>1, Places DEF Apply
<1>4. stop # "cancelled" /\ GroupInv
  <2>1. Idle.kind # Exited.kind
    BY DEF Idle, Exited
  <2> QED BY Zenon, <1>0, <2>1 DEF EndInv
<1>5. b \in Batches /\ m = Item(m.kind, b) /\ m.kind # "shard"
  <2>1. b \in Batches
    BY Zenon, <1>1 DEF Items
  <2> QED BY Zenon, <1>0, <1>1, <2>1, SentItems
<1>6. BatchInv(b) /\ TokenInv
  BY Zenon, <1>4, <1>5 DEF GroupInv
<1>7. Waits(b)
  BY Zenon, <1>1, <1>3, <1>5 DEF Waits
<1>8. /\ task[b].state = "queued" /\ ~task[b].requested /\ ~Loops(b) /\ ~(b >= next) /\ Open(b) = {}
  BY Zenon, <1>6, <1>7 DEF BatchInv, PhaseInv
<1>9. group[b] = NoGroup
  BY Zenon, <1>6, <1>8 DEF BatchInv, CountInv
<1>10. ASSUME m.kind = "resume", task[b].failures = 0 PROVE Applied(b)
  BY Zenon, <1>1, <1>3, <1>5, <1>6, <1>10 DEF BatchInv, AppliedInv
<1>11. /\ Sent(s, Apply)' = Sent(s, Apply) \ {m}
       /\ \A t \in Sources : t # s => Sent(t, Apply)' = Sent(t, Apply)
  BY Zenon, <1>1, <1>3 DEF Sent
<1>12. TokenInv' /\ (\A t \in Sources : \A x \in Sent(t, Apply)' : x.kind # "shard" => x.batch # b)
  <2>1. m \in Sent(s, Apply) /\ m.batch = b
    BY Zenon, <1>1, <1>3
  <2> HIDE <1>a
  <2> QED BY Zenon, <1>5, <1>6, <1>11, <2>1, TokenTaken
<1>13. ~Waits(b)'
  <2>1. Item("apply", b).kind # "shard" /\ Item("apply", b).batch = b
    BY Zenon DEF Item
  <2>2. Item("resume", b).kind # "shard" /\ Item("resume", b).batch = b
    BY Zenon DEF Item
  <2> QED BY Zenon, <1>12, <2>1, <2>2 DEF Waits
<1>14. \A t \in Shards : ~Queued(b, t)'
  <2> SUFFICES ASSUME NEW t \in Shards PROVE ~(Item("shard", b) \in Elems(queue'[Apply][t]))
    BY Zenon, <1>3 DEF Queued, Sent
  <2>1. ~Queued(b, t)
    BY Zenon, <1>8 DEF Open
  <2>2. Sent(Apply, t)' = Elems(queue'[Apply][t])
    BY Zenon, <1>3 DEF Sent
  <2>3. Elems(queue'[Apply][t]) \subseteq Sent(Apply, t)
    BY Zenon, <1>1, <1>3 DEF Sent
  <2> QED BY Zenon, <2>1, <2>3 DEF Queued
<1>15. \A t \in Sources, c \in Executors : \A x \in Items : x.batch # b => (x \in Sent(t, c)' <=> x \in Sent(t, c))
  BY Zenon, <1>1
<1> QED BY Zenon, <1>1, <1>2, <1>3, <1>4, <1>5, <1>8, <1>9, <1>10, <1>12, <1>13, <1>14, <1>15

\* The shards are numbered from 1, and an idle executor runs nothing.
LEMMA ShardNumbers ==
  /\ Idle.kind = "idle" /\ 1 \in Shards /\ 1 \in 1 .. ShardCount + 1
  /\ \A t \in Shards : 1 <= t
<1>1. Idle.kind = "idle"
  BY DEF Idle
<1>2. 1 \in Shards /\ 1 \in 1 .. ShardCount + 1 /\ \A t \in Shards : 1 <= t
  BY BatchParameters DEF Shards
<1> QED BY Zenon, <1>1, <1>2

\* A group starts with one count for each shard.
LEMMA ShardsCounted == Cardinality(Shards) = ShardCount
<1>1. 1 \in Int /\ ShardCount \in Int
  BY BatchParameters
<1>2. Cardinality(Shards) = IF 1 > ShardCount THEN 0 ELSE ShardCount - 1 + 1
  BY Zenon, <1>1, FS_Interval DEF Shards
<1> QED BY <1>2, BatchParameters

\* The place of an executor that enters dispatch.
FirstPost(b) == [Idle EXCEPT !.kind = "dispatch", !.batch = b, !.at = "post", !.shard = 1]

\* The executor that enters dispatch stands before the post to the first shard.
LEMMA DispatchRun ==
  ASSUME NEW b \in Batches
  PROVE  /\ FirstPost(b) \in Runs /\ FirstPost(b).kind = "dispatch" /\ FirstPost(b).batch = b
         /\ FirstPost(b).at = "post" /\ FirstPost(b).shard = 1
<1>1. b \in 0 .. MaxBatch /\ 1 \in 0 .. ShardCount + 1
  BY BatchParameters DEF Batches
<1> QED BY Zenon, <1>1 DEF FirstPost, Idle, Runs, Steps

\* create_parallel_group sets the counts of one batch only.
LEMMA GroupReset ==
  ASSUME NEW g \in [Batches -> [pending : Nat, failed : Nat]], NEW h, NEW b \in Batches,
         h = [g EXCEPT ![b] = [pending |-> ShardCount, failed |-> 0]]
  PROVE  /\ h \in [Batches -> [pending : Nat, failed : Nat]]
         /\ h[b].pending = ShardCount
         /\ \A c \in Batches : c # b => h[c] = g[c]
  BY BatchParameters

\* The apply tasks, and the tasks t with the state of that of batch b set.
TaskTable == [Batches -> [state : TaskStates, requested : BOOLEAN, failures : Nat, tries : Nat]]
WithState(t, b, v) == [t EXCEPT ![b].state = v]

\* The state of one apply task changes, and nothing else of any.
LEMMA TaskStateSet ==
  ASSUME NEW t \in TaskTable, NEW b \in Batches, NEW v \in TaskStates
  PROVE  /\ WithState(t, b, v) \in TaskTable
         /\ WithState(t, b, v)[b].state = v /\ WithState(t, b, v)[b].requested = t[b].requested
         /\ \A c \in Batches : c # b => WithState(t, b, v)[c] = t[c]
  BY DEF TaskTable, TaskStates, WithState

\* create_parallel_group: a batch without open shards opens them all.
LEMMA FanOutBegins ==
  ASSUME FanOutInv, NEW e \in Executors, NEW s \in Sources, NEW m, NEW b, Takes(e, s, m, b),
         m.kind \in {"apply", "resume"},
         Dispatch(e, b),
         task' \in [Batches -> [state : TaskStates, requested : BOOLEAN, failures : Nat, tries : Nat]],
         task'[b].state = "running", task'[b].requested = task[b].requested,
         \A c \in Batches : c # b => task'[c] = task[c]
  PROVE  FanOutInv'
<1>a. /\ run[e] = Idle /\ queue[s][e] # <<>> /\ m = Head(queue[s][e]) /\ b = m.batch
      /\ queue' = [queue EXCEPT ![s][e] = Tail(@)]
      /\ UNCHANGED <<setup, submits, inbox, next, buffered, last, handled, stop>>
  BY Zenon DEF Takes
<1> USE <1>a
<1>0. /\ BatchType /\ setup \in Setups /\ run \in [Executors -> Runs]
      /\ group \in [Batches -> [pending : Nat, failed : Nat]]
  BY Zenon DEF FanOutInv, BatchType
<1>1. /\ e = Apply /\ b \in Batches /\ stop # "cancelled" /\ GroupInv
      /\ queue' \in [Sources -> [Executors -> Seq(Items)]] /\ ChannelInv' /\ TokenInv' /\ ~Waits(b)'
      /\ ~task[b].requested /\ ~(b >= next) /\ Open(b) = {}
      /\ \A t \in Shards : ~Queued(b, t)'
      /\ \A t \in Sources, c \in Executors : \A x \in Items : x.batch # b => (x \in Sent(t, c)' <=> x \in Sent(t, c))
  <2>1. m.kind \in {"apply", "resume"}
    BY Zenon
  <2> HIDE <1>a
  <2> QED BY ZenonT(60), <2>1, TaskPopped
<1>2. /\ Apply' = Apply /\ Apply \in Executors /\ Shards \subseteq Executors /\ ShardCount \in Nat \ {0}
  BY Zenon, <1>0, Places DEF Apply
<1> DEFINE r == FirstPost(b)
<1>3. r \in Runs /\ r.kind = "dispatch" /\ r.batch = b /\ r.at = "post" /\ r.shard = 1
  BY Zenon, <1>1, DispatchRun
<1>4. run' = [run EXCEPT ![e] = r] /\ group' = [group EXCEPT ![b] = [pending |-> ShardCount, failed |-> 0]]
  BY Zenon DEF Dispatch, FirstPost
<1> HIDE DEF r
<1>5. /\ run' \in [Executors -> Runs] /\ run'[e] = r
      /\ \A d \in Executors : d # e => run'[d] = run[d]
  BY Zenon, <1>0, <1>3, <1>4
<1>6. /\ group' \in [Batches -> [pending : Nat, failed : Nat]]
      /\ group'[b].pending = ShardCount
      /\ \A c \in Batches : c # b => group'[c] = group[c]
  BY ZenonT(60), <1>0, <1>1, <1>4, GroupReset
<1>7. RunOk(e)'
  BY Zenon, <1>1, <1>2, <1>3, <1>5, ShardNumbers DEF RunOk
<1>8. About(e, b)
  BY Zenon, <1>1, <1>3, <1>5, <1>6, ShardNumbers DEF About
<1>9. Loops(b)' /\ \A t \in Shards : Ahead(b, t)' /\ ~Working(b, t)'
  <2>1. \A t \in Shards : 1 <= t
    BY Zenon, ShardNumbers
  <2>2. Loops(b)'
    BY Zenon, <1>1, <1>2, <1>3, <1>5 DEF Loops
  <2>3. \A t \in Shards : Ahead(b, t)'
    BY Zenon, <1>1, <1>2, <1>3, <1>5, <2>1, <2>2 DEF Ahead
  <2>4. \A t \in Shards : ~Working(b, t)
    BY Zenon, <1>1 DEF Open
  <2>5. \A t \in Shards : ~Working(b, t)'
    BY Zenon, <1>2, <1>3, <1>5, <2>4 DEF Working
  <2> QED BY Zenon, <2>2, <2>3, <2>5
<1>10. Open(b)' = Shards /\ Cardinality(Shards) = ShardCount /\ Shards # {}
  <2>3. Open(b)' = Shards
    BY Zenon, <1>9 DEF Open
  <2> QED BY Zenon, <2>3, ShardsCounted, ShardNumbers
<1>11. OnceInv(b)'
  BY Zenon, <1>1, <1>9 DEF OnceInv
<1>12. PhaseInv(b)'
  BY Zenon, <1>1, <1>9, <1>10 DEF PhaseInv
<1>13. CountInv(b)'
  BY Zenon, <1>6, <1>10 DEF CountInv
<1>14. AppliedInv(b)'
  <2>1. \A t \in Shards : Undecided(b, t)'
    BY Zenon, <1>1, <1>2, <1>3, <1>5, <1>9 DEF Undecided
  <2>2. ~(\E t \in Sources : Item("resume", b) \in Sent(t, Apply)')
    BY Zenon, <1>1 DEF Waits
  <2> QED BY Zenon, <1>1, <2>1, <2>2 DEF AppliedInv
<1> QED BY Zenon, <1>0, <1>1, <1>5, <1>6, <1>7, <1>8, <1>11, <1>12, <1>13, <1>14, MoveStep DEF BatchInv

\* A resumed apply task ends, as succeeded or as failed.
LEMMA TaskEnds ==
  ASSUME FanOutInv, NEW e \in Executors, NEW s \in Sources, NEW m, NEW b, Takes(e, s, m, b),
         m.kind = "resume", UNCHANGED <<run, group>>,
         NEW v \in {"succeeded", "failed"}, v = "succeeded" => task[b].failures = 0,
         task' = WithState(task, b, v)
  PROVE  FanOutInv'
<1>a. /\ run[e] = Idle /\ queue[s][e] # <<>> /\ m = Head(queue[s][e]) /\ b = m.batch
      /\ queue' = [queue EXCEPT ![s][e] = Tail(@)]
      /\ UNCHANGED <<setup, submits, inbox, next, buffered, last, handled, stop>>
  BY Zenon DEF Takes
<1> USE <1>a
<1>0. /\ BatchType /\ RunInv /\ setup \in Setups /\ run \in [Executors -> Runs]
      /\ task \in [Batches -> [state : TaskStates, requested : BOOLEAN, failures : Nat, tries : Nat]]
      /\ group \in [Batches -> [pending : Nat, failed : Nat]]
  BY Zenon DEF FanOutInv, BatchType
<1>1. /\ e = Apply /\ b \in Batches /\ stop # "cancelled" /\ GroupInv
      /\ queue' \in [Sources -> [Executors -> Seq(Items)]] /\ ChannelInv' /\ TokenInv' /\ ~Waits(b)'
      /\ ~task[b].requested /\ ~Loops(b) /\ ~(b >= next) /\ Open(b) = {} /\ group[b] = NoGroup
      /\ task[b].failures = 0 => Applied(b)
      /\ \A t \in Shards : ~Queued(b, t)'
      /\ \A t \in Sources, c \in Executors : \A x \in Items : x.batch # b => (x \in Sent(t, c)' <=> x \in Sent(t, c))
  <2>1. m.kind \in {"apply", "resume"}
    BY Zenon
  <2> HIDE <1>a
  <2> QED BY ZenonT(60), <2>1, TaskPopped
<1>2. Apply' = Apply /\ Apply \in Executors /\ Shards \subseteq Executors
  BY Zenon, <1>0, Places DEF Apply
<1>3. /\ task' \in [Batches -> [state : TaskStates, requested : BOOLEAN, failures : Nat, tries : Nat]]
      /\ task'[b].state = v /\ task'[b].requested = task[b].requested
      /\ \A c \in Batches : c # b => task'[c] = task[c]
  <2>1. v \in TaskStates
    BY Zenon DEF TaskStates
  <2>2. task \in TaskTable
    BY Zenon, <1>0 DEF TaskTable
  <2>3. /\ task' \in TaskTable
        /\ task'[b].state = v /\ task'[b].requested = task[b].requested
        /\ \A c \in Batches : c # b => task'[c] = task[c]
    <3>1. b \in Batches
      BY Zenon, <1>1
    <3> HIDE <1>a
    <3> QED BY ZenonT(60), <2>1, <2>2, <3>1, TaskStateSet
  <2> QED BY Zenon, <2>3 DEF TaskTable
<1>4. About(e, b)
  BY Zenon, <1>1, <1>3, ShardNumbers DEF About
<1>5. RunOk(e)'
  BY Zenon DEF RunOk
<1>6. ~Loops(b)' /\ \A t \in Shards : ~Ahead(b, t)' /\ ~Working(b, t)'
  <2>1. ~Loops(b)'
    BY Zenon, <1>1, <1>2 DEF Loops
  <2>2. \A t \in Shards : ~Working(b, t)'
    BY Zenon, <1>1 DEF Open, Working
  <2> QED BY Zenon, <2>1, <2>2 DEF Ahead
<1>7. Open(b)' = {}
  BY Zenon, <1>1, <1>6 DEF Open
<1>8. OnceInv(b)'
  BY Zenon, <1>6 DEF OnceInv
<1>9. PhaseInv(b)'
  BY Zenon, <1>1, <1>3, <1>6, <1>7 DEF PhaseInv
<1>10. CountInv(b)'
  <2>1. group[b].pending = Cardinality(Open(b))
    BY Zenon, <1>1 DEF GroupInv, BatchInv, CountInv
  <2> QED BY Zenon, <1>1, <1>7, <2>1 DEF CountInv
<1>11. AppliedInv(b)'
  BY Zenon, <1>1, <1>3, <1>7 DEF AppliedInv, Waits
<1> QED BY Zenon, <1>0, <1>1, <1>3, <1>4, <1>5, <1>8, <1>9, <1>10, <1>11, MoveStep DEF BatchInv

\* pop_one hands a ShardTask to the executor of its shard.
LEMMA ShardPopped ==
  ASSUME FanOutInv, NEW e \in Executors, NEW s \in Sources, NEW m, NEW b, Takes(e, s, m, b),
         m.kind = "shard", RunShardTask(e, b)
  PROVE  FanOutInv'
<1>a. /\ run[e] = Idle /\ queue[s][e] # <<>> /\ m = Head(queue[s][e]) /\ b = m.batch
      /\ queue' = [queue EXCEPT ![s][e] = Tail(@)]
      /\ UNCHANGED <<setup, submits, inbox, next, buffered, last, handled, stop>>
  BY Zenon DEF Takes
<1> USE <1>a
<1>0. /\ BatchType /\ ChannelInv /\ EndInv /\ setup \in Setups /\ run \in [Executors -> Runs]
      /\ task \in [Batches -> [state : TaskStates, requested : BOOLEAN, failures : Nat, tries : Nat]]
      /\ group \in [Batches -> [pending : Nat, failed : Nat]]
      /\ stop # "cancelled" => GroupInv
  BY Zenon DEF FanOutInv, BatchType
<1>1. /\ queue' \in [Sources -> [Executors -> Seq(Items)]]
      /\ m \in Items /\ m \in Sent(s, e) /\ Sent(s, e)' = Sent(s, e) \ {m}
      /\ \A t \in Sources, c \in Executors : t # s \/ c # e => Sent(t, c)' = Sent(t, c)
  BY <1>0, PopEffect
<1>2. ChannelInv' /\ UNCHANGED <<task, group>>
  BY Zenon, <1>0, PopKept DEF RunShardTask
<1>3. /\ s = Apply /\ e \in Shards /\ e # Apply
      /\ Apply' = Apply /\ Shards \subseteq Executors /\ Apply \in Executors
  <2>1. s = Apply /\ e \in Shards /\ e # Apply
    BY Zenon, <1>0, <1>1 DEF ChannelInv
  <2> QED BY Zenon, <1>0, <2>1, Places DEF Apply
<1>4. stop # "cancelled" /\ GroupInv
  <2>1. Idle.kind # Exited.kind
    BY DEF Idle, Exited
  <2> QED BY Zenon, <1>0, <2>1 DEF EndInv
<1>5. b \in Batches /\ m = Item("shard", b)
  <2>1. b \in Batches
    BY Zenon, <1>1 DEF Items
  <2> QED BY Zenon, <1>0, <1>1, <2>1, SentItems
<1>6. BatchInv(b) /\ TokenInv
  BY Zenon, <1>4, <1>5 DEF GroupInv
<1> DEFINE r == [Idle EXCEPT !.kind = "shard", !.batch = b, !.at = "guard"]
<1>7. r \in Runs /\ r.kind = "shard" /\ r.batch = b /\ r.at = "guard"
  <2>1. b \in 0 .. MaxBatch /\ 0 \in 0 .. ShardCount + 1
    BY <1>5, BatchParameters DEF Batches
  <2> QED BY <2>1 DEF Idle, Runs, Steps
<1>8. run' = [run EXCEPT ![e] = r]
  BY Zenon DEF RunShardTask
<1> HIDE DEF r
<1>9. /\ run' \in [Executors -> Runs] /\ run'[e] = r
      /\ \A d \in Executors : d # e => run'[d] = run[d]
  BY Zenon, <1>0, <1>7, <1>8
<1>10. RunOk(e)'
  BY Zenon, <1>3, <1>5, <1>7, <1>9 DEF RunOk
<1>11. About(e, b)
  <2>1. Idle.kind = "idle"
    BY DEF Idle
  <2>2. \A t \in Sources, c \in Executors : \A x \in Items : x.batch # b => (x \in Sent(t, c)' <=> x \in Sent(t, c))
    BY Zenon, <1>1
  <2> QED BY Zenon, <1>2, <1>7, <1>9, <2>1, <2>2 DEF About
<1>12. \A t \in Sources : Sent(t, Apply)' = Sent(t, Apply)
  BY ZenonT(60), <1>1, <1>3 DEF Sent
<1>13. TokenInv' /\ (Waits(b)' <=> Waits(b))
  <2>1. TokenInv'
    BY <1>6, <1>12 DEF TokenInv
  <2> QED BY Zenon, <1>12, <2>1 DEF Waits
<1>14. /\ Queued(b, e) /\ ~Queued(b, e)' /\ Working(b, e)'
       /\ \A t \in Shards : t # e => (Queued(b, t)' <=> Queued(b, t)) /\ (Working(b, t)' <=> Working(b, t))
                                     /\ run'[t] = run[t]
  <2>1. Queued(b, e) /\ Working(b, e)'
    BY Zenon, <1>1, <1>3, <1>5, <1>7, <1>9 DEF Queued, Working
  <2>2. ~Queued(b, e)'
    <3>1. Sent(Apply, e)' = Sent(s, e)'
      BY Zenon, <1>3 DEF Sent
    <3> QED BY Zenon, <1>1, <1>5, <3>1 DEF Queued
  <2>3. ASSUME NEW t \in Shards, t # e
        PROVE  (Queued(b, t)' <=> Queued(b, t)) /\ (Working(b, t)' <=> Working(b, t)) /\ run'[t] = run[t]
    <3>1. Sent(Apply, t)' = Sent(s, t)'
      BY Zenon, <1>3 DEF Sent
    <3>2. Sent(Apply, t)' = Sent(Apply, t)
      BY Zenon, <1>1, <1>3, <2>3, <3>1
    <3> QED BY Zenon, <1>3, <1>9, <2>3, <3>2 DEF Queued, Working
  <2> QED BY Zenon, <2>1, <2>2, <2>3
<1>15. run'[Apply] = run[Apply] /\ (Loops(b)' <=> Loops(b)) /\ \A t \in Shards : Ahead(b, t)' <=> Ahead(b, t)
  BY Zenon, <1>3, <1>9 DEF Loops, Ahead
<1>16. Open(b)' = Open(b)
  BY Zenon, <1>3, <1>14, <1>15 DEF Open
<1>17. OnceInv(b)'
  <2>1. OnceInv(b)
    BY Zenon, <1>6 DEF BatchInv
  <2>2. ASSUME NEW t \in Shards
        PROVE  /\ Queued(b, t)' => ~Working(b, t)' /\ ~Ahead(b, t)'
               /\ Working(b, t)' => ~Ahead(b, t)'
    <3>1. CASE t = e
      BY Zenon, <1>3, <1>14, <1>15, <2>1, <3>1 DEF OnceInv
    <3>2. CASE t # e
      BY Zenon, <1>14, <1>15, <2>1, <3>2 DEF OnceInv
    <3> QED BY Zenon, <3>1, <3>2
  <2> QED BY Zenon, <2>2 DEF OnceInv
<1>18. PhaseInv(b)'
  BY <1>2, <1>6, <1>13, <1>15, <1>16 DEF BatchInv, PhaseInv
<1>19. CountInv(b)'
  BY Zenon, <1>2, <1>6, <1>16 DEF BatchInv, CountInv
<1>20. AppliedInv(b)'
  <2>1. \A t \in Shards : Undecided(b, t) => Undecided(b, t)'
    <3> SUFFICES ASSUME NEW t \in Shards, Undecided(b, t) PROVE Undecided(b, t)'
      BY Zenon
    <3>1. CASE t = e
      BY Zenon, <1>7, <1>9, <1>14, <3>1 DEF Undecided
    <3>2. CASE t # e
      BY Zenon, <1>3, <1>14, <1>15, <3>2 DEF Undecided
    <3> QED BY Zenon, <3>1, <3>2
  <2>2. Applied(b)' <=> Applied(b)
    BY Zenon DEF Applied
  <2> QED BY Zenon, <1>2, <1>6, <1>12, <1>16, <2>1, <2>2 DEF BatchInv, AppliedInv
<1>21. task'[b].state = "succeeded" => Applied(b)
  BY Zenon, <1>2, <1>5 DEF FanOutInv, SuccessMeansApplied, Applied
<1> QED BY Zenon, <1>0, <1>1, <1>2, <1>4, <1>5, <1>9, <1>10, <1>11, <1>13, <1>17, <1>18, <1>19, <1>20, <1>21,
           MoveStep DEF BatchInv

\* An executor takes a task from one of its queues and runs it.
LEMMA ExecuteStep ==
  ASSUME FanOutInv, NEW e \in Executors, NEW s \in Sources, Execute(e, s)
  PROVE  FanOutInv'
<1>0. /\ BatchType /\ ChannelInv /\ setup \in Setups
      /\ task \in [Batches -> [state : TaskStates, requested : BOOLEAN, failures : Nat, tries : Nat]]
  BY Zenon DEF FanOutInv, BatchType
<1>1. PICK m, b : Takes(e, s, m, b) /\ m = Head(queue[s][e]) /\ b = m.batch
  BY Zenon DEF Execute, Takes
<1>3. /\ \/ m.kind = "apply" /\ RunApply(e, b)
         \/ m.kind = "resume" /\ RunResumed(e, b)
         \/ m.kind = "shard" /\ RunShardTask(e, b)
  BY Zenon, <1>1 DEF Execute
<1>4. b \in Batches
  <2>1. m \in Items
    <3>1. queue[s][e] # <<>> /\ queue' = [queue EXCEPT ![s][e] = Tail(@)]
      BY Zenon, <1>1 DEF Takes
    <3> QED BY Zenon, <1>0, <1>1, <3>1, PopEffect
  <2> QED BY Zenon, <1>1, <2>1 DEF Items
<1>5. task[b] \in [state : TaskStates, requested : BOOLEAN, failures : Nat, tries : Nat]
  BY Zenon, <1>0, <1>4
<1>9. ASSUME Dispatch(e, b), m.kind \in {"apply", "resume"},
             task' \in [Batches -> [state : TaskStates, requested : BOOLEAN, failures : Nat, tries : Nat]],
             task'[b].state = "running", task'[b].requested = task[b].requested,
             \A c \in Batches : c # b => task'[c] = task[c]
      PROVE  FanOutInv'
  BY Zenon, <1>1, <1>9, FanOutBegins
<1>6. CASE m.kind = "apply" /\ RunApply(e, b)
  <2>1. Dispatch(e, b) /\ task' = [task EXCEPT ![b].state = "running"]
    BY Zenon, <1>6 DEF RunApply
  <2>2. /\ task' \in [Batches -> [state : TaskStates, requested : BOOLEAN, failures : Nat, tries : Nat]]
        /\ task'[b].state = "running" /\ task'[b].requested = task[b].requested
        /\ \A c \in Batches : c # b => task'[c] = task[c]
    <3>1. "running" \in TaskStates
      BY Zenon DEF TaskStates
    <3>2. task' = WithState(task, b, "running") /\ task \in TaskTable
      BY Zenon, <1>0, <2>1 DEF WithState, TaskTable
    <3>3. /\ task' \in TaskTable
          /\ task'[b].state = "running" /\ task'[b].requested = task[b].requested
          /\ \A c \in Batches : c # b => task'[c] = task[c]
      BY ZenonT(60), <1>4, <3>1, <3>2, TaskStateSet
    <3> QED BY Zenon, <3>3 DEF TaskTable
  <2> QED BY Zenon, <1>6, <1>9, <2>1, <2>2
<1>7. CASE m.kind = "resume" /\ RunResumed(e, b)
  <2>1. CASE /\ task[b].failures = 0 /\ task' = [task EXCEPT ![b].state = "succeeded"]
             /\ UNCHANGED <<run, group>>
    <3>1. "succeeded" \in {"succeeded", "failed"} /\ ("succeeded" = "succeeded" => task[b].failures = 0)
      BY Zenon, <2>1
    <3>2. task' = WithState(task, b, "succeeded") /\ UNCHANGED <<run, group>>
      BY Zenon, <2>1 DEF WithState
    <3>3. Takes(e, s, m, b) /\ m.kind = "resume"
      BY Zenon, <1>1, <1>7
    <3> QED BY Zenon, <3>1, <3>2, <3>3, TaskEnds
  <2>2. CASE task' = [task EXCEPT ![b].state = "failed"] /\ UNCHANGED <<run, group>>
    <3>1. "failed" \in {"succeeded", "failed"} /\ ("failed" = "succeeded" => task[b].failures = 0)
      BY Zenon
    <3>2. task' = WithState(task, b, "failed") /\ UNCHANGED <<run, group>>
      BY Zenon, <2>2 DEF WithState
    <3>3. Takes(e, s, m, b) /\ m.kind = "resume"
      BY Zenon, <1>1, <1>7
    <3> QED BY Zenon, <3>1, <3>2, <3>3, TaskEnds
  <2>3. CASE Dispatch(e, b) /\ task' = [task EXCEPT ![b].state = "running", ![b].tries = @ + 1]
    <3>1. /\ task' \in [Batches -> [state : TaskStates, requested : BOOLEAN, failures : Nat, tries : Nat]]
          /\ task'[b].state = "running" /\ task'[b].requested = task[b].requested
          /\ \A c \in Batches : c # b => task'[c] = task[c]
      <4> DEFINE n == task[b].tries + 1
                 k == [[task[b] EXCEPT !.state = "running"] EXCEPT !.tries = n]
      <4>3. n \in Nat
        BY <1>5
      <4> HIDE DEF n
      <4>1. /\ k \in [state : TaskStates, requested : BOOLEAN, failures : Nat, tries : Nat]
            /\ k.state = "running" /\ k.requested = task[b].requested
        BY Zenon, <1>5, <4>3 DEF TaskStates
      <4>2. task' = [task EXCEPT ![b] = k]
        BY <1>0, <1>4, <2>3 DEF n
      <4> HIDE DEF k
      <4> QED BY Zenon, <1>0, <1>4, <4>1, <4>2
    <3>2. Dispatch(e, b) /\ m.kind = "resume"
      BY Zenon, <1>7, <2>3
    <3> QED BY Zenon, <1>9, <3>1, <3>2
  <2> QED BY Zenon, <1>7, <2>1, <2>2, <2>3 DEF RunResumed
<1>8. CASE m.kind = "shard" /\ RunShardTask(e, b)
  BY Zenon, <1>1, <1>8, ShardPopped
<1> QED BY Zenon, <1>3, <1>6, <1>7, <1>8

\* StartReady with its last batch named.
Starts(b, n) ==
  /\ next' = n + 1
  /\ buffered' = buffered \ (b .. (n + 1))
  /\ queue' = [queue EXCEPT ![Sequencer][Apply] =
                  @ \o [i \in 1 .. (n + 1 - b) |-> Item("apply", b + i - 1)]]
  /\ task' = [c \in Batches |-> IF c \in b .. n THEN [task[c] EXCEPT !.state = "queued"] ELSE task[c]]

\* start_ready begins at batch b and ends at some batch n.
LEMMA ReadyStarts ==
  ASSUME NEW b, StartReady(b)
  PROVE  \E n \in (b - 1) .. MaxBatch : Starts(b, n)
<1>1. PICK n \in (b - 1) .. MaxBatch :
        /\ next' = n + 1
        /\ buffered' = buffered \ (b .. (n + 1))
        /\ queue' = [queue EXCEPT ![Sequencer][Apply] =
                       @ \o [i \in 1 .. (n + 1 - b) |-> Item("apply", b + i - 1)]]
        /\ task' = [c \in Batches |-> IF c \in b .. n THEN [task[c] EXCEPT !.state = "queued"] ELSE task[c]]
  BY Zenon DEF StartReady
<1>2. Starts(b, n)
  BY Zenon, <1>1 DEF Starts
<1> QED BY Zenon, <1>2

\* The sequencer starts batch b = next and those buffered behind it, up to batch n.
LEMMA StartStep ==
  ASSUME FanOutInv, submit, NEW b, b = Head(inbox), b = next, NEW n \in (b - 1) .. MaxBatch, Starts(b, n)
  PROVE  FanOutInv'
<1>0. /\ BatchType /\ ChannelInv /\ RunInv /\ EndInv /\ AppliedInOrder /\ SuccessMeansApplied
      /\ setup \in Setups /\ inbox \in Seq(Batches) /\ buffered \subseteq Batches
      /\ queue \in [Sources -> [Executors -> Seq(Items)]]
      /\ task \in [Batches -> [state : TaskStates, requested : BOOLEAN, failures : Nat, tries : Nat]]
      /\ stop # "cancelled" => GroupInv
  BY Zenon DEF FanOutInv, BatchType
<1>s. /\ next' = n + 1 /\ buffered' = buffered \ (b .. (n + 1))
      /\ task' = [c \in Batches |-> IF c \in b .. n THEN [task[c] EXCEPT !.state = "queued"] ELSE task[c]]
  BY Zenon DEF Starts
<1>1. /\ inbox # <<>> /\ inbox' = Tail(inbox)
      /\ UNCHANGED <<setup, submits, run, group, last, handled, stop>>
  BY Zenon DEF submit
<1>2. stop # "cancelled" /\ GroupInv
  BY Zenon, <1>0, <1>1 DEF EndInv
<1>3. b \in Batches /\ inbox' \in Seq(Batches) /\ next' \in 1 .. MaxBatch + 1 /\ b .. n \subseteq Batches
  <2>1. b \in Batches /\ inbox' \in Seq(Batches)
    BY <1>0, <1>1
  <2> QED BY <1>s, <2>1, BatchParameters DEF Batches
<1>4. /\ Apply \in Executors /\ Shards \subseteq Executors /\ Executors \subseteq Sources
      /\ Sequencer \in Sources /\ Sequencer \notin Executors /\ Apply' = Apply
  BY Zenon, <1>0, <1>1, Places DEF Apply
<1>5. \A c \in Batches : BatchInv(c)
  BY Zenon, <1>2 DEF GroupInv
<1>6. ASSUME NEW c \in b .. n
      PROVE  /\ c \in Batches /\ task[c].state = "none" /\ ~task[c].requested
             /\ ~Waits(c) /\ ~Loops(c) /\ Open(c) = {}
  <2>1. c \in Batches /\ c >= next
    BY <1>3, BatchParameters DEF Batches
  <2> QED BY Zenon, <1>5, <2>1 DEF BatchInv, PhaseInv
<1> DEFINE q == queue[Sequencer][Apply]
           r == [i \in 1 .. (n + 1 - b) |-> Item("apply", b + i - 1)]
           New == {Item("apply", c) : c \in b .. n}
<1>7. q \in Seq(Items) /\ Distinct(q) /\ \A c \in b .. n : Item("apply", c) \notin Elems(q)
  <2>1. q \in Seq(Items) /\ Distinct(q)
    <3>1. \A t \in Sources, c \in Executors : queue[t][c] \in Seq(Items) /\ Distinct(queue[t][c])
      BY Zenon, <1>0 DEF ChannelInv
    <3> QED BY Zenon, <1>4, <3>1
  <2>2. ASSUME NEW c \in b .. n PROVE Item("apply", c) \notin Elems(q)
    <3>1. ~Waits(c)
      BY Zenon, <1>6
    <3> QED BY Zenon, <1>4, <3>1 DEF Waits, Sent
  <2> QED BY Zenon, <2>1, <2>2
<1>8. q \o r \in Seq(Items) /\ Elems(q \o r) = Elems(q) \cup New /\ Distinct(q \o r)
  BY ZenonT(60), <1>3, <1>7, ElemsStarts
<1>9. queue' = [queue EXCEPT ![Sequencer] = [queue[Sequencer] EXCEPT ![Apply] = q \o r]]
  BY Zenon DEF Starts
<1> HIDE DEF q, r
<1>10. /\ queue' \in [Sources -> [Executors -> Seq(Items)]] /\ queue'[Sequencer][Apply] = q \o r
       /\ \A t \in Sources, c \in Executors : t # Sequencer \/ c # Apply => queue'[t][c] = queue[t][c]
  <2>1. PICK a \in Executors : a = Apply
    BY Zenon, <1>4
  <2>2. PICK w \in Seq(Items) : w = q \o r
    BY Zenon, <1>8
  <2>3. queue' = [queue EXCEPT ![Sequencer] = [queue[Sequencer] EXCEPT ![a] = w]]
    BY Zenon, <1>9, <2>1, <2>2
  <2>4. /\ queue' \in [Sources -> [Executors -> Seq(Items)]] /\ queue'[Sequencer][a] = w
        /\ \A t \in Sources, c \in Executors : t # Sequencer \/ c # a => queue'[t][c] = queue[t][c]
    BY Zenon, <1>0, <1>4, <2>3, OneQueue
  <2> QED BY Zenon, <2>1, <2>2, <2>4
<1>11. /\ Sent(Sequencer, Apply)' = Sent(Sequencer, Apply) \cup New
       /\ \A t \in Sources, c \in Executors : t # Sequencer \/ c # Apply => Sent(t, c)' = Sent(t, c)
  BY Zenon, <1>4, <1>8, <1>10 DEF Sent, q
<1>12. \A x \in New : x.kind = "apply" /\ x \in Items /\ \E c \in b .. n : x = Item("apply", c) /\ x.batch = c
  <2> SUFFICES ASSUME NEW c \in b .. n
               PROVE  Item("apply", c).kind = "apply" /\ Item("apply", c) \in Items /\ Item("apply", c).batch = c
    BY Zenon DEF New
  <2>1. c \in Batches
    BY Zenon, <1>3
  <2> QED BY Zenon, <2>1 DEF Item, Items, Kinds
<1>13. \A x \in Items : x.batch \notin b .. n => x \notin New
  BY Zenon, <1>12
<1> HIDE DEF New
<1>14. \A t \in Sources, c \in Executors : \A x \in Elems(queue'[t][c]) :
         x \in Sent(t, c) \/ (x \in New /\ t = Sequencer /\ c = Apply)
  BY Zenon, <1>8, <1>10 DEF Sent, q
<1>15. ChannelInv'
  <2>1. \A t \in Sources, c \in Executors : Distinct(queue'[t][c])
    BY Zenon, <1>0, <1>8, <1>10 DEF ChannelInv
  <2> SUFFICES ASSUME NEW t \in Sources, NEW c \in Executors, NEW x \in Elems(queue'[t][c])
               PROVE  /\ x.kind = "shard" => t = Apply /\ c \in Shards \ {Apply}
                      /\ x.kind = "apply" => t = Sequencer /\ c = Apply
                      /\ x.kind = "resume" => t \in Executors /\ c = Apply
    BY <1>4, <2>1 DEF ChannelInv, Sent
  <2>2. CASE x \in Sent(t, c)
    BY Zenon, <1>0, <2>2 DEF ChannelInv
  <2>3. CASE x \in New /\ t = Sequencer /\ c = Apply
    <3>1. x.kind = "apply"
      BY Zenon, <1>12, <2>3
    <3> QED BY Zenon, <2>3, <3>1
  <2> QED BY Zenon, <1>14, <2>2, <2>3
<1>16. TokenInv'
  <2>1. \A t \in Sources : \A x \in Elems(queue[t][Apply]) : x.kind # "shard" => x.batch \notin b .. n
    BY ZenonT(60), <1>0, <1>4, <1>6, SentItems DEF Waits, Sent
  <2>3. ASSUME NEW t \in Sources, NEW x \in Elems(queue'[t][Apply]), x.kind # "shard"
        PROVE  (x.batch \in b .. n <=> x \in New) /\ (x \in New => t = Sequencer)
    <3>1. CASE x \in New
      <4>1. x.batch \in b .. n
        BY Zenon, <1>12, <3>1
      <4>2. x \notin Elems(queue[t][Apply])
        BY Zenon, <2>1, <2>3, <4>1
      <4> QED BY Zenon, <1>4, <1>14, <3>1, <4>1, <4>2 DEF Sent
    <3>2. CASE x \notin New
      BY Zenon, <1>4, <1>14, <2>1, <2>3, <3>2 DEF Sent
    <3> QED BY Zenon, <3>1, <3>2
  <2>2. ASSUME NEW t \in Sources, NEW u \in Sources, NEW x \in Elems(queue'[t][Apply]), NEW y \in Elems(queue'[u][Apply]),
               x.batch = y.batch, x.kind # "shard", y.kind # "shard"
        PROVE  t = u /\ x = y
    <3>1. CASE x \in New /\ y \in New
      <4>1. t = Sequencer /\ u = Sequencer
        BY Zenon, <2>2, <2>3, <3>1
      <4>2. x = Item("apply", x.batch) /\ y = Item("apply", y.batch)
        BY Zenon, <1>12, <3>1
      <4> QED BY Zenon, <2>2, <4>1, <4>2
    <3>2. CASE (x \in New /\ y \notin New) \/ (x \notin New /\ y \in New)
      BY Zenon, <2>2, <2>3, <3>2
    <3>4. CASE x \notin New /\ y \notin New
      BY Zenon, <1>2, <1>4, <1>14, <2>2, <3>4 DEF GroupInv, TokenInv
    <3> QED BY Zenon, <3>1, <3>2, <3>4
  <2> QED BY <1>4, <2>2 DEF TokenInv, Sent
<1>17. /\ task' \in [Batches -> [state : TaskStates, requested : BOOLEAN, failures : Nat, tries : Nat]]
       /\ \A c \in Batches : task'[c].requested = task[c].requested /\ task'[c].failures = task[c].failures
       /\ \A c \in Batches : task'[c].state = IF c \in b .. n THEN "queued" ELSE task[c].state
  <2>1. \A c \in Batches : task[c] \in [state : TaskStates, requested : BOOLEAN, failures : Nat, tries : Nat]
    BY Zenon, <1>0
  <2>2. \A c \in Batches : LET k == [task[c] EXCEPT !.state = "queued"]
                           IN  /\ k \in [state : TaskStates, requested : BOOLEAN, failures : Nat, tries : Nat]
                               /\ k.state = "queued" /\ k.requested = task[c].requested
                               /\ k.failures = task[c].failures
    BY <2>1 DEF TaskStates
  <2>3. \A c \in Batches : task'[c] = IF c \in b .. n THEN [task[c] EXCEPT !.state = "queued"] ELSE task[c]
    BY Zenon, <1>s
  <2>4. task' \in [Batches -> [state : TaskStates, requested : BOOLEAN, failures : Nat, tries : Nat]]
    BY Zenon, <1>s, <2>1, <2>2
  <2> QED BY Zenon, <2>2, <2>3, <2>4
<1>18. BatchType'
  BY Zenon, <1>s, <1>0, <1>1, <1>3, <1>10, <1>17 DEF BatchType
<1>19. RunInv' /\ EndInv' /\ AppliedInOrder' /\ SuccessMeansApplied'
  <2>1. RunInv'
    BY Zenon, <1>0, <1>1, <1>4 DEF RunInv, RunOk
  <2>2. SuccessMeansApplied'
    BY Zenon, <1>0, <1>1, <1>17 DEF SuccessMeansApplied
  <2> QED BY Zenon, <1>0, <1>1, <1>2, <2>1, <2>2 DEF EndInv, AppliedInOrder
<1>20. ASSUME NEW c \in Batches PROVE BatchInv(c)'
  <2>1. \A t \in Shards : Queued(c, t)' <=> Queued(c, t)
    BY Zenon, <1>4, <1>10 DEF Queued, Sent
  <2>2. (Loops(c)' <=> Loops(c)) /\ \A t \in Shards : (Working(c, t)' <=> Working(c, t)) /\ (Ahead(c, t)' <=> Ahead(c, t))
    BY Zenon, <1>1, <1>4 DEF Loops, Working, Ahead
  <2>3. Open(c)' = Open(c)
    BY Zenon, <2>1, <2>2 DEF Open
  <2>4. \A t \in Shards : Undecided(c, t)' <=> Undecided(c, t)
    BY Zenon, <1>1, <1>4, <2>1, <2>2 DEF Undecided
  <2>5. \A t \in Sources : Item("resume", c) \in Sent(t, Apply)' <=> Item("resume", c) \in Sent(t, Apply)
    <3>1. Item("resume", c).kind # "apply"
      BY Zenon DEF Item
    <3>2. \A t \in Sources : Sent(t, Apply) \subseteq Sent(t, Apply)'
      BY Zenon, <1>4, <1>10, <1>11 DEF Sent
    <3>3. \A t \in Sources : Sent(t, Apply)' = Elems(queue'[t][Apply])
      BY Zenon, <1>4 DEF Sent
    <3> QED BY Zenon, <1>4, <1>12, <1>14, <3>1, <3>2, <3>3
  <2>6. Waits(c)' => Waits(c) \/ c \in b .. n
    <3>1. Item("apply", c).batch = c /\ Item("apply", c) \in Items
      BY Zenon DEF Item, Items, Kinds
    <3>2. \A t \in Sources : Sent(t, Apply)' = Elems(queue'[t][Apply])
      BY Zenon, <1>4 DEF Sent
    <3> QED BY Zenon, <1>4, <1>13, <1>14, <2>5, <3>1, <3>2 DEF Waits
  <2>7. Applied(c)' <=> Applied(c)
    BY Zenon, <1>1 DEF Applied
  <2>8. BatchInv(c)
    BY Zenon, <1>5
  <2>9. OnceInv(c)'
    BY Zenon, <2>1, <2>2, <2>8 DEF BatchInv, OnceInv
  <2>10. CountInv(c)'
    BY Zenon, <1>1, <2>3, <2>8 DEF BatchInv, CountInv
  <2>11. AppliedInv(c)'
    BY Zenon, <1>1, <1>17, <2>3, <2>4, <2>5, <2>7, <2>8 DEF BatchInv, AppliedInv
  <2>12. PhaseInv(c)'
    <3>1. CASE c \in b .. n
      <4>1. task'[c].state = "queued" /\ ~task'[c].requested /\ ~Loops(c)' /\ Open(c)' = {}
        BY Zenon, <1>6, <1>17, <2>2, <2>3, <3>1
      <4>2. ~(c >= next')
        BY <1>s, <1>3, <3>1, BatchParameters DEF Batches
      <4> QED BY <4>1, <4>2 DEF PhaseInv
    <3>2. CASE c \notin b .. n
      <4>1. task'[c].state = task[c].state /\ task'[c].requested = task[c].requested
        BY Zenon, <1>17, <3>2
      <4>2. c >= next' => c >= next
        BY <1>s, <1>3, BatchParameters DEF Batches
      <4> QED BY <2>2, <2>3, <2>6, <2>8, <3>2, <4>1, <4>2 DEF BatchInv, PhaseInv
    <3> QED BY Zenon, <3>1, <3>2
  <2> QED BY Zenon, <2>9, <2>10, <2>11, <2>12 DEF BatchInv
<1> QED BY Zenon, <1>15, <1>16, <1>18, <1>19, <1>20 DEF FanOutInv, GroupInv

\* The ShardTasks in the queues, one for each queued shard: no shard is queued twice.
LEMMA EntriesCount ==
  ASSUME BatchType, ChannelInv, NEW b \in Batches
  PROVE  QueuedShards(b) = Cardinality({t \in Shards : Queued(b, t)})
<1> DEFINE S == ShardEntries(b)
           T == {t \in Shards : Queued(b, t)}
           f == [x \in S |-> x[2]]
<1>0. /\ Apply \in Executors /\ Shards \subseteq Executors /\ Executors \subseteq Sources
      /\ queue \in [Sources -> [Executors -> Seq(Items)]]
  BY Zenon, Places DEF BatchType
<1>1. ASSUME NEW x \in S
      PROVE  \E t \in T : \E i \in 1 .. Len(queue[Apply][t]) :
               x = <<Apply, t, i>> /\ queue[Apply][t][i] = Item("shard", b)
  <2>1. PICK c \in Sources \X Executors :
          \E i \in {j \in DOMAIN queue[c[1]][c[2]] : queue[c[1]][c[2]][j] = Item("shard", b)} : x = <<c[1], c[2], i>>
    BY Zenon DEF ShardEntries
  <2>2. PICK s \in Sources, t \in Executors : c = <<s, t>>
    BY <2>1
  <2>3. c[1] = s /\ c[2] = t
    BY Zenon, <2>2
  <2>4. PICK i \in DOMAIN queue[s][t] : queue[s][t][i] = Item("shard", b) /\ x = <<s, t, i>>
    BY Zenon, <2>1, <2>3
  <2>5. queue[s][t] \in Seq(Items)
    BY Zenon, <1>0
  <2>6. i \in 1 .. Len(queue[s][t])
    BY <2>4, <2>5
  <2>7. Item("shard", b) \in Sent(s, t) /\ Item("shard", b).kind = "shard"
    BY Zenon, <2>4, <2>6 DEF Sent, Elems, Item
  <2>8. s = Apply /\ t \in Shards
    BY Zenon, <2>7 DEF ChannelInv
  <2>9. t \in T
    BY Zenon, <2>7, <2>8 DEF Queued
  <2> QED BY Zenon, <2>4, <2>6, <2>8, <2>9
<1>2. ASSUME NEW t \in T, NEW i \in 1 .. Len(queue[Apply][t]), queue[Apply][t][i] = Item("shard", b)
      PROVE  <<Apply, t, i>> \in S
  <2>1. PICK c \in Sources \X Executors : c = <<Apply, t>>
    BY Zenon, <1>0
  <2>2. c[1] = Apply /\ c[2] = t
    BY Zenon, <2>1
  <2>3. queue[Apply][t] \in Seq(Items)
    BY Zenon, <1>0
  <2>4. i \in DOMAIN queue[c[1]][c[2]] /\ queue[c[1]][c[2]][i] = Item("shard", b)
    BY <1>2, <2>2, <2>3
  <2>5. <<c[1], c[2], i>> \in S
    <3>1. PICK y : y = <<c[1], c[2], i>>
      BY Zenon
    <3>2. i \in {j \in DOMAIN queue[c[1]][c[2]] : queue[c[1]][c[2]][j] = Item("shard", b)}
      BY Zenon, <2>4
    <3>3. y \in {<<c[1], c[2], k>> : k \in {j \in DOMAIN queue[c[1]][c[2]] : queue[c[1]][c[2]][j] = Item("shard", b)}}
      BY Zenon, <3>1, <3>2
    <3>4. y \in ShardEntries(b)
      <4> DEFINE At(d) == {<<d[1], d[2], k>> : k \in {j \in DOMAIN queue[d[1]][d[2]] : queue[d[1]][d[2]][j] = Item("shard", b)}}
      <4>1. y \in At(c)
        BY Zenon, <3>3
      <4>2. ShardEntries(b) = UNION {At(d) : d \in Sources \X Executors}
        BY Zenon DEF ShardEntries
      <4> HIDE DEF At
      <4>3. At(c) \in {At(d) : d \in Sources \X Executors}
        BY Zenon, <2>1
      <4> QED BY Zenon, <4>1, <4>2, <4>3
    <3>5. y \in S
      BY Zenon, <3>4
    <3> QED BY Zenon, <3>1, <3>5
  <2> QED BY Zenon, <2>2, <2>5
<1>3. f \in [S -> T]
  <2>1. ASSUME NEW x \in S PROVE x[2] \in T
    <3>1. PICK t \in T : \E i \in 1 .. Len(queue[Apply][t]) : x = <<Apply, t, i>>
      BY Zenon, <1>1
    <3> HIDE DEF T
    <3>2. x[2] = t
      BY <3>1
    <3> QED BY Zenon, <3>1, <3>2
  <2> QED BY Zenon, <2>1
<1>4. \A x, y \in S : f[x] = f[y] => x = y
  <2> SUFFICES ASSUME NEW x \in S, NEW y \in S, x[2] = y[2] PROVE x = y
    BY Zenon
  <2>1. PICK t \in T : \E i \in 1 .. Len(queue[Apply][t]) :
               x = <<Apply, t, i>> /\ queue[Apply][t][i] = Item("shard", b)
    BY Zenon, <1>1
  <2>2. PICK i \in 1 .. Len(queue[Apply][t]) : x = <<Apply, t, i>> /\ queue[Apply][t][i] = Item("shard", b)
    BY Zenon, <2>1
  <2>3. PICK u \in T : \E j \in 1 .. Len(queue[Apply][u]) :
               y = <<Apply, u, j>> /\ queue[Apply][u][j] = Item("shard", b)
    BY Zenon, <1>1
  <2>4. t = u
    <3>1. x[2] = t
      BY Zenon, <2>2
    <3>2. PICK j : y = <<Apply, u, j>>
      BY Zenon, <2>3
    <3>3. y[2] = u
      BY Zenon, <3>2
    <3> QED BY Zenon, <3>1, <3>3
  <2>5. PICK j \in 1 .. Len(queue[Apply][t]) : y = <<Apply, t, j>> /\ queue[Apply][t][j] = Item("shard", b)
    BY Zenon, <2>3, <2>4
  <2>6. Distinct(queue[Apply][t])
    BY Zenon, <1>0 DEF ChannelInv
  <2>7. i = j
    BY Zenon, <2>2, <2>5, <2>6 DEF Distinct
  <2> QED BY Zenon, <2>2, <2>5, <2>7
<1>5. \A t \in T : \E x \in S : f[x] = t
  <2> SUFFICES ASSUME NEW t \in T PROVE \E x \in S : x[2] = t
    BY Zenon
  <2>1. PICK i \in 1 .. Len(queue[Apply][t]) : queue[Apply][t][i] = Item("shard", b)
    BY Zenon DEF Queued, Sent, Elems
  <2>2. <<Apply, t, i>> \in S /\ <<Apply, t, i>>[2] = t
    BY Zenon, <1>2, <2>1
  <2> QED BY Zenon, <2>2
<1>6. IsFiniteSet(T)
  <2>1. IsFiniteSet(Shards) /\ T \subseteq Shards
    BY BatchParameters, FS_Interval DEF Shards
  <2> QED BY Zenon, <2>1, FS_Subset
<1> HIDE DEF S, T, f
<1>7. f \in Injection(S, T) /\ f \in Surjection(S, T)
  BY Zenon, <1>3, <1>4, <1>5 DEF Injection, Surjection, IsInjective
<1>8. Cardinality(S) = Cardinality(T)
  BY Zenon, <1>6, <1>7, FS_Injection
<1> QED BY Zenon, <1>8 DEF S, T, QueuedShards

\* cancel_registered_tasks: every group is given back, since all its open shards are in queues.
LEMMA CancelStep ==
  ASSUME FanOutInv, cancel_registered_tasks
  PROVE  FanOutInv'
<1>0. /\ BatchType /\ ChannelInv /\ RunInv /\ AppliedInOrder /\ SuccessMeansApplied
      /\ setup \in Setups
      /\ task \in [Batches -> [state : TaskStates, requested : BOOLEAN, failures : Nat, tries : Nat]]
      /\ group \in [Batches -> [pending : Nat, failed : Nat]]
  BY Zenon DEF FanOutInv, BatchType
<1>1. /\ stop = "stopping" /\ inbox = <<>> /\ stop' = "cancelled"
      /\ \A e \in Executors : run[e] = Exited
      /\ UNCHANGED <<setup, submits, inbox, next, buffered, queue, run, last, handled>>
      /\ group' = [b \in Batches |->
                     IF group[b].pending = QueuedShards(b) THEN NoGroup
                     ELSE [group[b] EXCEPT !.pending = @ - QueuedShards(b)]]
      /\ task' = [b \in Batches |-> IF task[b].state \in {"queued", "pending"}
                                    THEN [task[b] EXCEPT !.state = "cancelled"] ELSE task[b]]
  BY Zenon DEF cancel_registered_tasks
<1>2. \A b \in Batches : BatchInv(b)
  BY Zenon, <1>1 DEF FanOutInv, GroupInv
<1>3. Apply \in Executors /\ Shards \subseteq Executors
  BY Zenon, <1>0, Places
<1>4. \A b \in Batches : group[b].pending = QueuedShards(b)
  <2> SUFFICES ASSUME NEW b \in Batches PROVE group[b].pending = QueuedShards(b)
    BY Zenon
  <2>1. Exited.kind = "exited"
    BY DEF Exited, Idle
  <2>2. \A t \in Shards : ~Working(b, t) /\ ~Ahead(b, t)
    BY Zenon, <1>1, <1>3, <2>1 DEF Working, Ahead, Loops
  <2>3. Open(b) = {t \in Shards : Queued(b, t)}
    BY Zenon, <2>2 DEF Open
  <2>4. group[b].pending = Cardinality(Open(b))
    BY Zenon, <1>2 DEF BatchInv, CountInv
  <2>5. QueuedShards(b) = Cardinality({t \in Shards : Queued(b, t)})
    BY Zenon, <1>0, EntriesCount
  <2> QED BY Zenon, <2>3, <2>4, <2>5
<1>5. group' \in [Batches -> [pending : Nat, failed : Nat]] /\ \A b \in Batches : group'[b] = NoGroup
  <2>1. NoGroup \in [pending : Nat, failed : Nat]
    BY DEF NoGroup
  <2>2. \A b \in Batches : group'[b] = NoGroup
    BY Zenon, <1>1, <1>4
  <2>3. group' = [b \in Batches |-> NoGroup]
    BY Zenon, <1>1, <1>4
  <2> QED BY Zenon, <2>1, <2>2, <2>3
<1>6. /\ task' \in [Batches -> [state : TaskStates, requested : BOOLEAN, failures : Nat, tries : Nat]]
      /\ \A b \in Batches : task'[b].state = "succeeded" => task[b].state = "succeeded"
  <2>1. \A b \in Batches : task[b] \in [state : TaskStates, requested : BOOLEAN, failures : Nat, tries : Nat]
    BY Zenon, <1>0
  <2>2. \A b \in Batches : LET k == [task[b] EXCEPT !.state = "cancelled"]
                           IN  /\ k \in [state : TaskStates, requested : BOOLEAN, failures : Nat, tries : Nat]
                               /\ k.state = "cancelled"
    BY <2>1 DEF TaskStates
  <2>3. \A b \in Batches : task'[b] = IF task[b].state \in {"queued", "pending"}
                                      THEN [task[b] EXCEPT !.state = "cancelled"] ELSE task[b]
    BY Zenon, <1>1
  <2>4. task' \in [Batches -> [state : TaskStates, requested : BOOLEAN, failures : Nat, tries : Nat]]
    BY Zenon, <1>1, <2>1, <2>2
  <2> QED BY Zenon, <2>2, <2>3, <2>4
<1>7. BatchType'
  BY Zenon, <1>0, <1>1, <1>5, <1>6 DEF BatchType
<1>8. ChannelInv'
  BY Zenon, <1>0, <1>1, SameQueues
<1>9. RunInv'
  BY Zenon, <1>1 DEF RunInv, RunOk
<1>10. EndInv' /\ AppliedInOrder' /\ SuccessMeansApplied'
  BY Zenon, <1>0, <1>1, <1>5, <1>6 DEF EndInv, AppliedInOrder, SuccessMeansApplied
<1> QED BY Zenon, <1>1, <1>7, <1>8, <1>9, <1>10 DEF FanOutInv

\* Nothing is queued, run or counted at the start.
LEMMA FanOutInit == Init => FanOutInv
<1> SUFFICES ASSUME Init PROVE FanOutInv
  OBVIOUS
<1>0. setup \in Setups /\ stop = "no" /\ run = [e \in Executors |-> Idle] /\ last = [s \in Shards |-> 0]
  BY Zenon DEF Init
<1>1. Apply \in Executors /\ Shards \subseteq Executors /\ Executors \subseteq Sources
  BY Zenon, <1>0, Places
<1>2. /\ \A s \in Sources, d \in Executors : queue[s][d] = <<>> /\ Sent(s, d) = {} /\ Distinct(queue[s][d])
      /\ queue \in [Sources -> [Executors -> Seq(Items)]]
  <2>1. queue = [s \in Sources |-> [d \in Executors |-> <<>>]]
    BY Zenon DEF Init
  <2>2. \A s \in Sources, d \in Executors : queue[s][d] = <<>>
    BY Zenon, <2>1
  <2>3. Elems(<<>>) = {} /\ Distinct(<<>>) /\ <<>> \in Seq(Items)
    BY DEF Elems, Distinct
  <2> QED BY Zenon, <2>1, <2>2, <2>3 DEF Sent
<1>3. Idle \in Runs /\ Idle.kind = "idle" /\ NoGroup \in [pending : Nat, failed : Nat] /\ NoGroup.pending = 0
  BY BatchParameters DEF Idle, Runs, Steps, NoGroup
<1>4. \A b \in Batches : /\ task[b].state = "none" /\ task[b].requested = FALSE /\ task[b].failures = 0
                         /\ group[b] = NoGroup
  BY Zenon DEF Init
<1>5. BatchType
  <2>1. /\ inbox \in Seq(Batches) /\ next \in 1 .. MaxBatch + 1 /\ buffered \subseteq Batches
        /\ handled \in [Shards -> Seq(Nat)] /\ last \in [Shards -> Nat]
    BY BatchParameters DEF Init
  <2>2. /\ task \in [Batches -> [state : TaskStates, requested : BOOLEAN, failures : Nat, tries : Nat]]
        /\ group \in [Batches -> [pending : Nat, failed : Nat]]
    BY <1>3 DEF Init, TaskStates
  <2>3. run \in [Executors -> Runs]
    BY Zenon, <1>0, <1>3
  <2> QED BY Zenon, <1>0, <1>2, <2>1, <2>2, <2>3 DEF BatchType
<1>6. ChannelInv /\ RunInv /\ EndInv
  BY Zenon, <1>0, <1>2 DEF ChannelInv, RunInv, RunOk, EndInv
<1>7. AppliedInOrder /\ SuccessMeansApplied
  <2>1. ASSUME NEW s \in Shards PROVE handled[s] = [i \in 1 .. last[s] |-> i]
    <3>1. handled[s] = <<>> /\ last[s] = 0
      BY Zenon, <1>0 DEF Init
    <3> QED BY <3>1
  <2> QED BY Zenon, <1>4, <2>1 DEF AppliedInOrder, SuccessMeansApplied
<1>8. TokenInv
  BY Zenon, <1>1, <1>2 DEF TokenInv
<1>9. ASSUME NEW b \in Batches PROVE BatchInv(b)
  <2>1. ~Loops(b) /\ ~Waits(b) /\ \A s \in Shards : ~Queued(b, s) /\ ~Working(b, s) /\ ~Ahead(b, s)
    BY Zenon, <1>0, <1>1, <1>2, <1>3 DEF Loops, Waits, Queued, Working, Ahead
  <2>2. Open(b) = {}
    BY Zenon, <2>1 DEF Open
  <2>3. Cardinality({}) = 0
    BY Zenon, FS_EmptySet
  <2>4. OnceInv(b) /\ CountInv(b)
    BY Zenon, <1>3, <1>4, <2>1, <2>2, <2>3 DEF OnceInv, CountInv
  <2>5. PhaseInv(b)
    BY Zenon, <1>4, <2>1, <2>2 DEF PhaseInv
  <2>6. AppliedInv(b)
    BY Zenon, <1>4, <2>1, <2>2 DEF AppliedInv, Waits
  <2> QED BY Zenon, <2>4, <2>5, <2>6 DEF BatchInv
<1> QED BY Zenon, <1>5, <1>6, <1>7, <1>8, <1>9 DEF FanOutInv, GroupInv

\* Every step keeps the accounts of the batches.
LEMMA FanOutStep == FanOutInv /\ [Next]_vars => FanOutInv'
<1> SUFFICES ASSUME FanOutInv, [Next]_vars PROVE FanOutInv'
  OBVIOUS
<1>1. CASE (\E b \in Batches : start_ordered_task(b)) \/ RequestStop \/ UNCHANGED vars
  BY Zenon, <1>1, OutsideStep
<1>2. CASE submit
  <2>1. CASE UNCHANGED <<next, queue, task>>
    BY Zenon, <1>2, <2>1, OutsideStep
  <2>2. CASE Head(inbox) = next /\ StartReady(Head(inbox))
    <3>1. PICK b : b = Head(inbox)
      BY Zenon
    <3>2. PICK n \in (b - 1) .. MaxBatch : Starts(b, n)
      <4>1. StartReady(b)
        BY Zenon, <2>2, <3>1
      <4> QED BY Zenon, <4>1, ReadyStarts
    <3> QED BY Zenon, <1>2, <2>2, <3>1, <3>2, StartStep
  <2> QED BY Zenon, <1>2, <2>1, <2>2 DEF submit
<1>3. CASE \E e \in Executors : RunLoop(e)
  <2> SUFFICES ASSUME NEW e \in Executors, RunLoop(e) PROVE FanOutInv'
    BY Zenon, <1>3
  <2>1. PICK b, s : b = run[e].batch /\ s = run[e].shard
    BY Zenon
  <2>2. CASE DispatchShard(e)
    BY Zenon, <2>1, <2>2, InlineStep, PostShardStep
  <2>3. CASE DispatchEnd(e)
    BY Zenon, <2>1, <2>3, DispatchEndStep
  <2>4. CASE complete(e)
    BY Zenon, <2>1, <2>4, CompleteOneStep, CompleteLastStep
  <2> QED BY Zenon, <2>2, <2>3, <2>4, ShardStep, CountFailureStep, ExitStep, ExecuteStep DEF RunLoop
<1> QED BY Zenon, <1>1, <1>2, <1>3, CancelStep DEF Next

\* The three places of an open shard are disjoint, so that their counts add up.
LEMMA OutstandingCount ==
  ASSUME BatchType, ChannelInv, RunInv, NEW b \in Batches, OnceInv(b)
  PROVE  Outstanding(b) = Cardinality(Open(b))
<1> DEFINE A == {t \in Shards : Queued(b, t)}
           B == {t \in Shards : Working(b, t)}
           C == {t \in Shards : Ahead(b, t)}
           R == {e \in Executors : run[e].kind = "shard" /\ run[e].batch = b}
           D == {s \in Shards : \E e \in Executors :
                   run[e].kind = "dispatch" /\ run[e].batch = b /\ run[e].shard <= s}
<1>0. setup \in Setups
  BY Zenon DEF BatchType
<1>1. Apply \in Executors /\ Shards \subseteq Executors
  BY Zenon, <1>0, Places
<1>2. Idle.kind = "idle" /\ Exited.kind = "exited"
  BY DEF Idle, Exited
<1>3. R = B
  <2>1. \A e \in Executors : run[e].kind = "shard" => e \in Shards
    BY Zenon, <1>2 DEF RunInv, RunOk
  <2> QED BY Zenon, <1>1, <2>1 DEF Working
<1>4. D = C
  <2>1. \A e \in Executors : run[e].kind = "dispatch" => e = Apply
    BY Zenon, <1>2 DEF RunInv, RunOk
  <2> QED BY Zenon, <1>1, <2>1 DEF Ahead, Loops
<1>5. A \cap B = {} /\ (A \cup B) \cap C = {} /\ Open(b) = (A \cup B) \cup C
  BY Zenon DEF OnceInv, Open
<1>6. IsFiniteSet(A) /\ IsFiniteSet(B) /\ IsFiniteSet(C)
  <2>1. IsFiniteSet(Shards)
    BY BatchParameters, FS_Interval DEF Shards
  <2>2. A \subseteq Shards /\ B \subseteq Shards /\ C \subseteq Shards
    BY Zenon
  <2> HIDE DEF A, B, C
  <2> QED BY Zenon, <2>1, <2>2, FS_Subset
<1>7. Outstanding(b) = Cardinality(A) + Cardinality(B) + Cardinality(C)
  <2>1. Outstanding(b) = QueuedShards(b) + Cardinality(R) + Cardinality(D)
    BY Zenon DEF Outstanding
  <2>2. QueuedShards(b) = Cardinality(A)
    BY Zenon, EntriesCount
  <2> QED BY Zenon, <1>3, <1>4, <2>1, <2>2
<1> HIDE DEF A, B, C, D, R
<1>8. /\ IsFiniteSet(A \cup B)
      /\ Cardinality(A \cup B) = Cardinality(A) + Cardinality(B) - Cardinality(A \cap B)
      /\ Cardinality((A \cup B) \cup C) = Cardinality(A \cup B) + Cardinality(C) - Cardinality((A \cup B) \cap C)
  BY Zenon, <1>6, FS_Union
<1>9. Cardinality({}) = 0
  BY Zenon, FS_EmptySet
<1>10. Cardinality(A) \in Nat /\ Cardinality(B) \in Nat /\ Cardinality(C) \in Nat
  BY Zenon, <1>6, FS_CardinalityType
<1>11. PICK i \in Nat, j \in Nat, k \in Nat : i = Cardinality(A) /\ j = Cardinality(B) /\ k = Cardinality(C)
  BY Zenon, <1>10
<1>12. Cardinality(Open(b)) = (i + (j - 0)) + (k - 0)
  <2>1. Cardinality(A \cup B) = i + (j - 0)
    <3>1. Cardinality(A \cap B) = 0
      BY Zenon, <1>5, <1>9
    <3>2. Cardinality(A \cup B) = Cardinality(A) + Cardinality(B) - Cardinality(A \cap B)
      BY Zenon, <1>8
    <3> QED BY Zenon, <1>11, <3>1, <3>2
  <2>2. Cardinality((A \cup B) \cup C) = Cardinality(A \cup B) + (k - 0)
    BY Zenon, <1>5, <1>8, <1>9, <1>11
  <2> QED BY Zenon, <1>5, <2>1, <2>2
<1>13. (i + (j - 0)) + (k - 0) = i + j + k
  OBVIOUS
<1> QED BY Zenon, <1>7, <1>11, <1>12, <1>13

-----------------------------------------------------------------------------
(* What holds in every behaviour.                                            *)

\* The accounts of the fan-out hold in every reachable state.
THEOREM FanOutInvThm == Spec => []FanOutInv
BY PTL, FanOutInit, FanOutStep DEF Spec

\* Whatever is submitted, repeated, retried or refused, every shard's handler
\* applies the batches 1, 2, 3, ... each once (check_order_guard, commit_order_guard).
THEOREM AppliedInOrderThm == Spec => []AppliedInOrder
<1>1. FanOutInv => AppliedInOrder
  BY Zenon DEF FanOutInv
<1> QED BY PTL, FanOutInvThm, <1>1

\* An apply task that finishes because last_parallel_failures() is 0 has its
\* batch applied on every shard (RuntimeParallelGroup::complete).
THEOREM SuccessMeansAppliedThm == Spec => []SuccessMeansApplied
<1>1. FanOutInv => SuccessMeansApplied
  BY Zenon DEF FanOutInv
<1> QED BY PTL, FanOutInvThm, <1>1

\* RuntimeParallelGroup::pending is the number of shards that have still to
\* complete, and cancel_registered_tasks gives every group back.
THEOREM GroupCountsShardsThm == Spec => []GroupCountsShards
<1>1. FanOutInv => GroupCountsShards
  <2> SUFFICES ASSUME FanOutInv, NEW b \in Batches
               PROVE  IF stop = "cancelled" THEN group[b] = NoGroup ELSE group[b].pending = Outstanding(b)
    BY Zenon DEF GroupCountsShards
  <2>1. CASE stop = "cancelled"
    BY Zenon, <2>1 DEF FanOutInv, EndInv
  <2>2. CASE stop # "cancelled"
    <3>1. OnceInv(b) /\ CountInv(b)
      BY Zenon, <2>2 DEF FanOutInv, GroupInv, BatchInv
    <3>2. BatchType /\ ChannelInv /\ RunInv
      BY Zenon DEF FanOutInv
    <3>3. Outstanding(b) = Cardinality(Open(b))
      BY Zenon, <3>1, <3>2, OutstandingCount
    <3> QED BY Zenon, <2>2, <3>1, <3>3 DEF CountInv
  <2> QED BY Zenon, <2>1, <2>2
<1> QED BY PTL, FanOutInvThm, <1>1
=============================================================================
