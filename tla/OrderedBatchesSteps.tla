------------------------ MODULE OrderedBatchesSteps -------------------------
(* Ordered batches: the invariant of the fan-out, what its steps have in    *)
(* common, and that the steps of shards, of the inline shard and of the     *)
(* dispatching loop keep it. The other steps and the theorems are in        *)
(* OrderedBatchesProofs.                                                    *)
EXTENDS OrderedBatches, FiniteSetTheorems, TLAPS

-----------------------------------------------------------------------------
(* Queues as sets: no queue ever holds the same task twice.                  *)

Kinds == {"apply", "resume", "shard"}
Items == [kind : Kinds, batch : Batches]
Elems(q) == {q[i] : i \in 1 .. Len(q)}
Distinct(q) == \A i, j \in 1 .. Len(q) : q[i] = q[j] => i = j
Sent(s, d) == Elems(queue[s][d])

Steps == {"none", "post", "guard", "fail", "sub"}
Runs == [kind : {"idle", "exited", "dispatch", "shard"}, batch : 0 .. MaxBatch, at : Steps,
         shard : 0 .. ShardCount + 1]
TaskStates == {"none", "queued", "running", "pending", "succeeded", "failed", "cancelled"}

BatchType ==
  /\ setup \in Setups
  /\ inbox \in Seq(Batches)
  /\ next \in 1 .. MaxBatch + 1
  /\ buffered \subseteq Batches
  /\ queue \in [Sources -> [Executors -> Seq(Items)]]
  /\ run \in [Executors -> Runs]
  /\ task \in [Batches -> [state : TaskStates, requested : BOOLEAN, failures : Nat, tries : Nat]]
  /\ group \in [Batches -> [pending : Nat, failed : Nat]]
  /\ last \in [Shards -> Nat]
  /\ handled \in [Shards -> Seq(Nat)]
  /\ stop \in {"no", "stopping", "cancelled"}

\* Who sends what to whom.
ChannelInv ==
  \A s \in Sources, d \in Executors :
    /\ Distinct(queue[s][d])
    /\ \A m \in Sent(s, d) :
         /\ m.kind = "shard" => s = Apply /\ d \in Shards \ {Apply}
         /\ m.kind = "apply" => s = Sequencer /\ d = Apply
         /\ m.kind = "resume" => s \in Executors /\ d = Apply

\* What an executor works on: the fan-out on Apply, a shard on its own executor.
RunOk(e) ==
  \/ run[e] \in {Idle, Exited}
  \/ /\ run[e].kind = "dispatch" /\ e = Apply
     /\ run[e].batch \in Batches /\ run[e].shard \in 1 .. ShardCount + 1
     /\ run[e].at # "none"
     /\ run[e].at # "post" => run[e].shard = e
  \/ /\ run[e].kind = "shard" /\ e \in Shards \ {Apply}
     /\ run[e].batch \in Batches
     /\ run[e].at \in {"guard", "fail", "sub"}
RunInv == \A e \in Executors : RunOk(e)

-----------------------------------------------------------------------------
(* The shards of a batch.                                                    *)

Queued(b, s) == Item("shard", b) \in Sent(Apply, s)
Working(b, s) == run[s].kind = "shard" /\ run[s].batch = b
Loops(b) == run[Apply].kind = "dispatch" /\ run[Apply].batch = b
Ahead(b, s) == Loops(b) /\ run[Apply].shard <= s
Open(b) == {s \in Shards : Queued(b, s) \/ Working(b, s) \/ Ahead(b, s)}

\* A task that starts or resumes batch b is queued.
Waits(b) == \E s \in Sources : Item("apply", b) \in Sent(s, Apply) \/ Item("resume", b) \in Sent(s, Apply)

\* A shard of a batch is in one place.
OnceInv(b) ==
  \A s \in Shards :
    /\ Queued(b, s) => ~Working(b, s) /\ ~Ahead(b, s)
    /\ Working(b, s) => ~Ahead(b, s)

\* A batch has one task in a queue, or is being fanned out, or waits for shards.
PhaseInv(b) ==
  /\ b >= next => task[b].state = "none"
  /\ Waits(b) => task[b].state = "queued"
  /\ Loops(b) <=> task[b].state = "running"
  /\ task[b].requested => task[b].state = "running"
  /\ Open(b) # {} <=> task[b].state = "pending" \/ (task[b].state = "running" /\ ~task[b].requested)

CountInv(b) ==
  /\ group[b].pending = Cardinality(Open(b))
  /\ Open(b) = {} => group[b] = NoGroup

\* Shard s has not yet decided about batch b, or has a failure still to count.
Undecided(b, s) ==
  \/ Queued(b, s)
  \/ Working(b, s) /\ run[s].at # "sub"
  \/ Ahead(b, s) /\ (run[Apply].shard < s \/ run[Apply].at # "sub")

Applied(b) == \A s \in Shards : last[s] >= b

AppliedInv(b) ==
  /\ task[b].failures = 0 /\ task[b].requested => Applied(b)
  /\ task[b].failures = 0 /\ (\E s \in Sources : Item("resume", b) \in Sent(s, Apply)) => Applied(b)
  /\ Open(b) # {} => \A s \in Shards : Undecided(b, s) \/ group[b].failed > 0 \/ last[s] >= b

\* The accounts of one batch.
BatchInv(b) == OnceInv(b) /\ PhaseInv(b) /\ CountInv(b) /\ AppliedInv(b)

\* One task in a queue starts or resumes a batch.
TokenInv ==
  \A s, t \in Sources : \A m \in Sent(s, Apply), n \in Sent(t, Apply) :
    m.batch = n.batch /\ m.kind # "shard" /\ n.kind # "shard" => s = t /\ m = n

GroupInv == TokenInv /\ \A b \in Batches : BatchInv(b)

\* After cancel_registered_tasks nothing moves any more.
EndInv ==
  stop = "cancelled" => inbox = <<>> /\ (\A e \in Executors : run[e] = Exited)
                        /\ (\A b \in Batches : group[b] = NoGroup)

FanOutInv ==
  /\ BatchType /\ ChannelInv /\ RunInv /\ EndInv
  /\ AppliedInOrder /\ SuccessMeansApplied
  /\ stop # "cancelled" => GroupInv

-----------------------------------------------------------------------------
(* Sequences.                                                                *)

\* A task appended to a queue that does not hold it.
LEMMA ElemsAppend ==
  ASSUME NEW q \in Seq(Items), NEW x \in Items
  PROVE  /\ Append(q, x) \in Seq(Items)
         /\ Elems(Append(q, x)) = Elems(q) \cup {x}
         /\ Distinct(q) /\ x \notin Elems(q) => Distinct(Append(q, x))
<1>1. /\ Len(q) \in Nat /\ Append(q, x) \in Seq(Items) /\ Len(Append(q, x)) = Len(q) + 1
      /\ \A i \in 1 .. Len(q) : Append(q, x)[i] = q[i]
      /\ Append(q, x)[Len(q) + 1] = x
  OBVIOUS
<1>2. \A i \in 1 .. Len(q) + 1 : i \in 1 .. Len(q) \/ i = Len(q) + 1
  BY <1>1
<1>3. \A i \in 1 .. Len(q) : i \in 1 .. Len(q) + 1 /\ i # Len(q) + 1
  BY <1>1
<1>4. Len(q) + 1 \in 1 .. Len(q) + 1
  BY <1>1
<1> HIDE DEF Items
<1> QED BY Zenon, <1>1, <1>2, <1>3, <1>4 DEF Elems, Distinct

\* The head taken from a queue without repetitions.
LEMMA ElemsTail ==
  ASSUME NEW q \in Seq(Items), q # <<>>, Distinct(q)
  PROVE  /\ Tail(q) \in Seq(Items) /\ Head(q) \in Items /\ Head(q) \in Elems(q)
         /\ Elems(Tail(q)) = Elems(q) \ {Head(q)}
         /\ Distinct(Tail(q))
<1>1. /\ Len(q) \in Nat \ {0} /\ Tail(q) \in Seq(Items) /\ Len(Tail(q)) = Len(q) - 1
      /\ Head(q) = q[1] /\ Head(q) \in Items
      /\ \A i \in 1 .. Len(q) - 1 : Tail(q)[i] = q[i + 1]
  OBVIOUS
<1>2. 1 \in 1 .. Len(q) /\ Head(q) \in Elems(q)
  BY <1>1 DEF Elems
<1>3. ASSUME NEW y \in Elems(Tail(q)) PROVE y \in Elems(q) /\ y # Head(q)
  <2>1. PICK i \in 1 .. Len(q) - 1 : y = q[i + 1]
    BY <1>1 DEF Elems
  <2>2. i + 1 \in 1 .. Len(q) /\ i + 1 # 1
    BY <1>1
  <2> DEFINE k == i + 1
  <2>3. k \in 1 .. Len(q) /\ k # 1 /\ y = q[k]
    BY <2>1, <2>2
  <2> HIDE DEF k
  <2> QED BY Zenon, <2>3, <1>1, <1>2 DEF Elems, Distinct
<1>4. ASSUME NEW y \in Elems(q), y # Head(q) PROVE y \in Elems(Tail(q))
  <2>1. PICK i \in 1 .. Len(q) : y = q[i]
    BY DEF Elems
  <2>2. i # 1 /\ i - 1 \in 1 .. Len(q) - 1 /\ Tail(q)[i - 1] = q[i]
    BY <1>1, <1>4, <2>1
  <2> DEFINE k == i - 1
  <2>3. k \in 1 .. Len(Tail(q)) /\ Tail(q)[k] = y
    BY <1>1, <2>1, <2>2
  <2> HIDE DEF k
  <2> QED BY Zenon, <2>3 DEF Elems
<1>5. Distinct(Tail(q))
  <2> SUFFICES ASSUME NEW i \in 1 .. Len(q) - 1, NEW j \in 1 .. Len(q) - 1, Tail(q)[i] = Tail(q)[j]
               PROVE  i = j
    BY Zenon, <1>1 DEF Distinct
  <2> DEFINE k == i + 1
             l == j + 1
  <2>1. k \in 1 .. Len(q) /\ l \in 1 .. Len(q) /\ q[k] = q[l]
    BY <1>1
  <2> HIDE DEF k, l
  <2>2. k = l
    BY Zenon, <2>1 DEF Distinct
  <2> QED BY <1>1, <2>2 DEF k, l
<1> QED BY Zenon, <1>1, <1>2, <1>3, <1>4, <1>5

\* The start of batches b..n at the end of the queue of the apply tasks.
LEMMA ElemsStarts ==
  ASSUME NEW q \in Seq(Items), Distinct(q), NEW b \in Batches, NEW n \in (b - 1) .. MaxBatch,
         \A c \in b .. n : Item("apply", c) \notin Elems(q)
  PROVE  LET r == [i \in 1 .. (n + 1 - b) |-> Item("apply", b + i - 1)]
         IN  /\ q \o r \in Seq(Items)
             /\ Elems(q \o r) = Elems(q) \cup {Item("apply", c) : c \in b .. n}
             /\ Distinct(q \o r)
<1> DEFINE k == n + 1 - b
           r == [i \in 1 .. k |-> Item("apply", b + i - 1)]
<1>1. k \in Nat /\ b \in Nat /\ n \in Int /\ MaxBatch \in Nat /\ Len(q) \in Nat /\ Batches = 1 .. MaxBatch
  BY BatchParameters DEF Batches
<1>2. \A i \in 1 .. k : b + i - 1 \in b .. n /\ b + i - 1 \in Batches
  BY <1>1
<1>3. r \in Seq(Items) /\ Len(r) = k
  BY <1>1, <1>2 DEF Items, Item, Kinds
<1>4. /\ q \o r \in Seq(Items) /\ Len(q \o r) = Len(q) + k
      /\ \A i \in 1 .. Len(q) : (q \o r)[i] = q[i]
      /\ \A i \in Len(q) + 1 .. Len(q) + k : (q \o r)[i] = Item("apply", b + (i - Len(q)) - 1)
  BY <1>1, <1>3
<1> HIDE DEF r, k
<1>5. ASSUME NEW i \in 1 .. Len(q) + k
      PROVE  \/ i \in 1 .. Len(q) /\ (q \o r)[i] = q[i] /\ q[i] \in Elems(q)
             \/ \E c \in b .. n : (q \o r)[i] = Item("apply", c) /\ c = b + i - Len(q) - 1
  <2>1. CASE i \in 1 .. Len(q)
    BY Zenon, <1>4, <2>1 DEF Elems
  <2>2. CASE i \in Len(q) + 1 .. Len(q) + k
    <3> DEFINE c == b + i - Len(q) - 1
    <3>1. c \in b .. n /\ (q \o r)[i] = Item("apply", c)
      BY <1>1, <1>4, <2>2 DEF k
    <3> QED BY Zenon, <3>1
  <2>3. i \in 1 .. Len(q) \/ i \in Len(q) + 1 .. Len(q) + k
    BY <1>1
  <2> QED BY Zenon, <2>1, <2>2, <2>3
<1>6. ASSUME NEW c \in b .. n PROVE Item("apply", c) \in Elems(q \o r)
  <2> DEFINE i == Len(q) + c - b + 1
  <2>1. i \in Len(q) + 1 .. Len(q) + k /\ i \in 1 .. Len(q) + k /\ b + (i - Len(q)) - 1 = c
    BY <1>1 DEF k
  <2> HIDE DEF i
  <2>2. (q \o r)[i] = Item("apply", c)
    BY Zenon, <1>4, <2>1
  <2> QED BY Zenon, <1>4, <2>1, <2>2 DEF Elems
<1>7. \A i \in 1 .. Len(q) : i \in 1 .. Len(q) + k
  BY <1>1
<1>8. Elems(q \o r) = Elems(q) \cup {Item("apply", c) : c \in b .. n}
  <2>1. \A y \in Elems(q) : y \in Elems(q \o r)
    BY Zenon, <1>4, <1>7 DEF Elems
  <2>2. \A y \in Elems(q \o r) : y \in Elems(q) \cup {Item("apply", c) : c \in b .. n}
    BY Zenon, <1>4, <1>5 DEF Elems
  <2> QED BY Zenon, <2>1, <2>2, <1>6
<1>9. Distinct(q \o r)
  <2> SUFFICES ASSUME NEW i \in 1 .. Len(q) + k, NEW j \in 1 .. Len(q) + k, (q \o r)[i] = (q \o r)[j]
               PROVE  i = j
    BY Zenon, <1>4 DEF Distinct
  <2>1. CASE i \in 1 .. Len(q) /\ (q \o r)[i] = q[i] /\ q[i] \in Elems(q)
    <3>1. j \in 1 .. Len(q) /\ (q \o r)[j] = q[j]
      BY Zenon, <1>5, <2>1
    <3> QED BY Zenon, <2>1, <3>1 DEF Distinct
  <2>2. CASE \E c \in b .. n : (q \o r)[i] = Item("apply", c) /\ c = b + i - Len(q) - 1
    <3>1. PICK c \in b .. n : (q \o r)[i] = Item("apply", c) /\ c = b + i - Len(q) - 1
      BY Zenon, <2>2
    <3>2. PICK d \in b .. n : (q \o r)[j] = Item("apply", d) /\ d = b + j - Len(q) - 1
      BY Zenon, <1>5, <3>1
    <3>3. Item("apply", c).batch = c /\ Item("apply", d).batch = d
      BY Zenon DEF Item
    <3>4. c = b + i - Len(q) - 1 /\ c = b + j - Len(q) - 1
      BY Zenon, <3>1, <3>2, <3>3
    <3> QED BY <1>1, <3>4
  <2> QED BY Zenon, <1>5, <2>1, <2>2
<1> QED BY Zenon, <1>4, <1>8, <1>9 DEF r, k

-----------------------------------------------------------------------------
(* What the steps have in common.                                            *)

\* The apply tasks have an executor, and each shard one of its own.
LEMMA Places ==
  ASSUME setup \in Setups
  PROVE  /\ Apply \in Executors /\ Shards \subseteq Executors /\ Executors \subseteq Sources
         /\ Sequencer \in Sources /\ Sequencer \notin Executors
         /\ ShardCount \in Nat \ {0}
         /\ Retryable \in BOOLEAN /\ HandlerFails \in BOOLEAN
  BY BatchParameters DEF Apply, Shards, Executors, Sources, Sequencer, Retryable, HandlerFails

\* A step that changes one queue.
LEMMA OneQueue ==
  ASSUME queue \in [Sources -> [Executors -> Seq(Items)]], NEW s \in Sources, NEW d \in Executors,
         NEW w \in Seq(Items), queue' = [queue EXCEPT ![s] = [queue[s] EXCEPT ![d] = w]]
  PROVE  /\ queue' \in [Sources -> [Executors -> Seq(Items)]] /\ queue'[s][d] = w
         /\ \A t \in Sources, c \in Executors : t # s \/ c # d => queue'[t][c] = queue[t][c]
<1>1. [queue[s] EXCEPT ![d] = w] \in [Executors -> Seq(Items)]
  BY Zenon
<1>2. queue' \in [Sources -> [Executors -> Seq(Items)]] /\ queue'[s][d] = w
  BY Zenon, <1>1
<1>3. \A t \in Sources, c \in Executors : t # s \/ c # d => queue'[t][c] = queue[t][c]
  BY Zenon
<1> QED BY Zenon, <1>2, <1>3

\* post_blocking appends a task to one queue.
LEMMA PostEffect ==
  ASSUME BatchType, ChannelInv, NEW s \in Sources, NEW d \in Executors, NEW m \in Items,
         m \notin Sent(s, d), queue' = Post(s, d, m, queue)
  PROVE  /\ queue' \in [Sources -> [Executors -> Seq(Items)]]
         /\ \A t \in Sources, c \in Executors : Distinct(queue'[t][c])
         /\ Sent(s, d)' = Sent(s, d) \cup {m}
         /\ \A t \in Sources, c \in Executors : t # s \/ c # d => Sent(t, c)' = Sent(t, c)
<1>1. queue \in [Sources -> [Executors -> Seq(Items)]]
  BY Zenon DEF BatchType
<1>2. queue[s][d] \in Seq(Items) /\ Distinct(queue[s][d])
  BY Zenon, <1>1 DEF ChannelInv
<1>3. /\ Append(queue[s][d], m) \in Seq(Items) /\ Distinct(Append(queue[s][d], m))
      /\ Elems(Append(queue[s][d], m)) = Sent(s, d) \cup {m}
  BY Zenon, <1>2, ElemsAppend DEF Sent
<1>4. queue' = [queue EXCEPT ![s] = [queue[s] EXCEPT ![d] = Append(queue[s][d], m)]]
  BY Zenon DEF Post
<1>5. /\ queue' \in [Sources -> [Executors -> Seq(Items)]] /\ queue'[s][d] = Append(queue[s][d], m)
      /\ \A t \in Sources, c \in Executors : t # s \/ c # d => queue'[t][c] = queue[t][c]
  BY <1>1, <1>3, <1>4, OneQueue
<1> QED BY Zenon, <1>3, <1>5 DEF Sent, ChannelInv

\* pop_one takes the first task of one queue.
LEMMA PopEffect ==
  ASSUME BatchType, ChannelInv, NEW s \in Sources, NEW d \in Executors, queue[s][d] # <<>>,
         queue' = [queue EXCEPT ![s][d] = Tail(@)]
  PROVE  /\ queue' \in [Sources -> [Executors -> Seq(Items)]]
         /\ \A t \in Sources, c \in Executors : Distinct(queue'[t][c])
         /\ Head(queue[s][d]) \in Items /\ Head(queue[s][d]) \in Sent(s, d)
         /\ Sent(s, d)' = Sent(s, d) \ {Head(queue[s][d])}
         /\ \A t \in Sources, c \in Executors : t # s \/ c # d => Sent(t, c)' = Sent(t, c)
<1>1. queue \in [Sources -> [Executors -> Seq(Items)]]
  BY Zenon DEF BatchType
<1>2. queue[s][d] \in Seq(Items) /\ Distinct(queue[s][d])
  BY Zenon, <1>1 DEF ChannelInv
<1>3. /\ Tail(queue[s][d]) \in Seq(Items) /\ Distinct(Tail(queue[s][d]))
      /\ Head(queue[s][d]) \in Items /\ Head(queue[s][d]) \in Sent(s, d)
      /\ Elems(Tail(queue[s][d])) = Sent(s, d) \ {Head(queue[s][d])}
  BY Zenon, <1>2, ElemsTail DEF Sent
<1>4. queue' = [queue EXCEPT ![s] = [queue[s] EXCEPT ![d] = Tail(queue[s][d])]]
  BY Zenon
<1>5. /\ queue' \in [Sources -> [Executors -> Seq(Items)]] /\ queue'[s][d] = Tail(queue[s][d])
      /\ \A t \in Sources, c \in Executors : t # s \/ c # d => queue'[t][c] = queue[t][c]
  BY <1>1, <1>3, <1>4, OneQueue
<1> QED BY Zenon, <1>3, <1>5 DEF Sent, ChannelInv

\* A step that leaves the queues alone.
LEMMA SameQueues ==
  ASSUME ChannelInv, UNCHANGED <<setup, queue>>
  PROVE  ChannelInv' /\ \A t, c : Sent(t, c)' = Sent(t, c)
<1>1. (\A t, c : Sent(t, c)' = Sent(t, c)) /\ Apply' = Apply
  BY Zenon DEF Sent, Apply
<1>2. ChannelInv'
  BY <1>1 DEF ChannelInv
<1> QED BY Zenon, <1>1, <1>2

\* The step leaves the fan-out loop of executor e, or the shard it works on, where it is.
Alike(e) ==
  run[e].kind \in {"dispatch", "shard"} \/ run'[e].kind \in {"dispatch", "shard"} =>
    run'[e].kind = run[e].kind /\ run'[e].batch = run[e].batch /\ run'[e].shard = run[e].shard

\* Steps that move no shard leave the places of all shards alone.
LEMMA SamePlaces ==
  ASSUME setup \in Setups, setup' = setup,
         \A t \in Sources, c \in Executors : Sent(t, c)' = Sent(t, c),
         \A e \in Executors : Alike(e)
  PROVE  /\ \A b : (Loops(b)' <=> Loops(b)) /\ (Waits(b)' <=> Waits(b)) /\ Open(b)' = Open(b)
         /\ \A b : \A s \in Shards : /\ Queued(b, s)' <=> Queued(b, s)
                                     /\ Working(b, s)' <=> Working(b, s)
                                     /\ Ahead(b, s)' <=> Ahead(b, s)
<1>0. Apply \in Executors /\ Shards \subseteq Executors /\ Executors \subseteq Sources /\ Apply' = Apply
  BY Zenon, Places DEF Apply
<1>1. \A b : (Loops(b)' <=> Loops(b)) /\ (Waits(b)' <=> Waits(b))
  BY Zenon, <1>0 DEF Loops, Alike, Waits
<1>2. \A b : \A s \in Shards : (Queued(b, s)' <=> Queued(b, s)) /\ (Working(b, s)' <=> Working(b, s))
  BY Zenon, <1>0 DEF Queued, Working, Alike
<1>3. \A b : \A s \in Shards : Ahead(b, s)' <=> Ahead(b, s)
  BY Zenon, <1>0, <1>1 DEF Ahead, Loops, Alike
<1> QED BY Zenon, <1>1, <1>2, <1>3 DEF Open

\* Steps that move no shard and no task keep the accounts of the batches, if what they
\* change of a shard's progress does not lose a failure.
LEMMA SameAccounts ==
  ASSUME GroupInv, setup \in Setups, setup' = setup, next' = next, task' = task,
         \A t \in Sources, c \in Executors : Sent(t, c)' = Sent(t, c),
         \A e \in Executors : Alike(e),
         \A b \in Batches : group'[b].pending = group[b].pending /\ (Open(b) = {} => group'[b] = group[b]),
         \A b \in Batches : Applied(b) => Applied(b)',
         \A b \in Batches, s \in Shards :
            Open(b) # {} /\ (Undecided(b, s) \/ group[b].failed > 0 \/ last[s] >= b)
               => (Undecided(b, s)' \/ group'[b].failed > 0 \/ last'[s] >= b)
  PROVE  GroupInv'
<1>0. Apply \in Executors /\ Shards \subseteq Executors /\ Executors \subseteq Sources /\ Apply' = Apply
  BY Zenon, Places DEF Apply
<1>1. /\ \A b : (Loops(b)' <=> Loops(b)) /\ (Waits(b)' <=> Waits(b)) /\ Open(b)' = Open(b)
      /\ \A b : \A s \in Shards : /\ Queued(b, s)' <=> Queued(b, s)
                                  /\ Working(b, s)' <=> Working(b, s)
                                  /\ Ahead(b, s)' <=> Ahead(b, s)
  BY Zenon, SamePlaces
<1>2. \A b \in Batches : BatchInv(b)
  BY Zenon DEF GroupInv
<1>3. \A b \in Batches : OnceInv(b)'
  BY Zenon, <1>1, <1>2 DEF BatchInv, OnceInv
<1>4. \A b \in Batches : PhaseInv(b)'
  BY <1>1, <1>2 DEF BatchInv, PhaseInv
<1>5. \A b \in Batches : CountInv(b)'
  BY Zenon, <1>1, <1>2 DEF BatchInv, CountInv
<1>6. \A b \in Batches : AppliedInv(b)'
  BY Zenon, <1>0, <1>1, <1>2 DEF BatchInv, AppliedInv
<1>7. \A s \in Sources : Sent(s, Apply)' = Sent(s, Apply)
  BY Zenon, <1>0 DEF Sent
<1>8. TokenInv'
  BY <1>7 DEF GroupInv, TokenInv
<1> QED BY Zenon, <1>3, <1>4, <1>5, <1>6, <1>8 DEF GroupInv, BatchInv

\* A step that changes what one executor works on.
LEMMA RunKept ==
  ASSUME RunInv, Apply' = Apply, NEW e \in Executors,
         \A d \in Executors : d # e => run'[d] = run[d], RunOk(e)'
  PROVE  RunInv'
<1>1. \A d \in Executors : d # e => RunOk(d)'
  BY Zenon DEF RunInv, RunOk
<1> QED BY Zenon, <1>1 DEF RunInv

\* A shard stays undecided until its executor reaches complete().
LEMMA UndecidedKept ==
  ASSUME setup \in Setups, setup' = setup,
         \A t \in Sources, c \in Executors : Sent(t, c)' = Sent(t, c),
         \A e \in Executors : Alike(e),
         NEW b \in Batches, NEW s \in Shards, Undecided(b, s),
         \A e \in Executors : run[e].batch = b /\ run'[e].at = "sub" => run[e].at = "sub"
  PROVE  Undecided(b, s)'
<1>0. Apply \in Executors /\ Shards \subseteq Executors /\ Apply' = Apply
  BY Zenon, Places DEF Apply
<1>1. /\ Queued(b, s)' <=> Queued(b, s)
      /\ Working(b, s)' <=> Working(b, s)
      /\ Ahead(b, s)' <=> Ahead(b, s)
  BY Zenon, SamePlaces
<1>2. CASE Queued(b, s)
  BY Zenon, <1>1, <1>2 DEF Undecided
<1>3. CASE Working(b, s) /\ run[s].at # "sub"
  BY Zenon, <1>0, <1>1, <1>3 DEF Undecided, Working
<1>4. CASE Ahead(b, s) /\ (run[Apply].shard < s \/ run[Apply].at # "sub")
  BY Zenon, <1>0, <1>1, <1>4 DEF Undecided, Ahead, Loops, Alike
<1> QED BY Zenon, <1>2, <1>3, <1>4 DEF Undecided

\* An executor past the guard of a shard works on its own shard of an open batch.
LEMMA InShard ==
  ASSUME FanOutInv, NEW e \in Executors, run[e].at \in {"guard", "fail", "sub"}
  PROVE  /\ e \in Shards /\ run[e].batch \in Batches /\ run[e] \notin {Idle, Exited}
         /\ stop # "cancelled" /\ GroupInv
         /\ \/ run[e].kind = "dispatch" /\ e = Apply /\ run[e].shard = e
            \/ run[e].kind = "shard" /\ e # Apply
         /\ e \in Open(run[e].batch)
<1>0. setup \in Setups /\ RunInv /\ EndInv /\ (stop # "cancelled" => GroupInv)
  BY Zenon DEF FanOutInv, BatchType
<1>1. Idle.at = "none" /\ Exited.at = "none"
  BY DEF Idle, Exited
<1>2. run[e] \notin {Idle, Exited}
  BY Zenon, <1>1
<1>3. stop # "cancelled"
  BY Zenon, <1>0, <1>2 DEF EndInv
<1>4. \/ /\ run[e].kind = "dispatch" /\ e = Apply /\ run[e].batch \in Batches
         /\ run[e].shard \in 1 .. ShardCount + 1 /\ run[e].shard = e
      \/ run[e].kind = "shard" /\ e \in Shards \ {Apply} /\ run[e].batch \in Batches
  BY Zenon, <1>0, <1>2 DEF RunInv, RunOk
<1>5. ASSUME e \in 1 .. ShardCount + 1 PROVE e \in Shards /\ e <= e
  BY <1>5, BatchParameters DEF Shards, Executors
<1>6. e \in Shards
  BY Zenon, <1>4, <1>5
<1>7. e \in Open(run[e].batch)
  BY Zenon, <1>4, <1>5, <1>6 DEF Open, Working, Ahead, Loops
<1> QED BY Zenon, <1>0, <1>2, <1>3, <1>4, <1>6, <1>7

-----------------------------------------------------------------------------
(* The steps, one by one.                                                    *)

\* start_ordered_task, a batch that is late or held back, and a stop request touch no shard.
LEMMA OutsideStep ==
  ASSUME FanOutInv,
         \/ \E b \in Batches : start_ordered_task(b)
         \/ submit /\ UNCHANGED <<next, queue, task>>
         \/ RequestStop
         \/ UNCHANGED vars
  PROVE  FanOutInv'
<1>0. /\ BatchType /\ ChannelInv /\ RunInv /\ EndInv /\ AppliedInOrder /\ SuccessMeansApplied
      /\ stop # "cancelled" => GroupInv
  BY Zenon DEF FanOutInv
<1>1. UNCHANGED <<setup, next, queue, run, task, group, last, handled>>
  BY Zenon DEF start_ordered_task, submit, RequestStop, vars
<1>2. inbox' \in Seq(Batches) /\ buffered' \subseteq Batches /\ stop' \in {"no", "stopping", "cancelled"}
  <2>1. inbox \in Seq(Batches) /\ buffered \subseteq Batches /\ stop \in {"no", "stopping", "cancelled"}
    BY Zenon, <1>0 DEF BatchType
  <2>2. CASE \E b \in Batches : start_ordered_task(b)
    BY <2>1, <2>2 DEF start_ordered_task
  <2>3. CASE submit /\ UNCHANGED <<next, queue, task>>
    <3>1. inbox # <<>> /\ inbox' = Tail(inbox) /\ stop' = stop
      BY Zenon, <2>3 DEF submit
    <3>2. inbox' \in Seq(Batches) /\ Head(inbox) \in Batches
      BY <2>1, <3>1
    <3>3. buffered' \subseteq buffered \cup {Head(inbox)}
      BY Zenon, <2>3 DEF submit, StartReady
    <3> QED BY Zenon, <2>1, <3>1, <3>2, <3>3
  <2> QED BY Zenon, <2>1, <2>2, <2>3 DEF RequestStop, vars
<1>3. BatchType'
  BY Zenon, <1>0, <1>1, <1>2 DEF BatchType
<1>4. ChannelInv' /\ RunInv'
  <2>1. Apply' = Apply
    BY Zenon, <1>1 DEF Apply
  <2> QED BY Zenon, <1>0, <1>1, <2>1, SameQueues DEF RunInv, RunOk
<1>5. EndInv' /\ (stop' = "cancelled" <=> stop = "cancelled")
  <2>1. inbox = <<>> /\ stop = "cancelled" => inbox' = <<>> /\ stop' = stop
    BY Zenon DEF start_ordered_task, submit, RequestStop, vars
  <2>2. stop' = "cancelled" => stop = "cancelled"
    BY Zenon DEF start_ordered_task, submit, RequestStop, vars
  <2> QED BY Zenon, <1>0, <1>1, <2>1, <2>2 DEF EndInv
<1>6. AppliedInOrder' /\ SuccessMeansApplied'
  BY Zenon, <1>0, <1>1 DEF AppliedInOrder, SuccessMeansApplied
<1>7. ASSUME stop # "cancelled" PROVE GroupInv'
  <2>1. \A b : Applied(b)' <=> Applied(b)
    BY Zenon, <1>1 DEF Applied
  <2>2. \A b, s : Undecided(b, s)' <=> Undecided(b, s)
    BY Zenon, <1>1 DEF Undecided, Queued, Working, Ahead, Loops, Sent, Apply
  <2>3. \A t, c : Sent(t, c)' = Sent(t, c)
    BY Zenon, <1>1 DEF Sent
  <2>4. \A e : Alike(e)
    BY Zenon, <1>1 DEF Alike
  <2>5. setup \in Setups
    BY Zenon, <1>0 DEF BatchType
  <2> QED BY Zenon, <1>0, <1>1, <1>7, <2>1, <2>2, <2>3, <2>4, <2>5, SameAccounts
<1> QED BY Zenon, <1>3, <1>4, <1>5, <1>6, <1>7 DEF FanOutInv

\* A step of executor e inside its shard or its loop.
LEMMA AtEffect ==
  ASSUME run \in [Executors -> Runs], NEW e \in Executors, NEW v \in Steps,
         run' = [run EXCEPT ![e].at = v]
  PROVE  /\ run' \in [Executors -> Runs]
         /\ \A d \in Executors : d # e => run'[d] = run[d]
         /\ run'[e].kind = run[e].kind /\ run'[e].batch = run[e].batch
         /\ run'[e].shard = run[e].shard /\ run'[e].at = v
         /\ \A d \in Executors : Alike(d)
<1>1. /\ run' \in [Executors -> Runs]
      /\ run'[e].kind = run[e].kind /\ run'[e].batch = run[e].batch
      /\ run'[e].shard = run[e].shard /\ run'[e].at = v
  BY DEF Runs
<1>2. \A d \in Executors : d # e => run'[d] = run[d]
  BY Zenon
<1> QED BY Zenon, <1>1, <1>2 DEF Alike

\* The guard, the handler and commit_order_guard of a shard.
LEMMA ShardStep ==
  ASSUME FanOutInv, NEW e \in Executors, run_parallel_shard(e)
  PROVE  FanOutInv'
<1> DEFINE b == run[e].batch
<1>0. /\ BatchType /\ ChannelInv /\ RunInv /\ EndInv /\ AppliedInOrder /\ SuccessMeansApplied
      /\ setup \in Setups /\ run \in [Executors -> Runs]
      /\ last \in [Shards -> Nat] /\ handled \in [Shards -> Seq(Nat)]
  BY Zenon DEF FanOutInv, BatchType
<1>1. run[e].at = "guard" /\ UNCHANGED <<setup, submits, inbox, next, buffered, queue, task, group, stop>>
  BY Zenon DEF run_parallel_shard
<1>2. /\ e \in Shards /\ b \in Batches /\ b \in Nat /\ run[e] \notin {Idle, Exited}
      /\ stop # "cancelled" /\ GroupInv
      /\ \/ run[e].kind = "dispatch" /\ e = Apply /\ run[e].shard = e
         \/ run[e].kind = "shard" /\ e # Apply
      /\ e \in Open(b)
  <2>1. \A c \in Batches : c \in Nat
    BY BatchParameters DEF Batches
  <2> QED BY Zenon, <1>1, <2>1, InShard
<1>3. PICK v \in {"sub", "fail"} :
        /\ run' = [run EXCEPT ![e].at = v]
        /\ \/ /\ v = "sub" /\ b = last[e] + 1
              /\ last' = [last EXCEPT ![e] = b] /\ handled' = [handled EXCEPT ![e] = Append(@, b)]
           \/ /\ v = "sub" => b = last[e]
              /\ UNCHANGED <<last, handled>>
  <2>1. PICK ok \in ShardResults(check_order_guard(e, b)) :
          /\ run' = [run EXCEPT ![e].at = IF ok THEN "sub" ELSE "fail"]
          /\ \/ /\ ok /\ check_order_guard(e, b) = "run"
                /\ last' = [last EXCEPT ![e] = b]
                /\ handled' = [handled EXCEPT ![e] = Append(@, b)]
             \/ /\ ~ok \/ check_order_guard(e, b) # "run"
                /\ UNCHANGED <<last, handled>>
    BY Zenon DEF run_parallel_shard
  <2>2. CASE check_order_guard(e, b) = "run" /\ b = last[e] + 1 /\ ok \in BOOLEAN
    BY Zenon, <2>1, <2>2
  <2>3. CASE check_order_guard(e, b) = "skip" /\ b = last[e] /\ ok
    BY Zenon, <2>1, <2>3
  <2>4. CASE check_order_guard(e, b) = "fail" /\ ~ok
    BY Zenon, <2>1, <2>4
  <2>5. /\ check_order_guard(e, b) = "run" => b = last[e] + 1
        /\ check_order_guard(e, b) = "skip" => b = last[e]
        /\ check_order_guard(e, b) \in {"run", "skip", "fail"}
    BY Zenon DEF check_order_guard
  <2>6. /\ check_order_guard(e, b) = "run" => ok \in BOOLEAN
        /\ check_order_guard(e, b) = "skip" => ok
        /\ check_order_guard(e, b) = "fail" => ~ok
    BY Zenon, <2>1, <2>5 DEF ShardResults, HandlerResults
  <2> QED BY Zenon, <2>2, <2>3, <2>4, <2>5, <2>6
<1>4. v \in Steps
  BY Zenon DEF Steps
<1>5. /\ run' \in [Executors -> Runs]
      /\ \A d \in Executors : d # e => run'[d] = run[d]
      /\ run'[e].kind = run[e].kind /\ run'[e].batch = run[e].batch
      /\ run'[e].shard = run[e].shard /\ run'[e].at = v
      /\ \A d \in Executors : Alike(d)
  BY Zenon, <1>0, <1>3, <1>4, AtEffect
<1>6. /\ last' \in [Shards -> Nat] /\ handled' \in [Shards -> Seq(Nat)]
      /\ \A s \in Shards : s # e => last'[s] = last[s] /\ handled'[s] = handled[s]
      /\ last'[e] >= last[e] /\ (v = "sub" => last'[e] >= b)
  <2>1. last[e] \in Nat /\ handled[e] \in Seq(Nat) /\ Append(handled[e], b) \in Seq(Nat)
    BY <1>0, <1>2
  <2>2. CASE v = "sub" /\ b = last[e] + 1 /\ last' = [last EXCEPT ![e] = b]
              /\ handled' = [handled EXCEPT ![e] = Append(@, b)]
    <3>1. last'[e] = b /\ b >= last[e] /\ b >= b
      BY <1>0, <1>2, <2>1, <2>2
    <3> QED BY Zenon, <1>0, <1>2, <2>1, <2>2, <3>1
  <2>3. CASE (v = "sub" => b = last[e]) /\ UNCHANGED <<last, handled>>
    <3>1. last[e] >= last[e]
      BY <2>1
    <3> QED BY Zenon, <1>0, <2>3, <3>1
  <2> QED BY Zenon, <1>3, <2>2, <2>3
<1>7. AppliedInOrder'
  <2> SUFFICES ASSUME NEW s \in Shards PROVE handled'[s] = [i \in 1 .. last'[s] |-> i]
    BY Zenon DEF AppliedInOrder
  <2>1. handled[s] = [i \in 1 .. last[s] |-> i]
    BY Zenon, <1>0 DEF AppliedInOrder
  <2>2. CASE s # e
    BY Zenon, <1>6, <2>1, <2>2
  <2>3. CASE s = e /\ b = last[e] + 1 /\ last' = [last EXCEPT ![e] = b]
              /\ handled' = [handled EXCEPT ![e] = Append(@, b)]
    <3>1. last[e] \in Nat /\ last'[e] = last[e] + 1 /\ handled'[e] = Append(handled[e], last[e] + 1)
      BY Zenon, <1>0, <1>2, <2>3
    <3>2. Append([i \in 1 .. last[e] |-> i], last[e] + 1) = [i \in 1 .. (last[e] + 1) |-> i]
      BY <3>1
    <3> QED BY Zenon, <2>1, <2>3, <3>1, <3>2
  <2> QED BY Zenon, <1>3, <2>1, <2>2, <2>3
<1>8. \A s \in Shards : last'[s] >= last[s] /\ \A c \in Batches : last[s] >= c => last'[s] >= c
  <2> SUFFICES ASSUME NEW s \in Shards
               PROVE  last'[s] >= last[s] /\ \A c \in Batches : last[s] >= c => last'[s] >= c
    BY Zenon
  <2>1. last[s] \in Nat /\ last'[s] \in Nat /\ (s = e \/ last'[s] = last[s])
    BY Zenon, <1>0, <1>6
  <2>2. last'[s] >= last[s]
    BY <1>6, <2>1
  <2> QED BY <2>1, <2>2, BatchParameters DEF Batches
<1>9. SuccessMeansApplied' /\ \A c \in Batches : Applied(c) => Applied(c)'
  BY Zenon, <1>0, <1>1, <1>8 DEF SuccessMeansApplied, Applied
<1>10. BatchType'
  BY Zenon, <1>0, <1>1, <1>5, <1>6 DEF BatchType
<1>11. ChannelInv' /\ EndInv' /\ Apply' = Apply /\ \A t, c : Sent(t, c)' = Sent(t, c)
  BY Zenon, <1>0, <1>1, <1>2, SameQueues DEF EndInv, Apply
<1>12. RunInv'
  <2>1. RunOk(e)'
    BY Zenon, <1>0, <1>1, <1>2, <1>3, <1>5, <1>11 DEF RunInv, RunOk
  <2> QED BY Zenon, <1>0, <1>5, <1>11, <2>1, RunKept
<1>13. ASSUME NEW c \in Batches, NEW s \in Shards,
              Undecided(c, s) \/ group[c].failed > 0 \/ last[s] >= c
       PROVE  Undecided(c, s)' \/ group'[c].failed > 0 \/ last'[s] >= c
  <2>1. CASE ~Undecided(c, s)
    BY Zenon, <1>1, <1>8, <1>13, <2>1
  <2>2. CASE s = e /\ c = b /\ v = "sub"
    BY Zenon, <1>6, <2>2
  <2>3. CASE Undecided(c, s) /\ ~(s = e /\ c = b /\ v = "sub")
    <3>1. Undecided(c, s)'
      <4>1. CASE c # b \/ v # "sub"
        BY Zenon, <1>0, <1>1, <1>3, <1>5, <1>11, <2>3, <4>1, UndecidedKept
      <4>2. CASE s # e
        <5>1. ~(Ahead(c, s) /\ ~(run[Apply].shard < s) /\ e = Apply)
          <6> SUFFICES ASSUME Ahead(c, s), ~(run[e].shard < s), e = Apply PROVE FALSE
            BY Zenon
          <6>1. e <= s /\ ~(e < s)
            BY Zenon, <1>2 DEF Ahead, Loops
          <6> QED BY <1>2, <4>2, <6>1 DEF Shards
        <5>2. Shards \subseteq Executors /\ Apply \in Executors
          BY Zenon, <1>0, Places
        <5>3. Queued(c, s)' <=> Queued(c, s)
          BY Zenon, <1>11 DEF Queued
        <5> QED BY Zenon, <1>5, <1>11, <2>3, <4>2, <5>1, <5>2, <5>3 DEF Undecided, Working, Ahead, Loops
      <4> QED BY Zenon, <2>3, <4>1, <4>2
    <3> QED BY Zenon, <3>1
  <2> QED BY Zenon, <2>1, <2>2, <2>3
<1>14. GroupInv'
  BY Zenon, <1>0, <1>1, <1>2, <1>5, <1>9, <1>11, <1>13, SameAccounts
<1> QED BY Zenon, <1>7, <1>9, <1>10, <1>11, <1>12, <1>14 DEF FanOutInv

\* A step of one executor that moves no shard and no task.
LEMMA QuietStep ==
  ASSUME FanOutInv, stop # "cancelled", NEW e \in Executors,
         UNCHANGED <<setup, inbox, next, buffered, queue, task, last, handled, stop>>,
         run' \in [Executors -> Runs], group' \in [Batches -> [pending : Nat, failed : Nat]],
         \A d \in Executors : d # e => run'[d] = run[d],
         \A d \in Executors : Alike(d),
         RunOk(e)',
         \A c \in Batches : group'[c].pending = group[c].pending /\ (Open(c) = {} => group'[c] = group[c]),
         \A c \in Batches : group'[c].failed > 0 \/
            (group'[c] = group[c]
             /\ \A d \in Executors : run[d].batch = c /\ run'[d].at = "sub" => run[d].at = "sub")
  PROVE  FanOutInv'
<1>0. /\ BatchType /\ ChannelInv /\ RunInv /\ EndInv /\ AppliedInOrder /\ SuccessMeansApplied
      /\ setup \in Setups /\ GroupInv
  BY Zenon DEF FanOutInv, BatchType
<1>1. BatchType'
  BY Zenon, <1>0 DEF BatchType
<1>2. ChannelInv' /\ EndInv' /\ Apply' = Apply /\ \A t, c : Sent(t, c)' = Sent(t, c)
  BY Zenon, <1>0, SameQueues DEF EndInv, Apply
<1>3. RunInv'
  BY Zenon, <1>0, <1>2, RunKept
<1>4. AppliedInOrder' /\ SuccessMeansApplied' /\ \A c : Applied(c)' <=> Applied(c)
  BY Zenon, <1>0 DEF AppliedInOrder, SuccessMeansApplied, Applied
<1>5. ASSUME NEW c \in Batches, NEW s \in Shards,
             Undecided(c, s) \/ group[c].failed > 0 \/ last[s] >= c
      PROVE  Undecided(c, s)' \/ group'[c].failed > 0 \/ last'[s] >= c
  <2>1. CASE group'[c].failed > 0 \/ ~Undecided(c, s)
    BY Zenon, <1>5, <2>1
  <2>2. CASE Undecided(c, s) /\ ~(group'[c].failed > 0)
    BY Zenon, <1>0, <1>2, <2>2, UndecidedKept
  <2> QED BY Zenon, <2>1, <2>2
<1>6. GroupInv'
  BY Zenon, <1>0, <1>2, <1>4, <1>5, SameAccounts
<1> QED BY Zenon, <1>1, <1>2, <1>3, <1>4, <1>6 DEF FanOutInv

\* fetch_add on the failures of a group whose shard is still open.
LEMMA CountFailureStep ==
  ASSUME FanOutInv, NEW e \in Executors, CountFailure(e)
  PROVE  FanOutInv'
<1> DEFINE b == run[e].batch
<1>0. /\ RunInv /\ setup \in Setups /\ run \in [Executors -> Runs]
      /\ group \in [Batches -> [pending : Nat, failed : Nat]]
  BY Zenon DEF FanOutInv, BatchType
<1>1. /\ run[e].at = "fail" /\ run' = [run EXCEPT ![e].at = "sub"]
      /\ group' = [group EXCEPT ![b].failed = @ + 1]
      /\ UNCHANGED <<setup, submits, inbox, next, buffered, queue, task, last, handled, stop>>
  BY Zenon DEF CountFailure
<1>2. /\ e \in Shards /\ b \in Batches /\ run[e] \notin {Idle, Exited} /\ stop # "cancelled"
      /\ e \in Open(b)
  BY Zenon, <1>1, InShard
<1>3. /\ run' \in [Executors -> Runs]
      /\ \A d \in Executors : d # e => run'[d] = run[d]
      /\ run'[e].kind = run[e].kind /\ run'[e].batch = run[e].batch
      /\ run'[e].shard = run[e].shard /\ run'[e].at = "sub"
      /\ \A d \in Executors : Alike(d)
  <2>1. "sub" \in Steps
    BY Zenon DEF Steps
  <2> QED BY Zenon, <1>0, <1>1, <2>1, AtEffect
<1>4. /\ group' \in [Batches -> [pending : Nat, failed : Nat]]
      /\ group'[b].pending = group[b].pending /\ group'[b].failed > 0
      /\ \A c \in Batches : c # b => group'[c] = group[c]
  <2>1. group[b] \in [pending : Nat, failed : Nat]
    BY Zenon, <1>0, <1>2
  <2> DEFINE g == [group[b] EXCEPT !.failed = @ + 1]
  <2>2. g \in [pending : Nat, failed : Nat] /\ g.pending = group[b].pending /\ g.failed > 0
    BY <2>1
  <2>3. group' = [group EXCEPT ![b] = g]
    BY Zenon, <1>1
  <2> HIDE DEF g
  <2> QED BY Zenon, <1>0, <1>2, <2>2, <2>3
<1>5. RunOk(e)'
  <2>1. Apply' = Apply
    BY Zenon, <1>1 DEF Apply
  <2> QED BY Zenon, <1>0, <1>1, <1>2, <1>3, <2>1 DEF RunInv, RunOk
<1>6. \A c \in Batches : group'[c].pending = group[c].pending /\ (Open(c) = {} => group'[c] = group[c])
  BY Zenon, <1>2, <1>4
<1>7. \A c \in Batches : group'[c].failed > 0 \/
            (group'[c] = group[c]
             /\ \A d \in Executors : run[d].batch = c /\ run'[d].at = "sub" => run[d].at = "sub")
  BY Zenon, <1>3, <1>4
<1> QED BY Zenon, <1>1, <1>2, <1>3, <1>4, <1>5, <1>6, <1>7, QuietStep

\* The fan-out reaches the shard of its own thread.
LEMMA InlineStep ==
  ASSUME FanOutInv, NEW e \in Executors, DispatchShard(e), run[e].shard = e
  PROVE  FanOutInv'
<1>0. /\ RunInv /\ setup \in Setups /\ run \in [Executors -> Runs] /\ EndInv
      /\ group \in [Batches -> [pending : Nat, failed : Nat]]
  BY Zenon DEF FanOutInv, BatchType
<1>1. /\ run[e].kind = "dispatch" /\ run[e].at = "post" /\ run' = [run EXCEPT ![e].at = "guard"]
      /\ UNCHANGED <<setup, submits, inbox, next, buffered, queue, task, group, last, handled, stop>>
  BY Zenon DEF DispatchShard
<1>2. run[e] \notin {Idle, Exited} /\ stop # "cancelled"
  <2>1. Idle.kind = "idle" /\ Exited.kind = "exited"
    BY DEF Idle, Exited
  <2> QED BY Zenon, <1>0, <1>1, <2>1 DEF EndInv
<1>3. /\ run' \in [Executors -> Runs]
      /\ \A d \in Executors : d # e => run'[d] = run[d]
      /\ run'[e].kind = run[e].kind /\ run'[e].batch = run[e].batch
      /\ run'[e].shard = run[e].shard /\ run'[e].at = "guard"
      /\ \A d \in Executors : Alike(d)
  <2>1. "guard" \in Steps
    BY Zenon DEF Steps
  <2> QED BY Zenon, <1>0, <1>1, <2>1, AtEffect
<1>5. RunOk(e)'
  <2>1. Apply' = Apply
    BY Zenon, <1>1 DEF Apply
  <2> QED BY Zenon, <1>0, <1>1, <1>2, <1>3, <2>1 DEF RunInv, RunOk
<1>6. \A d \in Executors : run'[d].at = "sub" => run[d].at = "sub"
  BY Zenon, <1>3
<1> QED BY Zenon, <1>0, <1>1, <1>2, <1>3, <1>5, <1>6, QuietStep

\* An executor that found its queues empty leaves its loop.
LEMMA ExitStep ==
  ASSUME FanOutInv, NEW e \in Executors, Exit(e)
  PROVE  FanOutInv'
<1>0. /\ RunInv /\ setup \in Setups /\ run \in [Executors -> Runs]
      /\ group \in [Batches -> [pending : Nat, failed : Nat]]
  BY Zenon DEF FanOutInv, BatchType
<1>1. /\ run[e] = Idle /\ run' = [run EXCEPT ![e] = Exited] /\ stop # "cancelled"
      /\ UNCHANGED <<setup, submits, inbox, next, buffered, queue, task, group, last, handled, stop>>
  BY Zenon DEF Exit
<1>2. Idle.kind = "idle" /\ Exited.kind = "exited" /\ Idle.at = "none" /\ Exited.at = "none"
  BY DEF Idle, Exited
<1>3. Exited \in Runs
  BY BatchParameters DEF Idle, Exited, Runs, Steps
<1>4. /\ run' \in [Executors -> Runs] /\ run'[e] = Exited
      /\ \A d \in Executors : d # e => run'[d] = run[d]
  BY Zenon, <1>0, <1>1, <1>3
<1>5. \A d \in Executors : Alike(d) /\ (run'[d].at = "sub" => run[d].at = "sub")
  BY Zenon, <1>1, <1>2, <1>4 DEF Alike
<1>6. RunOk(e)'
  BY Zenon, <1>4 DEF RunOk
<1> QED BY Zenon, <1>0, <1>1, <1>4, <1>5, <1>6, QuietStep

-----------------------------------------------------------------------------
(* Steps that move a shard or a task of one batch.                           *)

\* The step of executor e is about batch b only.
About(e, b) ==
  /\ \A d \in Executors : d # e => run'[d] = run[d]
  /\ run[e].kind \in {"dispatch", "shard"} => run[e].batch = b
  /\ run'[e].kind \in {"dispatch", "shard"} => run'[e].batch = b
  /\ \A s \in Sources, d \in Executors : \A m \in Items :
       m.batch # b => (m \in Sent(s, d)' <=> m \in Sent(s, d))
  /\ \A c \in Batches : c # b => task'[c] = task[c] /\ group'[c] = group[c]

\* The accounts of the other batches stay as they are.
LEMMA OtherBatches ==
  ASSUME setup \in Setups, UNCHANGED <<setup, next, last>>, NEW e \in Executors, NEW b \in Batches, About(e, b),
         NEW c \in Batches, c # b, BatchInv(c)
  PROVE  BatchInv(c)'
<1>0. Apply \in Executors /\ Shards \subseteq Executors /\ Executors \subseteq Sources /\ Apply' = Apply
  BY Zenon, Places DEF Apply
<1>1. \A k \in Kinds : Item(k, c) \in Items /\ Item(k, c).batch = c
  BY Zenon DEF Items, Item
<1>2. \A k \in Kinds : \A s \in Sources, d \in Executors : Item(k, c) \in Sent(s, d)' <=> Item(k, c) \in Sent(s, d)
  BY Zenon, <1>1 DEF About
<1>3. \A s \in Shards : Queued(c, s)' <=> Queued(c, s)
  BY Zenon, <1>0, <1>2 DEF Queued, Kinds
<1>4. \A s \in Sources : /\ Item("apply", c) \in Sent(s, Apply)' <=> Item("apply", c) \in Sent(s, Apply)
                         /\ Item("resume", c) \in Sent(s, Apply)' <=> Item("resume", c) \in Sent(s, Apply)
  BY Zenon, <1>0, <1>2 DEF Kinds
<1>5. Waits(c)' <=> Waits(c)
  BY Zenon, <1>0, <1>4 DEF Waits
<1>6. /\ Loops(c)' <=> Loops(c)
      /\ Loops(c) => run'[Apply] = run[Apply]
  BY Zenon, <1>0 DEF Loops, About
<1>7. \A s \in Shards : /\ Working(c, s)' <=> Working(c, s)
                        /\ Working(c, s) => run'[s] = run[s]
                        /\ Ahead(c, s)' <=> Ahead(c, s)
  <2>1. \A s \in Shards : (Working(c, s)' <=> Working(c, s)) /\ (Working(c, s) => run'[s] = run[s])
    BY Zenon, <1>0 DEF Working, About
  <2>2. \A s \in Shards : Ahead(c, s)' <=> Ahead(c, s)
    BY Zenon, <1>0, <1>6 DEF Ahead
  <2> QED BY Zenon, <2>1, <2>2
<1>8. Open(c)' = Open(c)
  BY Zenon, <1>3, <1>7 DEF Open
<1>9. \A s \in Shards : Undecided(c, s)' <=> Undecided(c, s)
  BY Zenon, <1>0, <1>3, <1>6, <1>7 DEF Undecided, Ahead
<1>10. task'[c] = task[c] /\ group'[c] = group[c] /\ (Applied(c)' <=> Applied(c))
  BY Zenon DEF About, Applied
<1>11. OnceInv(c)'
  BY Zenon, <1>3, <1>7 DEF BatchInv, OnceInv
<1>12. PhaseInv(c)'
  BY <1>5, <1>6, <1>8, <1>10 DEF BatchInv, PhaseInv
<1>13. CountInv(c)'
  BY Zenon, <1>8, <1>10 DEF BatchInv, CountInv
<1>14. AppliedInv(c)'
  BY Zenon, <1>0, <1>4, <1>8, <1>9, <1>10 DEF BatchInv, AppliedInv
<1> QED BY Zenon, <1>11, <1>12, <1>13, <1>14 DEF BatchInv

\* What is left to show of such a step.
LEMMA MoveStep ==
  ASSUME FanOutInv, stop # "cancelled", UNCHANGED <<setup, inbox, next, buffered, last, handled, stop>>,
         NEW e \in Executors, NEW b \in Batches, About(e, b),
         queue' \in [Sources -> [Executors -> Seq(Items)]], run' \in [Executors -> Runs],
         task' \in [Batches -> [state : TaskStates, requested : BOOLEAN, failures : Nat, tries : Nat]],
         group' \in [Batches -> [pending : Nat, failed : Nat]],
         ChannelInv', RunOk(e)', TokenInv', BatchInv(b)',
         task'[b].state = "succeeded" => Applied(b)
  PROVE  FanOutInv'
<1>0. /\ BatchType /\ RunInv /\ AppliedInOrder /\ SuccessMeansApplied
      /\ setup \in Setups /\ GroupInv
  BY Zenon DEF FanOutInv, BatchType
<1>1. BatchType' /\ EndInv' /\ AppliedInOrder'
  BY Zenon, <1>0 DEF BatchType, EndInv, AppliedInOrder
<1>2. Apply' = Apply
  BY Zenon DEF Apply
<1>3. RunInv'
  BY Zenon, <1>0, <1>2, RunKept DEF About
<1>4. SuccessMeansApplied'
  BY Zenon, <1>0 DEF SuccessMeansApplied, About, Applied
<1>5. \A c \in Batches : BatchInv(c)'
  <2>1. \A c \in Batches : c # b => BatchInv(c)'
    BY Zenon, <1>0, OtherBatches DEF GroupInv
  <2> QED BY Zenon, <2>1
<1> QED BY Zenon, <1>1, <1>3, <1>4, <1>5 DEF FanOutInv, GroupInv

\* post_blocking of a task its receiver expects.
LEMMA PostKept ==
  ASSUME BatchType, ChannelInv, setup' = setup, NEW s \in Sources, NEW d \in Executors, NEW m \in Items,
         m \notin Sent(s, d), queue' = Post(s, d, m, queue),
         m.kind = "shard" => s = Apply /\ d \in Shards \ {Apply},
         m.kind = "apply" => s = Sequencer /\ d = Apply,
         m.kind = "resume" => s \in Executors /\ d = Apply
  PROVE  ChannelInv'
<1>1. /\ \A t \in Sources, c \in Executors : Distinct(queue'[t][c])
      /\ Sent(s, d)' = Sent(s, d) \cup {m}
      /\ \A t \in Sources, c \in Executors : t # s \/ c # d => Sent(t, c)' = Sent(t, c)
  BY SMT, PostEffect
<1>3. Apply' = Apply
  BY Zenon DEF Apply
<1>2. \A t \in Sources, c \in Executors : \A x \in Sent(t, c)' : x \in Sent(t, c) \/ (x = m /\ t = s /\ c = d)
  BY Zenon, <1>1
<1> SUFFICES ASSUME NEW t \in Sources, NEW c \in Executors, NEW x \in Sent(t, c)'
             PROVE  /\ x.kind = "shard" => t = Apply /\ c \in Shards \ {Apply}
                    /\ x.kind = "apply" => t = Sequencer /\ c = Apply
                    /\ x.kind = "resume" => t \in Executors /\ c = Apply
  BY <1>1, <1>3 DEF ChannelInv
<1> QED BY Zenon, <1>2 DEF ChannelInv

\* pop_one keeps what was sent by whom.
LEMMA PopKept ==
  ASSUME BatchType, ChannelInv, setup' = setup, NEW s \in Sources, NEW d \in Executors, queue[s][d] # <<>>,
         queue' = [queue EXCEPT ![s][d] = Tail(@)]
  PROVE  ChannelInv'
<1>1. /\ \A t \in Sources, c \in Executors : Distinct(queue'[t][c])
      /\ Sent(s, d)' = Sent(s, d) \ {Head(queue[s][d])}
      /\ \A t \in Sources, c \in Executors : t # s \/ c # d => Sent(t, c)' = Sent(t, c)
  BY Zenon, PopEffect
<1>3. Apply' = Apply
  BY Zenon DEF Apply
<1>2. \A t \in Sources, c \in Executors : \A x \in Sent(t, c)' : x \in Sent(t, c)
  BY Zenon, <1>1
<1> SUFFICES ASSUME NEW t \in Sources, NEW c \in Executors, NEW x \in Sent(t, c)'
             PROVE  /\ x.kind = "shard" => t = Apply /\ c \in Shards \ {Apply}
                    /\ x.kind = "apply" => t = Sequencer /\ c = Apply
                    /\ x.kind = "resume" => t \in Executors /\ c = Apply
  BY <1>1, <1>3 DEF ChannelInv
<1> QED BY Zenon, <1>2 DEF ChannelInv

\* An executor in the loop of parallel_shards_impl is that of the apply tasks.
LEMMA InLoop ==
  ASSUME FanOutInv, NEW e \in Executors, run[e].kind = "dispatch"
  PROVE  /\ e = Apply /\ run[e].batch \in Batches /\ run[e].shard \in 1 .. ShardCount + 1
         /\ run[e] \notin {Idle, Exited} /\ stop # "cancelled" /\ GroupInv
         /\ Loops(run[e].batch) /\ task[run[e].batch].state = "running"
<1>0. RunInv /\ EndInv /\ (stop # "cancelled" => GroupInv)
  BY Zenon DEF FanOutInv
<1>1. Idle.kind = "idle" /\ Exited.kind = "exited"
  BY DEF Idle, Exited
<1>2. run[e] \notin {Idle, Exited}
  BY Zenon, <1>1
<1>3. e = Apply /\ run[e].batch \in Batches /\ run[e].shard \in 1 .. ShardCount + 1
  BY Zenon, <1>0, <1>2 DEF RunInv, RunOk
<1>4. stop # "cancelled" /\ GroupInv
  BY Zenon, <1>0, <1>2 DEF EndInv
<1>5. Loops(run[e].batch)
  BY Zenon, <1>3 DEF Loops
<1> QED BY Zenon, <1>2, <1>3, <1>4, <1>5 DEF GroupInv, BatchInv, PhaseInv

\* The fan-out posts the ShardTask of another thread's shard.
LEMMA PostShardStep ==
  ASSUME FanOutInv, NEW e \in Executors, DispatchShard(e), run[e].shard # e,
         NEW b, b = run[e].batch, NEW s, s = run[e].shard
  PROVE  FanOutInv'
<1> DEFINE m == Item("shard", b)
<1>0. /\ BatchType /\ ChannelInv /\ setup \in Setups /\ run \in [Executors -> Runs]
      /\ task \in [Batches -> [state : TaskStates, requested : BOOLEAN, failures : Nat, tries : Nat]]
      /\ group \in [Batches -> [pending : Nat, failed : Nat]]
  BY Zenon DEF FanOutInv, BatchType
<1>1. /\ run[e].kind = "dispatch" /\ run[e].at = "post" /\ s \in Shards /\ s # e
      /\ queue' = Post(e, s, m, queue) /\ run' = [run EXCEPT ![e].shard = @ + 1]
      /\ UNCHANGED <<setup, submits, inbox, next, buffered, task, group, last, handled, stop>>
  BY Zenon DEF DispatchShard
<1>2. /\ e = Apply /\ b \in Batches /\ run[e] \notin {Idle, Exited} /\ stop # "cancelled" /\ GroupInv
      /\ Loops(b) /\ task[b].state = "running"
  BY Zenon, <1>1, InLoop
<1>3. /\ Apply' = Apply /\ Apply \in Executors /\ Shards \subseteq Executors /\ Executors \subseteq Sources
      /\ Apply \in Sources
  BY Zenon, <1>0, <1>1, Places DEF Apply
<1>4. BatchInv(b) /\ TokenInv
  BY Zenon, <1>2 DEF GroupInv
<1>5. s <= s /\ s + 1 \in 1 .. ShardCount + 1 /\ s + 1 \in 0 .. ShardCount + 1 /\ ShardCount \in Nat
  BY <1>1, BatchParameters DEF Shards
<1>6. /\ run' \in [Executors -> Runs]
      /\ \A d \in Executors : d # e => run'[d] = run[d]
      /\ run'[e].kind = "dispatch" /\ run'[e].batch = b
      /\ run'[e].shard = s + 1 /\ run'[e].at = "post"
  BY <1>0, <1>1, <1>5 DEF Runs
<1>7. m \in Items /\ m.batch = b /\ m.kind = "shard"
  BY Zenon, <1>2 DEF m, Items, Item, Kinds
<1>8. Ahead(b, s) /\ ~Queued(b, s) /\ ~Working(b, s)
  BY Zenon, <1>1, <1>2, <1>4, <1>5 DEF Ahead, BatchInv, OnceInv
<1>9. m \notin Sent(e, s)
  BY Zenon, <1>2, <1>8 DEF Queued
<1> HIDE DEF m
<1>10. /\ queue' \in [Sources -> [Executors -> Seq(Items)]]
       /\ Sent(e, s)' = Sent(e, s) \cup {m}
       /\ \A t \in Sources, c \in Executors : t # e \/ c # s => Sent(t, c)' = Sent(t, c)
  <2>1. e \in Sources /\ s \in Executors
    BY Zenon, <1>1, <1>3
  <2> QED BY <1>0, <1>1, <1>7, <1>9, <2>1, PostEffect
<1>11. ChannelInv'
  BY <1>0, <1>1, <1>2, <1>3, <1>7, <1>9, PostKept
<1>12. About(e, b)
  <2>1. \A t \in Sources, c \in Executors : \A x \in Items : x.batch # b => (x \in Sent(t, c)' <=> x \in Sent(t, c))
    BY Zenon, <1>7, <1>10
  <2> QED BY Zenon, <1>1, <1>6, <2>1 DEF About
<1>13. RunOk(e)'
  BY Zenon, <1>2, <1>3, <1>5, <1>6 DEF RunOk
<1>14. \A t \in Sources : Sent(t, Apply)' = Sent(t, Apply)
  <2>1. s # Apply
    BY Zenon, <1>1, <1>2
  <2>2. \A t \in Sources : queue'[t][Apply'] = queue'[t][Apply]
    BY Zenon, <1>3
  <2>3. \A t \in Sources : Elems(queue'[t][Apply]) = Elems(queue[t][Apply])
    BY Zenon, <1>3, <1>10, <2>1 DEF Sent
  <2> QED BY Zenon, <2>2, <2>3 DEF Sent
<1>15. TokenInv'
  BY <1>4, <1>14 DEF TokenInv
<1>16. \A t \in Shards : Ahead(b, t)' <=> Ahead(b, t) /\ t # s
  <2>1. \A t \in Shards : s + 1 <= t <=> s <= t /\ t # s
    BY <1>1 DEF Shards
  <2> QED BY ZenonT(60), <1>1, <1>2, <1>3, <1>6, <2>1 DEF Ahead, Loops
<1>17. \A t \in Shards : Queued(b, t)' <=> Queued(b, t) \/ t = s
  <2> SUFFICES ASSUME NEW t \in Shards PROVE Queued(b, t)' <=> Queued(b, t) \/ t = s
    BY Zenon
  <2>1. CASE t = s
    BY Zenon, <1>2, <1>3, <1>10, <2>1 DEF Queued, m
  <2>2. CASE t # s
    BY Zenon, <1>2, <1>3, <1>10, <2>2 DEF Queued
  <2> QED BY Zenon, <2>1, <2>2
<1>18. \A t \in Shards : /\ Working(b, t)' <=> Working(b, t)
                         /\ Working(b, t) => run'[t] = run[t]
  BY Zenon, <1>1, <1>3, <1>6 DEF Working
<1>19. Open(b)' = Open(b)
  BY Zenon, <1>8, <1>16, <1>17, <1>18 DEF Open
<1>20. Loops(b)' /\ (Waits(b)' <=> Waits(b))
  BY Zenon, <1>2, <1>3, <1>6, <1>14 DEF Loops, Waits
<1>21. \A t \in Shards : Undecided(b, t) => Undecided(b, t)'
  BY Zenon, <1>2, <1>3, <1>6, <1>16, <1>17, <1>18 DEF Undecided
<1>22. OnceInv(b)'
  BY Zenon, <1>4, <1>8, <1>16, <1>17, <1>18 DEF BatchInv, OnceInv
<1>23. PhaseInv(b)'
  BY <1>1, <1>2, <1>4, <1>19, <1>20 DEF BatchInv, PhaseInv
<1>24. CountInv(b)'
  BY Zenon, <1>1, <1>4, <1>19 DEF BatchInv, CountInv
<1>25. AppliedInv(b)'
  BY Zenon, <1>1, <1>3, <1>4, <1>14, <1>19, <1>21 DEF BatchInv, AppliedInv, Applied
<1> QED BY Zenon, <1>0, <1>1, <1>2, <1>6, <1>10, <1>11, <1>12, <1>13, <1>15, <1>22, <1>23, <1>24, <1>25,
           MoveStep DEF BatchInv

\* A queue holds items, and an item that is no ShardTask starts or resumes its batch.
LEMMA SentItems ==
  ASSUME BatchType, NEW s \in Sources, NEW d \in Executors, NEW x \in Sent(s, d)
  PROVE  /\ x \in Items /\ x = Item(x.kind, x.batch)
         /\ x.kind = "shard" \/ x = Item("apply", x.batch) \/ x = Item("resume", x.batch)
<1>0. queue \in [Sources -> [Executors -> Seq(Items)]]
  BY Zenon DEF BatchType
<1>1. queue[s][d] \in Seq(Items)
  BY Zenon, <1>0
<1>2. x \in Items
  <2>1. PICK i \in 1 .. Len(queue[s][d]) : x = queue[s][d][i]
    BY Zenon DEF Sent, Elems
  <2> HIDE DEF Items
  <2> QED BY <1>1, <2>1
<1>3. x = Item(x.kind, x.batch) /\ x.kind \in Kinds
  BY Zenon, <1>2 DEF Items, Item
<1> QED BY Zenon, <1>2, <1>3 DEF Kinds

\* The task of a batch that has none in a queue is posted.
LEMMA TokenPosted ==
  ASSUME BatchType, TokenInv, setup' = setup, NEW b \in Batches, NEW s \in Sources, ~Waits(b),
         Sent(s, Apply)' = Sent(s, Apply) \cup {Item("resume", b)},
         \A t \in Sources : t # s => Sent(t, Apply)' = Sent(t, Apply)
  PROVE  TokenInv' /\ Waits(b)' /\ (Item("resume", b) \in Sent(s, Apply)')
<1>0. Apply \in Executors
  BY Zenon, Places DEF BatchType
<1>1. ASSUME NEW t \in Sources, NEW x \in Sent(t, Apply), x.kind # "shard" PROVE x.batch # b
  <2>0. PICK d \in Executors : d = Apply
    BY Zenon, <1>0
  <2>1. x \in Sent(t, d)
    BY Zenon, <1>1, <2>0
  <2>2. x = Item("apply", x.batch) \/ x = Item("resume", x.batch)
    BY Zenon, <1>1, <2>1, SentItems
  <2> QED BY Zenon, <1>1, <2>2 DEF Waits
<1>2. Item("resume", b).batch = b /\ Item("resume", b).kind # "shard"
  BY Zenon DEF Item
<1>3. \A t \in Sources : \A x \in Sent(t, Apply)' : x \in Sent(t, Apply) \/ (t = s /\ x = Item("resume", b))
  BY Zenon
<1>4. ASSUME NEW t \in Sources, NEW r \in Sources, NEW x \in Sent(t, Apply)', NEW y \in Sent(r, Apply)',
             x.batch = y.batch, x.kind # "shard", y.kind # "shard"
      PROVE  t = r /\ x = y
  <2>1. CASE x \in Sent(t, Apply) /\ y \in Sent(r, Apply)
    BY Zenon, <1>4, <2>1 DEF TokenInv
  <2>2. CASE x \notin Sent(t, Apply)
    BY Zenon, <1>1, <1>2, <1>3, <1>4, <2>2
  <2>3. CASE y \notin Sent(r, Apply)
    BY Zenon, <1>1, <1>2, <1>3, <1>4, <2>3
  <2> QED BY Zenon, <2>1, <2>2, <2>3
<1>5. TokenInv'
  BY <1>4 DEF TokenInv
<1>6. Item("resume", b) \in Sent(s, Apply)'
  BY Zenon
<1> QED BY Zenon, <1>5, <1>6 DEF Waits

\* The task of a batch is taken from its queue.
LEMMA TokenTaken ==
  ASSUME TokenInv, NEW s \in Sources, NEW m \in Sent(s, Apply), m.kind # "shard",
         Sent(s, Apply)' = Sent(s, Apply) \ {m},
         \A t \in Sources : t # s => Sent(t, Apply)' = Sent(t, Apply)
  PROVE  TokenInv' /\ (\A t \in Sources : \A x \in Sent(t, Apply)' : x.kind # "shard" => x.batch # m.batch)
<1>1. \A t \in Sources : \A x \in Sent(t, Apply)' : x \in Sent(t, Apply) /\ (t # s \/ x # m)
  BY Zenon
<1>2. ASSUME NEW t \in Sources, NEW r \in Sources, NEW x \in Sent(t, Apply)', NEW y \in Sent(r, Apply)',
             x.batch = y.batch, x.kind # "shard", y.kind # "shard"
      PROVE  t = r /\ x = y
  BY Zenon, <1>1, <1>2 DEF TokenInv
<1>3. TokenInv'
  BY <1>2 DEF TokenInv
<1>4. \A t \in Sources : \A x \in Sent(t, Apply)' : x.kind # "shard" => x.batch # m.batch
  BY Zenon, <1>1 DEF TokenInv
<1> QED BY Zenon, <1>3, <1>4

\* The fan-out loop has ended: what holds before either outcome of finish_pending.
LEMMA LoopEnd ==
  ASSUME FanOutInv, NEW e \in Executors, NEW b, b = run[e].batch, run[e].kind = "dispatch",
         run[e].shard \notin Shards, UNCHANGED <<setup, next, group, last>>, run' = [run EXCEPT ![e] = Idle],
         \A t \in Shards : Item("shard", b) \in Sent(e, t)' <=> Item("shard", b) \in Sent(e, t)
  PROVE  /\ ~Loops(b)' /\ Open(b)' = Open(b) /\ OnceInv(b)' /\ CountInv(b)'
         /\ \A t \in Shards : Undecided(b, t) => Undecided(b, t)'
         /\ run' \in [Executors -> Runs] /\ RunOk(e)'
         /\ \A d \in Executors : d # e => run'[d] = run[d]
         /\ run'[e].kind = "idle"
<1>0. BatchType /\ ChannelInv /\ setup \in Setups /\ run \in [Executors -> Runs]
  BY Zenon DEF FanOutInv, BatchType
<1>1. /\ e = Apply /\ b \in Batches /\ GroupInv /\ run[e].shard \in 1 .. ShardCount + 1
  BY Zenon, InLoop
<1>2. /\ Apply' = Apply /\ Apply \in Executors /\ Shards \subseteq Executors /\ Executors \subseteq Sources
  BY Zenon, <1>0, <1>1, Places DEF Apply
<1>3. Idle \in Runs /\ Idle.kind = "idle"
  BY BatchParameters DEF Idle, Runs, Steps
<1>4. /\ run' \in [Executors -> Runs] /\ run'[e] = Idle
      /\ \A d \in Executors : d # e => run'[d] = run[d]
  BY Zenon, <1>0, <1>3
<1>5. RunOk(e)'
  BY Zenon, <1>4 DEF RunOk
<1>6. ~Loops(b)'
  BY Zenon, <1>1, <1>2, <1>3, <1>4 DEF Loops
<1>7. \A t \in Shards : ~Ahead(b, t) /\ ~Ahead(b, t)'
  <2>1. \A t \in Shards : ~(run[e].shard <= t)
    BY <1>1, BatchParameters DEF Shards
  <2> QED BY Zenon, <1>1, <1>6, <2>1 DEF Ahead
<1>8. \A t \in Shards : /\ Working(b, t)' <=> Working(b, t)
                        /\ Working(b, t) => run'[t] = run[t]
  BY Zenon, <1>2, <1>3, <1>4 DEF Working
<1>9. \A t \in Shards : Queued(b, t)' <=> Queued(b, t)
  BY Zenon, <1>1, <1>2 DEF Queued
<1>10. Open(b)' = Open(b)
  BY Zenon, <1>7, <1>8, <1>9 DEF Open
<1>11. OnceInv(b)'
  BY Zenon, <1>1, <1>7, <1>8, <1>9 DEF GroupInv, BatchInv, OnceInv
<1>12. CountInv(b)'
  BY Zenon, <1>1, <1>10 DEF GroupInv, BatchInv, CountInv
<1>13. \A t \in Shards : Undecided(b, t) => Undecided(b, t)'
  BY Zenon, <1>7, <1>8, <1>9 DEF Undecided
<1> QED BY Zenon, <1>3, <1>4, <1>5, <1>6, <1>10, <1>11, <1>12, <1>13

\* finish_pending of the apply task: a wake that came during the run queues it again.
LEMMA DispatchEndStep ==
  ASSUME FanOutInv, NEW e \in Executors, DispatchEnd(e), NEW b, b = run[e].batch
  PROVE  FanOutInv'
<1> DEFINE m == Item("resume", b)
<1>0. /\ BatchType /\ ChannelInv /\ setup \in Setups /\ run \in [Executors -> Runs]
      /\ queue \in [Sources -> [Executors -> Seq(Items)]]
      /\ task \in [Batches -> [state : TaskStates, requested : BOOLEAN, failures : Nat, tries : Nat]]
      /\ group \in [Batches -> [pending : Nat, failed : Nat]]
  BY Zenon DEF FanOutInv, BatchType
<1>1. /\ run[e].kind = "dispatch" /\ run[e].at = "post" /\ run[e].shard \notin Shards
      /\ run' = [run EXCEPT ![e] = Idle]
      /\ UNCHANGED <<setup, submits, inbox, next, buffered, group, last, handled, stop>>
  BY Zenon DEF DispatchEnd
<1>2. /\ e = Apply /\ b \in Batches /\ stop # "cancelled" /\ GroupInv
      /\ Loops(b) /\ task[b].state = "running"
  BY Zenon, <1>1, InLoop
<1>3. /\ Apply' = Apply /\ Apply \in Executors /\ Shards \subseteq Executors /\ Executors \subseteq Sources
      /\ e \in Sources
  BY Zenon, <1>0, <1>1, Places DEF Apply
<1>4. BatchInv(b) /\ TokenInv /\ ~Waits(b)
  BY Zenon, <1>2 DEF GroupInv, BatchInv, PhaseInv
<1>5. m \in Items /\ m.batch = b /\ m.kind = "resume" /\ m # Item("shard", b)
  BY Zenon, <1>2 DEF m, Items, Item, Kinds
<1>6. task[b] \in [state : TaskStates, requested : BOOLEAN, failures : Nat, tries : Nat]
  BY Zenon, <1>0, <1>2
<1>7. m \notin Sent(e, e)
  BY Zenon, <1>2, <1>3, <1>4 DEF Waits
<1>8. \A t : Applied(t)' <=> Applied(t)
  BY Zenon, <1>1 DEF Applied
<1> HIDE DEF m
<1>9. CASE task[b].requested
  <2>1. /\ task' = [task EXCEPT ![b].requested = FALSE, ![b].state = "queued"]
        /\ queue' = Post(e, e, m, queue)
    BY Zenon, <1>9 DEF DispatchEnd, m
  <2>2. /\ task' \in [Batches -> [state : TaskStates, requested : BOOLEAN, failures : Nat, tries : Nat]]
        /\ task'[b].state = "queued" /\ task'[b].requested = FALSE /\ task'[b].failures = task[b].failures
        /\ \A c \in Batches : c # b => task'[c] = task[c]
    <3> DEFINE k == [[task[b] EXCEPT !.requested = FALSE] EXCEPT !.state = "queued"]
    <3>1. /\ k \in [state : TaskStates, requested : BOOLEAN, failures : Nat, tries : Nat]
          /\ k.state = "queued" /\ k.requested = FALSE /\ k.failures = task[b].failures
      BY <1>6 DEF TaskStates
    <3>2. task' = [task EXCEPT ![b] = k]
      BY <1>0, <1>2, <2>1
    <3> HIDE DEF k
    <3> QED BY Zenon, <1>0, <1>2, <3>1, <3>2
  <2>3. /\ queue' \in [Sources -> [Executors -> Seq(Items)]]
        /\ Sent(e, e)' = Sent(e, e) \cup {m}
        /\ \A t \in Sources, c \in Executors : t # e \/ c # e => Sent(t, c)' = Sent(t, c)
    BY <1>0, <1>3, <1>5, <1>7, <2>1, PostEffect
  <2>4. ChannelInv'
    BY <1>0, <1>1, <1>2, <1>3, <1>5, <1>7, <2>1, PostKept
  <2>5. /\ ~Loops(b)' /\ Open(b)' = Open(b) /\ OnceInv(b)' /\ CountInv(b)'
        /\ run' \in [Executors -> Runs] /\ RunOk(e)'
        /\ \A d \in Executors : d # e => run'[d] = run[d]
        /\ run'[e].kind = "idle"
    <3>1. \A t \in Shards : Item("shard", b) \in Sent(e, t)' <=> Item("shard", b) \in Sent(e, t)
      BY Zenon, <1>3, <1>5, <2>3
    <3> QED BY Zenon, <1>1, <3>1, LoopEnd
  <2>6. About(e, b)
    <3>1. \A t \in Sources, c \in Executors : \A x \in Items : x.batch # b => (x \in Sent(t, c)' <=> x \in Sent(t, c))
      BY Zenon, <1>5, <2>3
    <3> QED BY Zenon, <1>1, <2>2, <2>5, <3>1 DEF About
  <2>7. TokenInv' /\ Waits(b)'
    <3>1. Sent(e, Apply)' = Sent(e, Apply) \cup {m} /\ \A t \in Sources : t # e => Sent(t, Apply)' = Sent(t, Apply)
      <4>1. \A t \in Sources : queue'[t][Apply'] = queue'[t][Apply]
        BY Zenon, <1>3
      <4>2. \A t \in Sources : t # e => Elems(queue'[t][Apply]) = Elems(queue[t][Apply])
        BY Zenon, <1>3, <2>3 DEF Sent
      <4>3. Elems(queue'[e][Apply]) = Elems(queue[e][Apply]) \cup {m}
        BY Zenon, <1>2, <2>3 DEF Sent
      <4> QED BY Zenon, <1>3, <4>1, <4>2, <4>3 DEF Sent
    <3> QED BY Zenon, <1>0, <1>1, <1>2, <1>3, <1>4, <3>1, TokenPosted DEF m
  <2>8. Open(b)' = {} /\ (task[b].failures = 0 => Applied(b))
    BY Zenon, <1>2, <1>4, <1>9, <2>5 DEF BatchInv, PhaseInv, AppliedInv
  <2>9. PhaseInv(b)'
    BY <1>1, <1>2, <1>4, <2>2, <2>5, <2>7, <2>8 DEF BatchInv, PhaseInv
  <2>10. AppliedInv(b)'
    BY Zenon, <1>8, <2>2, <2>8 DEF AppliedInv
  <2> QED BY Zenon, <1>0, <1>1, <1>2, <2>2, <2>3, <2>4, <2>5, <2>6, <2>7, <2>9, <2>10, MoveStep DEF BatchInv
<1>10. CASE ~task[b].requested
  <2>1. task' = [task EXCEPT ![b].state = "pending"] /\ queue' = queue
    BY Zenon, <1>10 DEF DispatchEnd
  <2>2. /\ task' \in [Batches -> [state : TaskStates, requested : BOOLEAN, failures : Nat, tries : Nat]]
        /\ task'[b].state = "pending" /\ task'[b].requested = task[b].requested
        /\ task'[b].failures = task[b].failures
        /\ \A c \in Batches : c # b => task'[c] = task[c]
    <3> DEFINE k == [task[b] EXCEPT !.state = "pending"]
    <3>1. /\ k \in [state : TaskStates, requested : BOOLEAN, failures : Nat, tries : Nat]
          /\ k.state = "pending" /\ k.requested = task[b].requested /\ k.failures = task[b].failures
      BY <1>6 DEF TaskStates
    <3>2. task' = [task EXCEPT ![b] = k]
      BY <1>0, <1>2, <2>1
    <3> HIDE DEF k
    <3> QED BY Zenon, <1>0, <1>2, <3>1, <3>2
  <2>3. ChannelInv' /\ \A t, c : Sent(t, c)' = Sent(t, c)
    BY Zenon, <1>0, <1>1, <2>1, SameQueues
  <2>5. /\ ~Loops(b)' /\ Open(b)' = Open(b) /\ OnceInv(b)' /\ CountInv(b)'
        /\ \A t \in Shards : Undecided(b, t) => Undecided(b, t)'
        /\ run' \in [Executors -> Runs] /\ RunOk(e)'
        /\ \A d \in Executors : d # e => run'[d] = run[d]
        /\ run'[e].kind = "idle"
    BY Zenon, <1>1, <2>3, LoopEnd
  <2>6. About(e, b)
    BY Zenon, <1>1, <2>2, <2>3, <2>5 DEF About
  <2>7. \A s \in Sources : Sent(s, Apply)' = Sent(s, Apply)
    BY Zenon, <1>3, <2>1 DEF Sent
  <2>8. TokenInv' /\ ~Waits(b)'
    <3>1. TokenInv'
      BY <1>4, <2>7 DEF TokenInv
    <3> QED BY Zenon, <1>4, <2>7, <3>1 DEF Waits
  <2>9. Open(b) # {}
    BY Zenon, <1>2, <1>4, <1>10 DEF BatchInv, PhaseInv
  <2>10. PhaseInv(b)'
    BY <1>1, <1>2, <1>4, <1>10, <2>2, <2>5, <2>8, <2>9 DEF BatchInv, PhaseInv
  <2>11. AppliedInv(b)'
    BY Zenon, <1>1, <1>4, <1>8, <2>2, <2>5, <2>7 DEF BatchInv, AppliedInv
  <2> QED BY Zenon, <1>0, <1>1, <1>2, <2>1, <2>2, <2>3, <2>5, <2>6, <2>8, <2>10, <2>11, MoveStep DEF BatchInv
<1> QED BY Zenon, <1>9, <1>10

=============================================================================
