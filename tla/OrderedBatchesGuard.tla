------------------------ MODULE OrderedBatchesGuard ------------------------
(* Ordered batches for any number of shards, batches and submissions: while  *)
(* no handler fails, no shard ever refuses a batch as out of order.          *)
EXTENDS OrderedBatchesProofs

-----------------------------------------------------------------------------
(* What the queues hold: each is a row of consecutive batches, and the rows   *)
(* and the batches applied fit together without a gap.                       *)

\* The batches whose fan-out has begun.
Begun == next - 1 - Len(queue[Sequencer][Apply])
\* The batches that have been posted to shard s.
PostedTo(s) == IF run[Apply].kind = "dispatch" /\ run[Apply].shard <= s THEN Begun - 1 ELSE Begun
\* The batches whose ShardTask has left the queue of shard s.
Popped(s) == IF run[s].kind = "shard" /\ run[s].at = "guard" THEN last[s] + 1 ELSE last[s]

\* A queue of tasks of one kind for consecutive batches, the first one after batch p.
Row(q, kind, p) == \A i \in 1 .. Len(q) : q[i] = Item(kind, p + i)

\* No shard has reported a failure.
NoFailure ==
  /\ \A b \in Batches : group[b].failed = 0 /\ task[b].failures = 0
  /\ \A e \in Executors : run[e].at # "fail"

\* The apply tasks start in batch order, and the last one begun is the one being fanned out.
StartQueue ==
  /\ Row(queue[Sequencer][Apply], "apply", Begun)
  /\ run[Apply].kind = "dispatch" => run[Apply].batch = Begun

\* A shard receives the batches in order, each once.
ShardQueue(s) ==
  /\ Row(queue[Apply][s], "shard", Popped(s))
  /\ Popped(s) + Len(queue[Apply][s]) = PostedTo(s)
  /\ run[s].at = "guard" => run[s].batch = last[s] + 1

\* The shard of the apply tasks' own thread has applied what the loop has passed.
InlineShard ==
  Apply \in Shards =>
    last[Apply] = IF run[Apply].kind = "dispatch" /\ run[Apply].at = "sub" THEN Begun ELSE PostedTo(Apply)

SmoothInv == NoFailure /\ StartQueue /\ InlineShard /\ \A s \in Shards \ {Apply} : ShardQueue(s)

\* The inductive invariant.
GuardInv == ~HandlerFails => SmoothInv

-----------------------------------------------------------------------------
(* Rows of tasks, and what the steps have in common.                         *)

\* pop_one takes the first task of a row.
LEMMA RowTail ==
  ASSUME NEW q \in Seq(Items), q # <<>>, NEW kind, NEW p \in Int, Row(q, kind, p)
  PROVE  /\ Head(q) = Item(kind, p + 1) /\ Row(Tail(q), kind, p + 1)
         /\ Len(Tail(q)) = Len(q) - 1
<1>1. /\ Len(q) \in Nat \ {0} /\ Len(Tail(q)) = Len(q) - 1 /\ Head(q) = q[1]
      /\ \A i \in 1 .. Len(q) - 1 : Tail(q)[i] = q[i + 1]
  OBVIOUS
<1>2. 1 \in 1 .. Len(q) /\ \A i \in 1 .. Len(q) - 1 : i + 1 \in 1 .. Len(q) /\ p + (i + 1) = (p + 1) + i
  BY <1>1
<1>3. \A i \in 1 .. Len(q) - 1 : q[i + 1] = Item(kind, p + (i + 1))
  BY Zenon, <1>2 DEF Row
<1>4. Row(Tail(q), kind, p + 1)
  BY Zenon, <1>1, <1>2, <1>3 DEF Row
<1> QED BY Zenon, <1>1, <1>2, <1>4 DEF Row

\* post_blocking adds the next task to a row.
LEMMA RowAppend ==
  ASSUME NEW q \in Seq(Items), NEW kind, NEW p \in Int, NEW c, c = p + (Len(q) + 1), Row(q, kind, p)
  PROVE  Row(Append(q, Item(kind, c)), kind, p) /\ Len(Append(q, Item(kind, c))) = Len(q) + 1
<1>1. PICK x : x = Item(kind, c)
  BY Zenon
<1>2. /\ Len(q) \in Nat /\ Len(Append(q, x)) = Len(q) + 1 /\ Append(q, x)[Len(q) + 1] = x
      /\ \A i \in 1 .. Len(q) : Append(q, x)[i] = q[i]
  OBVIOUS
<1>3. \A i \in 1 .. Len(q) + 1 : i \in 1 .. Len(q) \/ i = Len(q) + 1
  BY <1>2
<1> QED BY Zenon, <1>1, <1>2, <1>3 DEF Row

\* start_ready adds the next batches to the row of the apply tasks.
LEMMA RowStarts ==
  ASSUME NEW q \in Seq(Items), NEW p \in Int, NEW b \in Batches, NEW n \in (b - 1) .. MaxBatch,
         b = p + (Len(q) + 1), Row(q, "apply", p)
  PROVE  LET r == [i \in 1 .. (n + 1 - b) |-> Item("apply", b + i - 1)]
         IN  Row(q \o r, "apply", p) /\ Len(q \o r) = Len(q) + (n + 1 - b) /\ q \o r \in Seq(Items)
<1> DEFINE k == n + 1 - b
           r == [i \in 1 .. k |-> Item("apply", b + i - 1)]
<1>1. k \in Nat /\ b \in Nat /\ n \in Int /\ MaxBatch \in Nat /\ Len(q) \in Nat /\ Batches = 1 .. MaxBatch
  BY BatchParameters DEF Batches
<1>2. \A i \in 1 .. k : b + i - 1 \in Batches
  BY <1>1
<1>3. r \in Seq(Items) /\ Len(r) = k
  BY <1>1, <1>2 DEF Items, Item, Kinds
<1>7. \A i \in 1 .. k : r[i] = Item("apply", b + i - 1)
  BY Zenon
<1> HIDE DEF r, k
<1>8. /\ Len(q \o r) = Len(q) + k /\ q \o r \in Seq(Items)
      /\ \A i \in 1 .. Len(q) : (q \o r)[i] = q[i]
      /\ \A i \in Len(q) + 1 .. Len(q) + k : (q \o r)[i] = r[i - Len(q)]
  BY <1>1, <1>3
<1>9. \A i \in Len(q) + 1 .. Len(q) + k : i - Len(q) \in 1 .. k
  BY <1>1
<1>4. /\ Len(q \o r) = Len(q) + k /\ q \o r \in Seq(Items)
      /\ \A i \in 1 .. Len(q) : (q \o r)[i] = q[i]
      /\ \A i \in Len(q) + 1 .. Len(q) + k : (q \o r)[i] = Item("apply", b + (i - Len(q)) - 1)
  BY Zenon, <1>7, <1>8, <1>9
<1>5. /\ \A i \in 1 .. Len(q) + k : i \in 1 .. Len(q) \/ i \in Len(q) + 1 .. Len(q) + k
      /\ \A i \in Len(q) + 1 .. Len(q) + k : b + (i - Len(q)) - 1 = p + i
  BY <1>1
<1>6. \A i \in 1 .. Len(q) + k : (q \o r)[i] = Item("apply", p + i)
  BY Zenon, <1>4, <1>5 DEF Row
<1> QED BY Zenon, <1>4, <1>6 DEF Row, r, k

\* Numbers and places that every step uses.
LEMMA SmoothFacts ==
  ASSUME FanOutInv
  PROVE  /\ Apply \in Executors /\ Shards \subseteq Executors /\ Executors \subseteq Sources
         /\ Sequencer \in Sources /\ Sequencer \notin Executors
         /\ queue \in [Sources -> [Executors -> Seq(Items)]]
         /\ \A s \in Sources, d \in Executors : queue[s][d] \in Seq(Items) /\ Len(queue[s][d]) \in Nat
         /\ \A s \in Shards : last[s] \in Nat /\ s \in Int
         /\ Begun \in Int /\ \A s \in Shards : PostedTo(s) \in Int /\ Popped(s) \in Int
<1>1. BatchType /\ setup \in Setups
  BY Zenon DEF FanOutInv, BatchType
<1>2. /\ Apply \in Executors /\ Shards \subseteq Executors /\ Executors \subseteq Sources
      /\ Sequencer \in Sources /\ Sequencer \notin Executors
  BY Zenon, <1>1, Places
<1>3. queue \in [Sources -> [Executors -> Seq(Items)]]
  BY Zenon, <1>1 DEF BatchType
<1>4. \A s \in Sources, d \in Executors : queue[s][d] \in Seq(Items)
  BY Zenon, <1>3
<1>5. \A q \in Seq(Items) : Len(q) \in Nat
  OBVIOUS
<1>6. \A s \in Sources, d \in Executors : queue[s][d] \in Seq(Items) /\ Len(queue[s][d]) \in Nat
  BY Zenon, <1>4, <1>5
<1>7. next \in Nat /\ (\A s \in Shards : last[s] \in Nat /\ s \in Int) /\ 1 \in Nat
  BY <1>1, BatchParameters DEF BatchType, Shards
<1>8. PICK k \in Nat : k = Len(queue[Sequencer][Apply])
  BY Zenon, <1>2, <1>6
<1>9. \A i, j \in Nat : i - 1 - j \in Int
  OBVIOUS
<1>10. Begun \in Int
  BY Zenon, <1>7, <1>8, <1>9 DEF Begun
<1>11. \A i \in Int : i - 1 \in Int
  OBVIOUS
<1>12. \A i \in Nat : i \in Int /\ i + 1 \in Int
  OBVIOUS
<1>13. \A s \in Shards : PostedTo(s) \in Int
  BY Zenon, <1>10, <1>11 DEF PostedTo
<1>14. \A s \in Shards : Popped(s) \in Int
  BY Zenon, <1>7, <1>12 DEF Popped
<1> QED BY Zenon, <1>2, <1>3, <1>6, <1>7, <1>10, <1>13, <1>14

\* A shard whose queue, work and applied batches stay as they are.
LEMMA QueueKept ==
  ASSUME NEW s, ShardQueue(s), Apply' = Apply, queue'[Apply][s] = queue[Apply][s], last'[s] = last[s],
         \/ run'[s] = run[s]
         \/ run[s].at # "guard" /\ run'[s].at # "guard",
         PostedTo(s)' = PostedTo(s)
  PROVE  ShardQueue(s)'
<1>1. Popped(s)' = Popped(s)
  BY Zenon DEF Popped
<1>2. run'[s].at = "guard" => run'[s].batch = last'[s] + 1
  BY Zenon DEF ShardQueue
<1>3. queue'[Apply'][s] = queue[Apply][s]
  BY Zenon
<1> QED BY Zenon, <1>1, <1>2, <1>3 DEF ShardQueue

\* The apply tasks that wait to start stay as they are.
LEMMA StartKept ==
  ASSUME StartQueue, Apply' = Apply, next' = next, queue'[Sequencer][Apply] = queue[Sequencer][Apply],
         run'[Apply].kind = "dispatch" => run[Apply].kind = "dispatch" /\ run'[Apply].batch = run[Apply].batch
  PROVE  Begun' = Begun /\ StartQueue'
<1>1. queue'[Sequencer][Apply'] = queue[Sequencer][Apply]
  BY Zenon
<1>2. Begun' = Begun
  BY Zenon, <1>1 DEF Begun
<1> QED BY Zenon, <1>1, <1>2 DEF StartQueue

\* Steps outside the fan-out, and the second run of an apply task.
LEMMA SmoothQuiet ==
  ASSUME FanOutInv, SmoothInv, UNCHANGED <<setup, next, last>>, NoFailure',
         queue'[Sequencer][Apply] = queue[Sequencer][Apply],
         \A s \in Shards \ {Apply} : queue'[Apply][s] = queue[Apply][s],
         \A e \in Executors : run'[e] = run[e] \/ (run[e] = Idle /\ run'[e] = Exited)
  PROVE  SmoothInv'
<1>0. Apply' = Apply /\ Apply \in Executors /\ Shards \subseteq Executors
  BY Zenon, SmoothFacts DEF Apply
<1>1. Idle.kind = "idle" /\ Exited.kind = "exited" /\ Idle.at = "none" /\ Exited.at = "none"
  BY DEF Idle, Exited
<1>2. \A e \in Executors : /\ run'[e] = run[e] \/ (run[e].at # "guard" /\ run'[e].at # "guard")
                           /\ run'[e].kind = "dispatch" <=> run[e].kind = "dispatch"
                           /\ run'[e].kind = "dispatch" => run'[e] = run[e]
  BY Zenon, <1>1
<1>3. Begun' = Begun /\ StartQueue'
  BY Zenon, <1>0, <1>2, StartKept DEF SmoothInv
<1>4. \A s : PostedTo(s)' = PostedTo(s)
  BY Zenon, <1>0, <1>2, <1>3 DEF PostedTo
<1>5. \A s \in Shards \ {Apply} : ShardQueue(s)'
  BY Zenon, <1>0, <1>2, <1>4, QueueKept DEF SmoothInv
<1>6. PostedTo(Apply)' = PostedTo(Apply)
  BY Zenon, <1>0, <1>2, <1>3 DEF PostedTo
<1>7. InlineShard'
  BY Zenon, <1>0, <1>2, <1>3, <1>6 DEF SmoothInv, InlineShard
<1> QED BY Zenon, <1>0, <1>3, <1>5, <1>7 DEF SmoothInv

\* The sequencer starts batch b = next and those buffered behind it, up to batch n.
LEMMA SmoothStart ==
  ASSUME FanOutInv, SmoothInv, submit, NEW b, b = Head(inbox), b = next,
         NEW n \in (b - 1) .. MaxBatch, Starts(b, n)
  PROVE  SmoothInv'
<1> DEFINE r == [i \in 1 .. (n + 1 - b) |-> Item("apply", b + i - 1)]
<1>0. UNCHANGED <<setup, run, group, last>> /\ inbox # <<>> /\ next' = n + 1
  BY Zenon DEF submit, Starts
<1>1. /\ Apply' = Apply /\ Apply \in Executors /\ Shards \subseteq Executors /\ Executors \subseteq Sources
      /\ Sequencer \in Sources /\ Sequencer \notin Executors
      /\ queue \in [Sources -> [Executors -> Seq(Items)]] /\ Begun \in Int
      /\ setup \in Setups /\ inbox \in Seq(Batches)
      /\ task \in [Batches -> [state : TaskStates, requested : BOOLEAN, failures : Nat, tries : Nat]]
  BY Zenon, <1>0, SmoothFacts DEF Apply, FanOutInv, BatchType
<1>2. b \in Batches
  BY <1>0, <1>1
<1>3. PICK a \in Executors, q \in Seq(Items) : a = Apply /\ q = queue[Sequencer][a]
  BY Zenon, <1>1
<1>4. Len(q) \in Nat /\ b \in Nat /\ n \in Int /\ Begun = b - 1 - Len(q) /\ b = Begun + (Len(q) + 1)
  <2>1. Begun = b - 1 - Len(q)
    BY Zenon, <1>3 DEF Begun
  <2>2. Len(q) \in Nat /\ b \in Nat /\ n \in Int
    BY <1>2, BatchParameters DEF Batches
  <2> QED BY <2>1, <2>2
<1>5. Row(q \o r, "apply", Begun) /\ Len(q \o r) = Len(q) + (n + 1 - b) /\ q \o r \in Seq(Items)
  <2>1. Row(q, "apply", Begun)
    BY Zenon, <1>3 DEF SmoothInv, StartQueue
  <2> HIDE DEF r
  <2>2. PICK p \in Int : p = Begun
    BY Zenon, <1>1
  <2>3. b = p + (Len(q) + 1) /\ Row(q, "apply", p)
    BY Zenon, <1>4, <2>1, <2>2
  <2>4. Row(q \o r, "apply", p) /\ Len(q \o r) = Len(q) + (n + 1 - b) /\ q \o r \in Seq(Items)
    BY Zenon, <1>2, <2>3, RowStarts DEF r
  <2> QED BY Zenon, <2>2, <2>4
<1>6. /\ queue'[Sequencer][a] = q \o r
      /\ \A t \in Sources, c \in Executors : t # Sequencer \/ c # a => queue'[t][c] = queue[t][c]
  <2>1. PICK w \in Seq(Items), z \in Sources : w = q \o r /\ z = Sequencer
    BY Zenon, <1>1, <1>5
  <2>2. queue' = [queue EXCEPT ![z] = [queue[z] EXCEPT ![a] = w]]
    BY Zenon, <1>3, <2>1 DEF Starts
  <2>3. /\ queue'[z][a] = w
        /\ \A t \in Sources, c \in Executors : t # z \/ c # a => queue'[t][c] = queue[t][c]
    BY ZenonT(60), <1>1, <2>2, OneQueue
  <2> QED BY Zenon, <2>1, <2>3
<1> HIDE DEF r
<1>7. Begun' = Begun
  <2>1. Begun' = (n + 1) - 1 - Len(q \o r)
    BY Zenon, <1>0, <1>1, <1>3, <1>6 DEF Begun
  <2> QED BY <1>4, <1>5, <2>1
<1>8. StartQueue'
  BY Zenon, <1>0, <1>1, <1>3, <1>5, <1>6, <1>7 DEF SmoothInv, StartQueue
<1>9. \A s : PostedTo(s)' = PostedTo(s)
  BY Zenon, <1>0, <1>1, <1>7 DEF PostedTo
<1>10. \A s \in Shards \ {Apply} : ShardQueue(s)'
  <2>1. \A s \in Shards \ {Apply} : queue'[Apply][s] = queue[Apply][s]
    BY Zenon, <1>1, <1>3, <1>6
  <2> QED BY Zenon, <1>0, <1>1, <1>9, <2>1, QueueKept DEF SmoothInv
<1>11. InlineShard'
  <2>1. PostedTo(Apply)' = PostedTo(Apply)
    BY Zenon, <1>0, <1>1, <1>7 DEF PostedTo
  <2> QED BY Zenon, <1>0, <1>1, <1>7, <2>1 DEF SmoothInv, InlineShard
<1>12. NoFailure'
  <2>1. \A c \in Batches : task[c] \in [state : TaskStates, requested : BOOLEAN, failures : Nat, tries : Nat]
    BY Zenon, <1>1
  <2>2. \A c \in Batches : [task[c] EXCEPT !.state = "queued"].failures = task[c].failures
    BY <2>1
  <2>3. \A c \in Batches : task'[c] = IF c \in b .. n THEN [task[c] EXCEPT !.state = "queued"] ELSE task[c]
    BY Zenon DEF Starts
  <2>4. \A c \in Batches : task'[c].failures = task[c].failures
    BY Zenon, <2>2, <2>3
  <2> QED BY Zenon, <1>0, <2>4 DEF SmoothInv, NoFailure
<1> QED BY Zenon, <1>1, <1>8, <1>10, <1>11, <1>12 DEF SmoothInv

\* An apply task runs for the first time: it takes the next batch.
LEMMA SmoothApply ==
  ASSUME FanOutInv, SmoothInv, NEW e \in Executors, NEW s \in Sources, NEW m, NEW b, Takes(e, s, m, b),
         m.kind = "apply", RunApply(e, b)
  PROVE  SmoothInv'
<1>0. /\ setup \in Setups /\ BatchType /\ ChannelInv
      /\ run \in [Executors -> Runs]
      /\ task \in [Batches -> [state : TaskStates, requested : BOOLEAN, failures : Nat, tries : Nat]]
      /\ group \in [Batches -> [pending : Nat, failed : Nat]]
  BY Zenon DEF FanOutInv, BatchType
<1>1. /\ run[e] = Idle /\ queue[s][e] # <<>> /\ queue' = [queue EXCEPT ![s][e] = Tail(@)]
      /\ m = Head(queue[s][e]) /\ b = m.batch
      /\ UNCHANGED <<setup, next, last>>
  BY Zenon DEF Takes
<1>2. /\ Apply' = Apply /\ Apply \in Executors /\ Shards \subseteq Executors /\ Executors \subseteq Sources
      /\ Sequencer \in Sources /\ Sequencer \notin Executors
      /\ queue \in [Sources -> [Executors -> Seq(Items)]] /\ Begun \in Int
  BY Zenon, <1>1, SmoothFacts DEF Apply
<1>3. m \in Sent(s, e) /\ b \in Batches
  <2>1. m \in Sent(s, e) /\ m \in Items
    BY <1>0, <1>1, PopEffect
  <2> QED BY Zenon, <1>1, <2>1 DEF Items
<1>4. s = Sequencer /\ e = Apply
  BY Zenon, <1>0, <1>3 DEF ChannelInv
<1>5. PICK q \in Seq(Items) : q = queue[Sequencer][e] /\ q # <<>>
  BY Zenon, <1>1, <1>2, <1>4
<1>6. /\ queue'[Sequencer][e] = Tail(q)
      /\ \A t \in Sources, c \in Executors : t # Sequencer \/ c # e => queue'[t][c] = queue[t][c]
  <2>1. Tail(q) \in Seq(Items)
    BY <1>5
  <2>2. PICK w \in Seq(Items) : w = Tail(q)
    BY Zenon, <2>1
  <2>3. queue' = [queue EXCEPT ![s] = [queue[s] EXCEPT ![e] = w]]
    BY Zenon, <1>1, <1>4, <1>5, <2>2
  <2>4. /\ queue'[s][e] = w
        /\ \A t \in Sources, c \in Executors : t # s \/ c # e => queue'[t][c] = queue[t][c]
    BY <1>2, <2>3, OneQueue
  <2> QED BY Zenon, <1>4, <2>2, <2>4
<1>7. m = Item("apply", Begun + 1) /\ Row(Tail(q), "apply", Begun + 1) /\ Len(Tail(q)) = Len(q) - 1
  <2>1. Row(q, "apply", Begun)
    BY Zenon, <1>4, <1>5 DEF SmoothInv, StartQueue
  <2>2. PICK p \in Int : p = Begun
    BY Zenon, <1>2
  <2>3. Row(q, "apply", p)
    BY Zenon, <2>1, <2>2
  <2>4. Head(q) = Item("apply", p + 1) /\ Row(Tail(q), "apply", p + 1) /\ Len(Tail(q)) = Len(q) - 1
    BY Zenon, <1>5, <2>3, RowTail
  <2> QED BY Zenon, <1>1, <1>4, <1>5, <2>2, <2>4
<1>8. b = Begun + 1
  <2>1. \A c : Item("apply", c).batch = c
    BY Zenon DEF Item
  <2> QED BY Zenon, <1>1, <1>7, <2>1
<1>9. Begun' = Begun + 1 /\ Begun' - 1 = Begun
  <2>1. Begun' = next - 1 - Len(Tail(q)) /\ Begun = next - 1 - Len(q)
    BY Zenon, <1>1, <1>2, <1>4, <1>5, <1>6 DEF Begun
  <2>2. Len(q) \in Nat /\ next \in Nat
    BY <1>0, <1>5, BatchParameters DEF BatchType
  <2>3. PICK k \in Nat : k = Len(q) /\ Len(Tail(q)) = k - 1
    BY Zenon, <1>7, <2>2
  <2>4. Begun' = next - 1 - (k - 1) /\ Begun = next - 1 - k
    BY Zenon, <2>1, <2>3
  <2> QED BY <2>2, <2>4
<1>10. /\ run'[e].kind = "dispatch" /\ run'[e].batch = b /\ run'[e].at = "post" /\ run'[e].shard = 1
       /\ \A d \in Executors : d # e => run'[d] = run[d]
  <2> DEFINE k == [Idle EXCEPT !.kind = "dispatch", !.batch = b, !.at = "post", !.shard = 1]
  <2>1. k.kind = "dispatch" /\ k.batch = b /\ k.at = "post" /\ k.shard = 1
    BY DEF Idle
  <2>2. run' = [run EXCEPT ![e] = k]
    BY Zenon DEF RunApply, Dispatch
  <2> HIDE DEF k
  <2> QED BY Zenon, <1>0, <2>1, <2>2
<1>11. StartQueue'
  BY Zenon, <1>2, <1>4, <1>6, <1>7, <1>8, <1>9, <1>10 DEF StartQueue
<1>12. Idle.kind = "idle" /\ Idle.at = "none"
  BY DEF Idle
<1>13. \A t \in Shards : 1 <= t
  BY BatchParameters DEF Shards
<1>14. \A t \in Shards : PostedTo(t)' = PostedTo(t) /\ PostedTo(t) = Begun /\ PostedTo(t)' = Begun
  BY Zenon, <1>1, <1>2, <1>4, <1>9, <1>10, <1>12, <1>13 DEF PostedTo
<1>15. \A t \in Shards \ {Apply} : ShardQueue(t)'
  <2>1. \A t \in Shards \ {Apply} : queue'[Apply][t] = queue[Apply][t] /\ run'[t] = run[t] /\ last'[t] = last[t]
    BY Zenon, <1>1, <1>2, <1>4, <1>6, <1>10
  <2> QED BY Zenon, <1>2, <1>14, <2>1, QueueKept DEF SmoothInv
<1>16. InlineShard'
  <2>1. ASSUME Apply \in Shards
        PROVE  last'[Apply] = PostedTo(Apply)'
    <3>1. PICK a \in Shards : a = Apply
      BY Zenon, <2>1
    <3>2. last[a] = PostedTo(a)
      BY Zenon, <1>1, <1>4, <1>12, <3>1 DEF SmoothInv, InlineShard
    <3>3. last'[a] = PostedTo(a)'
      BY Zenon, <1>1, <1>14, <3>2
    <3>4. PostedTo(a)' = PostedTo(Apply)'
      BY Zenon, <1>2, <3>1 DEF PostedTo
    <3> QED BY Zenon, <3>1, <3>3, <3>4
  <2> QED BY Zenon, <1>2, <1>4, <1>10, <2>1 DEF InlineShard
<1>17. NoFailure'
  <2>1. \A c \in Batches : task[c] \in [state : TaskStates, requested : BOOLEAN, failures : Nat, tries : Nat]
    BY Zenon, <1>0
  <2>2. [task[b] EXCEPT !.state = "running"].failures = task[b].failures
    BY <1>3, <2>1
  <2>3. \A c \in Batches : task'[c] = IF c = b THEN [task[b] EXCEPT !.state = "running"] ELSE task[c]
    BY Zenon, <1>0 DEF RunApply
  <2>4. \A c \in Batches : group'[c] = IF c = b THEN [pending |-> ShardCount, failed |-> 0] ELSE group[c]
    BY Zenon, <1>0 DEF RunApply, Dispatch
  <2>6. [pending |-> ShardCount, failed |-> 0].failed = 0
    OBVIOUS
  <2>5. \A c \in Batches : task'[c].failures = 0 /\ group'[c].failed = 0
    BY Zenon, <2>2, <2>3, <2>4, <2>6 DEF SmoothInv, NoFailure
  <2> QED BY Zenon, <1>10, <2>5 DEF SmoothInv, NoFailure
<1> QED BY Zenon, <1>2, <1>11, <1>15, <1>16, <1>17 DEF SmoothInv

\* A shard's executor takes the ShardTask of the next batch.
LEMMA SmoothShardTask ==
  ASSUME FanOutInv, SmoothInv, NEW e \in Executors, NEW s \in Sources, NEW m, NEW b, Takes(e, s, m, b),
         m.kind = "shard", RunShardTask(e, b)
  PROVE  SmoothInv'
<1>0. /\ setup \in Setups /\ BatchType /\ ChannelInv /\ run \in [Executors -> Runs]
  BY Zenon DEF FanOutInv, BatchType
<1>1. /\ run[e] = Idle /\ queue[s][e] # <<>> /\ queue' = [queue EXCEPT ![s][e] = Tail(@)]
      /\ m = Head(queue[s][e]) /\ b = m.batch
      /\ UNCHANGED <<setup, next, last, task, group>>
  BY Zenon DEF Takes, RunShardTask
<1>2. /\ Apply' = Apply /\ Apply \in Executors /\ Shards \subseteq Executors /\ Executors \subseteq Sources
      /\ Sequencer \in Sources /\ Sequencer \notin Executors
      /\ queue \in [Sources -> [Executors -> Seq(Items)]]
  BY Zenon, <1>1, SmoothFacts DEF Apply
<1>3. m \in Sent(s, e)
  BY <1>0, <1>1, PopEffect
<1>4. s = Apply /\ e \in Shards \ {Apply}
  BY Zenon, <1>0, <1>3 DEF ChannelInv
<1>5. PICK q \in Seq(Items) : q = queue[s][e] /\ q # <<>>
  BY Zenon, <1>1, <1>2, <1>4
<1>6. /\ queue'[s][e] = Tail(q)
      /\ \A t \in Sources, c \in Executors : t # s \/ c # e => queue'[t][c] = queue[t][c]
  <2>1. Tail(q) \in Seq(Items)
    BY <1>5
  <2>2. PICK w \in Seq(Items) : w = Tail(q)
    BY Zenon, <2>1
  <2>3. queue' = [queue EXCEPT ![s] = [queue[s] EXCEPT ![e] = w]]
    BY Zenon, <1>1, <1>5, <2>2
  <2>4. /\ queue'[s][e] = w
        /\ \A t \in Sources, c \in Executors : t # s \/ c # e => queue'[t][c] = queue[t][c]
    BY <1>2, <2>3, OneQueue
  <2> QED BY Zenon, <2>2, <2>4
<1>7. /\ run'[e].kind = "shard" /\ run'[e].batch = b /\ run'[e].at = "guard"
      /\ \A d \in Executors : d # e => run'[d] = run[d]
  <2> DEFINE k == [Idle EXCEPT !.kind = "shard", !.batch = b, !.at = "guard"]
  <2>1. k.kind = "shard" /\ k.batch = b /\ k.at = "guard"
    BY DEF Idle
  <2>2. run' = [run EXCEPT ![e] = k]
    BY Zenon DEF RunShardTask
  <2> HIDE DEF k
  <2> QED BY Zenon, <1>0, <2>1, <2>2
<1>8. run'[Apply] = run[Apply] /\ queue'[Sequencer][Apply] = queue[Sequencer][Apply]
  BY Zenon, <1>2, <1>4, <1>6, <1>7
<1>9. Begun' = Begun /\ StartQueue'
  BY Zenon, <1>1, <1>2, <1>8, StartKept DEF SmoothInv
<1>10. (\A t : PostedTo(t)' = PostedTo(t)) /\ PostedTo(Apply)' = PostedTo(Apply)
  BY Zenon, <1>2, <1>8, <1>9 DEF PostedTo
<1>11. ASSUME NEW t \in Shards \ {Apply}, t # e
       PROVE  ShardQueue(t)'
  <2>1. queue'[Apply][t] = queue[Apply][t] /\ run'[t] = run[t] /\ last'[t] = last[t]
    BY Zenon, <1>1, <1>2, <1>6, <1>7, <1>11
  <2> QED BY Zenon, <1>2, <1>10, <2>1, QueueKept DEF SmoothInv
<1>12. ShardQueue(e)'
  <2>1. Idle.kind = "idle" /\ Idle.at = "none"
    BY DEF Idle
  <2>2. Popped(e) = last[e] /\ Popped(e)' = last[e] + 1
    BY Zenon, <1>1, <1>7, <2>1 DEF Popped
  <2>12. \A i \in Nat : i \in Int
    OBVIOUS
  <2>3. PICK p \in Int : p = last[e]
    BY Zenon, <1>4, <2>12, SmoothFacts
  <2>4. Row(q, "shard", p) /\ p + Len(q) = PostedTo(e)
    BY Zenon, <1>4, <1>5, <2>2, <2>3 DEF SmoothInv, ShardQueue
  <2>5. Head(q) = Item("shard", p + 1) /\ Row(Tail(q), "shard", p + 1) /\ Len(Tail(q)) = Len(q) - 1
    BY Zenon, <1>5, <2>4, RowTail
  <2>6. \A c : Item("shard", c).batch = c
    BY Zenon DEF Item
  <2>7. b = p + 1
    BY Zenon, <1>1, <1>5, <2>5, <2>6
  <2>8. \A i \in Nat : (p + 1) + (i - 1) = p + i
    OBVIOUS
  <2>9. Len(q) \in Nat
    BY <1>5
  <2>10. (p + 1) + Len(Tail(q)) = PostedTo(e)
    BY Zenon, <2>4, <2>5, <2>8, <2>9
  <2>11. queue'[Apply'][e] = Tail(q)
    BY Zenon, <1>2, <1>4, <1>6
  <2> QED BY Zenon, <1>1, <1>7, <1>10, <2>2, <2>3, <2>5, <2>7, <2>10, <2>11 DEF ShardQueue
<1>13. InlineShard'
  BY Zenon, <1>1, <1>2, <1>8, <1>9, <1>10 DEF SmoothInv, InlineShard
<1>14. NoFailure'
  BY Zenon, <1>1, <1>7 DEF SmoothInv, NoFailure
<1> QED BY Zenon, <1>2, <1>9, <1>11, <1>12, <1>13, <1>14 DEF SmoothInv

\* The fan-out posts the ShardTask of another thread's shard.
LEMMA SmoothPost ==
  ASSUME FanOutInv, SmoothInv, NEW e \in Executors, DispatchShard(e), run[e].shard # e,
         NEW b, b = run[e].batch, NEW s, s = run[e].shard
  PROVE  SmoothInv'
<1>0. setup \in Setups /\ run \in [Executors -> Runs]
  BY Zenon DEF FanOutInv, BatchType
<1>1. /\ run[e].kind = "dispatch" /\ run[e].at = "post" /\ s \in Shards /\ s # e
      /\ queue' = Post(e, s, Item("shard", b), queue) /\ run' = [run EXCEPT ![e].shard = @ + 1]
      /\ UNCHANGED <<setup, next, task, group, last>>
  BY Zenon DEF DispatchShard
<1>2. e = Apply /\ b \in Batches
  BY Zenon, <1>1, InLoop
<1>3. /\ Apply' = Apply /\ Apply \in Executors /\ Shards \subseteq Executors /\ Executors \subseteq Sources
      /\ Sequencer \in Sources /\ Sequencer \notin Executors
      /\ queue \in [Sources -> [Executors -> Seq(Items)]] /\ Begun \in Int
  BY Zenon, <1>1, SmoothFacts DEF Apply
<1>4. b = Begun
  BY Zenon, <1>1, <1>2 DEF SmoothInv, StartQueue
<1>5. /\ \A d \in Executors : d # e => run'[d] = run[d]
      /\ run'[e].kind = "dispatch" /\ run'[e].batch = b
      /\ run'[e].shard = s + 1 /\ run'[e].at = "post"
  BY <1>0, <1>1 DEF Runs
<1>6. PICK q \in Seq(Items), x \in Items : q = queue[e][s] /\ x = Item("shard", b)
  BY Zenon, <1>1, <1>2, <1>3 DEF Items, Item, Kinds
<1>7. /\ queue'[e][s] = Append(q, x)
      /\ \A t \in Sources, c \in Executors : t # e \/ c # s => queue'[t][c] = queue[t][c]
  <2>1. Append(q, x) \in Seq(Items)
    BY <1>6
  <2>2. PICK w \in Seq(Items) : w = Append(q, x)
    BY Zenon, <2>1
  <2>3. queue' = [queue EXCEPT ![e] = [queue[e] EXCEPT ![s] = w]]
    BY Zenon, <1>1, <1>6, <2>2 DEF Post
  <2>4. PICK y \in Sources, d \in Executors : y = e /\ d = s
    BY Zenon, <1>1, <1>3
  <2>5. queue' = [queue EXCEPT ![y] = [queue[y] EXCEPT ![d] = w]]
    BY Zenon, <2>3, <2>4
  <2>6. /\ queue'[y][d] = w
        /\ \A t \in Sources, c \in Executors : t # y \/ c # d => queue'[t][c] = queue[t][c]
    <3>1. queue \in [Sources -> [Executors -> Seq(Items)]]
      BY Zenon, <1>3
    <3> QED BY <2>5, <3>1, OneQueue
  <2> QED BY Zenon, <2>2, <2>4, <2>6
<1>8. queue'[Sequencer][Apply] = queue[Sequencer][Apply]
  BY Zenon, <1>1, <1>2, <1>3, <1>7
<1>9. Begun' = Begun /\ StartQueue'
  BY Zenon, <1>1, <1>2, <1>3, <1>5, <1>8, StartKept DEF SmoothInv
<1>10. \A t \in Shards : t # s => (s + 1 <= t <=> s <= t)
  BY <1>1, BatchParameters DEF Shards
<1>11. \A t \in Shards : t # s => PostedTo(t)' = PostedTo(t)
  BY Zenon, <1>1, <1>2, <1>3, <1>5, <1>9, <1>10 DEF PostedTo
<1>12. ASSUME NEW t \in Shards \ {Apply}, t # s
       PROVE  ShardQueue(t)'
  <2>1. queue'[Apply][t] = queue[Apply][t] /\ run'[t] = run[t] /\ last'[t] = last[t]
    BY ZenonT(60), <1>1, <1>2, <1>3, <1>5, <1>7, <1>12
  <2>2. PostedTo(t)' = PostedTo(t)
    BY Zenon, <1>11, <1>12
  <2> QED BY Zenon, <1>3, <2>1, <2>2, QueueKept DEF SmoothInv
<1>13. ShardQueue(s)'
  <2>1. s <= s /\ ~(s + 1 <= s)
    BY <1>1, BatchParameters DEF Shards
  <2>2. PostedTo(s) = Begun - 1 /\ PostedTo(s)' = Begun
    BY Zenon, <1>1, <1>2, <1>3, <1>5, <1>9, <2>1 DEF PostedTo
  <2>3. run'[s] = run[s] /\ Popped(s)' = Popped(s)
    BY Zenon, <1>1, <1>3, <1>5 DEF Popped
  <2>4. PICK p \in Int : p = Popped(s)
    BY Zenon, <1>1, SmoothFacts
  <2>5. Row(q, "shard", p) /\ p + Len(q) = Begun - 1
    BY Zenon, <1>1, <1>2, <1>6, <2>2, <2>4 DEF SmoothInv, ShardQueue
  <2>6. Len(q) \in Nat
    BY <1>6
  <2>7. b = p + (Len(q) + 1)
    BY <1>3, <1>4, <2>5, <2>6
  <2>8. Row(Append(q, x), "shard", p) /\ Len(Append(q, x)) = Len(q) + 1
    BY ZenonT(60), <1>6, <2>5, <2>7, RowAppend
  <2>9. p + Len(Append(q, x)) = Begun
    BY Zenon, <1>4, <2>7, <2>8
  <2>10. queue'[Apply'][s] = Append(q, x)
    BY Zenon, <1>2, <1>3, <1>7
  <2>11. run[s].at = "guard" => run[s].batch = last[s] + 1
    BY Zenon, <1>1, <1>2 DEF SmoothInv, ShardQueue
  <2> QED BY Zenon, <1>1, <2>2, <2>3, <2>4, <2>8, <2>9, <2>10, <2>11 DEF ShardQueue
<1>14. InlineShard'
  <2>1. ASSUME Apply \in Shards
        PROVE  last'[Apply] = PostedTo(Apply)'
    <3>1. PICK a \in Shards : a = Apply
      BY Zenon, <2>1
    <3>2. last[a] = PostedTo(a)
      BY Zenon, <1>1, <1>2, <3>1 DEF SmoothInv, InlineShard
    <3>3. last'[a] = PostedTo(a)'
      BY Zenon, <1>1, <1>2, <1>11, <3>1, <3>2
    <3>4. PostedTo(a)' = PostedTo(Apply)'
      BY Zenon, <1>3, <3>1 DEF PostedTo
    <3> QED BY Zenon, <3>1, <3>3, <3>4
  <2> QED BY Zenon, <1>2, <1>3, <1>5, <2>1 DEF InlineShard
<1>15. NoFailure'
  BY Zenon, <1>1, <1>5 DEF SmoothInv, NoFailure
<1> QED BY Zenon, <1>1, <1>2, <1>3, <1>9, <1>12, <1>13, <1>14, <1>15 DEF SmoothInv

\* The fan-out reaches the shard of its own thread.
LEMMA SmoothInline ==
  ASSUME FanOutInv, SmoothInv, NEW e \in Executors, DispatchShard(e), run[e].shard = e
  PROVE  SmoothInv'
<1>0. setup \in Setups /\ run \in [Executors -> Runs]
  BY Zenon DEF FanOutInv, BatchType
<1>1. /\ run[e].kind = "dispatch" /\ run[e].at = "post" /\ run' = [run EXCEPT ![e].at = "guard"]
      /\ UNCHANGED <<setup, next, queue, task, group, last>>
  BY Zenon DEF DispatchShard
<1>2. e = Apply /\ Apply' = Apply /\ Apply \in Executors /\ Shards \subseteq Executors
  BY Zenon, <1>1, InLoop, SmoothFacts DEF Apply
<1>3. /\ \A d \in Executors : d # e => run'[d] = run[d]
      /\ run'[e].kind = run[e].kind /\ run'[e].batch = run[e].batch
      /\ run'[e].shard = run[e].shard /\ run'[e].at = "guard"
  <2>1. "guard" \in Steps
    BY DEF Steps
  <2> QED BY Zenon, <1>0, <1>1, <2>1, AtEffect
<1>4. Begun' = Begun /\ StartQueue'
  BY Zenon, <1>1, <1>2, <1>3, StartKept DEF SmoothInv
<1>5. (\A t : PostedTo(t)' = PostedTo(t)) /\ PostedTo(Apply)' = PostedTo(Apply)
  BY Zenon, <1>2, <1>3, <1>4 DEF PostedTo
<1>6. \A t \in Shards \ {Apply} : ShardQueue(t)'
  <2>1. \A t \in Shards \ {Apply} : queue'[Apply][t] = queue[Apply][t] /\ run'[t] = run[t] /\ last'[t] = last[t]
    BY Zenon, <1>1, <1>2, <1>3
  <2> QED BY Zenon, <1>2, <1>5, <2>1, QueueKept DEF SmoothInv
<1>7. InlineShard'
  BY Zenon, <1>1, <1>2, <1>3, <1>5 DEF SmoothInv, InlineShard
<1>8. NoFailure'
  BY Zenon, <1>1, <1>3 DEF SmoothInv, NoFailure
<1> QED BY Zenon, <1>2, <1>4, <1>6, <1>7, <1>8 DEF SmoothInv

\* The apply task returns pending().
LEMMA SmoothEnd ==
  ASSUME FanOutInv, SmoothInv, NEW e \in Executors, DispatchEnd(e), NEW b, b = run[e].batch
  PROVE  SmoothInv'
<1>0. /\ setup \in Setups /\ run \in [Executors -> Runs]
      /\ task \in [Batches -> [state : TaskStates, requested : BOOLEAN, failures : Nat, tries : Nat]]
  BY Zenon DEF FanOutInv, BatchType
<1>1. /\ run[e].kind = "dispatch" /\ run[e].at = "post" /\ run[e].shard \notin Shards
      /\ run' = [run EXCEPT ![e] = Idle]
      /\ UNCHANGED <<setup, next, group, last>>
      /\ queue' = queue \/ queue' = Post(e, e, Item("resume", b), queue)
      /\ \/ task' = [task EXCEPT ![b].requested = FALSE, ![b].state = "queued"]
         \/ task' = [task EXCEPT ![b].state = "pending"]
  BY Zenon DEF DispatchEnd
<1>2. /\ e = Apply /\ b \in Batches /\ Apply' = Apply /\ Apply \in Executors /\ Shards \subseteq Executors
      /\ Executors \subseteq Sources /\ Sequencer \in Sources /\ Sequencer \notin Executors
      /\ run[e].shard \in 1 .. ShardCount + 1
      /\ queue \in [Sources -> [Executors -> Seq(Items)]]
  BY Zenon, <1>1, InLoop, SmoothFacts DEF Apply
<1>3. run'[e] = Idle /\ \A d \in Executors : d # e => run'[d] = run[d]
  BY Zenon, <1>0, <1>1
<1>4. Idle.kind = "idle" /\ Idle.at = "none"
  BY DEF Idle
<1>5. \A t \in Sources, c \in Executors : t # e \/ c # e => queue'[t][c] = queue[t][c]
  <2>1. CASE queue' = Post(e, e, Item("resume", b), queue)
    <3>1. PICK w : w = Append(queue[e][e], Item("resume", b))
      BY Zenon
    <3>2. queue' = [queue EXCEPT ![e] = [queue[e] EXCEPT ![e] = w]]
      BY Zenon, <2>1, <3>1 DEF Post
    <3> QED BY Zenon, <1>2, <3>2
  <2> QED BY Zenon, <1>1, <2>1
<1>6. queue'[Sequencer][Apply] = queue[Sequencer][Apply]
  BY Zenon, <1>2, <1>5
<1>7. Begun' = Begun /\ StartQueue'
  BY Zenon, <1>1, <1>2, <1>3, <1>4, <1>6, StartKept DEF SmoothInv
<1>8. \A t \in Shards : ~(run[e].shard <= t)
  BY <1>1, <1>2, BatchParameters DEF Shards
<1>9. \A t \in Shards : PostedTo(t)' = PostedTo(t)
  BY Zenon, <1>2, <1>3, <1>4, <1>7, <1>8 DEF PostedTo
<1>10. \A t \in Shards \ {Apply} : ShardQueue(t)'
  <2>1. \A t \in Shards \ {Apply} : queue'[Apply][t] = queue[Apply][t] /\ run'[t] = run[t] /\ last'[t] = last[t]
    BY ZenonT(60), <1>1, <1>2, <1>3, <1>5
  <2> QED BY Zenon, <1>2, <1>9, <2>1, QueueKept DEF SmoothInv
<1>11. InlineShard'
  <2>1. ASSUME Apply \in Shards
        PROVE  last'[Apply] = PostedTo(Apply)'
    <3>1. PICK a \in Shards : a = Apply
      BY Zenon, <2>1
    <3>2. last[a] = PostedTo(a)
      BY Zenon, <1>1, <1>2, <3>1 DEF SmoothInv, InlineShard
    <3>3. last'[a] = PostedTo(a)'
      BY Zenon, <1>1, <1>9, <3>2
    <3>4. PostedTo(a)' = PostedTo(Apply)'
      BY Zenon, <1>2, <3>1 DEF PostedTo
    <3> QED BY Zenon, <3>1, <3>3, <3>4
  <2> QED BY Zenon, <1>2, <1>3, <1>4, <2>1 DEF InlineShard
<1>12. NoFailure'
  <2>1. task[b] \in [state : TaskStates, requested : BOOLEAN, failures : Nat, tries : Nat]
    BY Zenon, <1>0, <1>2
  <2>2. /\ [[task[b] EXCEPT !.requested = FALSE] EXCEPT !.state = "queued"].failures = task[b].failures
        /\ [task[b] EXCEPT !.state = "pending"].failures = task[b].failures
    BY <2>1
  <2>3. \/ task' = [task EXCEPT ![b] = [[task[b] EXCEPT !.requested = FALSE] EXCEPT !.state = "queued"]]
        \/ task' = [task EXCEPT ![b] = [task[b] EXCEPT !.state = "pending"]]
    <3>1. CASE task' = [task EXCEPT ![b].requested = FALSE, ![b].state = "queued"]
      BY <1>0, <1>2, <3>1
    <3>2. CASE task' = [task EXCEPT ![b].state = "pending"]
      BY Zenon, <3>2
    <3> QED BY Zenon, <1>1, <3>1, <3>2
  <2>4. \A c \in Batches : task'[c].failures = task[c].failures
    BY Zenon, <1>0, <2>2, <2>3
  <2>5. \A d \in Executors : run'[d].at # "fail"
    BY Zenon, <1>3, <1>4 DEF SmoothInv, NoFailure
  <2> QED BY Zenon, <1>1, <2>4, <2>5 DEF SmoothInv, NoFailure
<1> QED BY Zenon, <1>2, <1>7, <1>10, <1>11, <1>12 DEF SmoothInv

\* A shard that is about to ask check_order_guard holds the batch after its last one.
LEMMA GuardRuns ==
  ASSUME FanOutInv, SmoothInv, NEW e \in Executors, run[e].at = "guard"
  PROVE  /\ e \in Shards /\ run[e].batch = last[e] + 1 /\ check_order_guard(e, run[e].batch) = "run"
<1>1. /\ e \in Shards
      /\ \/ run[e].kind = "dispatch" /\ e = Apply /\ run[e].shard = e
         \/ run[e].kind = "shard" /\ e # Apply
  BY Zenon, InShard
<1>2. run[e].batch = last[e] + 1
  <2>1. CASE run[e].kind = "shard" /\ e # Apply
    BY Zenon, <1>1, <2>1 DEF SmoothInv, ShardQueue
  <2>2. CASE run[e].kind = "dispatch" /\ e = Apply /\ run[e].shard = e
    <3>1. e <= e
      BY <1>1, BatchParameters DEF Shards
    <3>2. last[e] = Begun - 1 /\ run[e].batch = Begun
      BY Zenon, <1>1, <2>2, <3>1 DEF SmoothInv, InlineShard, StartQueue, PostedTo
    <3>3. PICK p \in Int : p = Begun
      BY Zenon, SmoothFacts
    <3>4. p = (p - 1) + 1
      BY <3>3
    <3> QED BY Zenon, <3>2, <3>3, <3>4
  <2> QED BY Zenon, <1>1, <2>1, <2>2
<1>3. check_order_guard(e, run[e].batch) = "run"
  <2>1. last[e] \in Nat
    BY Zenon, <1>1, SmoothFacts
  <2>2. run[e].batch # last[e]
    BY <1>2, <2>1
  <2> QED BY <1>2, <2>2 DEF check_order_guard
<1> QED BY Zenon, <1>1, <1>2, <1>3

\* A shard runs its handler.
LEMMA SmoothRun ==
  ASSUME FanOutInv, SmoothInv, ~HandlerFails, NEW e \in Executors, run_parallel_shard(e)
  PROVE  SmoothInv'
<1>0. /\ setup \in Setups /\ run \in [Executors -> Runs] /\ last \in [Shards -> Nat]
  BY Zenon DEF FanOutInv, BatchType
<1>1. /\ run[e].at = "guard" /\ UNCHANGED <<setup, next, queue, task, group>>
  BY Zenon DEF run_parallel_shard
<1>2. e \in Shards /\ run[e].batch = last[e] + 1 /\ check_order_guard(e, run[e].batch) = "run"
  BY Zenon, <1>1, GuardRuns
<1>3. /\ run' = [run EXCEPT ![e].at = "sub"] /\ last' = [last EXCEPT ![e] = run[e].batch]
  <2>1. ShardResults("run") = {TRUE}
    BY DEF ShardResults, HandlerResults
  <2>2. PICK ok \in ShardResults(check_order_guard(e, run[e].batch)) :
          /\ run' = [run EXCEPT ![e].at = IF ok THEN "sub" ELSE "fail"]
          /\ \/ last' = [last EXCEPT ![e] = run[e].batch]
             \/ ~ok \/ check_order_guard(e, run[e].batch) # "run"
    BY Zenon DEF run_parallel_shard
  <2>3. ok = TRUE
    BY Zenon, <1>2, <2>1, <2>2
  <2> QED BY Zenon, <1>2, <2>2, <2>3
<1>4. Apply' = Apply /\ Apply \in Executors /\ Shards \subseteq Executors
  BY Zenon, <1>1, SmoothFacts DEF Apply
<1>5. /\ \A d \in Executors : d # e => run'[d] = run[d]
      /\ run'[e].kind = run[e].kind /\ run'[e].batch = run[e].batch
      /\ run'[e].shard = run[e].shard /\ run'[e].at = "sub"
  <2>1. "sub" \in Steps
    BY DEF Steps
  <2> QED BY Zenon, <1>0, <1>3, <2>1, AtEffect
<1>6. last'[e] = last[e] + 1 /\ last'[e] = run[e].batch /\ \A t \in Shards : t # e => last'[t] = last[t]
  BY Zenon, <1>0, <1>2, <1>3
<1>7. /\ run'[Apply].kind = run[Apply].kind /\ run'[Apply].batch = run[Apply].batch
      /\ run'[Apply].shard = run[Apply].shard
  BY Zenon, <1>4, <1>5
<1>8. Begun' = Begun /\ StartQueue'
  BY Zenon, <1>1, <1>4, <1>7, StartKept DEF SmoothInv
<1>9. (\A t : PostedTo(t)' = PostedTo(t)) /\ PostedTo(Apply)' = PostedTo(Apply)
  BY Zenon, <1>4, <1>7, <1>8 DEF PostedTo
<1>10. ASSUME NEW t \in Shards \ {Apply}, t # e PROVE ShardQueue(t)'
  <2>1. queue'[Apply][t] = queue[Apply][t] /\ run'[t] = run[t] /\ last'[t] = last[t]
    BY Zenon, <1>1, <1>4, <1>5, <1>6, <1>10
  <2> QED BY Zenon, <1>4, <1>9, <2>1, QueueKept DEF SmoothInv
<1>11. ASSUME run[e].kind = "shard", e # Apply
       PROVE  InlineShard' /\ ShardQueue(e)'
  <2>1. Popped(e) = last[e] + 1 /\ Popped(e)' = last[e] + 1
    BY Zenon, <1>1, <1>5, <1>6, <1>11 DEF Popped
  <2>2. queue'[Apply'][e] = queue[Apply][e]
    BY Zenon, <1>1, <1>4
  <2>3. ShardQueue(e)'
    BY Zenon, <1>2, <1>5, <1>9, <1>11, <2>1, <2>2 DEF SmoothInv, ShardQueue
  <2>4. run'[Apply] = run[Apply] /\ (Apply \in Shards => last'[Apply] = last[Apply])
    BY Zenon, <1>4, <1>5, <1>6, <1>11
  <2>5. InlineShard'
    BY Zenon, <1>4, <1>8, <1>9, <2>4 DEF SmoothInv, InlineShard
  <2> QED BY Zenon, <2>3, <2>5
<1>12. ASSUME run[e].kind = "dispatch", e = Apply
       PROVE  InlineShard'
  <2>1. run[e].batch = Begun
    BY Zenon, <1>12 DEF SmoothInv, StartQueue
  <2> QED BY Zenon, <1>4, <1>5, <1>6, <1>8, <1>12, <2>1 DEF InlineShard
<1>13. InlineShard' /\ \A t \in Shards \ {Apply} : ShardQueue(t)'
  <2>1. \/ run[e].kind = "dispatch" /\ e = Apply /\ run[e].shard = e
        \/ run[e].kind = "shard" /\ e # Apply
    BY Zenon, <1>1, InShard
  <2> QED BY Zenon, <1>10, <1>11, <1>12, <2>1
<1>14. NoFailure'
  BY Zenon, <1>1, <1>5 DEF SmoothInv, NoFailure
<1> QED BY Zenon, <1>4, <1>8, <1>13, <1>14 DEF SmoothInv

\* A shard completes its group; the last one resumes the apply task.
LEMMA SmoothComplete ==
  ASSUME FanOutInv, SmoothInv, NEW e \in Executors, complete(e), NEW b, b = run[e].batch
  PROVE  SmoothInv'
<1>0. /\ setup \in Setups /\ run \in [Executors -> Runs]
      /\ task \in [Batches -> [state : TaskStates, requested : BOOLEAN, failures : Nat, tries : Nat]]
      /\ group \in [Batches -> [pending : Nat, failed : Nat]]
  BY Zenon DEF FanOutInv, BatchType
<1>1. /\ run[e].at = "sub" /\ run' = [run EXCEPT ![e] = AfterComplete(e)]
      /\ UNCHANGED <<setup, next, last>>
      /\ queue' = queue \/ queue' = Post(e, Apply, Item("resume", b), queue)
      /\ \/ task' = task
         \/ task' = [task EXCEPT ![b].failures = group[b].failed, ![b].state = "queued"]
         \/ task' = [task EXCEPT ![b].failures = group[b].failed, ![b].requested = TRUE]
      /\ group' = [group EXCEPT ![b] = NoGroup] \/ group' = [group EXCEPT ![b].pending = @ - 1]
  BY Zenon DEF complete, ResumeOwner
<1>2. /\ Apply' = Apply /\ Apply \in Executors /\ Shards \subseteq Executors
      /\ Executors \subseteq Sources /\ Sequencer \in Sources /\ Sequencer \notin Executors
      /\ queue \in [Sources -> [Executors -> Seq(Items)]]
  BY Zenon, <1>1, SmoothFacts DEF Apply
<1>3. /\ e \in Shards /\ b \in Batches
      /\ \/ run[e].kind = "dispatch" /\ e = Apply /\ run[e].shard = e
         \/ run[e].kind = "shard" /\ e # Apply
  BY Zenon, <1>1, InShard
<1>4. run'[e] = AfterComplete(e) /\ \A d \in Executors : d # e => run'[d] = run[d]
  BY Zenon, <1>0, <1>1
<1>5. \A t \in Sources, c \in Executors : t \notin Executors \/ c # Apply => queue'[t][c] = queue[t][c]
  <2>1. CASE queue' = Post(e, Apply, Item("resume", b), queue)
    <3>1. PICK a \in Executors : a = Apply
      BY Zenon, <1>2
    <3>2. PICK w : w = Append(queue[e][a], Item("resume", b))
      BY Zenon
    <3>3. queue' = [queue EXCEPT ![e] = [queue[e] EXCEPT ![a] = w]]
      BY Zenon, <2>1, <3>1, <3>2 DEF Post
    <3> QED BY Zenon, <1>2, <3>1, <3>3
  <2> QED BY Zenon, <1>1, <2>1
<1>6. /\ queue'[Sequencer][Apply] = queue[Sequencer][Apply]
      /\ \A t \in Shards \ {Apply} : queue'[Apply][t] = queue[Apply][t]
  BY Zenon, <1>2, <1>5
<1>7. Idle.kind = "idle" /\ Idle.at = "none"
  BY DEF Idle
<1>8. NoFailure'
  <2>1. /\ task[b] \in [state : TaskStates, requested : BOOLEAN, failures : Nat, tries : Nat]
        /\ group[b] \in [pending : Nat, failed : Nat]
        /\ group[b].failed = 0
    BY Zenon, <1>0, <1>3 DEF SmoothInv, NoFailure
  <2> DEFINE k == [[task[b] EXCEPT !.failures = group[b].failed] EXCEPT !.state = "queued"]
             l == [[task[b] EXCEPT !.failures = group[b].failed] EXCEPT !.requested = TRUE]
             g == [group[b] EXCEPT !.pending = @ - 1]
  <2>2. k.failures = 0 /\ l.failures = 0 /\ g.failed = 0 /\ NoGroup.failed = 0
    BY <2>1 DEF NoGroup
  <2>3. task' = task \/ task' = [task EXCEPT ![b] = k] \/ task' = [task EXCEPT ![b] = l]
    <3>1. CASE task' = [task EXCEPT ![b].failures = group[b].failed, ![b].state = "queued"]
      <4>1. task' = [task EXCEPT ![b] = k]
        BY <1>0, <1>3, <3>1
      <4> QED BY Zenon, <4>1
    <3>2. CASE task' = [task EXCEPT ![b].failures = group[b].failed, ![b].requested = TRUE]
      <4>1. task' = [task EXCEPT ![b] = l]
        BY <1>0, <1>3, <3>2
      <4> QED BY Zenon, <4>1
    <3> QED BY Zenon, <1>1, <3>1, <3>2
  <2>4. group' = [group EXCEPT ![b] = NoGroup] \/ group' = [group EXCEPT ![b] = g]
    BY Zenon, <1>1
  <2> HIDE DEF k, l, g
  <2>5. \A c \in Batches : task'[c].failures = 0
    BY Zenon, <1>0, <2>2, <2>3 DEF SmoothInv, NoFailure
  <2>6. \A c \in Batches : group'[c].failed = 0
    BY Zenon, <1>0, <2>2, <2>4 DEF SmoothInv, NoFailure
  <2>7. AfterComplete(e).at # "fail"
    <3>1. run[e] \in Runs
      BY Zenon, <1>0
    <3> QED BY <1>7, <3>1 DEF AfterComplete, Runs
  <2> QED BY Zenon, <1>4, <2>5, <2>6, <2>7 DEF SmoothInv, NoFailure
<1>9. CASE run[e].kind = "shard" /\ e # Apply
  <2>1. run'[e] = Idle /\ run'[Apply] = run[Apply]
    <3>1. AfterComplete(e) = Idle
      BY <1>9 DEF AfterComplete
    <3> QED BY Zenon, <1>2, <1>4, <1>9, <3>1
  <2>2. Begun' = Begun /\ StartQueue'
    BY Zenon, <1>1, <1>2, <1>6, <2>1, StartKept DEF SmoothInv
  <2>3. (\A t : PostedTo(t)' = PostedTo(t)) /\ PostedTo(Apply)' = PostedTo(Apply)
    BY Zenon, <1>2, <2>1, <2>2 DEF PostedTo
  <2>4. \A t \in Shards \ {Apply} : run'[t] = run[t] \/ (run[t].at # "guard" /\ run'[t].at # "guard")
    BY Zenon, <1>1, <1>2, <1>4, <1>7, <2>1
  <2>5. \A t \in Shards \ {Apply} : ShardQueue(t)'
    BY Zenon, <1>1, <1>2, <1>6, <2>3, <2>4, QueueKept DEF SmoothInv
  <2>6. InlineShard'
    BY Zenon, <1>1, <1>2, <2>1, <2>2, <2>3 DEF SmoothInv, InlineShard
  <2> QED BY Zenon, <1>2, <1>8, <2>2, <2>5, <2>6 DEF SmoothInv
<1>10. CASE run[e].kind = "dispatch" /\ e = Apply /\ run[e].shard = e
  <2>1. /\ run'[e].kind = "dispatch" /\ run'[e].batch = run[e].batch
        /\ run'[e].at = "post" /\ run'[e].shard = e + 1
    <3>1. run[e] \in Runs
      BY Zenon, <1>0
    <3>2. AfterComplete(e) = [run[e] EXCEPT !.at = "post", !.shard = e + 1]
      BY <1>10, <3>1 DEF AfterComplete, Runs
    <3>3. PICK r \in Runs : r = run[e]
      BY Zenon, <3>1
    <3>4. PICK k : k = [r EXCEPT !.at = "post", !.shard = e + 1]
      BY Zenon
    <3>5. k.kind = r.kind /\ k.batch = r.batch /\ k.at = "post" /\ k.shard = e + 1
      BY <3>3, <3>4 DEF Runs
    <3> QED BY Zenon, <1>4, <1>10, <3>2, <3>3, <3>4, <3>5
  <2>2. Begun' = Begun /\ StartQueue'
    BY Zenon, <1>1, <1>2, <1>6, <1>10, <2>1, StartKept DEF SmoothInv
  <2>3. /\ \A t \in Shards : t # e => (e + 1 <= t <=> e <= t)
        /\ ~(e + 1 <= e)
    BY <1>3, BatchParameters DEF Shards
  <2>4. \A t \in Shards \ {Apply} : PostedTo(t)' = PostedTo(t)
    BY Zenon, <1>2, <1>10, <2>1, <2>2, <2>3 DEF PostedTo
  <2>5. \A t \in Shards \ {Apply} : run'[t] = run[t] /\ queue'[Apply][t] = queue[Apply][t] /\ last'[t] = last[t]
    BY Zenon, <1>1, <1>2, <1>4, <1>6, <1>10
  <2>6. \A t \in Shards \ {Apply} : ShardQueue(t)'
    BY Zenon, <1>2, <2>4, <2>5, QueueKept DEF SmoothInv
  <2>7. last[Apply] = Begun
    BY Zenon, <1>1, <1>3, <1>10 DEF SmoothInv, InlineShard
  <2>8. PostedTo(Apply)' = Begun
    BY Zenon, <1>2, <1>10, <2>1, <2>2, <2>3 DEF PostedTo
  <2>9. InlineShard'
    BY Zenon, <1>1, <1>2, <1>10, <2>1, <2>7, <2>8 DEF InlineShard
  <2> QED BY Zenon, <1>2, <1>8, <2>2, <2>6, <2>9 DEF SmoothInv
<1> QED BY Zenon, <1>3, <1>9, <1>10

\* The second run of an apply task: no shard has failed, so that it finishes.
LEMMA SmoothResume ==
  ASSUME FanOutInv, SmoothInv, NEW e \in Executors, NEW s \in Sources, NEW m, NEW b, Takes(e, s, m, b),
         m.kind = "resume", RunResumed(e, b)
  PROVE  SmoothInv'
<1>0. /\ setup \in Setups /\ BatchType /\ ChannelInv
      /\ task \in [Batches -> [state : TaskStates, requested : BOOLEAN, failures : Nat, tries : Nat]]
  BY Zenon DEF FanOutInv, BatchType
<1>1. /\ run[e] = Idle /\ queue[s][e] # <<>> /\ queue' = [queue EXCEPT ![s][e] = Tail(@)]
      /\ m = Head(queue[s][e]) /\ b = m.batch
      /\ UNCHANGED <<setup, next, last>>
  BY Zenon DEF Takes
<1>2. /\ Apply' = Apply /\ Apply \in Executors /\ Shards \subseteq Executors /\ Executors \subseteq Sources
      /\ Sequencer \in Sources /\ Sequencer \notin Executors
      /\ queue \in [Sources -> [Executors -> Seq(Items)]]
  BY Zenon, <1>1, SmoothFacts DEF Apply
<1>3. m \in Sent(s, e) /\ b \in Batches
  <2>1. m \in Sent(s, e) /\ m \in Items
    BY <1>0, <1>1, PopEffect
  <2> QED BY Zenon, <1>1, <2>1 DEF Items
<1>4. s \in Executors /\ e = Apply
  BY Zenon, <1>0, <1>3 DEF ChannelInv
<1>5. ~(task[b].failures > 0)
  <2>1. task[b].failures = 0
    BY Zenon, <1>3 DEF SmoothInv, NoFailure
  <2> QED BY <2>1
<1>6. task' = [task EXCEPT ![b].state = "succeeded"] /\ UNCHANGED <<run, group>>
  BY Zenon, <1>5 DEF RunResumed
<1>7. NoFailure'
  <2>1. task[b] \in [state : TaskStates, requested : BOOLEAN, failures : Nat, tries : Nat]
    BY Zenon, <1>0, <1>3
  <2>2. [task[b] EXCEPT !.state = "succeeded"].failures = task[b].failures
    BY <2>1
  <2>3. \A c \in Batches : task'[c] = IF c = b THEN [task[b] EXCEPT !.state = "succeeded"] ELSE task[c]
    BY Zenon, <1>0, <1>6
  <2>4. \A c \in Batches : task'[c].failures = task[c].failures
    BY Zenon, <2>2, <2>3
  <2> QED BY Zenon, <1>6, <2>4 DEF SmoothInv, NoFailure
<1>8. \A t \in Sources, c \in Executors : t # s \/ c # e => queue'[t][c] = queue[t][c]
  <2>1. PICK w : w = Tail(queue[s][e])
    BY Zenon
  <2>2. queue' = [queue EXCEPT ![s] = [queue[s] EXCEPT ![e] = w]]
    BY Zenon, <1>1, <2>1
  <2> QED BY Zenon, <1>2, <2>2
<1>9. /\ queue'[Sequencer][Apply] = queue[Sequencer][Apply]
      /\ \A t \in Shards \ {Apply} : queue'[Apply][t] = queue[Apply][t]
  BY Zenon, <1>2, <1>4, <1>8
<1> QED BY Zenon, <1>1, <1>6, <1>7, <1>9, SmoothQuiet

\* Before anything runs, every queue is empty and no shard has applied a batch.
LEMMA SmoothInit == Init => SmoothInv
<1> SUFFICES ASSUME Init PROVE SmoothInv
  OBVIOUS
<1>0. /\ setup \in Setups /\ next = 1 /\ run = [e \in Executors |-> Idle] /\ last = [s \in Shards |-> 0]
      /\ queue = [s \in Sources |-> [d \in Executors |-> <<>>]] /\ FanOutInv
  BY Zenon, FanOutInit DEF Init
<1>1. /\ Apply \in Executors /\ Shards \subseteq Executors /\ Executors \subseteq Sources /\ Sequencer \in Sources
  BY Zenon, <1>0, Places
<1>2. \A s \in Sources, d \in Executors : queue[s][d] = <<>>
  BY Zenon, <1>0
<1>3. \A e \in Executors : run[e].kind = "idle" /\ run[e].at = "none"
  <2>1. Idle.kind = "idle" /\ Idle.at = "none"
    BY DEF Idle
  <2> QED BY Zenon, <1>0, <2>1
<1>4. Len(<<>>) = 0 /\ \A kind, p : Row(<<>>, kind, p)
  BY DEF Row
<1>5. Begun = 0 /\ StartQueue
  <2>1. Begun = 1 - 1 - 0
    BY Zenon, <1>0, <1>1, <1>2, <1>4 DEF Begun
  <2>2. Begun = 0
    BY <2>1
  <2> QED BY Zenon, <1>1, <1>2, <1>3, <1>4, <2>2 DEF StartQueue
<1>6. \A s \in Shards : PostedTo(s) = 0 /\ last[s] = 0 /\ Popped(s) = 0
  BY Zenon, <1>0, <1>1, <1>3, <1>5 DEF PostedTo, Popped
<1>7. \A s \in Shards \ {Apply} : ShardQueue(s)
  <2>1. 0 + 0 = 0
    OBVIOUS
  <2>2. \A s \in Shards : queue[Apply][s] = <<>> /\ run[s].at # "guard"
    BY Zenon, <1>1, <1>2, <1>3
  <2> QED BY Zenon, <1>4, <1>6, <2>1, <2>2 DEF ShardQueue
<1>8. InlineShard
  BY Zenon, <1>1, <1>3, <1>6 DEF InlineShard
<1>9. NoFailure
  <2>1. NoGroup.failed = 0
    BY DEF NoGroup
  <2>2. \A b \in Batches : task[b].failures = 0 /\ group[b] = NoGroup
    BY Zenon DEF Init
  <2> QED BY Zenon, <1>3, <2>1, <2>2 DEF NoFailure
<1> QED BY Zenon, <1>5, <1>7, <1>8, <1>9 DEF SmoothInv

\* Every step keeps the batches in order while no handler fails.
LEMMA SmoothStep == FanOutInv /\ FanOutInv' /\ GuardInv /\ [Next]_vars => GuardInv'
<1> SUFFICES ASSUME FanOutInv, FanOutInv', SmoothInv, ~HandlerFails, [Next]_vars PROVE SmoothInv'
  <2>1. [Next]_vars => setup' = setup
    BY Zenon DEF Next, vars, start_ordered_task, submit, RunLoop, DispatchShard, DispatchEnd,
       run_parallel_shard, CountFailure, complete, Exit, Execute, RequestStop, cancel_registered_tasks
  <2> QED BY Zenon, <2>1 DEF GuardInv, HandlerFails
<1>0. Apply \in Executors /\ Shards \subseteq Executors
  BY Zenon, SmoothFacts
<1>1. ASSUME UNCHANGED <<setup, next, last, queue, run, group, task>> PROVE SmoothInv'
  <2>1. NoFailure'
    BY Zenon, <1>1 DEF SmoothInv, NoFailure
  <2> QED BY Zenon, <1>1, <2>1, SmoothQuiet
<1>2. CASE (\E b \in Batches : start_ordered_task(b)) \/ RequestStop \/ UNCHANGED vars
  BY Zenon, <1>1, <1>2 DEF start_ordered_task, RequestStop, vars
<1>3. CASE submit
  <2>1. CASE UNCHANGED <<next, queue, task>>
    BY Zenon, <1>1, <1>3, <2>1 DEF submit
  <2>2. CASE Head(inbox) = next /\ StartReady(Head(inbox))
    <3>1. PICK b : b = Head(inbox)
      BY Zenon
    <3>2. PICK n \in (b - 1) .. MaxBatch : Starts(b, n)
      <4>1. StartReady(b)
        BY Zenon, <2>2, <3>1
      <4> QED BY Zenon, <4>1, ReadyStarts
    <3> QED BY Zenon, <1>3, <2>2, <3>1, <3>2, SmoothStart
  <2> QED BY Zenon, <1>3, <2>1, <2>2 DEF submit
<1>4. CASE cancel_registered_tasks
  <2>1. /\ UNCHANGED <<setup, next, last, queue, run>> /\ stop' = "cancelled"
        /\ task' = [b \in Batches |-> IF task[b].state \in {"queued", "pending"}
                                      THEN [task[b] EXCEPT !.state = "cancelled"] ELSE task[b]]
    BY Zenon, <1>4 DEF cancel_registered_tasks
  <2>2. \A b \in Batches : group'[b] = NoGroup
    BY Zenon, <2>1 DEF FanOutInv, EndInv
  <2>3. \A b \in Batches : task[b] \in [state : TaskStates, requested : BOOLEAN, failures : Nat, tries : Nat]
    BY Zenon DEF FanOutInv, BatchType
  <2>4. \A b \in Batches : [task[b] EXCEPT !.state = "cancelled"].failures = task[b].failures
    BY <2>3
  <2>5. \A b \in Batches : task'[b].failures = task[b].failures
    BY Zenon, <2>1, <2>4
  <2>6. NoGroup.failed = 0
    BY DEF NoGroup
  <2>7. NoFailure'
    BY Zenon, <2>1, <2>2, <2>5, <2>6 DEF SmoothInv, NoFailure
  <2> QED BY Zenon, <2>1, <2>7, SmoothQuiet
<1>5. CASE \E e \in Executors : RunLoop(e)
  <2> SUFFICES ASSUME NEW e \in Executors, RunLoop(e) PROVE SmoothInv'
    BY Zenon, <1>5
  <2>1. PICK b, s : b = run[e].batch /\ s = run[e].shard
    BY Zenon
  <2>2. CASE DispatchShard(e)
    BY Zenon, <2>1, <2>2, SmoothInline, SmoothPost
  <2>3. CASE DispatchEnd(e)
    BY Zenon, <2>1, <2>3, SmoothEnd
  <2>4. CASE complete(e)
    BY Zenon, <2>1, <2>4, SmoothComplete
  <2>5. CASE CountFailure(e)
    BY Zenon, <2>5 DEF CountFailure, SmoothInv, NoFailure
  <2>6. CASE Exit(e)
    <3>1. /\ UNCHANGED <<setup, next, last, queue, group, task>> /\ run[e] = Idle
          /\ run' = [run EXCEPT ![e] = Exited]
      BY Zenon, <2>6 DEF Exit
    <3>2. \A d \in Executors : run'[d] = IF d = e THEN Exited ELSE run[d]
      BY Zenon, <3>1 DEF FanOutInv, BatchType
    <3>3. Exited.at = "none"
      BY DEF Exited, Idle
    <3>4. NoFailure'
      BY Zenon, <3>1, <3>2, <3>3 DEF SmoothInv, NoFailure
    <3> QED BY Zenon, <3>1, <3>2, <3>4, SmoothQuiet
  <2>7. CASE \E t \in Sources : Execute(e, t)
    <3>1. PICK t \in Sources : Execute(e, t)
      BY Zenon, <2>7
    <3>2. PICK m, c : Takes(e, t, m, c) /\ m = Head(queue[t][e]) /\ c = m.batch
      BY Zenon, <3>1 DEF Execute, Takes
    <3>3. \/ m.kind = "apply" /\ RunApply(e, c)
          \/ m.kind = "resume" /\ RunResumed(e, c)
          \/ m.kind = "shard" /\ RunShardTask(e, c)
      BY Zenon, <3>1, <3>2 DEF Execute
    <3> QED BY Zenon, <3>2, <3>3, SmoothApply, SmoothResume, SmoothShardTask
  <2> QED BY Zenon, <2>2, <2>3, <2>4, <2>5, <2>6, <2>7, SmoothRun DEF RunLoop
<1> QED BY Zenon, <1>2, <1>3, <1>4, <1>5 DEF Next

\* While no handler fails, check_order_guard never refuses a batch: its assertion
\* "ordered batch id must be contiguous per shard" holds.
THEOREM GuardHoldsThm == Spec => []GuardHolds
<1>1. Init => GuardInv
  BY Zenon, SmoothInit DEF GuardInv
<1>2. FanOutInv /\ GuardInv => GuardHolds
  <2> SUFFICES ASSUME FanOutInv, GuardInv, ~HandlerFails, NEW e \in Executors, run[e].at = "guard"
               PROVE  check_order_guard(e, run[e].batch) # "fail"
    BY Zenon DEF GuardHolds
  <2>1. check_order_guard(e, run[e].batch) = "run"
    BY Zenon, GuardRuns DEF GuardInv
  <2> QED BY <2>1
<1> QED BY PTL, FanOutInvThm, SmoothStep, <1>1, <1>2 DEF Spec
=============================================================================
