------------------------ MODULE CommandChannelProofs ------------------------
(* Proofs about CommandChannel, for any number of producers, any capacity, *)
(* any number of starts, stops and refused stop tasks, and with every      *)
(* plain store of owner and control delayed or not.                        *)
EXTENDS CommandChannel, FiniteSetTheorems, SequenceTheorems, TLAPS

\* What is left of the owner's tasks: of stop_on_owner, of close_wake_channel, of
\* handle_wake, of open_wake_channel and of a start that fails after it.
Stop0 == <<"seal", "spin", "discard", "discard", "seal", "spin", "discard", "close">>
Stop1 == <<"spin", "discard", "discard", "seal", "spin", "discard", "close">>
Stop2 == <<"discard", "discard", "seal", "spin", "discard", "close">>
Stop3 == <<"discard", "seal", "spin", "discard", "close">>
Close0 == <<"seal", "spin", "discard", "close">>
Close1 == <<"spin", "discard", "close">>
Close2 == <<"discard", "close">>
Close3 == <<"close">>
Wake0 == <<"drain_fd", "clear", "drain">>
Wake1 == <<"clear", "drain">>
Wake2 == <<"drain">>
Open0 == <<"open", "accept">>
Open1 == <<"accept">>
Fail0 == <<"open", "accept", "seal", "spin", "discard", "close">>
Fail1 == <<"accept", "seal", "spin", "discard", "close">>

\* Behind a seal and before the close that follows it; Resting: no close is to
\* come.  Looking: the owner is on its way to the queue.
Sealed == {Stop1, Stop2, Stop3, Close1, Close2, Close3}
Waked == {Wake0, Wake1, Wake2}
Resting == {<<>>, Open1} \cup Waked
Looking == {Stop0, Stop1, Stop2, Stop3, Close0, Close1, Close2, Fail0, Fail1} \cup Waked
Todos == Sealed \cup Resting \cup {Stop0, Close0, Open0, Fail0, Fail1}

\* Producers that active_enqueues_ counts, and those that found the channel open.
Inside == {"load", "push", "fd", "cas", "write", "leave"}
Pushing == {"push", "fd", "cas", "write"}
InsideSet == {p \in Producers : pc[p] \in Inside}

-----------------------------------------------------------------------------
\* Each remainder is its first step and the next remainder.
LEMMA Tails ==
    /\ Head(Stop0) = "seal" /\ Tail(Stop0) = Stop1
    /\ Head(Stop1) = "spin" /\ Tail(Stop1) = Stop2
    /\ Head(Stop2) = "discard" /\ Tail(Stop2) = Stop3
    /\ Head(Stop3) = "discard" /\ Tail(Stop3) = Close0
    /\ Head(Close0) = "seal" /\ Tail(Close0) = Close1
    /\ Head(Close1) = "spin" /\ Tail(Close1) = Close2
    /\ Head(Close2) = "discard" /\ Tail(Close2) = Close3
    /\ Head(Close3) = "close" /\ Tail(Close3) = <<>>
    /\ Head(Wake0) = "drain_fd" /\ Tail(Wake0) = Wake1
    /\ Head(Wake1) = "clear" /\ Tail(Wake1) = Wake2
    /\ Head(Wake2) = "drain" /\ Tail(Wake2) = <<>>
    /\ Head(Open0) = "open" /\ Tail(Open0) = Open1
    /\ Head(Open1) = "accept" /\ Tail(Open1) = <<>>
    /\ Head(Fail0) = "open" /\ Tail(Fail0) = Fail1
    /\ Head(Fail1) = "accept" /\ Tail(Fail1) = Close0
<1>1. Head(Stop0) = "seal" /\ Tail(Stop0) = Stop1
  BY DEF Stop0, Stop1
<1>2. Head(Stop1) = "spin" /\ Tail(Stop1) = Stop2
  BY DEF Stop1, Stop2
<1>3. Head(Stop2) = "discard" /\ Tail(Stop2) = Stop3
  BY DEF Stop2, Stop3
<1>4. Head(Stop3) = "discard" /\ Tail(Stop3) = Close0
  BY DEF Stop3, Close0
<1>5. Head(Close0) = "seal" /\ Tail(Close0) = Close1
  BY DEF Close0, Close1
<1>6. Head(Close1) = "spin" /\ Tail(Close1) = Close2
  BY DEF Close1, Close2
<1>7. Head(Close2) = "discard" /\ Tail(Close2) = Close3
  BY DEF Close2, Close3
<1>8. Head(Close3) = "close" /\ Tail(Close3) = <<>>
  BY DEF Close3
<1>9. Head(Wake0) = "drain_fd" /\ Tail(Wake0) = Wake1
  BY DEF Wake0, Wake1
<1>10. Head(Wake1) = "clear" /\ Tail(Wake1) = Wake2
  BY DEF Wake1, Wake2
<1>11. Head(Wake2) = "drain" /\ Tail(Wake2) = <<>>
  BY DEF Wake2
<1>12. Head(Open0) = "open" /\ Tail(Open0) = Open1
  BY DEF Open0, Open1
<1>13. Head(Open1) = "accept" /\ Tail(Open1) = <<>>
  BY DEF Open1
<1>14. Head(Fail0) = "open" /\ Tail(Fail0) = Fail1
  BY DEF Fail0, Fail1
<1>15. Head(Fail1) = "accept" /\ Tail(Fail1) = Close0
  BY DEF Fail1, Close0
<1> QED BY Zenon, <1>1, <1>2, <1>3, <1>4, <1>5, <1>6, <1>7, <1>8, <1>9, <1>10, <1>11, <1>12,
       <1>13, <1>14, <1>15

\* The first step of what is left determines what is left, and what remains
\* after it.
LEMMA StepsOf ==
    ASSUME NEW s \in Todos, s # <<>>
    PROVE  /\ Head(s) = "seal" => (s = Stop0 /\ Tail(s) = Stop1) \/ (s = Close0 /\ Tail(s) = Close1)
           /\ Head(s) = "spin" => (s = Stop1 /\ Tail(s) = Stop2) \/ (s = Close1 /\ Tail(s) = Close2)
           /\ Head(s) = "discard" => \/ s = Stop2 /\ Tail(s) = Stop3
                                     \/ s = Stop3 /\ Tail(s) = Close0
                                     \/ s = Close2 /\ Tail(s) = Close3
           /\ Head(s) = "close" => s = Close3 /\ Tail(s) = <<>>
           /\ Head(s) = "open" => (s = Open0 /\ Tail(s) = Open1) \/ (s = Fail0 /\ Tail(s) = Fail1)
           /\ Head(s) = "accept" => (s = Open1 /\ Tail(s) = <<>>) \/ (s = Fail1 /\ Tail(s) = Close0)
           /\ Head(s) = "drain_fd" => s = Wake0 /\ Tail(s) = Wake1
           /\ Head(s) = "clear" => s = Wake1 /\ Tail(s) = Wake2
           /\ Head(s) = "drain" => s = Wake2 /\ Tail(s) = <<>>
<1>1. CASE s \in {Stop0, Stop1, Stop2, Stop3}
  BY Zenon, <1>1, Tails
<1>2. CASE s \in {Close0, Close1, Close2, Close3}
  BY Zenon, <1>2, Tails
<1>3. CASE s \in {Wake0, Wake1, Wake2}
  BY Zenon, <1>3, Tails
<1>4. CASE s \in {Open0, Open1, Fail0, Fail1}
  BY Zenon, <1>4, Tails
<1> QED BY Zenon, <1>1, <1>2, <1>3, <1>4 DEF Todos, Sealed, Resting, Waked

\* The remainders are told apart, by their first step or by their length.
LEMMA Apart ==
    /\ <<>> \notin {Stop0, Stop1, Stop2, Stop3, Close0, Close1, Close2, Close3, Wake0, Wake1,
                 Wake2, Open0, Open1, Fail0, Fail1}
    /\ Open0 \notin {Stop0, Stop1, Stop2, Stop3, Close0, Close1, Close2, Close3, Wake0, Wake1,
                 Wake2, Open1, Fail1}
    /\ Fail0 \notin {Stop0, Stop1, Stop2, Stop3, Close0, Close1, Close2, Close3, Wake0, Wake1,
                 Wake2, Open0, Open1, Fail1}
    /\ Open1 \notin {Stop0, Stop1, Stop2, Stop3, Close0, Close1, Close2, Close3, Wake0, Wake1,
                 Wake2}
    /\ Fail1 \notin {Stop0, Stop1, Stop2, Stop3, Close0, Close1, Close2, Close3, Wake0, Wake1,
                 Wake2, Open1}
    /\ Wake0 \notin {Stop0, Stop1, Stop2, Stop3, Close0, Close1, Close2, Close3, Wake1, Wake2}
    /\ Wake1 \notin {Stop0, Stop1, Stop2, Stop3, Close0, Close1, Close2, Close3, Wake2}
    /\ Wake2 \notin {Stop0, Stop1, Stop2, Stop3, Close0, Close1, Close2, Close3}
    /\ Close3 \notin {Stop0, Stop1, Stop2, Stop3, Close0, Close1, Close2}
    /\ Close2 \notin {Stop0, Stop1, Stop2, Stop3, Close0, Close1}
    /\ Stop0 \notin {Stop1, Stop2, Stop3, Close0, Close1, Close2, Close3}
    /\ Close0 \notin {Stop1, Stop2, Stop3, Close1, Close2, Close3}
<1> USE DEF Stop0, Stop1, Stop2, Stop3, Close0, Close1, Close2, Close3,
         Wake0, Wake1, Wake2, Open0, Open1, Fail0, Fail1
<1>1. <<>> \notin {Stop0, Stop1, Stop2, Stop3, Close0, Close1, Close2, Close3, Wake0, Wake1,
                Wake2, Open0, Open1, Fail0, Fail1}
  BY Zenon
<1>2. Open0 \notin {Stop0, Stop1, Stop2, Stop3, Close0, Close1, Close2, Close3, Wake0, Wake1,
                Wake2, Open1, Fail1}
  BY Zenon
<1>3. Fail0 \notin {Stop0, Stop1, Stop2, Stop3, Close0, Close1, Close2, Close3, Wake0, Wake1,
                Wake2, Open0, Open1, Fail1}
  BY Zenon
<1>4. Open1 \notin {Stop0, Stop1, Stop2, Stop3, Close0, Close1, Close2, Close3, Wake0, Wake1, Wake2}
  BY Zenon
<1>5. Fail1 \notin {Stop0, Stop1, Stop2, Stop3, Close0, Close1, Close2, Close3, Wake0, Wake1,
                Wake2, Open1}
  BY Zenon
<1>6. Wake0 \notin {Stop0, Stop1, Stop2, Stop3, Close0, Close1, Close2, Close3, Wake1, Wake2}
  BY Zenon
<1>7. Wake1 \notin {Stop0, Stop1, Stop2, Stop3, Close0, Close1, Close2, Close3, Wake2}
  BY Zenon
<1>8. Wake2 \notin {Stop0, Stop1, Stop2, Stop3, Close0, Close1, Close2, Close3}
  BY Zenon
<1>9. Close3 \notin {Stop0, Stop1, Stop2, Stop3, Close0, Close1, Close2}
  BY Zenon
<1>10. Close2 \notin {Stop0, Stop1, Stop2, Stop3, Close0, Close1}
  BY Zenon
<1>11. Stop0 \notin {Stop1, Stop2, Stop3, Close0, Close1, Close2, Close3}
  BY Zenon
<1>12. Close0 \notin {Stop1, Stop2, Stop3, Close1, Close2, Close3}
  BY Zenon
<1> QED BY Zenon, <1>1, <1>2, <1>3, <1>4, <1>5, <1>6, <1>7, <1>8, <1>9, <1>10, <1>11, <1>12

\* The names of the owner's steps.
Names == {"seal", "spin", "discard", "close", "open", "accept"}

\* stop_on_owner, and a start that fails, end in close_wake_channel.
LEMMA StopIs == StopSteps = Stop0 /\ CloseSteps = Close0 /\ WakeSteps = Wake0
<1> DEFINE a == <<"seal", "spin", "discard", "discard">>
<1>1. a \in Seq(Names) /\ CloseSteps \in Seq(Names) /\ Len(a) = 4 /\ Len(CloseSteps) = 4
  BY DEF CloseSteps, Names
<1>2. /\ StopSteps \in Seq(Names) /\ Len(StopSteps) = 8
      /\ \A i \in 1..8 : StopSteps[i] = IF i <= 4 THEN a[i] ELSE CloseSteps[i - 4]
  <2>1. StopSteps = a \o CloseSteps
    BY Zenon DEF StopSteps
  <2> HIDE DEF a
  <2>2. /\ a \o CloseSteps \in Seq(Names)
        /\ Len(a \o CloseSteps) = Len(a) + Len(CloseSteps)
        /\ \A i \in 1 .. Len(a) + Len(CloseSteps) : (a \o CloseSteps)[i] =
              IF i <= Len(a) THEN a[i] ELSE CloseSteps[i - Len(a)]
    BY Zenon, ConcatProperties, <1>1
  <2> QED BY <2>2, <1>1, <2>1
<1>3. Stop0 \in Seq(Names) /\ Len(Stop0) = 8
  BY DEF Stop0, Names
<1>4. \A i \in 1..8 : StopSteps[i] = Stop0[i]
  <2>1. \A i \in 1..4 : StopSteps[i] = a[i]
    BY <1>2
  <2>2. \A i \in 5..8 : StopSteps[i] = CloseSteps[i - 4]
    BY <1>2
  <2>3. \A i \in 1..4 : a[i] = Stop0[i]
    BY DEF Stop0
  <2>4. \A i \in 5..8 : CloseSteps[i - 4] = Stop0[i]
    BY DEF CloseSteps, Stop0
  <2> QED BY <2>1, <2>2, <2>3, <2>4
<1>5. StopSteps = Stop0
  BY <1>2, <1>3, <1>4
<1>6. CloseSteps = Close0 /\ WakeSteps = Wake0
  BY Zenon DEF CloseSteps, WakeSteps, Close0, Wake0
<1> QED BY Zenon, <1>5, <1>6

\* The close after a failed start.
LEMMA FailIs == Open0 \o CloseSteps = Fail0
<1>1. Open0 \in Seq(Names) /\ CloseSteps \in Seq(Names) /\ Len(Open0) = 2 /\ Len(CloseSteps) = 4
  BY DEF CloseSteps, Open0, Names
<1> DEFINE f == Open0 \o CloseSteps
<1>2. /\ f \in Seq(Names) /\ Len(f) = Len(Open0) + Len(CloseSteps)
      /\ \A i \in 1 .. Len(Open0) + Len(CloseSteps) : f[i] =
            IF i <= Len(Open0) THEN Open0[i] ELSE CloseSteps[i - Len(Open0)]
  BY Zenon, ConcatProperties, <1>1
<1> HIDE DEF f
<1>3. Len(f) = 6 /\ \A i \in 1..6 : f[i] = IF i <= 2 THEN Open0[i] ELSE CloseSteps[i - 2]
  BY <1>1, <1>2
<1>4. Fail0 \in Seq(Names) /\ Len(Fail0) = 6
  BY DEF Fail0, Names
<1>5. \A i \in 1..2 : Open0[i] = Fail0[i]
  BY DEF Open0, Fail0
<1>6. \A i \in 3..6 : CloseSteps[i - 2] = Fail0[i]
  BY DEF CloseSteps, Fail0
<1>7. \A i \in 1..6 : f[i] = Fail0[i]
  BY <1>3, <1>5, <1>6
<1>8. f \in Seq(Names) /\ Len(f) = 6
  BY <1>2, <1>3
<1>9. f = Fail0
  BY <1>4, <1>7, <1>8
<1> QED BY <1>9 DEF f

\* What a start may begin.
LEMMA StartIs ==
    ASSUME NEW s \in StartSteps
    PROVE  (fd /\ s = Open1) \/ (~fd /\ s \in {Open0, Fail0, <<>>})
<1>1. OpenSteps = IF fd THEN Open1 ELSE Open0
  BY Zenon DEF OpenSteps, Open0, Open1
<1> QED BY Zenon, <1>1, FailIs DEF StartSteps

\* Wherever a discard or a drain is still to come, the owner will see the queue.
LEMMA LookingLooks ==
    ASSUME NEW s \in Looking
    PROVE  \E k \in 1..Len(s) : s[k] \in {"drain", "discard"}
<1>1. CASE s \in {Stop0, Close0, Fail1}
  <2>1. (3 \in 1..Len(s) /\ s[3] = "discard") \/ (4 \in 1..Len(s) /\ s[4] = "discard")
    BY <1>1 DEF Stop0, Close0, Fail1
  <2> QED BY Zenon, <2>1
<1>2. CASE s \in {Stop2, Stop3, Close2}
  <2>1. 1 \in 1..Len(s) /\ s[1] = "discard"
    BY <1>2 DEF Stop2, Stop3, Close2
  <2> QED BY Zenon, <2>1
<1>3. CASE s \in {Stop1, Close1}
  <2>1. 2 \in 1..Len(s) /\ s[2] = "discard"
    BY <1>3 DEF Stop1, Close1
  <2> QED BY Zenon, <2>1
<1>4. CASE s = Wake0
  <2>1. 3 \in 1..Len(s) /\ s[3] = "drain"
    BY <1>4 DEF Wake0
  <2> QED BY Zenon, <2>1
<1>5. CASE s = Wake1
  <2>1. 2 \in 1..Len(s) /\ s[2] = "drain"
    BY <1>5 DEF Wake1
  <2> QED BY Zenon, <2>1
<1>6. CASE s = Wake2
  <2>1. 1 \in 1..Len(s) /\ s[1] = "drain"
    BY <1>6 DEF Wake2
  <2> QED BY Zenon, <2>1
<1>7. CASE s = Fail0
  <2>1. 5 \in 1..Len(s) /\ s[5] = "discard"
    BY <1>7 DEF Fail0
  <2> QED BY Zenon, <2>1
<1> QED BY Zenon, <1>1, <1>2, <1>3, <1>4, <1>5, <1>6, <1>7 DEF Looking, Waked

\* Whatever is left of a stop, of a close and of a failed start ends in a close.
LEMMA EndsInClose ==
    ASSUME NEW s \in Sealed \cup {Stop0, Close0, Fail0, Fail1}
    PROVE  \E k \in 1..Len(s) : s[k] = "close"
<1>1. CASE s = Stop0
  <2>1. 8 \in 1..Len(s) /\ s[8] = "close"
    BY <1>1 DEF Stop0
  <2> QED BY Zenon, <2>1
<1>2. CASE s = Stop1
  <2>1. 7 \in 1..Len(s) /\ s[7] = "close"
    BY <1>2 DEF Stop1
  <2> QED BY Zenon, <2>1
<1>3. CASE s = Stop2
  <2>1. 6 \in 1..Len(s) /\ s[6] = "close"
    BY <1>3 DEF Stop2
  <2> QED BY Zenon, <2>1
<1>4. CASE s = Stop3
  <2>1. 5 \in 1..Len(s) /\ s[5] = "close"
    BY <1>4 DEF Stop3
  <2> QED BY Zenon, <2>1
<1>5. CASE s = Close0
  <2>1. 4 \in 1..Len(s) /\ s[4] = "close"
    BY <1>5 DEF Close0
  <2> QED BY Zenon, <2>1
<1>6. CASE s = Close1
  <2>1. 3 \in 1..Len(s) /\ s[3] = "close"
    BY <1>6 DEF Close1
  <2> QED BY Zenon, <2>1
<1>7. CASE s = Close2
  <2>1. 2 \in 1..Len(s) /\ s[2] = "close"
    BY <1>7 DEF Close2
  <2> QED BY Zenon, <2>1
<1>8. CASE s = Close3
  <2>1. 1 \in 1..Len(s) /\ s[1] = "close"
    BY <1>8 DEF Close3
  <2> QED BY Zenon, <2>1
<1>9. CASE s = Fail0
  <2>1. 6 \in 1..Len(s) /\ s[6] = "close"
    BY <1>9 DEF Fail0
  <2> QED BY Zenon, <2>1
<1>10. CASE s = Fail1
  <2>1. 5 \in 1..Len(s) /\ s[5] = "close"
    BY <1>10 DEF Fail1
  <2> QED BY Zenon, <2>1
<1> QED BY Zenon, <1>1, <1>2, <1>3, <1>4, <1>5, <1>6, <1>7, <1>8, <1>9, <1>10 DEF Sealed

\* A shard that serves its channel has no close before it.
LEMMA ServingRests ==
    ASSUME todo \in Todos, Serving
    PROVE  fd /\ todo \in Resting
<1>1. CASE todo \in Sealed \cup {Stop0, Close0, Fail0, Fail1}
  BY Zenon, <1>1, EndsInClose DEF Serving
<1>2. CASE todo = Open0
  <2>1. 1 \in 1..Len(todo) /\ todo[1] = "open"
    BY <1>2 DEF Open0
  <2> QED BY Zenon, <2>1 DEF Serving
<1> QED BY Zenon, <1>1, <1>2 DEF Todos, Serving

-----------------------------------------------------------------------------
(* The inductive invariant.                                                 *)

\* The stores that may be late: the one that opens the channel, the one that
\* seals it, the one that clears wake_pending_.
Opened == <<"accepting", TRUE>>
SealedOff == <<"accepting", FALSE>>
Cleared == <<"wakePending", FALSE>>

\* They are told apart.
LEMMA StoresApart ==
    /\ Opened # <<>> /\ SealedOff # <<>> /\ Cleared # <<>>
    /\ Opened # SealedOff /\ Opened # Cleared /\ SealedOff # Cleared
    /\ Opened[1] = "accepting" /\ Opened[2] = TRUE
    /\ SealedOff[1] = "accepting" /\ SealedOff[2] = FALSE
    /\ Cleared[1] = "wakePending" /\ Cleared[2] = FALSE
<1>1. Opened # <<>> /\ SealedOff # <<>> /\ Cleared # <<>>
  BY DEF Opened, SealedOff, Cleared
<1>2. Opened # SealedOff /\ Opened # Cleared /\ SealedOff # Cleared
  BY DEF Opened, SealedOff, Cleared
<1>3. Opened[1] = "accepting" /\ Opened[2] = TRUE
  BY DEF Opened
<1>4. SealedOff[1] = "accepting" /\ SealedOff[2] = FALSE
  BY DEF SealedOff
<1>5. Cleared[1] = "wakePending" /\ Cleared[2] = FALSE
  BY DEF Cleared
<1> QED BY Zenon, <1>1, <1>2, <1>3, <1>4, <1>5

Typed ==
    /\ accepting \in BOOLEAN /\ wakePending \in BOOLEAN /\ fd \in BOOLEAN /\ signal \in BOOLEAN
    /\ queued \in Nat
    /\ pc \in [Producers -> {"idle", "enter"} \cup Inside]
    /\ todo \in Todos
    /\ tasks \in Seq({"start", "stop"})
    /\ buffer \in [{"owner", "control"} -> {<<>>, Opened, SealedOff, Cleared}]
    /\ buffer["control"] # Cleared

\* active_enqueues_ counts the producers inside enqueue().
CountInv == active = Cardinality(InsideSet)

\* Where the owner is when a store of its own is late, and when the descriptor
\* is open.
PlaceInv ==
    /\ buffer["owner"] = Opened => fd /\ todo \in {<<>>, Close0}
    /\ buffer["owner"] = SealedOff => todo \in Sealed \cup {Close0}
    /\ buffer["owner"] = Cleared => fd /\ todo \in {<<>>, Wake2}
    /\ todo \in {Open1, Fail1} \cup Waked => fd
    /\ todo \in {Open0, Fail0} => ~fd

\* Who finds the channel open has an open descriptor, behind a seal only as long
\* as it is late; past the last wait nobody is in.
Guarded == races \cap {"seal", "resume"} = {}

GuardInv ==
    Guarded =>
       /\ accepting => fd /\ (todo \in Sealed => buffer["owner"] = SealedOff)
       /\ \A p \in Producers : pc[p] \in Pushing => fd /\ todo \notin {Close2, Close3}

\* A queued command is seen, a raised wake_pending_ has a signal behind it or is
\* about to be cleared.
StopQueued == \E k \in 1..Len(tasks) : tasks[k] = "stop"

Seen == fd /\ (signal \/ todo \in Looking \/ StopQueued \/ \E p \in Producers : pc[p] \in Waking)

Raised ==
    /\ fd
    /\ \/ signal \/ todo = Wake1 \/ buffer["owner"] = Cleared
       \/ \E p \in Producers : pc[p] = "write"

StrandInv ==
    races = {} =>
       /\ queued > 0 => Seen
       /\ wakePending => Raised
       /\ todo = Close3 => queued = 0

ChannelInv == Typed /\ CountInv /\ PlaceInv /\ GuardInv /\ StrandInv

\* A channel that was never opened has no descriptor and no producer.
LEMMA InitChannel == Init => ChannelInv
<1> SUFFICES ASSUME Init PROVE ChannelInv
  BY Zenon
<1> USE DEF Init
<1>1. Typed
  <2>1. todo \in Todos
    BY Zenon DEF Todos, Resting
  <2>2. /\ buffer \in [{"owner", "control"} -> {<<>>, Opened, SealedOff, Cleared}]
        /\ buffer["control"] # Cleared
    BY Zenon, StoresApart
  <2>3. tasks \in Seq({"start", "stop"})
    OBVIOUS
  <2> QED BY Zenon, <2>1, <2>2, <2>3 DEF Typed
<1>2. CountInv
  <2>1. InsideSet = {}
    BY Zenon DEF InsideSet, Inside
  <2> QED BY Zenon, <2>1, FS_EmptySet DEF CountInv
<1>3. PlaceInv
  BY Zenon, Apart, StoresApart DEF PlaceInv, Waked
<1>4. GuardInv
  BY Zenon DEF GuardInv, Pushing
<1>5. StrandInv
  BY Apart DEF StrandInv
<1> QED BY Zenon, <1>1, <1>2, <1>3, <1>4, <1>5 DEF ChannelInv

-----------------------------------------------------------------------------
(* What a step keeps.                                                       *)

\* A race once recorded stays recorded.
LEMMA RaceGrows ==
    ASSUME NEW n, NEW h, Race(n, h)
    PROVE  races \subseteq races' /\ (h => n \in races')
  BY Zenon DEF Race

\* No race at the end of a step means none before it.
LEMMA RacesBefore ==
    ASSUME races \subseteq races'
    PROVE  (races' = {} => races = {}) /\ (Guarded' => Guarded)
  BY Zenon DEF Guarded

\* Steps that leave descriptor, owner and buffers alone keep where the owner is.
LEMMA PlaceKept ==
    ASSUME PlaceInv, UNCHANGED <<fd, todo, buffer>>
    PROVE  PlaceInv'
  BY Zenon DEF PlaceInv

\* A step that lets nobody in keeps the guard.
LEMMA GuardKept ==
    ASSUME GuardInv, UNCHANGED <<accepting, fd, todo, buffer>>, races \subseteq races',
           \A q \in Producers : pc'[q] \in Pushing => pc[q] \in Pushing
    PROVE  GuardInv'
<1>1. Guarded' => Guarded
  BY Zenon, RacesBefore
<1> QED BY Zenon, <1>1 DEF GuardInv

\* A step that neither queues nor raises, and keeps who notices, strands nobody.
LEMMA StrandKept ==
    ASSUME StrandInv, races \subseteq races', UNCHANGED <<queued, wakePending, todo>>,
           Seen => Seen', Raised => Raised'
    PROVE  StrandInv'
<1>1. races' = {} => races = {}
  BY Zenon, RacesBefore
<1> QED BY Zenon, <1>1 DEF StrandInv

\* A producer that was not waking the shard takes no waker away.
LEMMA WakersKept ==
    ASSUME Typed, NEW p \in Producers, NEW l, Goto(p, l), pc[p] \notin Waking,
           UNCHANGED <<fd, signal, todo, tasks, buffer>>
    PROVE  (Seen => Seen') /\ (Raised => Raised')
<1>1. \A q \in Producers : pc[q] \in Waking => pc'[q] = pc[q]
  BY Zenon DEF Goto, Typed
<1>2. "write" \in Waking
  BY Zenon DEF Waking
<1>3. StopQueued' = StopQueued
  BY Zenon DEF StopQueued
<1> QED BY Zenon, <1>1, <1>2, <1>3 DEF Seen, Raised

-----------------------------------------------------------------------------
(* The steps of a producer.                                                 *)

\* A step inside enqueue(), or outside of it, leaves the count alone.
LEMMA SameInside ==
    ASSUME Typed, NEW p \in Producers, NEW l, Goto(p, l), pc[p] \in Inside <=> l \in Inside
    PROVE  InsideSet' = InsideSet
  BY Zenon DEF InsideSet, Goto, Typed

\* Entering and leaving change it by one.
LEMMA EnterInside ==
    ASSUME Typed, NEW p \in Producers, NEW l, Goto(p, l), pc[p] \notin Inside, l \in Inside
    PROVE  Cardinality(InsideSet') = Cardinality(InsideSet) + 1
<1>1. InsideSet' = InsideSet \cup {p} /\ p \notin InsideSet
  BY Zenon DEF InsideSet, Goto, Typed
<1>2. IsFiniteSet(InsideSet)
  BY Zenon, FS_Subset, ProducersAssumption DEF InsideSet
<1> QED BY Zenon, <1>1, <1>2, FS_AddElement

\* The decrement at the end of enqueue().
LEMMA LeaveInside ==
    ASSUME Typed, NEW p \in Producers, NEW l, Goto(p, l), pc[p] \in Inside, l \notin Inside
    PROVE  Cardinality(InsideSet') = Cardinality(InsideSet) - 1
<1>1. InsideSet' = InsideSet \ {p} /\ p \in InsideSet
  BY Zenon DEF InsideSet, Goto, Typed
<1>2. IsFiniteSet(InsideSet)
  BY Zenon, FS_Subset, ProducersAssumption DEF InsideSet
<1> QED BY Zenon, <1>1, <1>2, FS_RemoveElement

\* Where a producer goes.
LEMMA GoesTo ==
    ASSUME Typed, NEW p \in Producers, NEW l \in {"idle", "enter"} \cup Inside, Goto(p, l)
    PROVE  /\ pc' \in [Producers -> {"idle", "enter"} \cup Inside]
           /\ pc'[p] = l /\ \A q \in Producers : q # p => pc'[q] = pc[q]
  BY Zenon DEF Goto, Typed

\* Each step of enqueue() keeps the invariant: the count is raised before
\* accepting_commands_ is read, and a command that is pushed is announced.
LEMMA ProducerStep ==
    ASSUME ChannelInv, NEW p \in Producers, CheckAccepting(p) \/ enqueue(p)
    PROVE  ChannelInv'
<1> USE DEF ChannelInv, channel, Threads
<1>1. CASE CheckAccepting(p)
  <2>1. /\ UNCHANGED <<accepting, wakePending, fd, signal, queued, active, todo, tasks, buffer, races>>
        /\ pc[p] = "idle" /\ Goto(p, "enter")
    BY Zenon, <1>1 DEF CheckAccepting
  <2>2. Typed' /\ CountInv'
    BY Zenon, <2>1, GoesTo, SameInside DEF Typed, CountInv, Inside
  <2>3. PlaceInv' /\ GuardInv'
    BY Zenon, <2>1, GoesTo, PlaceKept, GuardKept DEF Pushing
  <2>4. StrandInv'
    BY Zenon, <2>1, WakersKept, StrandKept DEF Waking
  <2> QED BY Zenon, <2>2, <2>3, <2>4
<1>2. CASE EnterEnqueue(p)
  <2>1. /\ UNCHANGED <<accepting, wakePending, fd, signal, queued, todo, tasks, buffer, races>>
        /\ pc[p] = "enter" /\ Goto(p, "load") /\ active' = active + 1
    BY Zenon, <1>2 DEF EnterEnqueue
  <2>2. Typed' /\ CountInv'
    BY Zenon, <2>1, GoesTo, EnterInside DEF Typed, CountInv, Inside
  <2>3. PlaceInv' /\ GuardInv'
    BY Zenon, <2>1, GoesTo, PlaceKept, GuardKept DEF Pushing, Inside
  <2>4. StrandInv'
    BY Zenon, <2>1, WakersKept, StrandKept DEF Waking
  <2> QED BY Zenon, <2>2, <2>3, <2>4
<1>3. CASE LoadAccepting(p)
  <2>1. /\ UNCHANGED <<accepting, wakePending, fd, signal, queued, active, todo, tasks, buffer>>
        /\ pc[p] = "load" /\ Goto(p, IF accepting THEN "push" ELSE "leave")
        /\ races \subseteq races' /\ (accepting /\ SealLate => "seal" \in races')
    BY Zenon, <1>3, RaceGrows DEF LoadAccepting
  <2> DEFINE l == IF accepting THEN "push" ELSE "leave"
  <2>2. l \in Inside /\ Goto(p, l) /\ pc[p] \in Inside
    BY Zenon, <2>1 DEF Inside
  <2>3. Typed' /\ CountInv'
    BY Zenon, <2>1, <2>2, GoesTo, SameInside DEF Typed, CountInv
  <2>4. PlaceInv'
    BY Zenon, <2>1, PlaceKept
  <2>5. GuardInv'
    <3>1. CASE ~accepting
      <4>1. \A q \in Producers : pc'[q] \in Pushing => pc[q] \in Pushing
        BY Zenon, <2>1, <2>2, <3>1, GoesTo DEF Pushing
      <4> QED BY Zenon, <2>1, <4>1, GuardKept
    <3>2. CASE accepting
      <4> SUFFICES ASSUME Guarded' PROVE GuardInv'
        BY Zenon DEF GuardInv
      <4>1. Guarded /\ ~SealLate
        BY Zenon, <2>1, <3>2, RacesBefore DEF Guarded
      <4>2. fd /\ todo \notin {Close2, Close3}
        BY Zenon, <3>2, <4>1 DEF GuardInv, SealLate, Sealed, Close2, Close3, SealedOff
      <4>3. \A q \in Producers : q # p => pc'[q] = pc[q]
        BY Zenon, <2>2, GoesTo
      <4> QED BY Zenon, <2>1, <4>1, <4>2, <4>3 DEF GuardInv
    <3> QED BY Zenon, <3>1, <3>2
  <2>6. StrandInv'
    BY Zenon, <2>1, <2>2, WakersKept, StrandKept DEF Waking
  <2> QED BY Zenon, <2>3, <2>4, <2>5, <2>6
<1>4. CASE TryPush(p)
  <2> DEFINE l == IF queued < Capacity THEN "fd" ELSE "leave"
  <2>1. /\ UNCHANGED <<accepting, wakePending, fd, signal, active, todo, tasks, buffer, races>>
        /\ pc[p] = "push" /\ Goto(p, l) /\ l \in Inside
        /\ queued' = IF queued < Capacity THEN queued + 1 ELSE queued
    BY Zenon, <1>4 DEF TryPush, Inside
  <2>2. Typed' /\ CountInv'
    <3>1. queued' \in Nat
      BY <2>1 DEF Typed
    <3> QED BY Zenon, <2>1, <3>1, GoesTo, SameInside DEF Typed, CountInv, Inside
  <2>3. PlaceInv' /\ GuardInv'
    BY Zenon, <2>1, GoesTo, PlaceKept, GuardKept DEF Pushing
  <2>4. StrandInv'
    <3>1. (Seen => Seen') /\ (Raised => Raised')
      BY Zenon, <2>1, WakersKept DEF Waking
    <3>2. CASE queued < Capacity
      <4> SUFFICES ASSUME races = {} PROVE StrandInv'
        BY Zenon, <2>1 DEF StrandInv
      <4>1. fd /\ todo # Close3
        BY Zenon, <2>1 DEF GuardInv, Guarded, Pushing
      <4>2. pc'[p] \in Waking
        BY Zenon, <2>1, <3>2, GoesTo DEF Waking
      <4>3. Seen'
        BY Zenon, <2>1, <4>1, <4>2 DEF Seen
      <4> QED BY Zenon, <2>1, <3>1, <4>1, <4>3 DEF StrandInv
    <3>3. CASE ~(queued < Capacity)
      BY Zenon, <2>1, <3>1, <3>3, StrandKept
    <3> QED BY Zenon, <3>2, <3>3
  <2> QED BY Zenon, <2>2, <2>3, <2>4
<1>5. CASE WakeFd(p)
  <2> DEFINE l == IF fd THEN "cas" ELSE "leave"
  <2>1. /\ UNCHANGED <<accepting, wakePending, fd, signal, queued, active, todo, tasks, buffer, races>>
        /\ pc[p] = "fd" /\ Goto(p, l) /\ l \in Inside
    BY Zenon, <1>5 DEF WakeFd, Inside
  <2>2. Typed' /\ CountInv'
    BY Zenon, <2>1, GoesTo, SameInside DEF Typed, CountInv, Inside
  <2>3. PlaceInv' /\ GuardInv'
    BY Zenon, <2>1, GoesTo, PlaceKept, GuardKept DEF Pushing
  <2>4. StrandInv'
    <3> SUFFICES ASSUME races = {} PROVE StrandInv'
      BY Zenon, <2>1 DEF StrandInv
    <3>1. fd
      BY Zenon, <2>1 DEF GuardInv, Guarded, Pushing
    <3>2. pc'[p] = "cas" /\ \A q \in Producers : q # p => pc'[q] = pc[q]
      BY Zenon, <2>1, <3>1, GoesTo
    <3>3. Seen'
      BY Zenon, <2>1, <3>1, <3>2 DEF Seen, Waking
    <3>4. Raised => Raised'
      BY Zenon, <2>1, <3>2 DEF Raised
    <3> QED BY Zenon, <2>1, <3>3, <3>4, StrandKept
  <2> QED BY Zenon, <2>2, <2>3, <2>4
<1>6. CASE WakeCas(p)
  <2> DEFINE l == IF wakePending THEN "leave" ELSE "write"
  <2>1. /\ UNCHANGED <<accepting, fd, signal, queued, active, todo, tasks, buffer>>
        /\ pc[p] = "cas" /\ Goto(p, l) /\ l \in Inside /\ wakePending' = TRUE
        /\ races \subseteq races' /\ (wakePending /\ ClearLate => "clear" \in races')
    BY Zenon, <1>6, RaceGrows DEF WakeCas, Inside
  <2>2. Typed' /\ CountInv'
    BY Zenon, <2>1, GoesTo, SameInside DEF Typed, CountInv, Inside
  <2>3. PlaceInv' /\ GuardInv'
    BY Zenon, <2>1, GoesTo, PlaceKept, GuardKept DEF Pushing
  <2>4. StrandInv'
    <3> SUFFICES ASSUME races' = {} PROVE Seen' /\ Raised' /\ (todo' = Close3 => queued' = 0)
      BY Zenon DEF StrandInv
    <3>1. races = {} /\ fd
      BY Zenon, <2>1, RacesBefore DEF GuardInv, Guarded, Pushing
    <3>2. todo' = Close3 => queued' = 0
      BY Zenon, <2>1, <3>1 DEF StrandInv
    <3>3. pc'[p] = l /\ \A q \in Producers : q # p => pc'[q] = pc[q]
      BY Zenon, <2>1, GoesTo
    <3>4. CASE wakePending
      <4>1. ~ClearLate
        BY Zenon, <2>1, <3>4
      <4>2. Raised
        BY Zenon, <3>1, <3>4 DEF StrandInv
      <4>3. Raised'
        BY Zenon, <2>1, <3>3, <4>2 DEF Raised
      <4>4. Wake1 \in Looking /\ Wake2 \in Looking /\ "write" \in Waking
        BY Zenon DEF Looking, Waked, Waking
      <4>5. buffer["owner"] = Cleared => todo = Wake2
        BY Zenon, <4>1 DEF PlaceInv, ClearLate, Cleared
      <4>6. Seen'
        BY Zenon, <2>1, <3>3, <4>2, <4>4, <4>5 DEF Raised, Seen
      <4> QED BY Zenon, <3>2, <4>3, <4>6
    <3>5. CASE ~wakePending
      <4>1. pc'[p] = "write" /\ "write" \in Waking
        BY Zenon, <3>3, <3>5 DEF Waking
      <4> QED BY Zenon, <2>1, <3>1, <3>2, <4>1 DEF Seen, Raised
    <3> QED BY Zenon, <3>4, <3>5
  <2> QED BY Zenon, <2>2, <2>3, <2>4
<1>7. CASE WakeWrite(p)
  <2>1. /\ UNCHANGED <<accepting, fd, queued, active, todo, tasks, buffer, races>>
        /\ pc[p] = "write" /\ Goto(p, "leave")
        /\ signal' = TRUE /\ wakePending' \in {wakePending, FALSE}
    BY Zenon, <1>7 DEF WakeWrite, Typed
  <2>2. Typed' /\ CountInv'
    BY Zenon, <2>1, GoesTo, SameInside DEF Typed, CountInv, Inside
  <2>3. PlaceInv' /\ GuardInv'
    BY Zenon, <2>1, GoesTo, PlaceKept, GuardKept DEF Pushing, Inside
  <2>4. StrandInv'
    <3> SUFFICES ASSUME races = {} PROVE StrandInv'
      BY Zenon, <2>1 DEF StrandInv
    <3>1. fd
      BY Zenon, <2>1 DEF GuardInv, Guarded, Pushing
    <3> QED BY Zenon, <2>1, <3>1 DEF StrandInv, Seen, Raised
  <2> QED BY Zenon, <2>2, <2>3, <2>4
<1>8. CASE LeaveEnqueue(p)
  <2>1. /\ UNCHANGED <<accepting, wakePending, fd, signal, queued, todo, tasks, buffer, races>>
        /\ pc[p] = "leave" /\ Goto(p, "idle") /\ active' = active - 1
    BY Zenon, <1>8 DEF LeaveEnqueue
  <2>2. Typed' /\ CountInv'
    BY Zenon, <2>1, GoesTo, LeaveInside DEF Typed, CountInv, Inside
  <2>3. PlaceInv' /\ GuardInv'
    BY Zenon, <2>1, GoesTo, PlaceKept, GuardKept DEF Pushing
  <2>4. StrandInv'
    BY Zenon, <2>1, WakersKept, StrandKept DEF Waking
  <2> QED BY Zenon, <2>2, <2>3, <2>4
<1> QED BY Zenon, <1>1, <1>2, <1>3, <1>4, <1>5, <1>6, <1>7, <1>8 DEF enqueue

-----------------------------------------------------------------------------
(* The steps of the owner.                                                  *)

\* What owner and control leave alone of the producers.
LEMMA CountKept ==
    ASSUME CountInv, UNCHANGED <<pc, active>>
    PROVE  CountInv'
  BY Zenon DEF CountInv, InsideSet

\* A plain store is visible, or it is in its thread's buffer.
LEMMA StoreIs ==
    ASSUME Typed, NEW t \in {"owner", "control"}, NEW f, NEW v, Store(t, f, v)
    PROVE  /\ \A u \in {"owner", "control"} : u # t => buffer'[u] = buffer[u]
           /\ \/ buffer[t] = <<>> /\ Set(f, v) /\ UNCHANGED buffer
              \/ /\ buffer[t] \in {<<>>, <<f, v>>} /\ buffer'[t] = <<f, v>>
                 /\ UNCHANGED <<accepting, wakePending>>
           /\ <<f, v>> \in {Opened, SealedOff, Cleared} =>
                 buffer' \in [{"owner", "control"} -> {<<>>, Opened, SealedOff, Cleared}]
<1>1. CASE buffer[t] = <<>> /\ Set(f, v) /\ UNCHANGED buffer
  BY Zenon, <1>1 DEF Typed
<1>2. CASE /\ buffer[t] \in {<<>>, <<f, v>>}
           /\ buffer' = [buffer EXCEPT ![t] = <<f, v>>]
           /\ UNCHANGED <<accepting, wakePending>>
  BY Zenon, <1>2 DEF Typed
<1> QED BY Zenon, <1>1, <1>2 DEF Store

\* The tasks that remain when the first one is taken.
LEMMA TailOf ==
    ASSUME NEW q \in Seq({"start", "stop"}), q # <<>>
    PROVE  Len(Tail(q)) = Len(q) - 1 /\ \A i \in 1..(Len(q) - 1) : Tail(q)[i] = q[i + 1]
  OBVIOUS

\* A start that is taken leaves the stop tasks queued.
LEMMA StartTaken ==
    ASSUME Typed, tasks # <<>>, Head(tasks) = "start", tasks' = Tail(tasks), StopQueued
    PROVE  StopQueued'
<1>1. PICK k \in 1..Len(tasks) : tasks[k] = "stop"
  BY Zenon DEF StopQueued
<1>2. k # 1 /\ k \in Nat /\ Len(tasks) \in Nat
  BY <1>1 DEF Typed
<1>3. k - 1 \in 1..Len(tasks') /\ tasks'[k - 1] = "stop"
  BY <1>1, <1>2, TailOf DEF Typed
<1> QED BY Zenon, <1>3 DEF StopQueued

\* The steps that open the channel: the descriptor exists before anybody is let in.
LEMMA OpenSteady ==
    ASSUME ChannelInv, OpenFd \/ start_accepting_commands
    PROVE  ChannelInv'
<1> USE DEF ChannelInv, Others
<1>1. CASE OpenFd
  <2>1. /\ UNCHANGED <<accepting, wakePending, queued, active, pc, tasks, buffer, races>>
        /\ fd' = TRUE /\ signal' = FALSE
        /\ (todo = Open0 /\ todo' = Open1) \/ (todo = Fail0 /\ todo' = Fail1)
    BY Zenon, <1>1, StepsOf DEF OpenFd, Step, Done, Typed
  <2>2. ~fd /\ buffer["owner"] = <<>>
    BY Zenon, <2>1, Apart DEF PlaceInv, Typed, Sealed
  <2>3. Typed' /\ CountInv'
    BY Zenon, <2>1, CountKept DEF Typed, Todos, Resting
  <2>4. PlaceInv'
    BY Zenon, <2>1, <2>2, Apart, StoresApart DEF PlaceInv
  <2>5. GuardInv'
    BY Zenon, <2>1, <2>2, Apart DEF GuardInv, Guarded, Sealed
  <2>6. StrandInv'
    BY Zenon, <2>1, <2>2, Apart DEF StrandInv, Seen, Raised
  <2> QED BY Zenon, <2>3, <2>4, <2>5, <2>6
<1>2. CASE start_accepting_commands
  <2>1. /\ UNCHANGED <<queued, active, fd, signal, pc, tasks, races>>
        /\ (todo = Open1 /\ todo' = <<>>) \/ (todo = Fail1 /\ todo' = Close0)
        /\ Store("owner", "accepting", TRUE)
    BY Zenon, <1>2, StepsOf DEF start_accepting_commands, Step, Done, Typed
  <2>2. fd /\ buffer["owner"] = <<>>
    BY Zenon, <2>1, Apart DEF PlaceInv, Typed, Sealed
  <2>3. /\ buffer'["control"] = buffer["control"]
        /\ buffer' \in [{"owner", "control"} -> {<<>>, Opened, SealedOff, Cleared}]
        /\ \/ accepting' = TRUE /\ wakePending' = wakePending /\ buffer'["owner"] = <<>>
           \/ UNCHANGED <<accepting, wakePending>> /\ buffer'["owner"] = Opened
    BY Zenon, <2>1, <2>2, StoreIs DEF Set, Opened
  <2>4. Typed' /\ CountInv'
    BY Zenon, <2>1, <2>3, CountKept DEF Typed, Todos, Resting
  <2>5. PlaceInv'
    BY Zenon, <2>1, <2>2, <2>3, Apart, StoresApart DEF PlaceInv, Waked
  <2>6. GuardInv'
    BY Zenon, <2>1, <2>2, <2>3, Apart DEF GuardInv, Guarded, Sealed
  <2>7. StrandInv'
    <3> SUFFICES ASSUME races = {} PROVE StrandInv'
      BY Zenon, <2>1 DEF StrandInv
    <3>1. Raised => Raised'
      BY Zenon, <2>1, <2>2, <2>3, Apart, StoresApart DEF Raised
    <3>2. CASE todo = Open1 /\ todo' = <<>>
      <4>1. Open1 \notin Looking
        BY Zenon, Apart DEF Looking, Waked
      <4>2. Seen => Seen'
        BY Zenon, <2>1, <3>2, <4>1 DEF Seen, StopQueued
      <4> QED BY Zenon, <2>1, <2>3, <3>1, <3>2, <4>2, Apart DEF StrandInv
    <3>3. CASE todo = Fail1 /\ todo' = Close0
      <4>1. Close0 \in Looking /\ Close0 # Close3
        BY Zenon, Apart DEF Looking
      <4>2. Seen'
        BY Zenon, <2>1, <2>2, <3>3, <4>1 DEF Seen
      <4> QED BY Zenon, <2>1, <2>3, <3>1, <3>3, <4>1, <4>2 DEF StrandInv
    <3> QED BY Zenon, <2>1, <3>2, <3>3
  <2> QED BY Zenon, <2>4, <2>5, <2>6, <2>7
<1> QED BY Zenon, <1>1, <1>2

\* The steps that close the channel: nobody is in when the descriptor goes,
\* unless the seal was late.
LEMMA CloseSteady ==
    ASSUME ChannelInv, SealByOwner \/ SpinByOwner \/ discard_pending_commands \/ CloseFd
    PROVE  ChannelInv'
<1> USE DEF ChannelInv, Others, channel
<1>1. CASE SealByOwner
  <2>1. /\ UNCHANGED <<queued, active, fd, signal, pc, tasks, races>>
        /\ (todo = Stop0 /\ todo' = Stop1) \/ (todo = Close0 /\ todo' = Close1)
        /\ Store("owner", "accepting", FALSE)
    BY Zenon, <1>1, StepsOf DEF SealByOwner, Step, Done, Typed
  <2>2. /\ buffer["owner"] \in {<<>>, SealedOff} /\ wakePending' = wakePending
        /\ buffer'["control"] = buffer["control"]
        /\ buffer' \in [{"owner", "control"} -> {<<>>, Opened, SealedOff, Cleared}]
        /\ \/ accepting' = FALSE /\ buffer'["owner"] = <<>>
           \/ accepting' = accepting /\ buffer'["owner"] = SealedOff
    BY Zenon, <2>1, StoreIs DEF Set, SealedOff
  <2>3. /\ todo' \in Sealed \ {Close2, Close3} /\ todo' \in Looking
        /\ todo' \notin {Wake0, Wake1, Wake2, Open0, Open1, Fail0, Fail1, <<>>}
    BY Zenon, <2>1, Apart DEF Sealed, Looking
  <2>4. Typed' /\ CountInv'
    BY Zenon, <2>1, <2>2, <2>3, CountKept DEF Typed, Todos
  <2>5. PlaceInv'
    BY Zenon, <2>2, <2>3, StoresApart DEF PlaceInv, Waked
  <2>6. GuardInv'
    BY Zenon, <2>1, <2>2, <2>3 DEF GuardInv, Guarded
  <2>7. StrandInv'
    <3> SUFFICES ASSUME races = {} PROVE StrandInv'
      BY Zenon, <2>1 DEF StrandInv
    <3>1. queued' > 0 => Seen'
      BY Zenon, <2>1, <2>3 DEF StrandInv, Seen
    <3>2. Raised => Raised'
      BY Zenon, <2>1, <2>2, Apart, StoresApart DEF Raised
    <3> QED BY Zenon, <2>2, <2>3, <3>1, <3>2 DEF StrandInv
  <2> QED BY Zenon, <2>4, <2>5, <2>6, <2>7
<1>2. CASE SpinByOwner
  <2>1. /\ UNCHANGED <<accepting, wakePending, queued, active, fd, signal, pc, tasks, buffer, races>>
        /\ active = 0
        /\ (todo = Stop1 /\ todo' = Stop2) \/ (todo = Close1 /\ todo' = Close2)
    BY Zenon, <1>2, StepsOf DEF SpinByOwner, Step, Done, Typed
  <2>2. /\ todo \in Sealed /\ todo' \in Sealed /\ todo' \in Looking /\ todo' # Close3
        /\ todo \notin {Wake1, Wake2, <<>>, Close0}
        /\ todo' \notin {Wake0, Wake1, Wake2, Open0, Open1, Fail0, Fail1, <<>>}
    BY Zenon, <2>1, Apart DEF Sealed, Looking
  <2>3. Typed' /\ CountInv'
    BY Zenon, <2>1, <2>2, CountKept DEF Typed, Todos
  <2>4. PlaceInv'
    BY Zenon, <2>1, <2>2 DEF PlaceInv, Waked
  <2>5. GuardInv'
    <3>1. IsFiniteSet(InsideSet)
      BY Zenon, FS_Subset, ProducersAssumption DEF InsideSet
    <3>2. InsideSet = {}
      BY Zenon, <2>1, <3>1, FS_EmptySet DEF CountInv
    <3>3. \A p \in Producers : pc'[p] \notin Pushing
      BY Zenon, <2>1, <3>2 DEF InsideSet, Inside, Pushing
    <3> QED BY Zenon, <2>1, <2>2, <3>3 DEF GuardInv, Guarded
  <2>6. StrandInv'
    <3>1. Raised => Raised'
      BY Zenon, <2>1, <2>2 DEF Raised
    <3>2. Seen => Seen'
      BY Zenon, <2>1, <2>2 DEF Seen
    <3> QED BY Zenon, <2>1, <2>2, <3>1, <3>2 DEF StrandInv
  <2> QED BY Zenon, <2>3, <2>4, <2>5, <2>6
<1>3. CASE discard_pending_commands
  <2>1. /\ UNCHANGED <<accepting, wakePending, active, fd, signal, pc, tasks, buffer, races>>
        /\ queued' = 0
        /\ \/ todo = Stop2 /\ todo' = Stop3
           \/ todo = Stop3 /\ todo' = Close0
           \/ todo = Close2 /\ todo' = Close3
    BY Zenon, <1>3, StepsOf DEF discard_pending_commands, Step, Done, Typed
  <2>2. /\ todo \in Sealed /\ todo' \in Sealed \cup {Close0}
        /\ todo \notin {Wake1, Wake2, <<>>, Close0}
        /\ todo' \notin {Wake0, Wake1, Wake2, Open0, Open1, Fail0, Fail1, <<>>}
        /\ todo' \in {Close2, Close3} => todo = Close2
    BY Zenon, <2>1, Apart DEF Sealed
  <2>3. Typed' /\ CountInv'
    BY Zenon, <2>1, <2>2, CountKept DEF Typed, Todos
  <2>4. PlaceInv'
    BY Zenon, <2>1, <2>2 DEF PlaceInv, Waked
  <2>5. GuardInv'
    BY Zenon, <2>1, <2>2 DEF GuardInv, Guarded
  <2>6. StrandInv'
    <3>1. Raised => Raised'
      BY Zenon, <2>1, <2>2 DEF Raised
    <3>2. ~(queued' > 0)
      BY <2>1
    <3> QED BY Zenon, <2>1, <3>1, <3>2 DEF StrandInv
  <2> QED BY Zenon, <2>3, <2>4, <2>5, <2>6
<1>4. CASE CloseFd
  <2>1. /\ UNCHANGED <<accepting, queued, active, pc, tasks, buffer, races>>
        /\ todo = Close3 /\ todo' = <<>> /\ buffer["owner"] = <<>>
        /\ fd' = FALSE /\ signal' = FALSE /\ wakePending' = FALSE
    BY Zenon, <1>4, StepsOf DEF CloseFd, Step, Done, Typed
  <2>2. Typed' /\ CountInv'
    BY Zenon, <2>1, CountKept DEF Typed, Todos, Resting
  <2>3. PlaceInv'
    BY Zenon, <2>1, Apart, StoresApart DEF PlaceInv, Waked
  <2>4. GuardInv'
    BY Zenon, <2>1, Apart, StoresApart DEF GuardInv, Guarded, Sealed
  <2>5. StrandInv'
    <3>1. races = {} => ~(queued' > 0)
      BY <2>1 DEF StrandInv
    <3> QED BY Zenon, <2>1, <3>1, Apart DEF StrandInv
  <2> QED BY Zenon, <2>2, <2>3, <2>4, <2>5
<1> QED BY Zenon, <1>1, <1>2, <1>3, <1>4

\* The steps of handle_wake: it ends with an empty queue.
LEMMA WakeSteady ==
    ASSUME ChannelInv, drain_wake_fd \/ ClearWakePending \/ drain_commands
    PROVE  ChannelInv'
<1> USE DEF ChannelInv, Others
<1>1. CASE drain_wake_fd
  <2>1. /\ UNCHANGED <<accepting, wakePending, queued, active, fd, pc, tasks, buffer, races>>
        /\ todo = Wake0 /\ todo' = Wake1 /\ signal' = FALSE
    BY Zenon, <1>1, StepsOf DEF drain_wake_fd, Step, Done, Typed
  <2>2. fd /\ buffer["owner"] \notin {Opened, SealedOff, Cleared}
    BY Zenon, <2>1, Apart DEF PlaceInv, Waked, Sealed
  <2>3. /\ todo' \in Looking /\ todo' \in Waked
        /\ todo' \notin {Stop1, Stop2, Stop3, Close1, Close2, Close3, Open0, Fail0}
    BY Zenon, <2>1, Apart DEF Looking, Waked
  <2>4. Typed' /\ CountInv'
    BY Zenon, <2>1, <2>3, CountKept DEF Typed, Todos, Resting
  <2>5. PlaceInv'
    BY Zenon, <2>1, <2>2, <2>3 DEF PlaceInv
  <2>6. GuardInv'
    BY Zenon, <2>1, <2>2, <2>3 DEF GuardInv, Guarded, Sealed
  <2>7. Seen' /\ Raised'
    BY Zenon, <2>1, <2>2, <2>3 DEF Seen, Raised
  <2>8. StrandInv'
    BY Zenon, <2>3, <2>7 DEF StrandInv
  <2> QED BY Zenon, <2>4, <2>5, <2>6, <2>8
<1>2. CASE ClearWakePending
  <2>1. /\ UNCHANGED <<queued, active, fd, signal, pc, tasks, races>>
        /\ todo = Wake1 /\ todo' = Wake2 /\ Store("owner", "wakePending", FALSE)
    BY Zenon, <1>2, StepsOf DEF ClearWakePending, Step, Done, Typed
  <2>2. fd /\ buffer["owner"] = <<>>
    BY Zenon, <2>1, Apart DEF PlaceInv, Waked, Sealed, Typed
  <2>3. /\ accepting' = accepting /\ buffer'["control"] = buffer["control"]
        /\ buffer' \in [{"owner", "control"} -> {<<>>, Opened, SealedOff, Cleared}]
        /\ \/ wakePending' = FALSE /\ buffer'["owner"] = <<>>
           \/ wakePending' = wakePending /\ buffer'["owner"] = Cleared
    BY Zenon, <2>1, <2>2, StoreIs DEF Set, Cleared
  <2>4. /\ todo' \in Looking /\ todo' \in Waked
        /\ todo' \notin {Stop1, Stop2, Stop3, Close1, Close2, Close3, Open0, Fail0}
    BY Zenon, <2>1, Apart DEF Looking, Waked
  <2>5. Typed' /\ CountInv'
    BY Zenon, <2>1, <2>3, <2>4, CountKept DEF Typed, Todos, Resting
  <2>6. PlaceInv'
    BY Zenon, <2>1, <2>2, <2>3, <2>4, StoresApart DEF PlaceInv
  <2>7. GuardInv'
    BY Zenon, <2>1, <2>2, <2>3, <2>4 DEF GuardInv, Guarded, Sealed
  <2>8. Seen' /\ (wakePending' => Raised')
    BY Zenon, <2>1, <2>2, <2>3, <2>4 DEF Seen, Raised
  <2>9. StrandInv'
    BY Zenon, <2>4, <2>8 DEF StrandInv
  <2> QED BY Zenon, <2>5, <2>6, <2>7, <2>9
<1>3. CASE drain_commands
  <2>1. /\ UNCHANGED <<accepting, wakePending, active, fd, signal, pc, tasks, buffer, races>>
        /\ todo = Wake2 /\ queued' \in Nat
        /\ \/ todo' = Wake2
           \/ ~(queued' > 0) /\ todo' = <<>>
    <3>1. todo = Wake2 /\ Tail(todo) = <<>>
      BY Zenon, <1>3, StepsOf DEF drain_commands, Step, Typed
    <3>2. CASE queued > 0 /\ queued' = queued - 1 /\ UNCHANGED todo
      <4>1. queued' \in Nat
        BY <3>2 DEF Typed
      <4> QED BY Zenon, <1>3, <3>1, <3>2, <4>1 DEF drain_commands
    <3>3. CASE queued = 0 /\ UNCHANGED queued /\ Done
      <4>1. queued' \in Nat /\ ~(queued' > 0)
        BY <3>3 DEF Typed
      <4> QED BY Zenon, <1>3, <3>1, <3>3, <4>1 DEF drain_commands, Done
    <3> QED BY Zenon, <1>3, <3>2, <3>3 DEF drain_commands
  <2>2. fd /\ buffer["owner"] \notin {Opened, SealedOff}
    BY Zenon, <2>1, Apart DEF PlaceInv, Waked, Sealed
  <2>3. /\ todo' \in {<<>>, Wake2} /\ Wake2 \in Looking /\ Wake2 \in Waked /\ todo # Wake1
        /\ todo' \notin {Stop1, Stop2, Stop3, Close1, Close2, Close3, Open0, Fail0}
    BY Zenon, <2>1, Apart DEF Looking, Waked
  <2>4. Typed' /\ CountInv'
    BY Zenon, <2>1, <2>3, CountKept DEF Typed, Todos, Resting
  <2>5. PlaceInv'
    BY Zenon, <2>1, <2>2, <2>3 DEF PlaceInv
  <2>6. GuardInv'
    BY Zenon, <2>1, <2>2, <2>3 DEF GuardInv, Guarded, Sealed
  <2>7. Raised => Raised'
    BY Zenon, <2>1, <2>3 DEF Raised
  <2>8. queued' > 0 => Seen'
    BY Zenon, <2>1, <2>2, <2>3 DEF Seen
  <2>9. StrandInv'
    BY Zenon, <2>1, <2>3, <2>7, <2>8 DEF StrandInv
  <2> QED BY Zenon, <2>4, <2>5, <2>6, <2>9
<1> QED BY Zenon, <1>1, <1>2, <1>3

\* The poll hands the owner a wake event, an idle channel, a start or a stop.
LEMMA BeginSteady ==
    ASSUME ChannelInv, Begin
    PROVE  ChannelInv'
<1> USE DEF ChannelInv
<1>1. /\ todo = <<>> /\ buffer["owner"] = <<>>
      /\ UNCHANGED <<accepting, active, queued, wakePending, fd, signal, pc, buffer, races>>
  BY Zenon DEF Begin, Idle, channel
<1>2. CountInv'
  BY Zenon, <1>1, CountKept
<1>3. /\ todo' \in {Wake0, Close0, Stop0, Open0, Open1, Fail0, <<>>}
      /\ todo' \in Waked => fd
      /\ todo' = Open1 => fd
      /\ todo' \in {Open0, Fail0} => ~fd
      /\ tasks' \in Seq({"start", "stop"})
      /\ StopQueued => StopQueued' \/ todo' = Stop0
  <2>1. CASE fd /\ todo' = WakeSteps /\ UNCHANGED tasks
    BY Zenon, <2>1, StopIs, Apart DEF Typed, StopQueued
  <2>2. CASE fd /\ todo' = CloseSteps /\ UNCHANGED tasks
    BY Zenon, <2>2, StopIs, Apart DEF Typed, StopQueued, Waked
  <2>3. CASE /\ tasks # <<>> /\ tasks' = Tail(tasks)
             /\ todo' \in IF Head(tasks) = "start" THEN StartSteps ELSE {StopSteps}
    <3>1. tasks' \in Seq({"start", "stop"})
      BY <2>3 DEF Typed
    <3>2. CASE Head(tasks) = "start"
      <4>1. (fd /\ todo' = Open1) \/ (~fd /\ todo' \in {Open0, Fail0, <<>>})
        BY Zenon, <2>3, <3>2, StartIs
      <4>2. StopQueued => StopQueued'
        BY Zenon, <2>3, <3>2, StartTaken
      <4> QED BY Zenon, <3>1, <4>1, <4>2, Apart DEF Waked
    <3>3. CASE Head(tasks) # "start"
      BY Zenon, <2>3, <3>1, <3>3, StopIs, Apart DEF Waked
    <3> QED BY Zenon, <3>2, <3>3
  <2> QED BY Zenon, <2>1, <2>2, <2>3 DEF Begin
<1>4. /\ todo' \notin Sealed /\ todo' \notin {Fail1, Wake1, Close2, Close3} /\ todo # Wake1
      /\ todo \notin Looking /\ Stop0 \in Looking
  BY Zenon, <1>1, <1>3, Apart DEF Sealed, Looking, Waked
<1>5. Typed'
  BY Zenon, <1>1, <1>3 DEF Typed, Todos, Resting, Waked
<1>6. PlaceInv'
  BY Zenon, <1>1, <1>3, <1>4, StoresApart DEF PlaceInv
<1>7. GuardInv'
  BY Zenon, <1>1, <1>4 DEF GuardInv, Guarded
<1>8. StrandInv'
  <2>1. Seen => Seen'
    BY Zenon, <1>1, <1>3, <1>4 DEF Seen
  <2>2. Raised => Raised'
    BY Zenon, <1>1, <1>4 DEF Raised
  <2> QED BY Zenon, <1>1, <1>4, <2>1, <2>2 DEF StrandInv
<1> QED BY Zenon, <1>2, <1>5, <1>6, <1>7, <1>8

-----------------------------------------------------------------------------
(* The control thread, and the stores that become visible.                  *)

\* A control step that changes no more than its tasks.
LEMMA ControlQuiet ==
    ASSUME ChannelInv, tasks' \in Seq({"start", "stop"}), StopQueued => StopQueued',
           UNCHANGED <<accepting, active, queued, wakePending, fd, signal, pc, todo, buffer, races>>
    PROVE  ChannelInv'
<1> USE DEF ChannelInv
<1>1. Typed' /\ CountInv'
  BY Zenon, CountKept DEF Typed
<1>2. PlaceInv' /\ GuardInv'
  BY Zenon, PlaceKept, GuardKept
<1>3. (Seen => Seen') /\ (Raised => Raised')
  BY Zenon DEF Seen, Raised
<1>4. StrandInv'
  BY Zenon, <1>3, StrandKept
<1> QED BY Zenon, <1>1, <1>2, <1>4

\* A task queued at the end leaves the others in place.
LEMMA TaskQueued ==
    ASSUME Typed, NEW k \in {"start", "stop"}, tasks' = Append(tasks, k)
    PROVE  tasks' \in Seq({"start", "stop"}) /\ (StopQueued => StopQueued')
  BY DEF Typed, StopQueued

\* Each step of start() and stop() keeps the invariant: who reopens a channel
\* that is not served is recorded as a race.
LEMMA ControlKeeps ==
    ASSUME ChannelInv, Control
    PROVE  ChannelInv'
<1> USE DEF ControlStep
<1>0. Typed
  BY Zenon DEF ChannelInv
<1>1. CASE StartShard
  BY Zenon, <1>0, <1>1, TaskQueued, ControlQuiet DEF StartShard
<1>2. CASE UndoStart
  BY Zenon, <1>0, <1>2, TaskQueued, ControlQuiet DEF UndoStart
<1>3. CASE SpinByControl
  BY Zenon, <1>0, <1>3, ControlQuiet DEF SpinByControl, Typed, StopQueued
<1>4. CASE ScheduleStop
  <2>1. CASE tasks' = Append(tasks, "stop")
    BY Zenon, <1>0, <1>4, <2>1, TaskQueued, ControlQuiet DEF ScheduleStop
  <2>2. CASE UNCHANGED tasks
    BY Zenon, <1>0, <1>4, <2>2, ControlQuiet DEF ScheduleStop, Typed, StopQueued
  <2> QED BY Zenon, <1>4, <2>1, <2>2 DEF ScheduleStop
<1>5. CASE seal_commands_from_control
  <2> USE DEF ChannelInv
  <2>1. /\ UNCHANGED <<active, queued, fd, signal, pc, todo, tasks, races>>
        /\ Store("control", "accepting", FALSE)
    BY Zenon, <1>5 DEF seal_commands_from_control
  <2>2. /\ buffer'["owner"] = buffer["owner"] /\ wakePending' = wakePending
        /\ buffer' \in [{"owner", "control"} -> {<<>>, Opened, SealedOff, Cleared}]
        /\ buffer'["control"] # Cleared
        /\ accepting' \in {accepting, FALSE}
    BY Zenon, <1>0, <2>1, StoreIs, StoresApart DEF Set, SealedOff, Typed
  <2>3. Typed' /\ CountInv'
    BY Zenon, <2>1, <2>2, CountKept DEF Typed
  <2>4. PlaceInv'
    BY Zenon, <2>1, <2>2 DEF PlaceInv
  <2>5. GuardInv'
    BY Zenon, <2>1, <2>2 DEF GuardInv, Guarded
  <2>6. StrandInv'
    BY Zenon, <2>1, <2>2 DEF StrandInv, Seen, Raised, StopQueued
  <2> QED BY Zenon, <2>3, <2>4, <2>5, <2>6
<1>6. CASE resume_commands_from_control
  <2> USE DEF ChannelInv
  <2>1. /\ UNCHANGED <<active, queued, fd, signal, pc, todo, tasks>>
        /\ Store("control", "accepting", TRUE)
        /\ races \subseteq races'
        /\ buffer'["control"] = <<>> /\ ~Serving => "resume" \in races'
    BY Zenon, <1>6, RaceGrows DEF resume_commands_from_control
  <2>2. /\ buffer'["owner"] = buffer["owner"] /\ wakePending' = wakePending
        /\ buffer' \in [{"owner", "control"} -> {<<>>, Opened, SealedOff, Cleared}]
        /\ buffer'["control"] # Cleared
        /\ accepting' = accepting \/ (accepting' = TRUE /\ buffer'["control"] = <<>>)
    BY Zenon, <1>0, <2>1, StoreIs, StoresApart DEF Set, Opened, Typed
  <2>3. Typed' /\ CountInv'
    BY Zenon, <2>1, <2>2, CountKept DEF Typed
  <2>4. PlaceInv'
    BY Zenon, <2>1, <2>2 DEF PlaceInv
  <2>5. GuardInv'
    <3> SUFFICES ASSUME Guarded' PROVE GuardInv'
      BY Zenon DEF GuardInv
    <3>1. Guarded
      BY Zenon, <2>1, RacesBefore
    <3>2. CASE accepting' = accepting
      BY Zenon, <2>1, <2>2, <3>1, <3>2 DEF GuardInv
    <3>3. CASE accepting' = TRUE /\ buffer'["control"] = <<>>
      <4>1. Serving
        BY Zenon, <2>1, <3>3 DEF Guarded
      <4>2. fd /\ todo \in Resting
        BY Zenon, <1>0, <4>1, ServingRests DEF Typed
      <4>3. todo \notin Sealed
        BY Zenon, <4>2, Apart DEF Resting, Waked, Sealed
      <4> QED BY Zenon, <2>1, <3>1, <4>2, <4>3 DEF GuardInv
    <3> QED BY Zenon, <2>2, <3>2, <3>3
  <2>6. StrandInv'
    <3>1. (Seen => Seen') /\ (Raised => Raised')
      BY Zenon, <2>1, <2>2 DEF Seen, Raised, StopQueued
    <3> QED BY Zenon, <2>1, <2>2, <3>1, StrandKept
  <2> QED BY Zenon, <2>3, <2>4, <2>5, <2>6
<1> QED BY Zenon, <1>1, <1>2, <1>3, <1>4, <1>5, <1>6 DEF Control

\* A late store becomes visible.
LEMMA FlushStep ==
    ASSUME ChannelInv, NEW t \in {"owner", "control"}, Flush(t)
    PROVE  ChannelInv'
<1> USE DEF ChannelInv
<1>1. /\ UNCHANGED <<active, queued, fd, signal, pc, todo, tasks>>
      /\ Set(buffer[t][1], buffer[t][2]) /\ buffer' = [buffer EXCEPT ![t] = <<>>]
      /\ races \subseteq races' /\ (Opens(t, buffer[t][2]) /\ ~Serving => "resume" \in races')
      /\ buffer[t] \in {Opened, SealedOff, Cleared}
  BY Zenon, RaceGrows DEF Flush, Typed
<1>2. /\ buffer'[t] = <<>> /\ \A u \in {"owner", "control"} : u # t => buffer'[u] = buffer[u]
      /\ buffer' \in [{"owner", "control"} -> {<<>>, Opened, SealedOff, Cleared}]
  BY Zenon, <1>1 DEF Typed
<1>3. buffer'["owner"] \in {buffer["owner"], <<>>} /\ buffer'["control"] \in {buffer["control"], <<>>}
  BY Zenon, <1>2
<1>4. /\ buffer[t] = Opened => accepting' = TRUE /\ wakePending' = wakePending
      /\ buffer[t] = SealedOff => accepting' = FALSE /\ wakePending' = wakePending
      /\ buffer[t] = Cleared => accepting' = accepting /\ wakePending' = FALSE
  BY Zenon, <1>1, StoresApart DEF Set
<1>5. Typed' /\ CountInv'
  <2>1. accepting' \in BOOLEAN /\ wakePending' \in BOOLEAN
    BY Zenon, <1>1, <1>4 DEF Typed
  <2> QED BY Zenon, <1>1, <1>2, <1>3, <2>1, CountKept, StoresApart DEF Typed
<1>6. PlaceInv'
  BY Zenon, <1>1, <1>3, StoresApart DEF PlaceInv
<1>7. GuardInv'
  <2> SUFFICES ASSUME Guarded' PROVE GuardInv'
    BY Zenon DEF GuardInv
  <2>1. Guarded
    BY Zenon, <1>1, RacesBefore
  <2>2. CASE buffer[t] = Opened
    <3>1. fd /\ todo \notin Sealed
      <4>1. CASE t = "owner"
        BY Zenon, <2>2, <4>1, Apart DEF PlaceInv, Sealed
      <4>2. CASE t = "control"
        <5>1. Serving
          BY Zenon, <1>1, <2>2, <4>2, StoresApart DEF Guarded, Opens
        <5>2. fd /\ todo \in Resting
          BY Zenon, <5>1, ServingRests DEF Typed
        <5> QED BY Zenon, <5>2, Apart DEF Resting, Waked, Sealed
      <4> QED BY Zenon, <4>1, <4>2
    <3> QED BY Zenon, <1>1, <2>1, <3>1 DEF GuardInv
  <2>3. CASE buffer[t] = SealedOff
    BY Zenon, <1>1, <1>4, <2>1, <2>3 DEF GuardInv
  <2>4. CASE buffer[t] = Cleared
    <3>1. t = "owner" /\ buffer["owner"] # SealedOff
      BY Zenon, <2>4, StoresApart DEF Typed
    <3> QED BY Zenon, <1>1, <1>4, <2>1, <2>4, <3>1 DEF GuardInv
  <2> QED BY Zenon, <1>1, <2>2, <2>3, <2>4
<1>8. StrandInv'
  <2> SUFFICES ASSUME races = {} PROVE StrandInv'
    BY Zenon, <1>1, RacesBefore DEF StrandInv
  <2>1. Seen => Seen'
    BY Zenon, <1>1 DEF Seen, StopQueued
  <2>2. CASE buffer[t] = Cleared
    BY Zenon, <1>1, <1>4, <2>1, <2>2 DEF StrandInv
  <2>3. CASE buffer[t] # Cleared
    <3>1. wakePending' = wakePending /\ (buffer["owner"] = Cleared => buffer'["owner"] = Cleared)
      BY Zenon, <1>1, <1>2, <1>4, <2>3
    <3>2. Raised => Raised'
      BY Zenon, <1>1, <3>1 DEF Raised
    <3> QED BY Zenon, <1>1, <2>1, <3>1, <3>2 DEF StrandInv
  <2> QED BY Zenon, <2>2, <2>3
<1> QED BY Zenon, <1>5, <1>6, <1>7, <1>8

\* The invariant of the channel is inductive.
LEMMA ChannelStep ==
    ASSUME ChannelInv, [Next]_vars
    PROVE  ChannelInv'
<1>1. CASE UNCHANGED vars
  BY Zenon, <1>1, ControlQuiet DEF vars, channel, ChannelInv, Typed, StopQueued
<1>2. CASE Next
  BY Zenon, <1>2, ProducerStep, OpenSteady, CloseSteady, WakeSteady, BeginSteady, ControlKeeps,
     FlushStep DEF Next, Owner
<1> QED BY Zenon, <1>1, <1>2

-----------------------------------------------------------------------------
\* For any number of producers, starts, stops and refused stops, and whichever
\* stores are late: no thread is between its push and its write to a wake
\* descriptor that close_wake_channel has closed, unless its own load of
\* accepting_commands_ came before a late seal, or a refused stop reopened a
\* channel its owner does not serve.
THEOREM WakeFdLiveThm == Spec => []WakeFdLive
<1>1. Init => ChannelInv
  BY Zenon, InitChannel
<1>2. ChannelInv /\ [Next]_vars => ChannelInv'
  BY Zenon, ChannelStep
<1>3. ChannelInv => WakeFdLive
  BY Zenon DEF ChannelInv, GuardInv, Guarded, WakeFdLive, Waking, Pushing
<1> QED BY <1>1, <1>2, <1>3, PTL DEF Spec

\* For any number of producers, starts, stops and refused stops, and whichever
\* stores are late: a command that was queued has a readable wake descriptor, a
\* producer about to write it, or an owner on its way to the queue, unless one of
\* the three recorded races has happened.
THEOREM NoStrandedCommandThm == Spec => []NoStrandedCommand
<1>1. Init => ChannelInv
  BY Zenon, InitChannel
<1>2. ChannelInv /\ [Next]_vars => ChannelInv'
  BY Zenon, ChannelStep
<1>3. ChannelInv => NoStrandedCommand
  BY Zenon, LookingLooks DEF ChannelInv, StrandInv, Seen, StopQueued, NoStrandedCommand, Noticed
<1> QED BY <1>1, <1>2, <1>3, PTL DEF Spec
=============================================================================
