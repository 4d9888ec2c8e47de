------------------------------ MODULE IoWaits -------------------------------
(***************************************************************************)
(* Readiness waits of one I/O thread: the wait table io_waits_ over epoll  *)
(* or kqueue, the io_* operations that register a wait when a call would   *)
(* block, deadlines (a timerfd on Linux, a kernel timer with kqueue), and  *)
(* the connect task of TcpClient, which combines all of them and may be    *)
(* cancelled by stop().  Descriptor numbers are reused, smallest first.    *)
(***************************************************************************)
EXTENDS Integers, FiniteSets, FiniteSetsExt

CONSTANTS
    Nums,           \* descriptor numbers
    Tasks,          \* tasks of the thread
    Scenes          \* what they do: [backend, op, deadline, stops, spurious]

VARIABLES
    scene,          \* the scene of this run
    x               \* the thread: its wait table, descriptors, operation states and tasks

vars == <<scene, x>>

Dirs == {"read", "write"}
None == <<"none", "none">>
Regs == Tasks \X {"io", "timer"}        \* registrations are named by the IoOpState they complete

\* IoOpState: result is what the poller or cancel_io left in wait.
Idle == [waiting |-> FALSE, kind |-> "none", fd |-> 0, result |-> "none"]

Shared == {1, 2}                        \* descriptors that outlive the tasks of the io_* scenes

Connects(t) == scene.op[t] = "connect"

Init ==
    /\ scene \in Scenes
    /\ x = [waits    |-> [n \in Nums |-> [d \in Dirs |-> None]],
            interest |-> [n \in Nums |-> {}],               \* armed one-shot interest in the kernel
            open     |-> Shared,
            channels |-> {},                                \* net_channels_
            timers   |-> {},                                \* kqueue timers
            op       |-> [r \in Regs |-> Idle],
            dl       |-> [t \in Tasks |-> [timer |-> 0, armed |-> FALSE]],
            phase    |-> [t \in Tasks |-> "queued"],
            fd       |-> [t \in Tasks |-> 0],               \* fd_ of a connect task
            cancel   |-> [t \in Tasks |-> FALSE],           \* cancel_requested_
            bound    |-> [t \in Tasks |-> FALSE],           \* the control is active_
            untimed  |-> {}]            \* history: connects whose deadline could not be set up

Got(y, status) == [x |-> y, status |-> status]

clear_waiting(y, r) == [y EXCEPT !.op[r].waiting = FALSE, !.op[r].kind = "none"]

io_wait_result_ready(s) == s.waiting /\ s.result # "none"

cancelled_wait_ready(s) == s.waiting /\ s.result = "canceled"

Close(y, n) == [y EXCEPT !.open = @ \ {n}, !.interest[n] = {}]

\* Only a task that waits is queued again.
enqueue_pending_blocking(y, t) == [y EXCEPT !.phase[t] = IF @ = "pending" THEN "queued" ELSE @]

-----------------------------------------------------------------------------
(* The wait table                                                           *)

io_wait_entry_empty(y, n) == \A d \in Dirs : y.waits[n][d] = None

\* MOD, or ADD if the descriptor is unknown, arms every direction that has a
\* registration; with none left the descriptor is deleted.
update_epoll_interest(y, n) ==
    [y EXCEPT !.interest[n] = IF n \in y.open THEN {d \in Dirs : y.waits[n][d] # None} ELSE {}]

remove_io_wait_registration(y, r) ==
    [y EXCEPT !.waits = [n \in Nums |-> [d \in Dirs |-> IF @[n][d] = r THEN None ELSE @[n][d]]]]

\* What the kernel is told about the descriptor of a registration that went away.
remove_kqueue_filters(y, n, d) == [y EXCEPT !.interest[n] = @ \ {d}]

Disarm(y, n, d) ==
    IF scene.backend = "epoll" THEN update_epoll_interest(y, n) ELSE remove_kqueue_filters(y, n, d)

\* One registration per direction of a descriptor, none on a channel's: EALREADY.
Registers(y, n, d) == n \in y.open \ y.channels /\ y.waits[n][d] = None

register_epoll_wait(y, n, d, r) ==
    update_epoll_interest([y EXCEPT !.waits[n][d] = r, !.op[r].fd = n, !.op[r].result = "none"], n)

register_kqueue_wait(y, n, d, r) ==
    [y EXCEPT !.waits[n][d] = r, !.op[r].fd = n, !.op[r].result = "none", !.interest[n] = @ \cup {d}]

arm_io_wait(y, n, d, r) ==
    IF Registers(y, n, d)
    THEN LET z == IF scene.backend = "epoll" THEN register_epoll_wait(y, n, d, r)
                  ELSE register_kqueue_wait(y, n, d, r)
         IN  Got([z EXCEPT !.op[r].waiting = TRUE, !.op[r].kind = "readiness"], "pending")
    ELSE Got([y EXCEPT !.op[r] = [Idle EXCEPT !.fd = n, !.result = "error"]], "failed")

\* The task of a cancelled wait is queued unless it is the caller.
Canceled(y, r, caller) ==
    LET z == [y EXCEPT !.op[r].result = "canceled"]
    IN  IF r[1] = caller THEN z ELSE enqueue_pending_blocking(z, r[1])

cancel_native_io_wait(y, r, caller) ==
    LET n == y.op[r].fd
        found == {d \in Dirs : y.waits[n][d] = r}
    IN  IF found = {} THEN Got([y EXCEPT !.op[r].result = "error"], "failed")
        ELSE Got(Canceled(Disarm(remove_io_wait_registration(y, r), n, CHOOSE d \in found : TRUE),
                          r, caller), "ready")

cancel_kqueue_timeout(y, r, caller) ==
    IF r[1] \notin y.timers THEN Got([y EXCEPT !.op[r].result = "error"], "failed")
    ELSE Got(Canceled([y EXCEPT !.timers = @ \ {r[1]}], r, caller), "ready")

cancel_io(y, r, caller) ==
    IF cancelled_wait_ready(y.op[r]) THEN Got(y, "ready")
    ELSE IF ~y.op[r].waiting THEN Got([y EXCEPT !.op[r].result = "error"], "failed")
    ELSE IF y.op[r].kind = "readiness" THEN cancel_native_io_wait(y, r, caller)
    ELSE cancel_kqueue_timeout(y, r, caller)

register_net_channel(y, n) ==
    IF n \in y.channels \/ ~io_wait_entry_empty(y, n) THEN Got(y, "failed")
    ELSE Got([y EXCEPT !.channels = @ \cup {n}], "ready")

unregister_net_channel(y, n) == [y EXCEPT !.channels = @ \ {n}, !.interest[n] = {}]

-----------------------------------------------------------------------------
(* Operations.  call is the outcome of the system call: "some" bytes (or a  *)
(* descriptor), "zero" bytes, "again" (it would block) or an "error".       *)

Attempt(y, t, n, d, zero, call) ==
    LET r == <<t, "io">>
        z == clear_waiting(y, r)
    IN  IF cancelled_wait_ready(y.op[r]) THEN Got(z, "failed")
        ELSE IF call = "again" THEN arm_io_wait(z, n, d, r)
        ELSE Got(z, [some |-> "ready", zero |-> zero, error |-> "failed"][call])

io_recv_some(y, t, call) == Attempt(y, t, 1, "read", "closed", call)
io_recvv_some(y, t, call) == Attempt(y, t, 1, "read", "closed", call)
io_recv_from_some(y, t, call) == Attempt(y, t, 1, "read", "ready", call)
io_recvv_from_some(y, t, call) == Attempt(y, t, 1, "read", "ready", call)
io_accept_some(y, t, call) == Attempt(y, t, 1, "read", "ready", call)
io_read_some(y, t, call) == Attempt(y, t, 1, "read", "closed", call)
io_readv_some(y, t, call) == Attempt(y, t, 1, "read", "closed", call)
io_read_at(y, t, call) == Attempt(y, t, 1, "read", "closed", call)
io_readv_at(y, t, call) == Attempt(y, t, 1, "read", "closed", call)
io_wait_uint64_counter_fd(y, t, call) == Attempt(y, t, 1, "read", "failed", call)

io_send_some(y, t, call) == Attempt(y, t, 1, "write", "ready", call)
io_sendv_some(y, t, call) == Attempt(y, t, 1, "write", "ready", call)
io_send_to_some(y, t, call) == Attempt(y, t, 1, "write", "ready", call)
io_sendv_to_some(y, t, call) == Attempt(y, t, 1, "write", "ready", call)
io_sendfile_some(y, t, call) == Attempt(y, t, 1, "write", "ready", call)
io_write_some(y, t, call) == Attempt(y, t, 1, "write", "ready", call)
io_writev_some(y, t, call) == Attempt(y, t, 1, "write", "ready", call)
io_write_at(y, t, call) == Attempt(y, t, 1, "write", "ready", call)
io_writev_at(y, t, call) == Attempt(y, t, 1, "write", "ready", call)

\* arm_splice_wait polls both ends and waits for one: for the output unless it
\* is ready and the input is not.
io_splice_some(y, t, call, outReady) ==
    IF outReady THEN Attempt(y, t, 2, "read", "ready", call)
    ELSE Attempt(y, t, 1, "write", "ready", call)

IoOp(y, t, call, outReady) ==
    CASE scene.op[t] = "recv" -> io_recv_some(y, t, call)
      [] scene.op[t] = "recvv" -> io_recvv_some(y, t, call)
      [] scene.op[t] = "recv_from" -> io_recv_from_some(y, t, call)
      [] scene.op[t] = "recvv_from" -> io_recvv_from_some(y, t, call)
      [] scene.op[t] = "accept" -> io_accept_some(y, t, call)
      [] scene.op[t] = "read" -> io_read_some(y, t, call)
      [] scene.op[t] = "readv" -> io_readv_some(y, t, call)
      [] scene.op[t] = "read_at" -> io_read_at(y, t, call)
      [] scene.op[t] = "readv_at" -> io_readv_at(y, t, call)
      [] scene.op[t] = "counter" -> io_wait_uint64_counter_fd(y, t, call)
      [] scene.op[t] = "send" -> io_send_some(y, t, call)
      [] scene.op[t] = "sendv" -> io_sendv_some(y, t, call)
      [] scene.op[t] = "send_to" -> io_send_to_some(y, t, call)
      [] scene.op[t] = "sendv_to" -> io_sendv_to_some(y, t, call)
      [] scene.op[t] = "sendfile" -> io_sendfile_some(y, t, call)
      [] scene.op[t] = "write" -> io_write_some(y, t, call)
      [] scene.op[t] = "writev" -> io_writev_some(y, t, call)
      [] scene.op[t] = "write_at" -> io_write_at(y, t, call)
      [] scene.op[t] = "writev_at" -> io_writev_at(y, t, call)
      [] scene.op[t] = "splice" -> io_splice_some(y, t, call, outReady)

-----------------------------------------------------------------------------
(* Deadlines.  timer says whether the calls that set up a timer succeed.    *)

reset_runtime(y, t) == [y EXCEPT !.op[<<t, "timer">>] = Idle, !.dl[t].armed = FALSE]

\* IoDeadline::reset: the timer descriptor is closed as well.
reset_deadline(y, t) ==
    LET z == reset_runtime(y, t)
        n == y.dl[t].timer
    IN  IF n = 0 THEN z ELSE [Close(z, n) EXCEPT !.dl[t].timer = 0]

\* Mutant: the kernel timer is not added.
register_without_timer(y, t, timer) ==
    Got([y EXCEPT !.dl[t].armed = TRUE,
                  !.op[<<t, "timer">>] = [Idle EXCEPT !.waiting = TRUE, !.kind = "timer"]], "pending")

register_kqueue_timeout(y, t, timer) ==
    IF timer
    THEN Got([y EXCEPT !.timers = @ \cup {t}, !.dl[t].armed = TRUE,
                       !.op[<<t, "timer">>] = [Idle EXCEPT !.waiting = TRUE, !.kind = "timer"]], "pending")
    ELSE Got(y, "failed")

\* make_timerfd, arm_timerfd_after and io_wait_timerfd
WaitTimerfd(y, t, timer) ==
    LET fresh == Min(Nums \ y.open)
        z == IF y.dl[t].timer # 0 THEN y
             ELSE [y EXCEPT !.dl[t].timer = fresh, !.open = @ \cup {fresh}]
        armed == arm_io_wait(z, z.dl[t].timer, "read", <<t, "timer">>)
    IN  IF ~timer THEN Got(y, "failed")
        ELSE IF armed.status = "pending" THEN Got([armed.x EXCEPT !.dl[t].armed = TRUE], "pending")
        ELSE armed


CancelTimer(y, t) == cancel_io(y, <<t, "timer">>, t)

\* The operation completed first: its timer is consumed or cancelled.  The
\* deadline passed first: the wait is cancelled.  cancel_pending and
\* timeout_cancel_pending are for timer operations, which take no deadline here.
arm_io_timeout(y, t, timer) ==
    LET io == <<t, "io">>
        tm == <<t, "timer">>
        ioDone == io_wait_result_ready(y.op[io])
        tmDone == io_wait_result_ready(y.op[tm])
        tmCanceled == CancelTimer(y, t)
        ioCanceled == cancel_io(y, io, t)
        armed == y.dl[t].armed
    IN  CASE armed /\ ioDone /\ tmDone -> Got(reset_runtime(y, t), "ready")
          [] armed /\ ioDone /\ ~tmDone ->
                 Got(reset_runtime(tmCanceled.x, t),
                     IF scene.backend = "kqueue" THEN tmCanceled.status ELSE "ready")
          [] armed /\ ~ioDone /\ tmDone ->
                 Got(reset_runtime(IF ioCanceled.status = "ready" THEN clear_waiting(ioCanceled.x, io)
                                   ELSE ioCanceled.x, t), "failed")
          [] armed /\ ~ioDone /\ ~tmDone -> Got(y, "pending")
          [] ~armed /\ ~y.op[io].waiting -> Got(y, "failed")
          [] ~armed /\ y.op[io].waiting ->
                 IF scene.backend = "kqueue" THEN register_kqueue_timeout(y, t, timer)
                 ELSE WaitTimerfd(y, t, timer)

-----------------------------------------------------------------------------
(* TcpConnectTask                                                           *)

deactivate(y, t) == [y EXCEPT !.bound[t] = FALSE]

\* The task ends: its members go with it.
Done(y, t) == [reset_deadline(y, t) EXCEPT !.phase[t] = "done"]

finish_failed(y, t) ==
    LET z == [deactivate(y, t) EXCEPT !.op[<<t, "io">>] = Idle, !.fd[t] = 0]
    IN  Done(IF y.fd[t] = 0 THEN z ELSE Close(z, y.fd[t]), t)

\* create_connection registers the descriptor as a net channel or closes it.
finish_connected(y, t) ==
    LET n == y.fd[t]
        channel == register_net_channel([deactivate(y, t) EXCEPT !.fd[t] = 0], n)
    IN  Done(IF channel.status = "ready" THEN channel.x ELSE Close(channel.x, n), t)

\* A wait that became ready is followed by SO_ERROR, otherwise connect() is called.
io_connect(y, t, call) == Attempt(y, t, y.fd[t], "write", "ready", call)

\* prepare_socket and control_->bind
prepare_socket(y, t) ==
    LET n == Min(Nums \ y.open)
    IN  [y EXCEPT !.fd[t] = n, !.open = @ \cup {n}, !.bound[t] = TRUE]

ConnectRun(y, t, call, timer) ==
    LET ready == IF y.fd[t] = 0 THEN prepare_socket(y, t) ELSE y
        late == IF ready.dl[t].armed THEN arm_io_timeout(ready, t, timer) ELSE Got(ready, "ready")
        connect == io_connect(late.x, t, call)
        deadline == arm_io_timeout(connect.x, t, timer)
    IN  IF y.cancel[t] THEN finish_failed(y, t)
        ELSE IF late.status # "ready"
             THEN IF late.status = "pending" THEN [late.x EXCEPT !.phase[t] = "pending"]
                  ELSE finish_failed(late.x, t)
        ELSE IF connect.status = "ready" THEN finish_connected(connect.x, t)
        ELSE IF connect.status # "pending" THEN finish_failed(connect.x, t)
        ELSE IF ~scene.deadline THEN [connect.x EXCEPT !.phase[t] = "pending"]
        ELSE IF deadline.status = "pending" THEN [deadline.x EXCEPT !.phase[t] = "pending"]
        ELSE finish_failed([deadline.x EXCEPT !.untimed = @ \cup {t}], t)

-----------------------------------------------------------------------------

Calls == {"some", "zero", "again", "error"}

\* A queued task runs.  In a scene without spurious readiness SO_ERROR is final.
RunConnect(t, call, timer) ==
    /\ Connects(t) /\ x.phase[t] = "queued"
    /\ call = "again" /\ x.op[<<t, "io">>].result = "ready" => scene.spurious
    /\ x' = ConnectRun(x, t, call, timer)
    /\ UNCHANGED scene

RunOp(t, call, outReady) ==
    LET got == IoOp(x, t, call, outReady)
    IN  /\ ~Connects(t) /\ x.phase[t] = "queued"
        /\ x' = [got.x EXCEPT !.phase[t] = IF got.status = "pending" THEN "pending" ELSE "done"]
        /\ UNCHANGED scene

\* The poller completes one registration and queues its task.
Complete(y, r) ==
    enqueue_pending_blocking([remove_io_wait_registration(y, r) EXCEPT !.op[r].result = "ready"], r[1])

\* Mutant: the direction that was not ready is not armed again.
epoll_poll_once(n, R) ==
    LET done == {x.waits[n][d] : d \in R} \ {None}
    IN  /\ scene.backend = "epoll" /\ R # {} /\ R \subseteq x.interest[n]
        /\ x' = [FoldSet(LAMBDA r, y : Complete(y, r), x, done) EXCEPT !.interest[n] = {}]
        /\ UNCHANGED scene

\* epoll reports the directions R of descriptor n, which disarms it: what stays
\* in its entry is armed again.
epoll_poll(n, R) ==
    LET done == {x.waits[n][d] : d \in R} \ {None}
    IN  /\ scene.backend = "epoll" /\ R # {} /\ R \subseteq x.interest[n]
        /\ x' = update_epoll_interest(FoldSet(LAMBDA r, y : Complete(y, r), x, done), n)
        /\ UNCHANGED scene

\* kqueue reports one filter, whose registration completes.
kqueue_poll(n, d) ==
    /\ scene.backend = "kqueue" /\ d \in x.interest[n]
    /\ x' = LET y == remove_kqueue_filters(x, n, d)
            IN  IF y.waits[n][d] = None THEN y ELSE Complete(y, y.waits[n][d])
    /\ UNCHANGED scene

complete_kqueue_timeout(t) ==
    /\ t \in x.timers
    /\ x' = enqueue_pending_blocking([x EXCEPT !.timers = @ \ {t},
                                              !.op[<<t, "timer">>].result = "ready"], t)
    /\ UNCHANGED scene

\* TcpClient::stop() on the owner thread.
request_cancel_on_owner(t) ==
    LET asked == [x EXCEPT !.cancel[t] = TRUE]
        stopped == IF x.op[<<t, "io">>].waiting THEN cancel_io(asked, <<t, "io">>, "stop").x ELSE asked
    IN  /\ scene.stops /\ Connects(t) /\ ~x.cancel[t] /\ x.phase[t] # "done"
        /\ x' = IF ~x.bound[t] THEN asked
                ELSE IF x.fd[t] = 0 THEN stopped
                ELSE [Close(stopped, x.fd[t]) EXCEPT !.fd[t] = 0]
        /\ UNCHANGED scene

\* A connection is closed, and its descriptor number is free again.
CloseConnection(n) ==
    /\ n \in x.channels
    /\ x' = Close(unregister_net_channel(x, n), n)
    /\ UNCHANGED scene

Poll(n) == (\E R \in SUBSET Dirs : epoll_poll(n, R)) \/ (\E d \in Dirs : kqueue_poll(n, d))

Run(t) ==
    \/ \E call \in Calls, timer \in BOOLEAN : RunConnect(t, call, timer)
    \/ \E call \in Calls, outReady \in BOOLEAN : RunOp(t, call, outReady)

Next ==
    \/ \E t \in Tasks : Run(t) \/ complete_kqueue_timeout(t) \/ request_cancel_on_owner(t)
    \/ \E n \in Nums : Poll(n) \/ CloseConnection(n)

\* The thread runs its tasks, and a timer that is armed expires.
Expires(t) == complete_kqueue_timeout(t) \/ (x.dl[t].timer # 0 /\ epoll_poll(x.dl[t].timer, {"read"}))

Fairness == \A t \in Tasks : WF_vars(Run(t)) /\ WF_vars(Expires(t))

Spec == Init /\ [][Next]_vars /\ Fairness

-----------------------------------------------------------------------------

\* What finish_failed leaves behind, as it cancels nothing: the deadline of a
\* connect that stop() cancelled, and the wait of a connect whose deadline could
\* not be set up.
Abandoned(r) ==
    LET t == r[1]
    IN  /\ x.phase[t] = "done"
        /\ (r[2] = "timer" /\ x.cancel[t]) \/ (r[2] = "io" /\ t \in x.untimed)


\* A task that waits can be woken: one of its operations is in the wait table
\* and armed in the kernel, or its kernel timer runs, whatever became of the
\* other direction of its descriptor.
WaitersArmed ==
    \A t \in Tasks :
        x.phase[t] = "pending" =>
            \/ t \in x.timers
            \/ \E n \in Nums, d \in Dirs : x.waits[n][d] \in {t} \X {"io", "timer"} /\ d \in x.interest[n]

\* Nobody waits: the connects with a deadline have ended.  (Spurious readiness
\* starts the deadline afresh, so that it may then be put off for ever.)
Quiet ==
    \A t \in Tasks : Connects(t) /\ scene.deadline /\ ~scene.spurious => x.phase[t] = "done"

\* A connect with a deadline ends, even if the peer never answers.
DeadlineEnds == []<>Quiet
=============================================================================
