------------------------ MODULE VdevLifecycleProofs -------------------------
(***************************************************************************)
(* The inductive invariant of the device state machine, for any number of  *)
(* vrings and request queues and any client, and that the bottom halves,   *)
(* the requests and the end of a connection preserve it.  VdevProofs goes  *)
(* on from here with the messages and with the theorems.                   *)
(***************************************************************************)
EXTENDS VdevLifecycle, TLAPS

(* The state a handler works on, and what one of its fields may hold. *)
ExtType == {"init", "starting", "running", "stopping", "stopped",
            "start_failed", "busy"}

StateType ==
  [vdev : VdevType, vring : [Vring -> VringType],
   ctl : [pending : SUBSET CtlBhs, batch : SUBSET CtlBhs],
   rq : [Rq -> [pending : SUBSET RqBhs, batch : SUBSET RqBhs]],
   ext : ExtType, failed : SUBSET Assertion]

-----------------------------------------------------------------------------
(* A handler of the control loop leaves alone what belongs to the request  *)
(* queue of a vring: its kick handler, its requests, whether it runs.      *)
Shape(S) ==
  /\ "vring" \in DOMAIN S /\ DOMAIN S.vring = Vring
  /\ \A v \in Vring : {"kick_handler", "started_in_rq", "num_in_flight", "queued"}
                        \subseteq DOMAIN S.vring[v]

SameRun(r, t) ==
  /\ DOMAIN t = DOMAIN r
  /\ t.kick_handler = r.kick_handler /\ t.started_in_rq = r.started_in_rq
  /\ t.num_in_flight = r.num_in_flight /\ t.queued = r.queued

Keeps(S, T) ==
  Shape(S) => Shape(T) /\ \A v \in Vring : SameRun(S.vring[v], T.vring[v])

LEMMA KeepsTrans ==
  ASSUME NEW S, NEW T, NEW U, Keeps(S, T), Keeps(T, U)
  PROVE  Keeps(S, U)
BY ZenonT(30) DEF Keeps, SameRun

LEMMA KeepsVring ==
  ASSUME NEW S, NEW T, Shape(S) => "vring" \in DOMAIN T /\ T.vring = S.vring
  PROVE  Keeps(S, T)
BY Zenon DEF Keeps, SameRun, Shape

LEMMA KeepsAssert ==
  ASSUME NEW S, NEW cond, NEW label
  PROVE  Keeps(S, VHD_ASSERT(S, cond, label))
<1>1. Shape(S) => /\ "vring" \in DOMAIN VHD_ASSERT(S, cond, label)
                  /\ VHD_ASSERT(S, cond, label).vring = S.vring
  BY Zenon DEF VHD_ASSERT, Shape
<1> QED
  BY Zenon, <1>1, KeepsVring

LEMMA KeepsMaybeFinished ==
  ASSUME NEW S
  PROVE  Keeps(S, vdev_maybe_finished(S))
<1>1. ASSUME NEW T PROVE Keeps(T, vdev_vrings_stopped(T))
  <2>1. Shape(T) => /\ "vring" \in DOMAIN vdev_vrings_stopped(T)
                    /\ vdev_vrings_stopped(T).vring = T.vring
    BY Zenon DEF vdev_vrings_stopped, vdev_complete_work, Shape
  <2> QED
    BY Zenon, <2>1, KeepsVring
<1>2. ASSUME NEW T PROVE Keeps(T, vdev_drained(T))
  <2> DEFINE U == vdev_drained(T)
             g == [v \in Vring |-> vring_reset(T.vring[v])]
  <2>1. Shape(T) => "vring" \in DOMAIN U /\ U.vring = g
    <3>1. Shape(T) => "vring" \in DOMAIN vdev_cleanup(T) /\ vdev_cleanup(T).vring = g
      BY Zenon DEF vdev_cleanup, Shape, VHD_ASSERT
    <3> HIDE DEF g
    <3> QED
      BY Zenon, <3>1 DEF vdev_drained, VHD_ASSERT, vhd_vdev_release, Shape
  <2>2. Shape(T) => \A v \in Vring : SameRun(T.vring[v], g[v])
    BY Zenon DEF Shape, SameRun, vring_reset
  <2>3. DOMAIN g = Vring
    BY Zenon
  <2> HIDE DEF U, g
  <2>4. Keeps(T, U)
    BY ZenonT(30), <2>1, <2>2, <2>3 DEF Keeps, Shape, SameRun
  <2> QED
    BY Zenon, <2>4 DEF U
<1> DEFINE T == IF S.vdev.num_vrings_started = 0 THEN vdev_vrings_stopped(S) ELSE S
<1>3. Keeps(S, T)
  BY ZenonT(30), <1>1 DEF Keeps, SameRun
<1>4. vdev_maybe_finished(S) = IF vdev_in_use(T) THEN T ELSE vdev_drained(T)
  BY Zenon DEF vdev_maybe_finished
<1> HIDE DEF T
<1> QED
  BY Zenon, <1>2, <1>3, <1>4, KeepsTrans

LEMMA KeepsRunInRq ==
  ASSUME NEW S, NEW name, NEW V
  PROVE  Keeps(S, vhd_run_in_rq(S, name, V))
<1>1. Shape(S) => /\ "vring" \in DOMAIN vhd_run_in_rq(S, name, V)
                  /\ vhd_run_in_rq(S, name, V).vring = S.vring
  BY Zenon DEF vhd_run_in_rq, VHD_ASSERT, Shape
<1> QED
  BY Zenon, <1>1, KeepsVring

LEMMA KeepsDisconnect ==
  ASSUME NEW S
  PROVE  Keeps(S, vdev_disconnect(S))
<1> DEFINE V == {v \in Vring : S.vring[v].started_in_ctl}
           g == [v \in Vring |-> [S.vring[v] EXCEPT !.disconnecting = @ \/ v \in V]]
           T == [S EXCEPT !.vdev.conn_handler = "none", !.vring = g]
<1>1. vdev_disconnect(S)
      = IF S.vdev.conn_handler = "none" THEN S
        ELSE vdev_maybe_finished(vhd_run_in_rq(T, "vring_stop_bh_disconnect", V))
  BY Zenon DEF vdev_disconnect
<1>2. Shape(S) => \A v \in Vring : SameRun(S.vring[v], g[v])
  BY Zenon DEF Shape, SameRun
<1>3. DOMAIN g = Vring
  BY Zenon
<1> HIDE DEF g, V
<1>4. Shape(S) => "vring" \in DOMAIN T /\ T.vring = g
  BY Zenon DEF Shape
<1> HIDE DEF T
<1>5. Keeps(S, T)
  BY ZenonT(30), <1>2, <1>3, <1>4 DEF Keeps, Shape, SameRun
<1>6. Keeps(S, vdev_maybe_finished(vhd_run_in_rq(T, "vring_stop_bh_disconnect", V)))
  BY Zenon, <1>5, KeepsRunInRq, KeepsMaybeFinished, KeepsTrans
<1>7. Keeps(S, S)
  BY Zenon DEF Keeps, SameRun
<1> QED
  BY Zenon, <1>1, <1>6, <1>7

(* A change of the device only. *)
LEMMA KeepsFinish ==
  ASSUME NEW S
  PROVE  /\ Keeps(S, S) /\ Keeps(S, vdev_handle_finish(S))
         /\ \A req : Keeps(S, vdev_handle_start(S, req))
         /\ \A sent : Keeps(S, vhost_reply(S, sent).st)
         /\ \A sent : Keeps(S, handle_complete(S, sent).st)
<1>1. Keeps(S, S)
  BY Zenon DEF Keeps, SameRun
<1>2. ASSUME NEW T PROVE Keeps(T, vdev_handle_finish(T))
  <2>1. Shape(T) => /\ "vring" \in DOMAIN vdev_handle_finish(T)
                    /\ vdev_handle_finish(T).vring = T.vring
    BY Zenon DEF vdev_handle_finish, VHD_ASSERT, Shape
  <2> QED
    BY Zenon, <2>1, KeepsVring
<1>3. ASSUME NEW req PROVE Keeps(S, vdev_handle_start(S, req))
  <2>1. Shape(S) => /\ "vring" \in DOMAIN vdev_handle_start(S, req)
                    /\ vdev_handle_start(S, req).vring = S.vring
    BY Zenon DEF vdev_handle_start, VHD_ASSERT, Shape
  <2> QED
    BY Zenon, <2>1, KeepsVring
<1>4. ASSUME NEW T, NEW sent PROVE Keeps(T, vhost_reply(T, sent).st)
  <2>1. Keeps(T, T)
    BY Zenon DEF Keeps, SameRun
  <2>2. vhost_reply(T, sent).st = IF sent THEN vdev_handle_finish(T) ELSE T
    BY Zenon DEF vhost_reply, Ok, Err
  <2> QED
    BY Zenon, <1>2, <2>1, <2>2
<1>5. ASSUME NEW sent PROVE Keeps(S, handle_complete(S, sent).st)
  <2> DEFINE A == [S EXCEPT !.vdev.old_memmap = 0]
             B == [S EXCEPT !.vdev.old_memlog = 0]
             C == [S EXCEPT !.vdev.keep_fd = <<>>]
             H == handle_complete(S, sent)
  <2>1. \/ H = vhost_reply(A, sent) \/ H = vhost_reply(B, sent)
        \/ H = vhost_reply(C, sent) \/ H = vhost_reply(S, sent)
    BY Zenon DEF handle_complete, set_mem_table_complete, set_log_base_complete,
                 set_vring_call_complete, vhost_ack
  <2>2. Shape(S) => /\ "vring" \in DOMAIN A /\ A.vring = S.vring
                    /\ "vring" \in DOMAIN B /\ B.vring = S.vring
                    /\ "vring" \in DOMAIN C /\ C.vring = S.vring
    BY Zenon DEF Shape
  <2> HIDE DEF A, B, C, H
  <2>3. Keeps(S, A) /\ Keeps(S, B) /\ Keeps(S, C)
    BY Zenon, <2>2, KeepsVring
  <2>4. Keeps(S, H.st)
    BY Zenon, <1>4, <2>1, <2>3, KeepsTrans
  <2> QED
    BY Zenon, <2>4 DEF H
<1> QED
  BY Zenon, <1>1, <1>2, <1>3, <1>4, <1>5

LEMMA KeepsHandled ==
  ASSUME NEW S, NEW sent
  PROVE  Keeps(S, vring_mark_msg_handled(S, sent))
<1> DEFINE Z == [S EXCEPT !.vdev.num_vrings_handling_msg = @ - 1]
           T == VHD_ASSERT(Z, S.vdev.num_vrings_handling_msg > 0, "handling_msg")
           A == VHD_ASSERT(T, T.vdev.handle_complete # "none", "handle_complete")
           C == handle_complete(A, sent)
           U == [C.st EXCEPT !.vdev.handle_complete = "none"]
<1>1. vring_mark_msg_handled(S, sent)
      = IF T.vdev.num_vrings_handling_msg # 0 THEN T
        ELSE IF C.ok THEN U ELSE vdev_disconnect(U)
  BY Zenon DEF vring_mark_msg_handled
<1>2. Shape(S) => "vring" \in DOMAIN Z /\ Z.vring = S.vring
  BY Zenon DEF Shape
<1> HIDE DEF Z
<1>3. Keeps(S, Z)
  BY Zenon, <1>2, KeepsVring
<1>4. Keeps(Z, T)
  BY Zenon, KeepsAssert
<1>5. Keeps(T, A)
  <2> HIDE DEF T
  <2> QED
    BY Zenon, KeepsAssert
<1>6. Keeps(A, C.st)
  <2> HIDE DEF A
  <2> QED
    BY Zenon, KeepsFinish
<1>7. Shape(C.st) => "vring" \in DOMAIN U /\ U.vring = C.st.vring
  <2> HIDE DEF C
  <2> QED
    BY Zenon DEF Shape
<1> HIDE DEF T, A, C, U
<1>8. Keeps(C.st, U)
  BY Zenon, <1>7, KeepsVring
<1>9. Keeps(S, U) /\ Keeps(S, T)
  BY Zenon, <1>3, <1>4, <1>5, <1>6, <1>8, KeepsTrans
<1>10. Keeps(S, vdev_disconnect(U))
  BY Zenon, <1>9, KeepsDisconnect, KeepsTrans
<1> QED
  BY Zenon, <1>1, <1>9, <1>10

(* One vring changes, in fields that are not its request queue's. *)
LEMMA KeepsOne ==
  ASSUME NEW S, NEW T, NEW v \in Vring, NEW t,
         Shape(S) => /\ "vring" \in DOMAIN T /\ T.vring = [S.vring EXCEPT ![v] = t]
                     /\ SameRun(S.vring[v], t)
  PROVE  Keeps(S, T)
<1> SUFFICES ASSUME Shape(S) PROVE Shape(T) /\ \A w \in Vring : SameRun(S.vring[w], T.vring[w])
  BY Zenon DEF Keeps
<1>1. DOMAIN T.vring = Vring /\ "vring" \in DOMAIN T
  BY Zenon DEF Shape
<1>2. ASSUME NEW w \in Vring PROVE SameRun(S.vring[w], T.vring[w])
  <2>1. CASE w = v
    BY Zenon, <2>1 DEF Shape
  <2>2. CASE w # v
    BY Zenon, <2>2 DEF Shape, SameRun
  <2> QED
    BY Zenon, <2>1, <2>2
<1> QED
  BY ZenonT(30), <1>1, <1>2 DEF Shape, SameRun

LEMMA KeepsStopped ==
  ASSUME NEW S, NEW v \in Vring
  PROVE  Keeps(S, vring_mark_stopped(S, v))
<1> DEFINE t == [S.vring[v] EXCEPT !.kickfd = FALSE]
           Z == [S EXCEPT !.vring[v].kickfd = FALSE, !.vdev.num_vrings_started = @ - 1]
           A == VHD_ASSERT(Z, S.vdev.num_vrings_started > 0, "started")
<1>1. vring_mark_stopped(S, v) = vdev_maybe_finished(A)
  BY Zenon DEF vring_mark_stopped
<1>2. Shape(S) => /\ "vring" \in DOMAIN Z /\ Z.vring = [S.vring EXCEPT ![v] = t]
                  /\ SameRun(S.vring[v], t)
  BY Zenon DEF Shape, SameRun
<1> HIDE DEF Z, t
<1>3. Keeps(S, Z)
  BY Zenon, <1>2, KeepsOne
<1>4. Keeps(Z, A)
  BY Zenon, KeepsAssert
<1> HIDE DEF A
<1> QED
  BY Zenon, <1>1, <1>3, <1>4, KeepsMaybeFinished, KeepsTrans

LEMMA KeepsDrained ==
  ASSUME NEW S, NEW v \in Vring, NEW sent
  PROVE  Keeps(S, vring_mark_drained(S, v, sent))
<1> DEFINE Z == [S EXCEPT !.vring[v].started_in_ctl = FALSE]
           A == VHD_ASSERT(Z, S.vring[v].started_in_ctl, "drained")
           R == vhost_reply(A, sent)
           B == [R.st EXCEPT !.vring[v].on_drain_cb = FALSE]
           C == IF ~S.vring[v].on_drain_cb THEN A
                ELSE IF R.ok THEN B ELSE vdev_disconnect(B)
           Y == [C EXCEPT !.vring[v].vq = VqZero]
           D == VHD_ASSERT(Y, C.vring[v].vq.buffers, "virtq_release")
           X == [D EXCEPT !.vdev.num_vrings_in_flight = @ - 1]
           E == VHD_ASSERT(X, D.vdev.num_vrings_in_flight > 0, "in_flight")
<1>1. vring_mark_drained(S, v, sent) = vdev_maybe_finished(E)
  BY Zenon DEF vring_mark_drained
<1>2. Keeps(S, Z)
  <2> DEFINE t == [S.vring[v] EXCEPT !.started_in_ctl = FALSE]
  <2>1. Shape(S) => /\ "vring" \in DOMAIN Z /\ Z.vring = [S.vring EXCEPT ![v] = t]
                    /\ SameRun(S.vring[v], t)
    BY Zenon DEF Shape, SameRun
  <2> HIDE DEF Z, t
  <2> QED
    BY Zenon, <2>1, KeepsOne
<1> HIDE DEF Z
<1>3. Keeps(Z, A)
  BY Zenon, KeepsAssert
<1> HIDE DEF A
<1>4. Keeps(A, R.st)
  BY Zenon, KeepsFinish
<1> HIDE DEF R
<1>5. Keeps(R.st, B)
  <2> DEFINE t == [R.st.vring[v] EXCEPT !.on_drain_cb = FALSE]
             Q == R.st
  <2>1. B = [Q EXCEPT !.vring[v].on_drain_cb = FALSE] /\ t = [Q.vring[v] EXCEPT !.on_drain_cb = FALSE]
    BY Zenon
  <2> HIDE DEF Q
  <2>2. Shape(Q) => /\ "vring" \in DOMAIN B /\ B.vring = [Q.vring EXCEPT ![v] = t]
                    /\ SameRun(Q.vring[v], t)
    BY Zenon, <2>1 DEF Shape, SameRun
  <2> HIDE DEF B, t
  <2>3. Keeps(Q, B)
    BY Zenon, <2>2, KeepsOne
  <2> QED
    BY Zenon, <2>3 DEF Q
<1> HIDE DEF B
<1>6. Keeps(S, C)
  BY Zenon, <1>2, <1>3, <1>4, <1>5, KeepsDisconnect, KeepsTrans
<1> HIDE DEF C
<1>7. Keeps(C, Y)
  <2> DEFINE t == [C.vring[v] EXCEPT !.vq = VqZero]
  <2>1. Shape(C) => /\ "vring" \in DOMAIN Y /\ Y.vring = [C.vring EXCEPT ![v] = t]
                    /\ SameRun(C.vring[v], t)
    BY Zenon DEF Shape, SameRun
  <2> HIDE DEF Y, t
  <2> QED
    BY Zenon, <2>1, KeepsOne
<1> HIDE DEF Y
<1>8. Keeps(Y, D)
  BY Zenon, KeepsAssert
<1> HIDE DEF D
<1>9. Shape(D) => "vring" \in DOMAIN X /\ X.vring = D.vring
  BY Zenon DEF Shape
<1> HIDE DEF X
<1>10. Keeps(D, X)
  BY Zenon, <1>9, KeepsVring
<1>11. Keeps(X, E)
  BY Zenon, KeepsAssert
<1> HIDE DEF E
<1> QED
  BY Zenon, <1>1, <1>6, <1>7, <1>8, <1>10, <1>11, KeepsMaybeFinished, KeepsTrans

LEMMA KeepsStartFailed ==
  ASSUME NEW S, NEW v \in Vring, NEW sent
  PROVE  Keeps(S, vring_start_failed(S, v, sent))
<1> DEFINE T == [S EXCEPT !.vdev.handle_complete = "set_vring_kick_fail"]
           A == vring_mark_msg_handled(T, sent)
           B == vring_mark_stopped(A, v)
<1>1. vring_start_failed(S, v, sent) = vring_mark_drained(B, v, sent)
  BY Zenon DEF vring_start_failed
<1>2. Shape(S) => "vring" \in DOMAIN T /\ T.vring = S.vring
  BY Zenon DEF Shape
<1> HIDE DEF T
<1>3. Keeps(S, T)
  BY Zenon, <1>2, KeepsVring
<1>4. Keeps(T, A)
  BY Zenon, KeepsHandled
<1> HIDE DEF A
<1>5. Keeps(A, B)
  BY Zenon, KeepsStopped
<1> HIDE DEF B
<1> QED
  BY Zenon, <1>1, <1>3, <1>4, <1>5, KeepsDrained, KeepsTrans

(* All the vrings change, in such fields. *)
LEMMA KeepsAll ==
  ASSUME NEW S, NEW T, NEW g, DOMAIN g = Vring,
         Shape(S) => /\ "vring" \in DOMAIN T /\ T.vring = g
                     /\ \A v \in Vring : SameRun(S.vring[v], g[v])
  PROVE  Keeps(S, T)
BY ZenonT(30) DEF Keeps, Shape, SameRun

(* The bottom halves of the control loop. *)
LEMMA KeepsCtlBody ==
  ASSUME NEW S, NEW b \in CtlBhs, NEW ok
  PROVE  Keeps(S, CtlBody(S, b, ok))
<1>1. CASE b \in CtlBhName \X Vring
  <2>1. PICK name \in CtlBhName, v \in Vring : b = <<name, v>>
    BY SMTT(30), <1>1
  <2>2. \/ CtlBody(S, b, ok) = vring_mark_msg_handled(S, ok)
        \/ CtlBody(S, b, ok) = vring_mark_stopped(S, v)
        \/ CtlBody(S, b, ok) = vring_mark_drained(S, v, ok)
        \/ CtlBody(S, b, ok) = vring_start_failed(S, v, ok)
    BY Zenon, <2>1 DEF CtlBody, CtlBhName
  <2> QED
    BY Zenon, <2>2, KeepsHandled, KeepsStopped, KeepsDrained, KeepsStartFailed
<1>2. CASE b \in {"work_bh"} \X {"vdev_start", "vdev_stop"}
  <2>1. PICK func \in {"vdev_start", "vdev_stop"} : b = <<"work_bh", func>>
    BY SMTT(30), <1>2
  <2>2. CtlBody(S, b, ok) = vdev_work_fn(S, func, ok)
    BY Zenon, <2>1 DEF CtlBody
  <2> DEFINE T == [S EXCEPT !.vdev.work = func]
             L == [T EXCEPT !.vdev.listen_handler = IF ok THEN "attached" ELSE "none"]
             N == [T EXCEPT !.vdev.listen_handler = "none"]
             X == [S EXCEPT !.ext = "busy"]
             W == vdev_complete_work(L, ok)
             F == vdev_work_fn(S, func, ok)
  <2>3. \/ F = X \/ F = W \/ F = vdev_disconnect(N) \/ F = vdev_maybe_finished(N)
    BY Zenon DEF vdev_work_fn, vdev_start, vdev_stop
  <2>4. Shape(S) => /\ "vring" \in DOMAIN X /\ X.vring = S.vring
                    /\ "vring" \in DOMAIN L /\ L.vring = S.vring
                    /\ "vring" \in DOMAIN N /\ N.vring = S.vring
    BY Zenon DEF Shape
  <2> HIDE DEF X, L, N
  <2>5. Shape(L) => "vring" \in DOMAIN W /\ W.vring = L.vring
    BY Zenon DEF vdev_complete_work, Shape
  <2> HIDE DEF W, F
  <2>6. Keeps(S, X) /\ Keeps(S, L) /\ Keeps(S, N) /\ Keeps(L, W)
    BY Zenon, <2>4, <2>5, KeepsVring
  <2>7. Keeps(S, F)
    BY Zenon, <2>3, <2>6, KeepsDisconnect, KeepsMaybeFinished, KeepsTrans
  <2> QED
    BY Zenon, <2>2, <2>7 DEF F
<1> QED
  BY Zenon, <1>1, <1>2 DEF CtlBhs

LEMMA KeepsServerRead ==
  ASSUME NEW S
  PROVE  Keeps(S, server_read(S))
<1>1. Shape(S) => "vring" \in DOMAIN server_read(S) /\ server_read(S).vring = S.vring
  BY Zenon DEF Shape, server_read, VHD_ASSERT
<1> QED
  BY Zenon, <1>1, KeepsVring

(* The bottom halves about a vring that wait or are about to run in S. *)
InR(S, name, v) ==
  <<name, v>> \in S.rq[RqOf[v]].pending \cup S.rq[RqOf[v]].batch

InC(S, name, v) == <<name, v>> \in S.ctl.pending \cup S.ctl.batch

Starting(S, v) == InR(S, "vring_start_bh", v)

Syncing(S, v) == InR(S, "vring_sync_to_virtq_bh", v)

Stopping(S, v) == InR(S, "vring_stop_bh", v)

Leaving(S, v) == InR(S, "vring_stop_bh_disconnect", v)

Handled(S, v) == InC(S, "vring_mark_msg_handled_bh", v)

Stopped(S, v) == InC(S, "vring_mark_stopped_bh", v)

Drained(S, v) == InC(S, "vring_mark_drained_bh", v)

StartFailed(S, v) == InC(S, "vring_start_failed_bh", v)

Working(S, func) == InC(S, "work_bh", func)

StoppedQueued(S, v) == <<"vring_mark_stopped_bh", v>> \in S.ctl.pending

(* HandlingMsg and NotStopped of Vdev, in S. *)
InMsg(S, v) ==
  Starting(S, v) \/ Syncing(S, v) \/ Handled(S, v) \/ StartFailed(S, v)

Running(S, v) ==
  \/ Starting(S, v) \/ S.vring[v].started_in_rq
  \/ Stopped(S, v) \/ StartFailed(S, v)

(* A bottom half waits once, in the loop that serves its vring.  The one    *)
(* that tells of the end of a vring never comes after the one that tells   *)
(* that it has drained.                                                    *)
BhInv(S) ==
  /\ S.ctl.pending \cap S.ctl.batch = {}
  /\ \A v \in Vring : <<"vring_mark_stopped_bh", v>> \in S.ctl.pending
                        => <<"vring_mark_drained_bh", v>> \notin S.ctl.batch
  /\ \A r \in Rq :
       /\ S.rq[r].pending \cap S.rq[r].batch = {}
       /\ \A b \in S.rq[r].pending \cup S.rq[r].batch : RqOf[b[2]] = r

(* The life of one vring: started, at most one message at a time, stopped, *)
(* drained.                                                                *)
Life(S, v) ==
  LET r == S.vring[v] IN
    /\ Starting(S, v) => /\ ~Syncing(S, v) /\ ~Handled(S, v) /\ ~StartFailed(S, v)
                         /\ ~Stopped(S, v) /\ ~Drained(S, v) /\ ~r.started_in_rq
    /\ StartFailed(S, v) =>
         /\ ~Syncing(S, v) /\ ~Handled(S, v)
         /\ ~Stopped(S, v) /\ ~Drained(S, v) /\ ~r.started_in_rq
    /\ Syncing(S, v) => ~Handled(S, v)
    /\ r.started_in_rq => ~Stopped(S, v) /\ ~Drained(S, v)
    /\ Starting(S, v) \/ StartFailed(S, v) \/ Drained(S, v) \/ r.started_in_rq
         => r.started_in_ctl
    /\ StoppedQueued(S, v) => r.started_in_ctl
    /\ Starting(S, v) \/ StartFailed(S, v) \/ Drained(S, v) \/ ~r.started_in_ctl
         => r.num_in_flight = 0
    /\ r.queued <= r.num_in_flight
    /\ ~r.started_in_rq => r.kick_handler = "none"
    /\ r.vq.buffers <=> r.started_in_ctl
    /\ r.on_drain_cb => r.started_in_ctl
    /\ r.kickfd => Running(S, v)

(* What the three counters count. *)
MsgSet(S) == {v \in Vring : InMsg(S, v)}

RunSet(S) == {v \in Vring : Running(S, v)}

CtlSet(S) == {v \in Vring : S.vring[v].started_in_ctl}

CountInv(S) ==
  /\ S.vdev.num_vrings_handling_msg = Cardinality(MsgSet(S))
  /\ S.vdev.num_vrings_started = Cardinality(RunSet(S))
  /\ S.vdev.num_vrings_in_flight = Cardinality(CtlSet(S))

(* What is kept for the message until the vrings have handled it. *)
KeptFor(d) ==
  /\ d.old_memmap # 0 => d.handle_complete = "set_mem_table"
  /\ d.old_memlog # 0 => d.handle_complete = "set_log_base"
  /\ d.keep_fd # <<>> => d.handle_complete = "set_vring_fd"

KeptInv(d) ==
  /\ d.handle_complete # "none" <=> d.num_vrings_handling_msg # 0
  /\ KeptFor(d)

(* The connection and its handlers. *)
ConnInv(d) ==
  /\ d.conn_handler = "attached" =>
       /\ d.req = "NONE" /\ d.timer_handler = "detached"
       /\ d.num_vrings_handling_msg = 0
  /\ d.conn_handler = "detached" =>
       d.req # "NONE" /\ d.timer_handler = "attached"
  /\ d.conn_handler # "none" => d.listen_handler = "detached" /\ d.connfd
  /\ d.connfd <=> d.timer_handler # "none"
  /\ ~d.connfd => /\ d.num_vrings_handling_msg = 0 /\ d.num_vrings_started = 0
                  /\ d.num_vrings_in_flight = 0
  /\ d.listen_handler = "detached" /\ d.conn_handler = "none"
       => d.num_vrings_handling_msg = 0
  /\ d.listen_handler = "attached" =>
       ~d.connfd /\ d.req = "NONE" /\ d.memmap = 0 /\ d.memlog = 0

(* What the message in progress means for a vring. *)
PartInv(S, v) ==
  /\ Starting(S, v) \/ StartFailed(S, v) =>
       /\ S.vdev.handle_complete = "set_vring_kick"
       /\ \A w \in Vring : InMsg(S, w) => w = v
  /\ S.vring[v].on_drain_cb =>
       /\ S.vdev.conn_handler # "attached"
       /\ S.vdev.num_vrings_handling_msg = 0
       /\ \A w \in Vring : S.vring[w].on_drain_cb => w = v

(* A vring while a client is connected, after it left, and before one comes. *)
UpInv(S, v) ==
  LET r == S.vring[v] IN
    S.vdev.conn_handler # "none" =>
      /\ ~Leaving(S, v)
      /\ Stopping(S, v) => r.on_drain_cb /\ r.started_in_rq
      /\ r.started_in_ctl =>
           /\ \/ r.started_in_rq \/ r.on_drain_cb
              \/ Starting(S, v) \/ StartFailed(S, v)
           /\ r.shadow_vq.mm = S.vdev.memmap

DownInv(S, v) ==
  LET r == S.vring[v] IN
    S.vdev.listen_handler = "detached" /\ S.vdev.conn_handler = "none" =>
      /\ ~r.on_drain_cb /\ ~Stopping(S, v)
      /\ Leaving(S, v) /\ S.vdev.req = "NONE" => r.started_in_rq

IdleInv(S, v) ==
  LET r == S.vring[v] IN
    S.vdev.listen_handler = "attached" =>
      /\ ~Stopping(S, v) /\ ~Leaving(S, v)
      /\ ~r.disconnecting /\ r.shadow_vq = ShadowVqZero

MsgInv(S, v) ==
  PartInv(S, v) /\ UpInv(S, v) /\ DownInv(S, v) /\ IdleInv(S, v)

(* The thread that owns the device. *)
WorkInv(S) ==
  /\ S.vdev.work \in {"none", "vdev_stop"}
  /\ S.ext # "busy"
  /\ S.ext \in {"init", "starting", "start_failed"} =>
       /\ S.vdev = [VdevInit EXCEPT !.released = S.vdev.released]
       /\ S.vring = [v \in Vring |-> VringInit]
       /\ S.rq = [r \in Rq |-> LoopInit]
       /\ \A v \in Vring : /\ ~Handled(S, v) /\ ~Stopped(S, v)
                           /\ ~Drained(S, v) /\ ~StartFailed(S, v)
  /\ Working(S, "vdev_start") => S.ext = "starting"
  /\ Working(S, "vdev_stop") =>
       S.ext = "stopping" /\ S.vdev.work = "none"
  /\ S.ext = "running" => S.vdev.listen_handler # "none"
  /\ S.ext = "stopping" =>
       IF S.vdev.work = "none"
       THEN S.vdev.listen_handler # "none" /\ Working(S, "vdev_stop")
       ELSE S.vdev.listen_handler = "none"
  /\ S.vdev.work # "none" => S.ext = "stopping"
  /\ S.ext = "stopped" => /\ S.vdev.listen_handler = "none"
                          /\ S.vdev.num_vrings_started = 0
  /\ S.vdev.released => S.ext \in {"stopped", "start_failed"}

(* What a started vring uses: its part of the configuration of the device, *)
(* or, as long as it has to copy its shadow state, what came before.       *)
UseInv(S, v) ==
  LET r == S.vring[v]
      d == S.vdev
  IN /\ r.shadow_vq.log \in {0, d.memlog}
     /\ r.started_in_ctl =>
          /\ d.memmap # 0
          /\ Starting(S, v) \/ Syncing(S, v) => r.shadow_vq.mm = d.memmap
          /\ \/ r.vq.mm = d.memmap
             \/ Syncing(S, v) /\ r.vq.mm = d.old_memmap /\ d.old_memmap # 0
          /\ \/ r.vq.log = r.shadow_vq.log
             \/ Syncing(S, v) /\ r.vq.log \in {0, d.memlog, d.old_memlog}
          /\ \/ r.vq.notify_fd = r.callfd
             \/ /\ Syncing(S, v)
                /\ \/ r.vq.notify_fd = 0
                   \/ d.keep_fd = <<"call", v, r.vq.notify_fd>>
          /\ (r.vq.enabled <=> r.shadow_vq.enabled) \/ Syncing(S, v)

Inv(S) ==
  /\ BhInv(S)
  /\ CountInv(S)
  /\ KeptInv(S.vdev)
  /\ ConnInv(S.vdev)
  /\ WorkInv(S)
  /\ \A v \in Vring : Life(S, v) /\ MsgInv(S, v) /\ UseInv(S, v)

(* What a handler may leave: a failed check of vdev->req, or a good state. *)
Good(S) == /\ S.failed \subseteq {"cleanup_req"}
           /\ S.failed = {} => S \in StateType /\ Inv(S)

(* Sets of vrings can be counted: the facts on Cardinality that the proofs *)
(* need.  They are a hypothesis of the lemmas, proved at the end.          *)
Counting ==
  \A A \in SUBSET Vring :
    /\ Cardinality(A) \in Nat
    /\ Cardinality(A) = 0 <=> A = {}
    /\ \A v \in A : Cardinality(A \ {v}) = Cardinality(A) - 1
    /\ \A v \in Vring \ A : Cardinality(A \cup {v}) = Cardinality(A) + 1

LEMMA CountType ==
  ASSUME Counting, NEW A \in SUBSET Vring
  PROVE  Cardinality(A) \in Nat /\ (Cardinality(A) = 0 <=> A = {})
BY Zenon DEF Counting

(* One vring less, or more. *)
LEMMA CountLess ==
  ASSUME Counting, NEW A \in SUBSET Vring, NEW v \in A
  PROVE  /\ Cardinality(A) \in Nat /\ Cardinality(A) # 0
         /\ Cardinality(A \ {v}) = Cardinality(A) - 1
BY Zenon DEF Counting

LEMMA CountMore ==
  ASSUME Counting, NEW A \in SUBSET Vring, NEW v \in Vring \ A
  PROVE  /\ Cardinality(A) \in Nat
         /\ Cardinality(A \cup {v}) = Cardinality(A) + 1
BY Zenon DEF Counting

(* No vring, or one. *)
LEMMA CountFew ==
  ASSUME Counting
  PROVE  /\ Cardinality({}) = 0
         /\ \A v \in Vring : Cardinality({v}) = 1
<1>1. Cardinality({}) = 0
  BY Zenon, CountType
<1>2. ASSUME NEW v \in Vring PROVE Cardinality({v}) = 1
  <2>1. Cardinality({} \cup {v}) = 1
    BY SMTT(30), <1>1, CountMore
  <2>2. {} \cup {v} = {v}
    BY Zenon
  <2> QED
    BY Zenon, <2>1, <2>2
<1> QED
  BY Zenon, <1>1, <1>2

(* A counter is zero when it counts nothing. *)
LEMMA NoneCounted ==
  ASSUME Counting,
         NEW S, CountInv(S)
  PROVE  /\ S.vdev.num_vrings_handling_msg = 0 <=> \A v \in Vring : ~InMsg(S, v)
         /\ S.vdev.num_vrings_started = 0 <=> \A v \in Vring : ~Running(S, v)
         /\ S.vdev.num_vrings_in_flight = 0
              <=> \A v \in Vring : ~S.vring[v].started_in_ctl
<1>1. MsgSet(S) \in SUBSET Vring /\ RunSet(S) \in SUBSET Vring /\ CtlSet(S) \in SUBSET Vring
  BY Zenon DEF MsgSet, RunSet, CtlSet
<1>2. /\ Cardinality(MsgSet(S)) = 0 <=> MsgSet(S) = {}
      /\ Cardinality(RunSet(S)) = 0 <=> RunSet(S) = {}
      /\ Cardinality(CtlSet(S)) = 0 <=> CtlSet(S) = {}
  BY Zenon, <1>1, CountType
<1> QED
  BY Zenon, <1>2 DEF CountInv, MsgSet, RunSet, CtlSet

(* A BH queued for some vrings on the request queues that serve them. *)
BhsOf(name, V, r) == {<<name, v>> : v \in {w \in V : RqOf[w] = r}}

LEMMA RunInRq ==
  ASSUME NEW S \in StateType, S.failed = {}, NEW name \in RqBhName,
         NEW V \in SUBSET Vring, \A v \in V : ~InR(S, name, v)
  PROVE  LET T == vhd_run_in_rq(S, name, V) IN
         /\ T \in StateType
         /\ T.vdev = S.vdev /\ T.vring = S.vring /\ T.ctl = S.ctl
         /\ T.ext = S.ext /\ T.failed = {}
         /\ \A r \in Rq : /\ T.rq[r].pending = S.rq[r].pending \cup BhsOf(name, V, r)
                          /\ T.rq[r].batch = S.rq[r].batch
<1> DEFINE B(r) == BhsOf(name, V, r)
           U == [S EXCEPT !.rq = [r \in Rq |->
                                [S.rq[r] EXCEPT !.pending = @ \cup B(r)]]]
<1>1. \A r \in Rq : B(r) \cap (S.rq[r].pending \cup S.rq[r].batch) = {}
  BY Zenon DEF InR, BhsOf
<1>2. \A r \in Rq : B(r) \subseteq RqBhs
  BY SMTT(30) DEF RqBhs, BhsOf
<1>3. vhd_run_in_rq(S, name, V) = U
  BY Zenon, <1>1 DEF vhd_run_in_rq, VHD_ASSERT, BhsOf
<1>4. \A r \in Rq : /\ U.rq[r].pending = S.rq[r].pending \cup B(r)
                    /\ U.rq[r].batch = S.rq[r].batch
                    /\ U.rq[r] \in [pending : SUBSET RqBhs, batch : SUBSET RqBhs]
  BY Zenon, <1>2 DEF StateType
<1>5. /\ U \in StateType
      /\ U.vdev = S.vdev /\ U.vring = S.vring /\ U.ctl = S.ctl
      /\ U.ext = S.ext /\ U.failed = {}
  BY Zenon, <1>4 DEF StateType
<1> HIDE DEF U
<1> QED
  BY Zenon, <1>3, <1>4, <1>5

-----------------------------------------------------------------------------
(* Finishing. *)

(* The same BHs about vrings, and the same BHs. *)
VrBhs(S, T) ==
  \A v \in Vring :
    /\ Starting(T, v) <=> Starting(S, v)
    /\ Syncing(T, v) <=> Syncing(S, v)
    /\ Stopping(T, v) <=> Stopping(S, v)
    /\ Leaving(T, v) <=> Leaving(S, v)
    /\ Handled(T, v) <=> Handled(S, v)
    /\ Stopped(T, v) <=> Stopped(S, v)
    /\ StoppedQueued(T, v) <=> StoppedQueued(S, v)
    /\ Drained(T, v) <=> Drained(S, v)
    /\ StartFailed(T, v) <=> StartFailed(S, v)

BhsAgree(S, T) ==
  /\ Working(T, "vdev_start") <=> Working(S, "vdev_start")
  /\ Working(T, "vdev_stop") <=> Working(S, "vdev_stop")
  /\ VrBhs(S, T)

LEMMA SameBhs ==
  ASSUME NEW S, NEW T, T.ctl = S.ctl, T.rq = S.rq
  PROVE  /\ BhsAgree(S, T) /\ VrBhs(S, T)
         /\ BhInv(T) <=> BhInv(S)
BY ZenonT(30) DEF BhsAgree, VrBhs, InR, InC, BhInv, Starting, Syncing, Stopping, Leaving, Handled,
       Stopped, StoppedQueued, Drained, StartFailed, Working

(* Two states of a vring that agree on its life, and on what it uses. *)
SameLife(r, t) ==
  /\ t.kickfd <=> r.kickfd
  /\ t.started_in_ctl <=> r.started_in_ctl
  /\ t.kick_handler = r.kick_handler
  /\ t.on_drain_cb <=> r.on_drain_cb
  /\ t.vq.buffers <=> r.vq.buffers
  /\ t.started_in_rq <=> r.started_in_rq
  /\ t.num_in_flight = r.num_in_flight
  /\ t.queued = r.queued

SameUse(r, t) == t.callfd = r.callfd /\ t.shadow_vq = r.shadow_vq /\ t.vq = r.vq

SameMaps(d, e) ==
  /\ e.memmap = d.memmap /\ e.old_memmap = d.old_memmap
  /\ e.memlog = d.memlog /\ e.old_memlog = d.old_memlog
  /\ e.keep_fd = d.keep_fd

LEMMA SameUses ==
  ASSUME NEW S, NEW T, NEW v, UseInv(S, v), SameMaps(S.vdev, T.vdev),
         SameUse(S.vring[v], T.vring[v]),
         T.vring[v].started_in_ctl <=> S.vring[v].started_in_ctl,
         Starting(T, v) <=> Starting(S, v), Syncing(T, v) <=> Syncing(S, v)
  PROVE  UseInv(T, v)
BY ZenonT(30) DEF UseInv, SameMaps, SameUse

LEMMA SameMsgs ==
  ASSUME NEW S, NEW T, VrBhs(S, T)
  PROVE  \A v \in Vring : InMsg(T, v) <=> InMsg(S, v)
BY Zenon DEF VrBhs, InMsg

LEMMA SameLives ==
  ASSUME NEW S, NEW T, VrBhs(S, T),
         \A v \in Vring : SameLife(S.vring[v], T.vring[v])
  PROVE  /\ MsgSet(T) = MsgSet(S) /\ RunSet(T) = RunSet(S) /\ CtlSet(T) = CtlSet(S)
         /\ \A v \in Vring : Life(T, v) <=> Life(S, v)
<1>1. /\ \A v \in Vring : InMsg(T, v) <=> InMsg(S, v)
      /\ \A v \in Vring : Running(T, v) <=> Running(S, v)
  BY ZenonT(30) DEF VrBhs, SameLife, InMsg, Running
<1>2. MsgSet(T) = MsgSet(S) /\ RunSet(T) = RunSet(S) /\ CtlSet(T) = CtlSet(S)
  BY Zenon, <1>1 DEF MsgSet, RunSet, CtlSet, SameLife
<1>3. \A v \in Vring : Life(T, v) <=> Life(S, v)
  BY SMTT(30), <1>1 DEF VrBhs, SameLife, Life
<1> QED
  BY Zenon, <1>2, <1>3

LEMMA SameVrings ==
  ASSUME NEW S, NEW T, T.ctl = S.ctl, T.rq = S.rq, T.vring = S.vring
  PROVE  /\ MsgSet(T) = MsgSet(S) /\ RunSet(T) = RunSet(S) /\ CtlSet(T) = CtlSet(S)
         /\ \A v \in Vring : Life(T, v) <=> Life(S, v)
<1>1. VrBhs(S, T) /\ \A v \in Vring : SameLife(S.vring[v], T.vring[v])
  BY Zenon, SameBhs DEF SameLife
<1> QED
  BY Zenon, <1>1, SameLives

(* The end of the stop and of the device are noticed. *)
LEMMA MaybeFinished ==
  ASSUME Counting
  PROVE  \A S \in StateType :
           /\ S.failed = {} /\ Inv(S)
           /\ S.ext \notin {"init", "starting", "start_failed"}
           /\ S.vdev.listen_handler # "attached"
           => Good(vdev_maybe_finished(S))
(* The stop is acknowledged, and nothing else is done. *)
<1>CompleteWork.
  ASSUME NEW S \in StateType, S.failed = {}, Inv(S),
         S.ext \notin {"init", "starting", "start_failed"},
         S.vdev.num_vrings_started = 0,
         S.vdev.listen_handler = "none", S.vdev.conn_handler = "none"
  PROVE  LET T == vdev_complete_work(S, TRUE) IN
         /\ T \in StateType
         /\ T.vring = S.vring /\ T.ctl = S.ctl /\ T.rq = S.rq
         /\ T.failed = {} /\ T.ext = "stopped"
         /\ T.vdev = [S.vdev EXCEPT !.work = "none"]
         /\ Inv(T)
  <2> USE <1>CompleteWork
  <2> DEFINE T == vdev_complete_work(S, TRUE)
  <2>1. S.vdev.work \in {"none", "vdev_stop"}
    BY Zenon DEF Inv, WorkInv
  <2>2. CASE S.vdev.work = "none"
    <3>1. T = S /\ S.ext = "stopped"
      BY Zenon, <2>2 DEF vdev_complete_work, Inv, WorkInv, StateType, ExtType
    <3>2. S.vdev = [S.vdev EXCEPT !.work = "none"]
      BY Zenon, <2>2 DEF StateType, VdevType
    <3> QED
      BY Zenon, <3>1, <3>2
  <2>3. CASE S.vdev.work = "vdev_stop"
    <3>1. T = [S EXCEPT !.ext = "stopped", !.vdev.work = "none"]
      BY Zenon, <2>3 DEF vdev_complete_work
    <3>3. S.vdev \in VdevType
      BY Zenon DEF StateType
    <3>2. /\ T \in StateType
          /\ T.vring = S.vring /\ T.ctl = S.ctl /\ T.rq = S.rq
          /\ T.failed = {} /\ T.ext = "stopped"
          /\ T.vdev = [S.vdev EXCEPT !.work = "none"]
      <4>1. [S.vdev EXCEPT !.work = "none"] \in VdevType
        BY Zenon, <3>3 DEF VdevType
      <4> QED
        BY Zenon, <3>1, <3>3, <4>1 DEF StateType, ExtType
    <3> HIDE DEF T
    <3>4. BhInv(T) /\ CountInv(T) /\ KeptInv(T.vdev) /\ ConnInv(T.vdev)
      <4>1. BhInv(T)
        BY Zenon, <3>2, SameBhs DEF Inv
      <4>2. CountInv(T)
        <5>1. MsgSet(T) = MsgSet(S) /\ RunSet(T) = RunSet(S) /\ CtlSet(T) = CtlSet(S)
          BY ZenonT(30), <3>2, SameVrings
        <5> QED
          BY ZenonT(30), <3>2, <3>3, <5>1 DEF Inv, CountInv, VdevType
      <4>3. KeptInv(T.vdev)
        BY SMTT(30), <3>2, <3>3 DEF Inv, KeptInv, KeptFor, VdevType
      <4>4. ConnInv(T.vdev)
        BY SMTT(30), <3>2, <3>3 DEF Inv, ConnInv, VdevType
      <4> QED
        BY Zenon, <4>1, <4>2, <4>3, <4>4
    <3>5. WorkInv(T)
      <4>1. BhsAgree(S, T)
        BY Zenon, <3>2, SameBhs
      <4> QED
        BY ZenonT(30), <3>2, <3>3, <2>3, <4>1 DEF Inv, WorkInv, VdevType, BhsAgree, VrBhs
    <3>6. ASSUME NEW v \in Vring PROVE Life(T, v) /\ MsgInv(T, v) /\ UseInv(T, v)
      <4>1. BhsAgree(S, T)
        BY Zenon, <3>2, SameBhs
      <4>2. Life(T, v)
        BY Zenon, <3>2, SameVrings DEF Inv
      <4>3. MsgInv(T, v)
        <5>1. \A w \in Vring : InMsg(T, w) <=> InMsg(S, w)
          BY ZenonT(30), <4>1, SameMsgs DEF BhsAgree
        <5> QED
          BY SMTT(30), <3>2, <3>3, <4>1, <5>1 DEF Inv, MsgInv, PartInv, UpInv, DownInv, IdleInv,
             VdevType, BhsAgree, VrBhs
      <4>4. UseInv(T, v)
        BY SMTT(30), <3>2, <3>3, <4>1 DEF Inv, UseInv, VdevType, BhsAgree, VrBhs
      <4> QED
        BY Zenon, <4>2, <4>3, <4>4
    <3> QED
      BY Zenon, <3>2, <3>4, <3>5, <3>6 DEF Inv, T
  <2> QED
    BY Zenon, <2>1, <2>2, <2>3
(* The device is cleaned up; it listens again or is released. *)
<1>DrainedDevice.
  ASSUME NEW S \in StateType, S.failed = {}, Inv(S),
         S.ext \notin {"init", "starting", "start_failed"},
         S.vdev.listen_handler # "attached",
         S.vdev.listen_handler = "none" => S.ext = "stopped",
         ~vdev_in_use(S)
  PROVE  Good(vdev_drained(S))
  <2> USE <1>DrainedDevice
  <2> DEFINE d == S.vdev
             T == vdev_drained(S)
             e == [d EXCEPT !.inflight_mem = 0, !.memmap = 0, !.memlog = 0,
                            !.timer_handler = "none", !.connfd = FALSE]
             C == vdev_cleanup(S)
  <2>0. d \in VdevType /\ S.vring \in [Vring -> VringType]
    BY Zenon DEF StateType
  <2>1. /\ d.conn_handler = "none" /\ d.num_vrings_handling_msg = 0
        /\ d.num_vrings_started = 0 /\ d.num_vrings_in_flight = 0
    BY Zenon DEF vdev_in_use
  <2>2. d.old_memmap = 0 /\ d.old_memlog = 0 /\ d.keep_fd = <<>>
        /\ d.handle_complete = "none"
    BY Zenon, <2>1 DEF Inv, KeptInv, KeptFor
  <2>3. /\ C \in StateType
        /\ C.failed = IF d.req = "NONE" THEN {} ELSE {"cleanup_req"}
        /\ C.ctl = S.ctl /\ C.rq = S.rq /\ C.ext = S.ext
        /\ C.vdev = e
        /\ C.vring = [v \in Vring |-> vring_reset(S.vring[v])]
    <3> DEFINE F == IF d.req = "NONE" THEN S ELSE [S EXCEPT !.failed = {"cleanup_req"}]
               R == [v \in Vring |-> vring_reset(S.vring[v])]
    <3>1. C = [F EXCEPT !.vring = R,
                 !.vdev.inflight_mem = 0, !.vdev.memmap = 0, !.vdev.memlog = 0,
                 !.vdev.timer_handler = "none", !.vdev.connfd = FALSE]
      BY ZenonT(30), <2>1, <2>2 DEF vdev_cleanup, VHD_ASSERT
    <3>2. /\ F \in StateType /\ F.vdev = S.vdev /\ F.ctl = S.ctl /\ F.rq = S.rq
          /\ F.ext = S.ext /\ F.failed = IF d.req = "NONE" THEN {} ELSE {"cleanup_req"}
      <4>1. CASE d.req = "NONE"
        BY Zenon, <4>1
      <4>2. CASE d.req # "NONE"
        <5>1. F = [S EXCEPT !.failed = {"cleanup_req"}]
          BY Zenon, <4>2
        <5>2. {"cleanup_req"} \in SUBSET Assertion
          BY Zenon DEF Assertion
        <5> HIDE DEF F
        <5> QED
          BY Zenon, <4>2, <5>1, <5>2 DEF StateType
      <4> QED
        BY Zenon, <4>1, <4>2
    <3>3. R \in [Vring -> VringType]
      <4>1. ASSUME NEW v \in Vring PROVE vring_reset(S.vring[v]) \in VringType
        <5>1. S.vring[v] \in VringType /\ 0 \in Id
          BY SMTT(30), <2>0, ConstantsAssumption DEF Id
        <5> QED
          BY ZenonT(30), <5>1 DEF vring_reset, VringType, ShadowVqZero
      <4> QED
        BY Zenon, <4>1
    <3>4. e \in VdevType
      <4>1. 0 \in Id /\ "none" \in Handler
        BY SMTT(30), ConstantsAssumption DEF Id, Handler
      <4> QED
        BY ZenonT(30), <2>0, <4>1 DEF VdevType
    <3> HIDE DEF F, R, C
    <3>5. C.vdev = e
      BY ZenonT(30), <3>1, <3>2, <2>0 DEF StateType, VdevType
    <3> HIDE DEF e
    <3> QED
      BY ZenonT(30), <3>1, <3>2, <3>3, <3>4, <3>5 DEF StateType, R
  <2>4. C.vdev.listen_handler = d.listen_handler
    BY ZenonT(30), <2>0, <2>3 DEF VdevType
  <2>5. T = IF d.listen_handler = "none" THEN [C EXCEPT !.vdev.released = TRUE]
            ELSE [C EXCEPT !.vdev.listen_handler = "attached"]
    BY Zenon, <2>0 DEF vdev_drained, vhd_vdev_release, VHD_ASSERT, VdevType, Handler
  <2> DEFINE f == IF d.listen_handler = "none" THEN [e EXCEPT !.released = TRUE]
                  ELSE [e EXCEPT !.listen_handler = "attached"]
  <2>6. /\ T \in StateType
        /\ T.failed = IF d.req = "NONE" THEN {} ELSE {"cleanup_req"}
        /\ T.ctl = S.ctl /\ T.rq = S.rq /\ T.ext = S.ext
        /\ T.vdev = f
        /\ T.vring = [v \in Vring |-> vring_reset(S.vring[v])]
    <3> HIDE DEF T, C, e
    <3>1. f \in VdevType
      <4>1. e \in VdevType
        BY Zenon, <2>3 DEF StateType
      <4> QED
        BY ZenonT(30), <4>1 DEF VdevType, Handler
    <3>2. T.vdev = f
      BY Zenon, <2>3, <2>5 DEF StateType
    <3> HIDE DEF f
    <3> QED
      BY Zenon, <2>3, <2>5, <3>1, <3>2 DEF StateType
  <2> HIDE DEF T, C
  <2>7. CASE d.req # "NONE"
    BY Zenon, <2>6, <2>7 DEF Good, T
  <2>8. CASE d.req = "NONE"
    <3>0. /\ T.vdev.conn_handler = "none" /\ T.vdev.num_vrings_handling_msg = 0
          /\ T.vdev.num_vrings_started = 0 /\ T.vdev.num_vrings_in_flight = 0
          /\ T.vdev.handle_complete = "none" /\ T.vdev.req = "NONE"
          /\ T.vdev.old_memmap = 0 /\ T.vdev.old_memlog = 0 /\ T.vdev.keep_fd = <<>>
          /\ T.vdev.memmap = 0 /\ T.vdev.memlog = 0 /\ T.vdev.timer_handler = "none"
          /\ T.vdev.connfd = FALSE /\ T.vdev.work = S.vdev.work
      BY SMTT(30), <2>0, <2>1, <2>2, <2>6, <2>8 DEF VdevType
    <3>1. IF d.listen_handler = "none"
          THEN T.vdev.listen_handler = "none"
          ELSE /\ T.vdev.listen_handler = "attached" /\ d.listen_handler = "detached"
               /\ T.vdev.released = d.released
      BY SMTT(30), <2>0, <2>6 DEF VdevType, Handler
    <3> HIDE DEF f, e
    <3>2. ASSUME NEW v \in Vring
          PROVE  /\ ~InMsg(S, v) /\ ~Running(S, v) /\ ~S.vring[v].started_in_ctl
                 /\ Life(S, v) /\ MsgInv(S, v)
      BY Zenon, <2>1, NoneCounted DEF Inv
    <3>3. ASSUME NEW v \in Vring
          PROVE  LET r == S.vring[v]
                     t == T.vring[v]
                 IN /\ ~t.kickfd /\ t.shadow_vq = ShadowVqZero /\ t.shadow_vq.log = 0
                    /\ ~t.disconnecting
                    /\ ~t.started_in_ctl /\ (t.started_in_rq <=> r.started_in_rq)
                    /\ t.kick_handler = r.kick_handler
                    /\ (t.on_drain_cb <=> r.on_drain_cb)
                    /\ t.num_in_flight = r.num_in_flight /\ t.queued = r.queued
                    /\ t.vq = r.vq
      <4>1. S.vring[v] \in VringType /\ T.vring[v] = vring_reset(S.vring[v])
        BY Zenon, <2>0, <2>6
      <4> QED
        BY SMTT(30), <4>1, <3>2 DEF vring_reset, VringType, ShadowVqZero
    <3>4. BhsAgree(S, T) /\ BhInv(T)
      BY Zenon, <2>6, SameBhs DEF Inv
    <3>5. ASSUME NEW v \in Vring
          PROVE  /\ ~InMsg(T, v) /\ ~Running(T, v)
      BY Zenon, <3>2, <3>3, <3>4 DEF BhsAgree, VrBhs, InMsg, Running
    <3>6. CountInv(T)
      <4>1. MsgSet(T) = {} /\ RunSet(T) = {} /\ CtlSet(T) = {}
        BY Zenon, <3>3, <3>5 DEF MsgSet, RunSet, CtlSet
      <4> QED
        BY Zenon, <3>0, <4>1, CountFew DEF CountInv
    <3>7. KeptInv(T.vdev) /\ ConnInv(T.vdev)
      BY Zenon, <3>0, <3>1 DEF KeptInv, KeptFor, ConnInv
    <3>8. WorkInv(T)
      BY ZenonT(30), <3>0, <3>1, <3>4, <2>6 DEF Inv, WorkInv, BhsAgree, VrBhs
    <3>9. ASSUME NEW v \in Vring PROVE Life(T, v) /\ MsgInv(T, v) /\ UseInv(T, v)
      <4>1. Life(T, v)
        BY ZenonT(30), <3>2, <3>3, <3>4, <3>5 DEF BhsAgree, VrBhs, Life, InMsg, Running
      <4>2. MsgInv(T, v)
        BY ZenonT(30), <2>1, <2>8, <3>0, <3>1, <3>2, <3>3, <3>4 DEF BhsAgree, VrBhs, MsgInv,
           PartInv, UpInv, DownInv, IdleInv, InMsg, Running
      <4>3. UseInv(T, v)
        BY Zenon, <3>0, <3>3 DEF UseInv
      <4> QED
        BY Zenon, <4>1, <4>2, <4>3
    <3>10. Inv(T)
      BY Zenon, <3>4, <3>6, <3>7, <3>8, <3>9 DEF Inv
    <3> QED
      BY Zenon, <2>6, <2>8, <3>10 DEF Good, T
  <2> QED
    BY Zenon, <2>7, <2>8
<1> SUFFICES ASSUME NEW S \in StateType, S.failed = {}, Inv(S),
                    S.ext \notin {"init", "starting", "start_failed"},
                    S.vdev.listen_handler # "attached"
             PROVE  Good(vdev_maybe_finished(S))
  BY Zenon
<1> DEFINE T == IF S.vdev.num_vrings_started = 0 THEN vdev_vrings_stopped(S) ELSE S
<1>1. S.vdev \in VdevType
  BY Zenon DEF StateType
<1>2. CASE S.vdev.num_vrings_started = 0 /\ S.vdev.listen_handler = "none"
  <2>1. S.vdev.conn_handler = "none"
    BY Zenon, <1>2 DEF Inv, ConnInv
  <2>2. T = vdev_complete_work(S, TRUE)
    BY Zenon, <1>2 DEF vdev_vrings_stopped
  <2>3. /\ T \in StateType /\ T.failed = {} /\ T.ext = "stopped" /\ Inv(T)
        /\ T.vdev = [S.vdev EXCEPT !.work = "none"]
    BY Zenon, <1>2, <2>1, <2>2, <1>CompleteWork
  <2>4. T.vdev.listen_handler = "none"
    BY ZenonT(30), <1>1, <1>2, <2>3 DEF VdevType
  <2>5. CASE vdev_in_use(T)
    <3>1. vdev_maybe_finished(S) = T
      BY Zenon, <2>5 DEF vdev_maybe_finished
    <3> QED
      BY Zenon, <3>1, <2>3 DEF Good
  <2>6. CASE ~vdev_in_use(T)
    <3>1. vdev_maybe_finished(S) = vdev_drained(T)
      BY Zenon, <2>6 DEF vdev_maybe_finished
    <3> HIDE DEF T
    <3>2. Good(vdev_drained(T))
      BY Zenon, <2>3, <2>4, <2>6, <1>DrainedDevice
    <3> QED
      BY Zenon, <3>1, <3>2
  <2> QED
    BY Zenon, <2>5, <2>6
<1>3. CASE ~(S.vdev.num_vrings_started = 0 /\ S.vdev.listen_handler = "none")
  <2>1. T = S
    BY Zenon, <1>3 DEF vdev_vrings_stopped
  <2>2. CASE vdev_in_use(S)
    BY Zenon, <2>1, <2>2 DEF vdev_maybe_finished, Good
  <2>3. CASE ~vdev_in_use(S)
    <3>1. vdev_maybe_finished(S) = vdev_drained(S)
      BY Zenon, <2>1, <2>3 DEF vdev_maybe_finished
    <3>2. S.vdev.listen_handler # "none"
      BY Zenon, <1>3, <2>3 DEF vdev_in_use
    <3> QED
      BY Zenon, <2>3, <3>1, <3>2, <1>DrainedDevice
  <2> QED
    BY Zenon, <2>2, <2>3
<1> QED
  BY Zenon, <1>2, <1>3

(* A connection in use, or a vring not drained, keeps the device as it is. *)
LEMMA NotFinished ==
  ASSUME NEW S, vdev_in_use(S), S.vdev.listen_handler # "none"
  PROVE  vdev_maybe_finished(S) = S
BY Zenon DEF vdev_maybe_finished, vdev_vrings_stopped

-----------------------------------------------------------------------------
(* Queueing and running bottom halves. *)

(* T has the BHs of S, and the one called name for the vrings of V. *)
RqAgree(S, T, name, V) ==
  /\ Working(T, "vdev_start") <=> Working(S, "vdev_start")
  /\ Working(T, "vdev_stop") <=> Working(S, "vdev_stop")
  /\ \A v \in Vring :
       /\ Starting(T, v) <=> Starting(S, v) \/ (name = "vring_start_bh" /\ v \in V)
       /\ Syncing(T, v) <=>
            Syncing(S, v) \/ (name = "vring_sync_to_virtq_bh" /\ v \in V)
       /\ Stopping(T, v) <=> Stopping(S, v) \/ (name = "vring_stop_bh" /\ v \in V)
       /\ Leaving(T, v) <=>
            Leaving(S, v) \/ (name = "vring_stop_bh_disconnect" /\ v \in V)
       /\ Handled(T, v) <=> Handled(S, v)
       /\ Stopped(T, v) <=> Stopped(S, v)
       /\ StoppedQueued(T, v) <=> StoppedQueued(S, v)
       /\ Drained(T, v) <=> Drained(S, v)
       /\ StartFailed(T, v) <=> StartFailed(S, v)

(* BHs name of the vrings V, none of which is queued yet, are queued. *)
Queued(S, T, name, V) ==
  /\ \A v \in V : ~InR(S, name, v)
  /\ T.ctl = S.ctl
  /\ \A r \in Rq : /\ T.rq[r].pending = S.rq[r].pending \cup BhsOf(name, V, r)
                   /\ T.rq[r].batch = S.rq[r].batch

LEMMA QueuedInRq ==
  ASSUME NEW S \in StateType, NEW T, NEW name \in RqBhName,
         NEW V \in SUBSET Vring, Queued(S, T, name, V)
  PROVE  /\ RqAgree(S, T, name, V)
         /\ BhInv(S) => BhInv(T)
<1>1. ASSUME NEW n, NEW v \in Vring
      PROVE  InR(T, n, v) <=> InR(S, n, v) \/ (n = name /\ v \in V)
  <2>1. RqOf[v] \in Rq
    BY Zenon, ConstantsAssumption
  <2>2. <<n, v>> \in BhsOf(name, V, RqOf[v]) <=> n = name /\ v \in V
    BY Zenon DEF BhsOf
  <2>3. /\ T.rq[RqOf[v]].pending = S.rq[RqOf[v]].pending \cup BhsOf(name, V, RqOf[v])
        /\ T.rq[RqOf[v]].batch = S.rq[RqOf[v]].batch
    BY Zenon, <2>1 DEF Queued
  <2> QED
    BY Zenon, <2>2, <2>3 DEF InR
<1>2. \A n, x : InC(T, n, x) <=> InC(S, n, x)
  BY Zenon DEF Queued, InC
<1>3. RqAgree(S, T, name, V)
  BY Zenon, <1>1, <1>2 DEF RqAgree, Queued, Starting, Syncing, Stopping, Leaving, Handled,
     Stopped, StoppedQueued, Drained, StartFailed, Working
<1>4. ASSUME BhInv(S), NEW r \in Rq
      PROVE  /\ T.rq[r].pending \cap T.rq[r].batch = {}
             /\ \A b \in T.rq[r].pending \cup T.rq[r].batch : RqOf[b[2]] = r
  <2>1. /\ T.rq[r].pending = S.rq[r].pending \cup BhsOf(name, V, r)
        /\ T.rq[r].batch = S.rq[r].batch
    BY Zenon DEF Queued
  <2>2. \A b \in BhsOf(name, V, r) : RqOf[b[2]] = r
    BY SMTT(30) DEF BhsOf
  <2>3. BhsOf(name, V, r) \cap S.rq[r].batch = {}
    BY SMTT(30) DEF Queued, InR, BhsOf
  <2> QED
    BY Zenon, <1>4, <2>1, <2>2, <2>3 DEF BhInv
<1> QED
  BY ZenonT(30), <1>3, <1>4 DEF BhInv, Queued

-----------------------------------------------------------------------------
(* Disconnecting. *)

(* The state in which vdev_disconnect looks whether the device is finished. *)
Gone(S) ==
  vhd_run_in_rq([S EXCEPT !.vdev.conn_handler = "none",
                          !.vring = [v \in Vring |-> [S.vring[v] EXCEPT
                             !.disconnecting = @ \/ v \in CtlSet(S)]]],
                "vring_stop_bh_disconnect", CtlSet(S))

(* Two states of a vring that differ in its field disconnecting only. *)
SameVring(r, t) == SameLife(r, t) /\ SameUse(r, t)

LEMMA Disconnected ==
  ASSUME NEW S \in StateType, S.failed = {}, S.vdev.conn_handler # "none",
         \A v \in Vring : ~Leaving(S, v)
  PROVE  /\ vdev_disconnect(S) = vdev_maybe_finished(Gone(S))
         /\ Gone(S) \in StateType /\ Gone(S).failed = {}
         /\ Gone(S).ctl = S.ctl /\ Gone(S).ext = S.ext
         /\ Gone(S).vdev = [S.vdev EXCEPT !.conn_handler = "none"]
         /\ \A v \in Vring : SameVring(S.vring[v], Gone(S).vring[v])
         /\ RqAgree(S, Gone(S), "vring_stop_bh_disconnect", CtlSet(S))
         /\ BhInv(S) => BhInv(Gone(S))
<1> DEFINE R == [v \in Vring |-> [S.vring[v] EXCEPT !.disconnecting = @ \/ v \in CtlSet(S)]]
           T == [S EXCEPT !.vdev.conn_handler = "none", !.vring = R]
           name == "vring_stop_bh_disconnect"
           W == Gone(S)
<1>1. R \in [Vring -> VringType] /\ \A v \in Vring : SameVring(S.vring[v], R[v])
  <2>1. ASSUME NEW v \in Vring
        PROVE  R[v] \in VringType /\ SameVring(S.vring[v], R[v])
    <3>1. S.vring[v] \in VringType
      BY Zenon DEF StateType
    <3>2. R[v] = [S.vring[v] EXCEPT !.disconnecting = @ \/ v \in CtlSet(S)]
      BY Zenon
    <3> HIDE DEF R
    <3> QED
      BY ZenonT(30), <3>1, <3>2 DEF VringType, SameVring, SameLife, SameUse, VqType
  <2>2. R = [v \in Vring |-> R[v]]
    BY Zenon
  <2> HIDE DEF R
  <2> QED
    BY Zenon, <2>1, <2>2
<1>2. [S.vdev EXCEPT !.conn_handler = "none"] \in VdevType
  BY ZenonT(30) DEF StateType, VdevType, Handler
<1>3. /\ T \in StateType /\ T.failed = {} /\ T.ctl = S.ctl /\ T.ext = S.ext
      /\ T.rq = S.rq /\ T.vring = R
      /\ T.vdev = [S.vdev EXCEPT !.conn_handler = "none"]
  <2> HIDE DEF R
  <2> QED
    BY Zenon, <1>1, <1>2 DEF StateType
<1>4. W = vhd_run_in_rq(T, name, CtlSet(S))
  BY Zenon DEF Gone
<1>5. vdev_disconnect(S) = vdev_maybe_finished(W)
  BY Zenon DEF vdev_disconnect, Gone, CtlSet
<1>6. /\ CtlSet(S) \in SUBSET Vring /\ name \in RqBhName
      /\ \A v \in CtlSet(S) : ~InR(S, name, v)
  BY Zenon DEF CtlSet, RqBhName, Leaving
<1>7. \A v \in CtlSet(S) : ~InR(T, name, v)
  BY Zenon, <1>3, <1>6 DEF InR
<1> HIDE DEF R, T, name, W
<1>8. /\ W \in StateType
      /\ W.vdev = T.vdev /\ W.vring = T.vring /\ W.ctl = T.ctl
      /\ W.ext = T.ext /\ W.failed = {}
      /\ \A r \in Rq : /\ W.rq[r].pending = T.rq[r].pending \cup BhsOf(name, CtlSet(S), r)
                       /\ W.rq[r].batch = T.rq[r].batch
  BY SMTT(30), <1>3, <1>4, <1>6, <1>7, RunInRq
<1>9. RqAgree(S, W, name, CtlSet(S)) /\ (BhInv(S) => BhInv(W))
  <2>1. Queued(S, W, name, CtlSet(S))
    BY ZenonT(30), <1>3, <1>6, <1>8 DEF Queued
  <2> QED
    BY ZenonT(30), <1>6, <2>1, QueuedInRq
<1> QED
  BY Zenon, <1>1, <1>3, <1>5, <1>8, <1>9 DEF W, name

(* The client is gone: the started vrings are told to stop. *)
LEMMA DisconnectGood ==
  ASSUME Counting,
         NEW S \in StateType, S.failed = {},
         S.ext \notin {"init", "starting", "start_failed"},
         S.vdev.conn_handler # "none", S.vdev.listen_handler # "attached",
         S.vdev.connfd, S.vdev.timer_handler # "none",
         BhInv(S), CountInv(S), KeptInv(S.vdev), WorkInv(S),
         \A v \in Vring :
           /\ Life(S, v) /\ UseInv(S, v) /\ ~Leaving(S, v)
           /\ Starting(S, v) \/ StartFailed(S, v) =>
                /\ S.vdev.handle_complete = "set_vring_kick"
                /\ \A w \in Vring : InMsg(S, w) => w = v
           /\ S.vring[v].on_drain_cb =>
                /\ S.vdev.num_vrings_handling_msg = 0
                /\ \A w \in Vring : S.vring[w].on_drain_cb => w = v,
         S.vdev.listen_handler = "detached" =>
           /\ S.vdev.num_vrings_handling_msg = 0
           /\ \A v \in Vring :
                /\ ~S.vring[v].on_drain_cb /\ ~Stopping(S, v)
                /\ S.vdev.req = "NONE" /\ S.vring[v].started_in_ctl
                     => S.vring[v].started_in_rq
  PROVE  Good(vdev_disconnect(S))
<1> DEFINE W == Gone(S)
<1>1. /\ vdev_disconnect(S) = vdev_maybe_finished(W)
      /\ W \in StateType /\ W.failed = {} /\ W.ctl = S.ctl /\ W.ext = S.ext
      /\ W.vdev = [S.vdev EXCEPT !.conn_handler = "none"]
      /\ \A v \in Vring : SameVring(S.vring[v], W.vring[v])
      /\ RqAgree(S, W, "vring_stop_bh_disconnect", CtlSet(S))
      /\ BhInv(W)
  BY Zenon, Disconnected
<1> HIDE DEF W
<1>2. S.vdev \in VdevType
  BY Zenon DEF StateType
<1>3. ASSUME NEW v \in Vring
      PROVE  /\ Starting(W, v) <=> Starting(S, v)
             /\ Syncing(W, v) <=> Syncing(S, v)
             /\ Stopping(W, v) <=> Stopping(S, v)
             /\ Leaving(W, v) <=> S.vring[v].started_in_ctl
             /\ Handled(W, v) <=> Handled(S, v)
             /\ Stopped(W, v) <=> Stopped(S, v)
             /\ StoppedQueued(W, v) <=> StoppedQueued(S, v)
             /\ Drained(W, v) <=> Drained(S, v)
             /\ StartFailed(W, v) <=> StartFailed(S, v)
             /\ InMsg(W, v) <=> InMsg(S, v)
             /\ Running(W, v) <=> Running(S, v)
  BY Zenon, <1>1 DEF RqAgree, CtlSet, SameVring, SameLife, InMsg, Running
<1>4. CountInv(W)
  <2>1. MsgSet(W) = MsgSet(S) /\ RunSet(W) = RunSet(S) /\ CtlSet(W) = CtlSet(S)
    BY Zenon, <1>1, <1>3 DEF MsgSet, RunSet, CtlSet, SameVring, SameLife
  <2> QED
    BY ZenonT(30), <1>1, <1>2, <2>1 DEF CountInv, VdevType
<1>5. KeptInv(W.vdev)
  BY SMTT(30), <1>1, <1>2 DEF KeptInv, KeptFor, VdevType
<1>6. ConnInv(W.vdev)
  BY SMTT(30), <1>1, <1>2 DEF ConnInv, VdevType
<1>7. WorkInv(W)
  <2>1. /\ Working(W, "vdev_start") <=> Working(S, "vdev_start")
        /\ Working(W, "vdev_stop") <=> Working(S, "vdev_stop")
    BY Zenon, <1>1 DEF RqAgree
  <2> QED
    BY SMTT(30), <1>1, <1>2, <2>1 DEF WorkInv, VdevType
<1>8. ASSUME NEW v \in Vring PROVE Life(W, v) /\ MsgInv(W, v) /\ UseInv(W, v)
  <2>1. Life(W, v)
    BY SMTT(30), <1>1, <1>3 DEF Life, SameVring, SameLife
  <2>2. MsgInv(W, v)
    BY SMTT(30), <1>1, <1>2, <1>3 DEF MsgInv, PartInv, UpInv, DownInv, IdleInv, SameVring,
       SameLife, SameUse, VdevType
  <2>3. UseInv(W, v)
    <3>1. SameMaps(S.vdev, W.vdev)
      BY ZenonT(30), <1>1, <1>2 DEF VdevType, SameMaps
    <3> QED
      BY Zenon, <1>1, <1>3, <3>1, SameUses DEF SameVring, SameLife
  <2> QED
    BY ZenonT(30), <2>1, <2>2, <2>3
<1>9. W.vdev.listen_handler # "attached"
  BY ZenonT(30), <1>1, <1>2 DEF VdevType
<1>10. Inv(W)
  BY ZenonT(30), <1>1, <1>4, <1>5, <1>6, <1>7, <1>8 DEF Inv
<1> QED
  BY Zenon, <1>1, <1>9, <1>10, MaybeFinished

(* A client that hangs up while no message is in progress. *)
LEMMA HangupGood ==
  ASSUME Counting,
         NEW S \in StateType, S.failed = {}, Inv(S),
         S.vdev.conn_handler = "attached"
  PROVE  Good(vdev_disconnect(S))
<1>1. /\ S.vdev.listen_handler = "detached" /\ S.vdev.connfd
      /\ S.vdev.timer_handler # "none" /\ S.vdev.num_vrings_handling_msg = 0
  BY Zenon DEF Inv, ConnInv
<1>2. S.ext \notin {"init", "starting", "start_failed"}
  BY ZenonT(30) DEF Inv, WorkInv, VdevInit
<1>3. ASSUME NEW v \in Vring
      PROVE  /\ Life(S, v) /\ UseInv(S, v) /\ PartInv(S, v) /\ UpInv(S, v)
             /\ ~InMsg(S, v)
  BY Zenon, <1>1, NoneCounted DEF Inv, MsgInv
<1>4. ASSUME NEW v \in Vring
      PROVE  /\ ~Leaving(S, v) /\ ~S.vring[v].on_drain_cb /\ ~Stopping(S, v)
             /\ S.vring[v].started_in_ctl => S.vring[v].started_in_rq
             /\ ~Starting(S, v) /\ ~StartFailed(S, v)
  BY Zenon, <1>1, <1>3 DEF PartInv, UpInv, InMsg
<1> QED
  BY Zenon, <1>1, <1>2, <1>3, <1>4, DisconnectGood DEF Inv

-----------------------------------------------------------------------------
(* The end of a message. *)

(* The device d after a reply was sent. *)
Replied(d) ==
  [d EXCEPT !.timer_handler = "detached", !.req = "NONE",
            !.conn_handler = IF @ = "none" THEN @ ELSE "attached"]

LEMMA HandleFinish ==
  ASSUME NEW S \in StateType, S.failed = {},
         S.vdev.conn_handler # "attached", S.vdev.timer_handler # "none"
  PROVE  LET T == vdev_handle_finish(S) IN
         /\ T \in StateType
         /\ T.vring = S.vring /\ T.ctl = S.ctl /\ T.rq = S.rq
         /\ T.ext = S.ext /\ T.failed = {}
         /\ T.vdev = Replied(S.vdev)
<1> DEFINE c == IF S.vdev.conn_handler = "none" THEN "none" ELSE "attached"
           T == [S EXCEPT !.vdev.timer_handler = "detached", !.vdev.req = "NONE",
                          !.vdev.conn_handler = c]
<1>1. S.vdev \in VdevType
  BY Zenon DEF StateType
<1>2. vdev_handle_finish(S) = T
  BY Zenon, <1>1 DEF vdev_handle_finish, VHD_ASSERT, StateType, VdevType
<1>3. Replied(S.vdev) = [S.vdev EXCEPT !.timer_handler = "detached", !.req = "NONE",
                                       !.conn_handler = c]
  BY Zenon, <1>1 DEF Replied, VdevType
<1>4. "detached" \in Handler /\ c \in Handler
  BY Zenon DEF Handler
<1> HIDE DEF c
<1>5. Replied(S.vdev) \in VdevType
  BY ZenonT(30), <1>1, <1>3, <1>4 DEF VdevType
<1>6. T.vdev = Replied(S.vdev)
  BY Zenon, <1>1, <1>3 DEF StateType
<1> QED
  BY ZenonT(30), <1>2, <1>5, <1>6 DEF StateType

(* CtlBody: every bottom half of the control loop. *)
LEMMA CtlBhGood ==
  ASSUME Counting
  PROVE  \A S \in StateType : S.failed = {} /\ Inv(S) =>
           \A b \in S.ctl.batch, ok \in BOOLEAN :
             Good(CtlBody([S EXCEPT !.ctl.batch = @ \ {b}], b, ok))
(* T has the BHs of S but b, which runs. *)
<1> DEFINE CtlRuns(S, T, b) ==
             /\ Working(T, "vdev_start") <=>
                  Working(S, "vdev_start") /\ b # <<"work_bh", "vdev_start">>
             /\ Working(T, "vdev_stop") <=>
                  Working(S, "vdev_stop") /\ b # <<"work_bh", "vdev_stop">>
             /\ \A v \in Vring :
                  /\ Starting(T, v) <=> Starting(S, v)
                  /\ Syncing(T, v) <=> Syncing(S, v)
                  /\ Stopping(T, v) <=> Stopping(S, v)
                  /\ Leaving(T, v) <=> Leaving(S, v)
                  /\ Handled(T, v) <=>
                       Handled(S, v) /\ b # <<"vring_mark_msg_handled_bh", v>>
                  /\ Stopped(T, v) <=> Stopped(S, v) /\ b # <<"vring_mark_stopped_bh", v>>
                  /\ StoppedQueued(T, v) <=> StoppedQueued(S, v)
                  /\ Drained(T, v) <=> Drained(S, v) /\ b # <<"vring_mark_drained_bh", v>>
                  /\ StartFailed(T, v) <=>
                       StartFailed(S, v) /\ b # <<"vring_start_failed_bh", v>>
<1> HIDE DEF CtlRuns
<1>RunsInCtl.
  ASSUME NEW S \in StateType, BhInv(S), NEW b \in S.ctl.batch
  PROVE  LET T == [S EXCEPT !.ctl.batch = @ \ {b}] IN
         /\ T \in StateType
         /\ T.vdev = S.vdev /\ T.vring = S.vring /\ T.rq = S.rq
         /\ T.ext = S.ext /\ T.failed = S.failed
         /\ CtlRuns(S, T, b)
         /\ BhInv(T)
  <2> USE <1>RunsInCtl
  <2> DEFINE T == [S EXCEPT !.ctl.batch = @ \ {b}]
  <2>1. /\ T \in StateType
        /\ T.vdev = S.vdev /\ T.vring = S.vring /\ T.rq = S.rq
        /\ T.ext = S.ext /\ T.failed = S.failed
        /\ T.ctl.pending = S.ctl.pending /\ T.ctl.batch = S.ctl.batch \ {b}
    BY Zenon DEF StateType
  <2> HIDE DEF T
  <2>2. \A n, x : InC(T, n, x) <=> InC(S, n, x) /\ b # <<n, x>>
    BY Zenon, <2>1 DEF InC, BhInv
  <2>3. \A n, x : InR(T, n, x) <=> InR(S, n, x)
    BY Zenon, <2>1 DEF InR
  <2>4. CtlRuns(S, T, b)
    BY Zenon, <2>1, <2>2, <2>3 DEF CtlRuns, Starting, Syncing, Stopping, Leaving, Handled,
       Stopped, StoppedQueued, Drained, StartFailed, Working
  <2>5. BhInv(T)
    BY Zenon, <2>1 DEF BhInv
  <2> QED
    BY Zenon, <2>1, <2>4, <2>5 DEF T
(* Start and stop of the device. *)

(* The BH of a work is no BH of a vring. *)
<1>WorkRuns.
  ASSUME NEW S \in StateType, BhInv(S), NEW func \in {"vdev_start", "vdev_stop"},
         <<"work_bh", func>> \in S.ctl.batch
  PROVE  LET T == [S EXCEPT !.ctl.batch = @ \ {<<"work_bh", func>>}] IN
         /\ T \in StateType
         /\ T.vdev = S.vdev /\ T.vring = S.vring /\ T.rq = S.rq
         /\ T.ext = S.ext /\ T.failed = S.failed
         /\ VrBhs(S, T) /\ BhInv(T) /\ Working(S, func) /\ ~Working(T, func)
         /\ \A f \in {"vdev_start", "vdev_stop"} :
              Working(T, f) <=> Working(S, f) /\ f # func
  <2> USE <1>WorkRuns
  <2> DEFINE b == <<"work_bh", func>>
             T == [S EXCEPT !.ctl.batch = @ \ {b}]
  <2>1. /\ T \in StateType
        /\ T.vdev = S.vdev /\ T.vring = S.vring /\ T.rq = S.rq
        /\ T.ext = S.ext /\ T.failed = S.failed
        /\ CtlRuns(S, T, b) /\ BhInv(T)
    <3> HIDE DEF b
    <3> QED
      BY Zenon, <1>RunsInCtl DEF b
  <2> HIDE DEF T
  <2>2. /\ b # <<"work_bh", "vdev_start">> <=> func # "vdev_start"
        /\ b # <<"work_bh", "vdev_stop">> <=> func # "vdev_stop"
        /\ \A v \in Vring : /\ b # <<"vring_mark_msg_handled_bh", v>>
                            /\ b # <<"vring_mark_stopped_bh", v>>
                            /\ b # <<"vring_mark_drained_bh", v>>
                            /\ b # <<"vring_start_failed_bh", v>>
    BY Zenon
  <2>3. Working(S, func)
    BY Zenon DEF Working, InC
  <2> HIDE DEF b
  <2>4. VrBhs(S, T)
    BY Zenon, <2>1, <2>2 DEF CtlRuns, VrBhs
  <2>5. \A f \in {"vdev_start", "vdev_stop"} :
          Working(T, f) <=> Working(S, f) /\ f # func
    BY Zenon, <2>1, <2>2 DEF CtlRuns
  <2> QED
    BY Zenon, <2>1, <2>3, <2>4, <2>5 DEF T, b
(* vhd_vdev_stop_server: the device stops listening and disconnects. *)
<1>StopGood.
  ASSUME NEW S \in StateType, S.failed = {}, Inv(S), NEW ok \in BOOLEAN,
         <<"work_bh", "vdev_stop">> \in S.ctl.batch
  PROVE  Good(vdev_work_fn([S EXCEPT !.ctl.batch = @ \ {<<"work_bh", "vdev_stop">>}],
                           "vdev_stop", ok))
  <2> USE <1>StopGood
  <2> DEFINE Z == [S EXCEPT !.ctl.batch = @ \ {<<"work_bh", "vdev_stop">>}]
             T == [[Z EXCEPT !.vdev.work = "vdev_stop"]
                     EXCEPT !.vdev.listen_handler = "none"]
             M == vdev_work_fn(Z, "vdev_stop", ok)
  <2>1. /\ Z \in StateType
        /\ Z.vdev = S.vdev /\ Z.vring = S.vring /\ Z.rq = S.rq
        /\ Z.ext = S.ext /\ Z.failed = {}
        /\ VrBhs(S, Z) /\ BhInv(Z) /\ Working(S, "vdev_stop") /\ ~Working(Z, "vdev_stop")
        /\ Working(Z, "vdev_start") <=> Working(S, "vdev_start")
    BY Zenon, <1>WorkRuns DEF Inv
  <2> HIDE DEF Z
  <2>2. S.vdev.work = "none" /\ S.ext = "stopping" /\ ~Working(S, "vdev_start")
    BY Zenon, <2>1 DEF Inv, WorkInv
  <2>3. S.vdev \in VdevType /\ Z.vdev \in VdevType
    BY Zenon, <2>1 DEF StateType
  <2>4. M = IF S.vdev.conn_handler # "none" THEN vdev_disconnect(T)
            ELSE vdev_maybe_finished(T)
    BY SMTT(30), <2>1, <2>2, <2>3 DEF vdev_work_fn, vdev_stop, StateType, VdevType
  <2>5. /\ T \in StateType /\ T.vring = S.vring /\ T.ctl = Z.ctl /\ T.rq = Z.rq
        /\ T.ext = "stopping" /\ T.failed = {}
        /\ T.vdev = [S.vdev EXCEPT !.work = "vdev_stop", !.listen_handler = "none"]
    <3>1. [S.vdev EXCEPT !.work = "vdev_stop", !.listen_handler = "none"] \in VdevType
      <4>1. "none" \in Handler
        BY Zenon DEF Handler
      <4> QED
        BY ZenonT(30), <2>3, <4>1 DEF VdevType
    <3>2. T.vdev = [S.vdev EXCEPT !.work = "vdev_stop", !.listen_handler = "none"]
      BY Zenon, <2>1, <2>3 DEF StateType, VdevType
    <3> QED
      BY Zenon, <2>1, <2>2, <3>1, <3>2 DEF StateType
  <2> HIDE DEF T
  <2>6. BhsAgree(Z, T) /\ VrBhs(S, T) /\ BhInv(T)
    BY ZenonT(30), <2>1, <2>5, SameBhs DEF VrBhs
  <2>7. /\ MsgSet(T) = MsgSet(S) /\ RunSet(T) = RunSet(S) /\ CtlSet(T) = CtlSet(S)
        /\ \A v \in Vring : Life(T, v)
    <3>1. \A v \in Vring : SameLife(S.vring[v], T.vring[v])
      BY Zenon, <2>5 DEF SameLife
    <3> QED
      BY Zenon, <2>6, <3>1, SameLives DEF Inv
  <2>8. CountInv(T)
    BY ZenonT(30), <2>3, <2>5, <2>7 DEF Inv, CountInv, VdevType
  <2>9. KeptInv(T.vdev)
    BY SMTT(30), <2>3, <2>5 DEF Inv, KeptInv, KeptFor, VdevType
  <2>10. WorkInv(T)
    BY ZenonT(30), <2>1, <2>2, <2>3, <2>5, <2>6 DEF Inv, WorkInv, VdevType, BhsAgree
  <2>11. ASSUME NEW v \in Vring PROVE UseInv(T, v)
    <3>1. UseInv(S, v)
      BY Zenon DEF Inv
    <3>2. SameMaps(S.vdev, T.vdev)
      BY ZenonT(30), <2>3, <2>5 DEF SameMaps, VdevType
    <3> QED
      BY Zenon, <2>5, <2>6, <3>1, <3>2, SameUses DEF VrBhs, SameUse
  <2>12. T.vdev.listen_handler = "none" /\ T.vdev.conn_handler = S.vdev.conn_handler
    BY ZenonT(30), <2>3, <2>5 DEF VdevType
  <2> HIDE DEF M
  <2>13. ASSUME S.vdev.conn_handler # "none" PROVE Good(M)
    <3>1. T.vdev.connfd /\ T.vdev.timer_handler # "none"
      BY SMTT(30), <2>3, <2>5, <2>13 DEF Inv, ConnInv, VdevType
    <3>2. ASSUME NEW v \in Vring
          PROVE  /\ ~Leaving(T, v)
                 /\ Starting(T, v) \/ StartFailed(T, v) =>
                      /\ T.vdev.handle_complete = "set_vring_kick"
                      /\ \A w \in Vring : InMsg(T, w) => w = v
                 /\ T.vring[v].on_drain_cb =>
                      /\ T.vdev.num_vrings_handling_msg = 0
                      /\ \A w \in Vring : T.vring[w].on_drain_cb => w = v
      BY ZenonT(30), <2>3, <2>5, <2>6, <2>13, SameMsgs DEF Inv, MsgInv, PartInv, UpInv, VdevType, VrBhs
    <3> QED
      BY ZenonT(30), <2>4, <2>5, <2>6, <2>7, <2>8, <2>9, <2>10, <2>11, <2>12, <2>13, <3>1, <3>2,
         DisconnectGood
  <2>14. ASSUME S.vdev.conn_handler = "none" PROVE Good(M)
    <3>1. ConnInv(T.vdev)
      BY SMTT(30), <2>3, <2>5, <2>14 DEF Inv, ConnInv, VdevType
    <3>2. ASSUME NEW v \in Vring PROVE MsgInv(T, v)
      BY SMTT(30), <2>3, <2>5, <2>6, <2>14, SameMsgs DEF Inv, MsgInv, PartInv, UpInv, DownInv,
         IdleInv, VdevType, VrBhs
    <3>3. Inv(T)
      BY ZenonT(30), <2>6, <2>7, <2>8, <2>9, <2>10, <2>11, <3>1, <3>2 DEF Inv
    <3> QED
      BY Zenon, <2>4, <2>5, <2>12, <2>14, <3>3, MaybeFinished
  <2> QED
    BY Zenon, <2>13, <2>14 DEF Z, M
(* vhd_vdev_init_server: the device listens, or its start has failed. *)
<1>StartGood.
  ASSUME NEW S \in StateType, S.failed = {}, Inv(S), NEW ok \in BOOLEAN,
         <<"work_bh", "vdev_start">> \in S.ctl.batch
  PROVE  Good(vdev_work_fn([S EXCEPT !.ctl.batch = @ \ {<<"work_bh", "vdev_start">>}],
                           "vdev_start", ok))
  <2> USE <1>StartGood
  <2> DEFINE Z == [S EXCEPT !.ctl.batch = @ \ {<<"work_bh", "vdev_start">>}]
             M == vdev_work_fn(Z, "vdev_start", ok)
             listen == IF ok THEN "attached" ELSE "none"
             result == IF ok THEN "running" ELSE "start_failed"
  <2>1. /\ Z \in StateType
        /\ Z.vdev = S.vdev /\ Z.vring = S.vring /\ Z.rq = S.rq
        /\ Z.ext = S.ext /\ Z.failed = {}
        /\ VrBhs(S, Z) /\ BhInv(Z) /\ Working(S, "vdev_start") /\ ~Working(Z, "vdev_start")
        /\ Working(Z, "vdev_stop") <=> Working(S, "vdev_stop")
    BY ZenonT(30), <1>WorkRuns DEF Inv
  <2> HIDE DEF Z
  <2>2. /\ S.ext = "starting" /\ ~Working(S, "vdev_stop")
        /\ S.vdev = [VdevInit EXCEPT !.released = S.vdev.released]
        /\ S.vring = [v \in Vring |-> VringInit]
        /\ S.rq = [r \in Rq |-> LoopInit]
        /\ \A v \in Vring : /\ ~Handled(S, v) /\ ~Stopped(S, v)
                            /\ ~Drained(S, v) /\ ~StartFailed(S, v)
    BY Zenon, <2>1 DEF Inv, WorkInv
  <2>3. S.vdev \in VdevType /\ Z.vdev \in VdevType
    BY Zenon, <2>1 DEF StateType
  <2>4. /\ S.vdev.work = "none" /\ S.vdev.conn_handler = "none" /\ ~S.vdev.connfd
        /\ S.vdev.req = "NONE" /\ S.vdev.memmap = 0 /\ S.vdev.memlog = 0
        /\ S.vdev.timer_handler = "none" /\ ~S.vdev.released
        /\ S.vdev.num_vrings_handling_msg = 0 /\ S.vdev.num_vrings_started = 0
        /\ S.vdev.num_vrings_in_flight = 0 /\ S.vdev.listen_handler = "none"
    <3>1. ~S.vdev.released
      BY Zenon, <2>2 DEF Inv, WorkInv
    <3> QED
      BY SMTT(30), <2>2, <3>1 DEF VdevInit
  <2>5. M = [[[Z EXCEPT !.vdev.work = "vdev_start"]
                EXCEPT !.vdev.listen_handler = listen]
               EXCEPT !.ext = result, !.vdev.work = "none"]
    BY ZenonT(30), <2>1, <2>3, <2>4 DEF vdev_work_fn, vdev_start, vdev_complete_work, StateType, VdevType
  <2>6. /\ M \in StateType /\ M.vring = S.vring /\ M.ctl = Z.ctl /\ M.rq = S.rq
        /\ M.ext = result /\ M.failed = {}
        /\ M.vdev = [S.vdev EXCEPT !.listen_handler = listen]
    <3>1. [S.vdev EXCEPT !.listen_handler = listen] \in VdevType
      BY SMTT(30), <2>3 DEF VdevType, Handler
    <3>2. M.vdev = [S.vdev EXCEPT !.listen_handler = listen]
      <4> HIDE DEF M, listen, result
      <4>1. M.vdev = [[[S.vdev EXCEPT !.work = "vdev_start"]
                         EXCEPT !.listen_handler = listen] EXCEPT !.work = "none"]
        BY Zenon, <2>1, <2>5 DEF StateType
      <4> QED
        BY ZenonT(60), <2>3, <2>4, <4>1 DEF VdevType
    <3>3. result \in ExtType
      BY Zenon DEF ExtType
    <3> HIDE DEF M, listen, result
    <3> QED
      BY ZenonT(30), <2>1, <2>5, <3>1, <3>2, <3>3 DEF StateType
  <2> HIDE DEF M
  <2>7. BhsAgree(Z, M) /\ VrBhs(S, M) /\ BhInv(M)
    BY ZenonT(30), <2>1, <2>6, SameBhs DEF VrBhs
  <2>8. /\ MsgSet(M) = MsgSet(S) /\ RunSet(M) = RunSet(S) /\ CtlSet(M) = CtlSet(S)
        /\ \A v \in Vring : Life(M, v)
    <3>1. \A v \in Vring : SameLife(S.vring[v], M.vring[v])
      BY Zenon, <2>6 DEF SameLife
    <3> QED
      BY Zenon, <2>7, <3>1, SameLives DEF Inv
  <2>9. CountInv(M)
    BY ZenonT(30), <2>3, <2>6, <2>8 DEF Inv, CountInv, VdevType
  <2>10. KeptInv(M.vdev)
    BY SMTT(30), <2>3, <2>6 DEF Inv, KeptInv, KeptFor, VdevType
  <2>11. ConnInv(M.vdev)
    BY SMTT(30), <2>3, <2>4, <2>6 DEF ConnInv, VdevType
  <2>12. WorkInv(M)
    <3>1. CASE ok
      BY SMTT(30), <2>1, <2>2, <2>3, <2>4, <2>6, <2>7, <3>1 DEF WorkInv, VdevType, BhsAgree
    <3>2. CASE ~ok
      <4>1. M.vdev = S.vdev
        BY SMTT(30), <2>3, <2>4, <2>6, <3>2 DEF VdevType
      <4> QED
        BY ZenonT(30), <2>1, <2>2, <2>4, <2>6, <2>7, <3>2, <4>1 DEF WorkInv, BhsAgree, VrBhs
    <3> QED
      BY Zenon, <3>1, <3>2
  <2>13. ASSUME NEW v \in Vring PROVE UseInv(M, v) /\ MsgInv(M, v)
    <3>1. UseInv(S, v) /\ SameMaps(S.vdev, M.vdev)
      BY ZenonT(30), <2>3, <2>6 DEF Inv, SameMaps, VdevType
    <3>2. UseInv(M, v)
      BY Zenon, <2>6, <2>7, <3>1, SameUses DEF VrBhs, SameUse
    <3>3. S.vring[v] = VringInit /\ RqOf[v] \in Rq /\ S.rq[RqOf[v]] = LoopInit
      BY Zenon, <2>2, ConstantsAssumption
    <3>4. ~Starting(S, v) /\ ~Stopping(S, v) /\ ~Leaving(S, v)
      BY SMTT(30), <3>3 DEF Starting, Stopping, Leaving, InR, LoopInit
    <3>5. M.vdev.conn_handler = "none" /\ M.vdev.listen_handler # "detached"
      BY ZenonT(30), <2>3, <2>4, <2>6 DEF VdevType
    <3>6. MsgInv(M, v)
      BY SMTT(30), <2>2, <2>6, <2>7, <3>3, <3>4, <3>5 DEF MsgInv, PartInv, UpInv, DownInv,
         IdleInv, VrBhs, VringInit
    <3> QED
      BY Zenon, <3>2, <3>6
  <2> QED
    BY ZenonT(30), <2>6, <2>7, <2>8, <2>9, <2>10, <2>11, <2>12, <2>13 DEF Good, Inv, M, Z
<1>Reply.
  ASSUME NEW S \in StateType, S.failed = {}, NEW sent \in BOOLEAN,
         S.vdev.conn_handler # "attached", S.vdev.timer_handler # "none"
  PROVE  LET R == vhost_reply(S, sent) IN
         /\ R.ok = sent
         /\ R.st \in StateType
         /\ R.st.vring = S.vring /\ R.st.ctl = S.ctl /\ R.st.rq = S.rq
         /\ R.st.ext = S.ext /\ R.st.failed = {}
         /\ R.st.vdev = IF sent THEN Replied(S.vdev) ELSE S.vdev
  BY Zenon, <1>Reply, HandleFinish DEF vhost_reply, Ok, Err
(* The device e after the message d was handling is over. *)
<1> DEFINE Completed(d, e, sent) ==
             /\ e.listen_handler = d.listen_handler /\ (e.connfd <=> d.connfd)
             /\ e.num_vrings_handling_msg = d.num_vrings_handling_msg
             /\ e.num_vrings_started = d.num_vrings_started
             /\ e.num_vrings_in_flight = d.num_vrings_in_flight
             /\ e.memmap = d.memmap /\ e.memlog = d.memlog
             /\ e.work = d.work /\ (e.released <=> d.released)
             /\ e.handle_complete = "none"
             /\ e.old_memmap = 0 /\ e.old_memlog = 0 /\ e.keep_fd = <<>>
             /\ sent => /\ e.timer_handler = "detached" /\ e.req = "NONE"
                        /\ e.conn_handler =
                             IF d.conn_handler = "none" THEN "none" ELSE "attached"
             /\ ~sent => /\ e.timer_handler = d.timer_handler /\ e.req = d.req
                         /\ e.conn_handler = d.conn_handler
<1> HIDE DEF Completed
<1>Completes.
  ASSUME NEW S \in StateType, S.failed = {}, NEW sent \in BOOLEAN,
         S.vdev.conn_handler # "attached", S.vdev.timer_handler # "none",
         KeptFor(S.vdev)
  PROVE  LET C == handle_complete(S, sent)
             U == [C.st EXCEPT !.vdev.handle_complete = "none"]
         IN /\ C.ok = sent
            /\ U \in StateType
            /\ U.vring = S.vring /\ U.ctl = S.ctl /\ U.rq = S.rq
            /\ U.ext = S.ext /\ U.failed = {}
            /\ Completed(S.vdev, U.vdev, sent)
  <2> USE <1>Completes
  <2> DEFINE d == S.vdev
             C == handle_complete(S, sent)
             U == [C.st EXCEPT !.vdev.handle_complete = "none"]
             e == [d EXCEPT !.old_memmap = 0, !.old_memlog = 0, !.keep_fd = <<>>]
             X == [S EXCEPT !.vdev = e]
  <2>1. d \in VdevType /\ 0 \in Id /\ <<>> \in KeepFd
    BY SMTT(30), ConstantsAssumption DEF StateType, Id, KeepFd
  <2>2. e \in VdevType /\ e.conn_handler # "attached" /\ e.timer_handler # "none"
    BY ZenonT(30), <2>1 DEF VdevType
  <2>3. X \in StateType /\ X.vdev = e /\ X.failed = {} /\ X.vring = S.vring
        /\ X.ctl = S.ctl /\ X.rq = S.rq /\ X.ext = S.ext
    <3> HIDE DEF e
    <3> QED
      BY Zenon, <2>2 DEF StateType
  <2>4. C = vhost_reply(X, sent)
    <3>1. CASE d.handle_complete = "set_mem_table"
      <4>1. [S EXCEPT !.vdev.old_memmap = 0] = X
        <5>1. [d EXCEPT !.old_memmap = 0] = e
          BY Zenon, <2>1, <3>1 DEF KeptFor, VdevType
        <5> HIDE DEF e
        <5> QED
          BY Zenon, <5>1 DEF StateType
      <4> QED
        BY Zenon, <3>1, <4>1 DEF handle_complete, set_mem_table_complete, vhost_ack
    <3>2. CASE d.handle_complete = "set_log_base"
      <4>1. [S EXCEPT !.vdev.old_memlog = 0] = X
        <5>1. [d EXCEPT !.old_memlog = 0] = e
          BY Zenon, <2>1, <3>2 DEF KeptFor, VdevType
        <5> HIDE DEF e
        <5> QED
          BY Zenon, <5>1 DEF StateType
      <4> QED
        BY Zenon, <3>2, <4>1 DEF handle_complete, set_log_base_complete
    <3>3. CASE d.handle_complete = "set_vring_fd"
      <4>1. [S EXCEPT !.vdev.keep_fd = <<>>] = X
        <5>1. [d EXCEPT !.keep_fd = <<>>] = e
          BY Zenon, <2>1, <3>3 DEF KeptFor, VdevType
        <5> HIDE DEF e
        <5> QED
          BY Zenon, <5>1 DEF StateType
      <4> QED
        BY Zenon, <3>3, <4>1 DEF handle_complete, set_vring_call_complete, vhost_ack
    <3>4. CASE d.handle_complete \notin {"set_mem_table", "set_log_base", "set_vring_fd"}
      <4>1. S = X
        <5>1. d = e
          BY Zenon, <2>1, <3>4 DEF KeptFor, VdevType
        <5> HIDE DEF e
        <5> QED
          BY Zenon, <5>1 DEF StateType
      <4> QED
        BY Zenon, <3>4, <4>1 DEF handle_complete, vhost_ack
    <3> QED
      BY Zenon, <3>1, <3>2, <3>3, <3>4
  <2> HIDE DEF X, C
  <2>5. /\ C.ok = sent /\ C.st \in StateType
        /\ C.st.vring = S.vring /\ C.st.ctl = S.ctl /\ C.st.rq = S.rq
        /\ C.st.ext = S.ext /\ C.st.failed = {}
        /\ C.st.vdev = IF sent THEN Replied(e) ELSE e
    <3> HIDE DEF e
    <3> QED
      BY ZenonT(30), <2>2, <2>3, <2>4, <1>Reply
  <2>6. /\ U \in StateType
        /\ U.vring = S.vring /\ U.ctl = S.ctl /\ U.rq = S.rq
        /\ U.ext = S.ext /\ U.failed = {}
        /\ U.vdev = [C.st.vdev EXCEPT !.handle_complete = "none"]
    <3>1. C.st.vdev \in VdevType
      BY Zenon, <2>5 DEF StateType
    <3>2. [C.st.vdev EXCEPT !.handle_complete = "none"] \in VdevType
      BY ZenonT(30), <3>1 DEF VdevType
    <3> QED
      BY Zenon, <2>5, <3>2 DEF StateType
  <2> HIDE DEF U
  <2>7. Completed(d, U.vdev, sent)
    <3>1. CASE sent
      <4>1. U.vdev = [Replied(e) EXCEPT !.handle_complete = "none"]
        BY Zenon, <2>5, <2>6, <3>1
      <4> QED
        BY SMTT(30), <2>1, <3>1, <4>1 DEF Completed, Replied, VdevType
    <3>2. CASE ~sent
      <4>1. U.vdev = [e EXCEPT !.handle_complete = "none"]
        BY Zenon, <2>5, <2>6, <3>2
      <4> QED
        BY SMTT(30), <2>1, <3>2, <4>1 DEF Completed, VdevType
    <3> QED
      BY Zenon, <3>1, <3>2
  <2> QED
    BY Zenon, <2>5, <2>6, <2>7 DEF U, C
(* The last part of a message is over: it is completed. *)
<1>LastHandled.
  ASSUME NEW S \in StateType, S.failed = {}, NEW sent \in BOOLEAN,
         S.vdev.num_vrings_handling_msg = 1, S.vdev.handle_complete # "none",
         S.vdev.conn_handler # "attached", S.vdev.timer_handler # "none",
         KeptFor(S.vdev)
  PROVE  \E U \in StateType :
           /\ vring_mark_msg_handled(S, sent) =
                IF sent THEN U ELSE vdev_disconnect(U)
           /\ U.vring = S.vring /\ U.ctl = S.ctl /\ U.rq = S.rq
           /\ U.ext = S.ext /\ U.failed = {}
           /\ Completed([S.vdev EXCEPT !.num_vrings_handling_msg = 0], U.vdev, sent)
  <2> USE <1>LastHandled
  <2> DEFINE d == [S.vdev EXCEPT !.num_vrings_handling_msg = 0]
             T == [S EXCEPT !.vdev = d]
             C == handle_complete(T, sent)
             U == [C.st EXCEPT !.vdev.handle_complete = "none"]
  <2>1. /\ d \in VdevType /\ KeptFor(d) /\ d.handle_complete # "none"
        /\ d.conn_handler # "attached" /\ d.timer_handler # "none"
        /\ d.num_vrings_handling_msg = 0
    BY ZenonT(30) DEF StateType, VdevType, KeptFor
  <2>2. [S EXCEPT !.vdev.num_vrings_handling_msg = @ - 1] = T
    <3>1. [S.vdev EXCEPT !.num_vrings_handling_msg = @ - 1] = d
      BY SMTT(30) DEF StateType, VdevType
    <3> HIDE DEF d
    <3> QED
      BY Zenon, <3>1 DEF StateType
  <2> HIDE DEF d
  <2>3. /\ T \in StateType /\ T.vdev = d /\ T.failed = {}
        /\ T.vring = S.vring /\ T.ctl = S.ctl /\ T.rq = S.rq /\ T.ext = S.ext
    BY Zenon, <2>1 DEF StateType
  <2> HIDE DEF T
  <2>4. vring_mark_msg_handled(S, sent) = IF C.ok THEN U ELSE vdev_disconnect(U)
    <3>1. VHD_ASSERT([S EXCEPT !.vdev.num_vrings_handling_msg = @ - 1],
                     S.vdev.num_vrings_handling_msg > 0, "handling_msg") = T
      BY SMTT(30), <2>2 DEF VHD_ASSERT
    <3>2. VHD_ASSERT(T, T.vdev.handle_complete # "none", "handle_complete") = T
      BY Zenon, <2>1, <2>3 DEF VHD_ASSERT
    <3> QED
      BY ZenonT(30), <2>1, <2>3, <3>1, <3>2 DEF vring_mark_msg_handled
  <2>5. /\ C.ok = sent
        /\ U \in StateType
        /\ U.vring = T.vring /\ U.ctl = T.ctl /\ U.rq = T.rq
        /\ U.ext = T.ext /\ U.failed = {}
        /\ Completed(T.vdev, U.vdev, sent)
    BY Zenon, <2>1, <2>3, <1>Completes
  <2> HIDE DEF U, C
  <2> QED
    BY ZenonT(30), <2>3, <2>4, <2>5 DEF d
(* vring_mark_msg_handled_bh: a vring has handled its part of a message. *)
<1>HandledGood.
  ASSUME NEW S \in StateType, S.failed = {}, Inv(S), NEW sent \in BOOLEAN,
         NEW v \in Vring, <<"vring_mark_msg_handled_bh", v>> \in S.ctl.batch
  PROVE  Good(vring_mark_msg_handled(
           [S EXCEPT !.ctl.batch = @ \ {<<"vring_mark_msg_handled_bh", v>>}], sent))
  <2> USE <1>HandledGood
  <2> DEFINE b == <<"vring_mark_msg_handled_bh", v>>
             Z == [S EXCEPT !.ctl.batch = @ \ {b}]
             M == vring_mark_msg_handled(Z, sent)
             n == S.vdev.num_vrings_handling_msg
  <2>0. /\ \A f : b # <<"work_bh", f>>
        /\ \A w : /\ b # <<"vring_mark_stopped_bh", w>>
                  /\ b # <<"vring_mark_drained_bh", w>>
                  /\ b # <<"vring_start_failed_bh", w>>
                  /\ b = <<"vring_mark_msg_handled_bh", w>> <=> w = v
        /\ Handled(S, v)
    BY Zenon DEF Handled, InC
  <2> HIDE DEF b
  <2>1. /\ Z \in StateType
        /\ Z.vdev = S.vdev /\ Z.vring = S.vring /\ Z.rq = S.rq
        /\ Z.ext = S.ext /\ Z.failed = {}
        /\ CtlRuns(S, Z, b) /\ BhInv(Z)
    BY Zenon, <1>RunsInCtl DEF Inv, b
  <2> HIDE DEF Z
  <2>2. ASSUME NEW w \in Vring
        PROVE  /\ Starting(Z, w) <=> Starting(S, w)
               /\ Syncing(Z, w) <=> Syncing(S, w)
               /\ Stopping(Z, w) <=> Stopping(S, w)
               /\ Leaving(Z, w) <=> Leaving(S, w)
               /\ Handled(Z, w) <=> Handled(S, w) /\ w # v
               /\ Stopped(Z, w) <=> Stopped(S, w)
               /\ StoppedQueued(Z, w) <=> StoppedQueued(S, w)
               /\ Drained(Z, w) <=> Drained(S, w)
               /\ StartFailed(Z, w) <=> StartFailed(S, w)
    BY Zenon, <2>0, <2>1 DEF CtlRuns
  <2>3. /\ Working(Z, "vdev_start") <=> Working(S, "vdev_start")
        /\ Working(Z, "vdev_stop") <=> Working(S, "vdev_stop")
    BY Zenon, <2>0, <2>1 DEF CtlRuns
  <2>4. ASSUME NEW w \in Vring
        PROVE  Life(S, w) /\ PartInv(S, w) /\ UpInv(S, w) /\ DownInv(S, w) /\ IdleInv(S, w)
               /\ UseInv(S, w)
    BY Zenon DEF Inv, MsgInv
  <2>5. S.vdev \in VdevType /\ CountInv(S) /\ KeptInv(S.vdev) /\ ConnInv(S.vdev)
        /\ WorkInv(S)
    BY Zenon DEF Inv, StateType
  <2>6. /\ InMsg(S, v) /\ ~Starting(S, v) /\ ~Syncing(S, v) /\ ~StartFailed(S, v)
        /\ n \in Nat /\ n # 0 /\ n = Cardinality(MsgSet(S))
    <3>1. InMsg(S, v) /\ ~Starting(S, v) /\ ~Syncing(S, v) /\ ~StartFailed(S, v)
      BY Zenon, <2>0, <2>4 DEF Life, InMsg
    <3>2. v \in MsgSet(S) /\ MsgSet(S) \in SUBSET Vring
      BY Zenon, <3>1 DEF MsgSet
    <3> QED
      BY Zenon, <2>5, <3>1, <3>2, CountLess DEF CountInv
  <2>7. /\ S.vdev.handle_complete # "none" /\ S.vdev.conn_handler # "attached"
        /\ S.vdev.connfd /\ S.vdev.timer_handler # "none"
        /\ S.vdev.listen_handler # "attached"
        /\ ~(S.vdev.listen_handler = "detached" /\ S.vdev.conn_handler = "none")
        /\ S.ext \notin {"init", "starting", "start_failed"}
    BY Zenon, <2>0, <2>5, <2>6 DEF KeptInv, ConnInv, WorkInv
  <2>8. ASSUME NEW w \in Vring
        PROVE  ~Starting(S, w) /\ ~StartFailed(S, w) /\ ~S.vring[w].on_drain_cb
    BY Zenon, <2>4, <2>6 DEF PartInv
  <2>9. MsgSet(Z) = MsgSet(S) \ {v} /\ RunSet(Z) = RunSet(S) /\ CtlSet(Z) = CtlSet(S)
    <3>1. ASSUME NEW w \in Vring
          PROVE  /\ InMsg(Z, w) <=> InMsg(S, w) /\ w # v
                 /\ Running(Z, w) <=> Running(S, w)
      BY Zenon, <2>1, <2>2, <2>6 DEF InMsg, Running
    <3> QED
      BY Zenon, <2>1, <3>1 DEF MsgSet, RunSet, CtlSet
  <2>10. Cardinality(MsgSet(Z)) = n - 1
    <3>1. v \in MsgSet(S) /\ MsgSet(S) \in SUBSET Vring
      BY Zenon, <2>6 DEF MsgSet
    <3> QED
      BY Zenon, <2>6, <2>9, <3>1, CountLess
  <2> HIDE DEF M
  <2>11. ASSUME n # 1 PROVE Good(M)
    <3> DEFINE d == [S.vdev EXCEPT !.num_vrings_handling_msg = n - 1]
               T == [Z EXCEPT !.vdev = d]
    <3>1. d \in VdevType /\ d.num_vrings_handling_msg = n - 1 /\ n - 1 # 0
      BY SMTT(30), <2>5, <2>6, <2>11 DEF VdevType
    <3>2. [Z EXCEPT !.vdev.num_vrings_handling_msg = @ - 1] = T
      <4>1. [S.vdev EXCEPT !.num_vrings_handling_msg = @ - 1] = d
        BY Zenon, <2>5 DEF VdevType
      <4> HIDE DEF d
      <4> QED
        BY Zenon, <2>1, <4>1 DEF StateType
    <3>3. KeptInv(d) /\ ConnInv(d) /\ SameMaps(S.vdev, d)
          /\ d.num_vrings_started = S.vdev.num_vrings_started
          /\ d.num_vrings_in_flight = S.vdev.num_vrings_in_flight
          /\ d.work = S.vdev.work /\ d.listen_handler = S.vdev.listen_handler
          /\ (d.released <=> S.vdev.released) /\ d.conn_handler = S.vdev.conn_handler
          /\ d.memmap = S.vdev.memmap /\ d.req = S.vdev.req
      BY SMTT(30), <2>5, <2>7, <3>1 DEF KeptInv, KeptFor, ConnInv, SameMaps, VdevType
    <3> HIDE DEF d
    <3>4. /\ T \in StateType /\ T.vdev = d /\ T.vring = S.vring /\ T.ctl = Z.ctl
          /\ T.rq = Z.rq /\ T.ext = S.ext /\ T.failed = {}
      BY Zenon, <2>1, <3>1 DEF StateType
    <3> HIDE DEF T
    <3>5. M = T
      <4>1. VHD_ASSERT([Z EXCEPT !.vdev.num_vrings_handling_msg = @ - 1],
                       Z.vdev.num_vrings_handling_msg > 0, "handling_msg") = T
        BY SMTT(30), <2>1, <2>6, <3>2 DEF VHD_ASSERT
      <4> QED
        BY Zenon, <3>1, <3>4, <4>1 DEF vring_mark_msg_handled, M
    <3>6. BhsAgree(Z, T) /\ VrBhs(Z, T) /\ BhInv(T)
      BY Zenon, <2>1, <3>4, SameBhs
    <3>7. MsgSet(T) = MsgSet(Z) /\ RunSet(T) = RunSet(Z) /\ CtlSet(T) = CtlSet(Z)
      BY Zenon, <2>1, <3>4, SameVrings
    <3>8. CountInv(T)
      BY ZenonT(30), <2>5, <2>9, <2>10, <3>1, <3>3, <3>4, <3>7 DEF CountInv
    <3>9. WorkInv(T)
      BY ZenonT(30), <2>3, <2>5, <2>7, <3>3, <3>4, <3>6 DEF WorkInv, BhsAgree
    <3>10. ASSUME NEW w \in Vring PROVE Life(T, w) /\ MsgInv(T, w) /\ UseInv(T, w)
      <4>1. Life(T, w)
        BY ZenonT(30), <2>2, <2>4, <3>4, <3>6 DEF VrBhs, Life, Running
      <4>2. MsgInv(T, w)
        <5>1. PartInv(T, w)
          BY ZenonT(30), <2>2, <2>4, <2>7, <2>8, <3>3, <3>4, <3>6 DEF VrBhs, MsgInv, PartInv
        <5>2. UpInv(T, w)
          BY ZenonT(30), <2>2, <2>4, <2>7, <2>8, <3>3, <3>4, <3>6 DEF VrBhs, MsgInv, UpInv
        <5>3. DownInv(T, w)
          BY ZenonT(30), <2>2, <2>4, <2>7, <2>8, <3>3, <3>4, <3>6 DEF VrBhs, MsgInv, DownInv
        <5>4. IdleInv(T, w)
          BY ZenonT(30), <2>2, <2>4, <2>7, <2>8, <3>3, <3>4, <3>6 DEF VrBhs, MsgInv, IdleInv
        <5> QED
          BY Zenon, <5>1, <5>2, <5>3, <5>4 DEF MsgInv
      <4>3. UseInv(T, w)
        BY ZenonT(30), <2>2, <2>4, <3>3, <3>4, <3>6, SameUses DEF VrBhs, SameUse
      <4> QED
        BY Zenon, <4>1, <4>2, <4>3
    <3> QED
      BY ZenonT(30), <3>3, <3>4, <3>5, <3>6, <3>8, <3>9, <3>10 DEF Good, Inv
  <2>12. ASSUME n = 1 PROVE Good(M)
    <3> DEFINE d == [S.vdev EXCEPT !.num_vrings_handling_msg = 0]
    <3>1. PICK U \in StateType :
             /\ M = IF sent THEN U ELSE vdev_disconnect(U)
             /\ U.vring = Z.vring /\ U.ctl = Z.ctl /\ U.rq = Z.rq
             /\ U.ext = Z.ext /\ U.failed = {}
             /\ Completed(d, U.vdev, sent)
      BY SMTT(30), <2>1, <2>5, <2>7, <2>12, <1>LastHandled DEF KeptInv, M
    <3>2. /\ d.num_vrings_handling_msg = 0
          /\ d.num_vrings_started = S.vdev.num_vrings_started
          /\ d.num_vrings_in_flight = S.vdev.num_vrings_in_flight
          /\ d.work = S.vdev.work /\ d.listen_handler = S.vdev.listen_handler
          /\ (d.released <=> S.vdev.released) /\ d.conn_handler = S.vdev.conn_handler
          /\ d.timer_handler = S.vdev.timer_handler /\ (d.connfd <=> S.vdev.connfd)
          /\ d.memmap = S.vdev.memmap /\ d.req = S.vdev.req /\ d.memlog = S.vdev.memlog
      BY Zenon, <2>5 DEF VdevType
    <3> HIDE DEF d
    <3>3. BhsAgree(Z, U) /\ VrBhs(Z, U) /\ BhInv(U)
      BY Zenon, <2>1, <3>1, SameBhs
    <3>4. MsgSet(U) = MsgSet(Z) /\ RunSet(U) = RunSet(Z) /\ CtlSet(U) = CtlSet(Z)
      BY ZenonT(30), <2>1, <3>1, SameVrings
    <3>5. CountInv(U)
      BY SMTT(30), <2>5, <2>9, <2>10, <2>12, <3>1, <3>2, <3>4 DEF CountInv, Completed
    <3>6. KeptInv(U.vdev)
      BY ZenonT(30), <3>1, <3>2 DEF KeptInv, KeptFor, Completed
    <3>7. WorkInv(U)
      BY SMTT(30), <2>1, <2>3, <2>5, <2>7, <3>1, <3>2, <3>3 DEF WorkInv, BhsAgree, Completed
    <3>8. ASSUME NEW w \in Vring PROVE ~InMsg(U, w) /\ ~Syncing(U, w)
      <4>1. U.vdev.num_vrings_handling_msg = 0
        BY Zenon, <3>1, <3>2 DEF Completed
      <4> QED
        BY Zenon, <3>5, <4>1, NoneCounted DEF InMsg
    <3>9. ASSUME NEW w \in Vring PROVE Life(U, w)
      BY ZenonT(30), <2>1, <2>2, <2>4, <3>1, <3>3 DEF VrBhs, Life, Running
    <3>10. ASSUME NEW w \in Vring PROVE UseInv(U, w)
      <4>1. ~Syncing(S, w) /\ ~Starting(S, w)
        BY ZenonT(30), <2>2, <2>8, <3>3, <3>8 DEF VrBhs
      <4>2. ~Starting(U, w)
        BY Zenon, <2>2, <3>3, <4>1 DEF VrBhs
      <4>3. /\ U.vdev.memmap = S.vdev.memmap /\ U.vdev.memlog = S.vdev.memlog
            /\ U.vring = S.vring
        BY ZenonT(30), <2>1, <3>1, <3>2 DEF Completed
      <4> QED
        BY ZenonT(30), <2>4, <3>8, <4>1, <4>2, <4>3 DEF UseInv
    <3>11. ASSUME sent \/ S.vdev.conn_handler = "none" PROVE Good(M)
      <4>1. M = U
        BY ZenonT(30), <3>1, <3>2, <3>11 DEF vdev_disconnect, Completed
      <4>2. ConnInv(U.vdev)
        BY SMTT(30), <2>5, <2>7, <3>1, <3>2, <3>11 DEF ConnInv, Completed
      <4>3. ASSUME NEW w \in Vring PROVE MsgInv(U, w)
        <5>1. /\ U.vdev.memmap = S.vdev.memmap /\ U.vring = S.vring
              /\ U.vdev.listen_handler = S.vdev.listen_handler
              /\ U.vdev.conn_handler # "none" <=> S.vdev.conn_handler # "none"
          BY ZenonT(30), <2>1, <3>1, <3>2 DEF Completed
        <5>2. PartInv(U, w)
          BY Zenon, <2>2, <2>8, <3>3, <5>1 DEF VrBhs, PartInv
        <5>3. UpInv(U, w)
          BY Zenon, <2>2, <2>4, <3>3, <5>1 DEF VrBhs, UpInv
        <5>4. DownInv(U, w) /\ IdleInv(U, w)
          BY Zenon, <2>7, <5>1 DEF DownInv, IdleInv
        <5> QED
          BY Zenon, <5>2, <5>3, <5>4 DEF MsgInv
      <4> QED
        BY Zenon, <3>1, <3>3, <3>5, <3>6, <3>7, <3>9, <3>10, <4>1, <4>2, <4>3 DEF Good, Inv
    <3>12. ASSUME ~sent, S.vdev.conn_handler # "none" PROVE Good(M)
      <4>1. M = vdev_disconnect(U)
        BY ZenonT(30), <3>1, <3>12
      <4>2. /\ U.vdev.conn_handler # "none" /\ U.vdev.listen_handler # "attached"
            /\ U.vdev.connfd /\ U.vdev.timer_handler # "none" /\ U.vdev.req # "NONE"
            /\ U.vdev.num_vrings_handling_msg = 0
            /\ U.ext \notin {"init", "starting", "start_failed"}
        BY SMTT(30), <2>1, <2>5, <2>7, <3>1, <3>2, <3>12 DEF Completed, ConnInv, VdevType, Handler
      <4>3. ASSUME NEW w \in Vring
            PROVE /\ ~Leaving(U, w) /\ ~Starting(U, w) /\ ~StartFailed(U, w)
                  /\ ~U.vring[w].on_drain_cb /\ ~Stopping(U, w)
        BY ZenonT(30), <2>1, <2>2, <2>4, <2>8, <3>1, <3>3, <3>12 DEF VrBhs, UpInv
      <4> QED
        BY ZenonT(30), <3>1, <3>3, <3>5, <3>6, <3>7, <3>9, <3>10, <4>1, <4>2, <4>3, DisconnectGood
    <3> QED
      BY Zenon, <3>11, <3>12
  <2> QED
    BY Zenon, <2>11, <2>12 DEF M, Z, b
(* The other bottom halves of the control loop. *)

(* T has the BHs of S but the one called name about v, which runs. *)
<1> DEFINE CtlRan(S, T, name, v) ==
             /\ Working(T, "vdev_start") <=> Working(S, "vdev_start")
             /\ Working(T, "vdev_stop") <=> Working(S, "vdev_stop")
             /\ \A w \in Vring :
                  /\ Starting(T, w) <=> Starting(S, w)
                  /\ Syncing(T, w) <=> Syncing(S, w)
                  /\ Stopping(T, w) <=> Stopping(S, w)
                  /\ Leaving(T, w) <=> Leaving(S, w)
                  /\ Handled(T, w) <=>
                       Handled(S, w) /\ ~(name = "vring_mark_msg_handled_bh" /\ w = v)
                  /\ Stopped(T, w) <=>
                       Stopped(S, w) /\ ~(name = "vring_mark_stopped_bh" /\ w = v)
                  /\ StoppedQueued(T, w) <=> StoppedQueued(S, w)
                  /\ Drained(T, w) <=>
                       Drained(S, w) /\ ~(name = "vring_mark_drained_bh" /\ w = v)
                  /\ StartFailed(T, w) <=>
                       StartFailed(S, w) /\ ~(name = "vring_start_failed_bh" /\ w = v)
<1> HIDE DEF CtlRan
<1>CtlRun.
  ASSUME NEW S \in StateType, BhInv(S), NEW name \in CtlBhName, NEW v \in Vring,
         <<name, v>> \in S.ctl.batch
  PROVE  LET T == [S EXCEPT !.ctl.batch = @ \ {<<name, v>>}] IN
         /\ T \in StateType
         /\ T.vdev = S.vdev /\ T.vring = S.vring /\ T.rq = S.rq
         /\ T.ext = S.ext /\ T.failed = S.failed
         /\ CtlRan(S, T, name, v) /\ BhInv(T) /\ InC(S, name, v)
  <2> USE <1>CtlRun
  <2> DEFINE b == <<name, v>>
             T == [S EXCEPT !.ctl.batch = @ \ {b}]
  <2>1. /\ T \in StateType
        /\ T.vdev = S.vdev /\ T.vring = S.vring /\ T.rq = S.rq
        /\ T.ext = S.ext /\ T.failed = S.failed
        /\ CtlRuns(S, T, b) /\ BhInv(T)
    <3> HIDE DEF b
    <3> QED
      BY Zenon, <1>RunsInCtl DEF b
  <2> HIDE DEF T
  <2>2. /\ b # <<"work_bh", "vdev_start">> /\ b # <<"work_bh", "vdev_stop">>
        /\ \A n, w : b # <<n, w>> <=> ~(name = n /\ w = v)
    BY Zenon DEF CtlBhName
  <2>3. InC(S, name, v)
    BY Zenon DEF InC
  <2> HIDE DEF b
  <2>4. CtlRan(S, T, name, v)
    BY Zenon, <2>1, <2>2 DEF CtlRuns, CtlRan
  <2> QED
    BY Zenon, <2>1, <2>3, <2>4 DEF T, b
(* vring_mark_stopped_bh: a vring has acknowledged that it is stopped. *)
<1>StoppedGood.
  ASSUME NEW S \in StateType, S.failed = {}, Inv(S),
         NEW v \in Vring, <<"vring_mark_stopped_bh", v>> \in S.ctl.batch
  PROVE  Good(vring_mark_stopped(
           [S EXCEPT !.ctl.batch = @ \ {<<"vring_mark_stopped_bh", v>>}], v))
  <2> USE <1>StoppedGood
  <2> DEFINE name == "vring_mark_stopped_bh"
             Z == [S EXCEPT !.ctl.batch = @ \ {<<name, v>>}]
             n == S.vdev.num_vrings_started
             d == [S.vdev EXCEPT !.num_vrings_started = n - 1]
             x == [S.vring[v] EXCEPT !.kickfd = FALSE]
             Y == [Z EXCEPT !.vring[v] = x, !.vdev = d]
  <2>1. /\ Z \in StateType
        /\ Z.vdev = S.vdev /\ Z.vring = S.vring /\ Z.rq = S.rq
        /\ Z.ext = S.ext /\ Z.failed = {}
        /\ CtlRan(S, Z, name, v) /\ BhInv(Z) /\ Stopped(S, v)
    BY ZenonT(30), <1>CtlRun DEF Inv, CtlBhName, Stopped
  <2> HIDE DEF Z
  <2>2. ASSUME NEW w \in Vring
        PROVE  /\ Starting(Z, w) <=> Starting(S, w)
               /\ Syncing(Z, w) <=> Syncing(S, w)
               /\ Stopping(Z, w) <=> Stopping(S, w)
               /\ Leaving(Z, w) <=> Leaving(S, w)
               /\ Handled(Z, w) <=> Handled(S, w)
               /\ Stopped(Z, w) <=> Stopped(S, w) /\ w # v
               /\ StoppedQueued(Z, w) <=> StoppedQueued(S, w)
               /\ Drained(Z, w) <=> Drained(S, w)
               /\ StartFailed(Z, w) <=> StartFailed(S, w)
    BY Zenon, <2>1 DEF CtlRan
  <2>3. /\ Working(Z, "vdev_start") <=> Working(S, "vdev_start")
        /\ Working(Z, "vdev_stop") <=> Working(S, "vdev_stop")
    BY Zenon, <2>1 DEF CtlRan
  <2>4. ASSUME NEW w \in Vring
        PROVE  Life(S, w) /\ MsgInv(S, w) /\ UseInv(S, w)
    BY Zenon DEF Inv
  <2>5. S.vdev \in VdevType /\ CountInv(S) /\ KeptInv(S.vdev) /\ ConnInv(S.vdev)
        /\ WorkInv(S) /\ S.vring[v] \in VringType
    BY Zenon DEF Inv, StateType
  <2>6. /\ Running(S, v) /\ ~Starting(S, v) /\ ~StartFailed(S, v)
        /\ ~S.vring[v].started_in_rq
    BY ZenonT(30), <2>1, <2>4 DEF Life, Running
  <2>7. /\ n \in Nat /\ n # 0 /\ n = Cardinality(RunSet(S))
        /\ Cardinality(RunSet(S) \ {v}) = n - 1
    <3>1. v \in RunSet(S) /\ RunSet(S) \in SUBSET Vring
      BY Zenon, <2>6 DEF RunSet
    <3> QED
      BY Zenon, <2>5, <3>1, CountLess DEF CountInv
  <2>8. S.vdev.connfd /\ S.vdev.listen_handler # "attached"
        /\ S.ext \notin {"init", "starting", "start_failed"}
    BY Zenon, <2>1, <2>5, <2>7 DEF ConnInv, WorkInv
  <2>9. /\ d \in VdevType /\ d.num_vrings_started = n - 1
        /\ KeptInv(d) /\ ConnInv(d) /\ SameMaps(S.vdev, d)
        /\ d.num_vrings_handling_msg = S.vdev.num_vrings_handling_msg
        /\ d.num_vrings_in_flight = S.vdev.num_vrings_in_flight
        /\ d.work = S.vdev.work /\ d.listen_handler = S.vdev.listen_handler
        /\ (d.released <=> S.vdev.released) /\ d.conn_handler = S.vdev.conn_handler
        /\ d.memmap = S.vdev.memmap /\ d.req = S.vdev.req
        /\ d.handle_complete = S.vdev.handle_complete
    <3>1. n - 1 \in Nat
      BY SMTT(30), <2>7
    <3>2. d \in VdevType /\ d.num_vrings_started = n - 1
      BY ZenonT(30), <2>5, <3>1 DEF VdevType
    <3>3. KeptInv(d) /\ ConnInv(d) /\ SameMaps(S.vdev, d)
      BY ZenonT(30), <2>5, <2>8 DEF KeptInv, KeptFor, ConnInv, SameMaps, VdevType
    <3> QED
      BY Zenon, <2>5, <3>2, <3>3 DEF VdevType
  <2>10. /\ x \in VringType /\ ~x.kickfd
         /\ (x.started_in_ctl <=> S.vring[v].started_in_ctl)
         /\ x.kick_handler = S.vring[v].kick_handler
         /\ (x.on_drain_cb <=> S.vring[v].on_drain_cb)
         /\ (x.started_in_rq <=> S.vring[v].started_in_rq)
         /\ (x.disconnecting <=> S.vring[v].disconnecting)
         /\ x.num_in_flight = S.vring[v].num_in_flight
         /\ x.queued = S.vring[v].queued
         /\ SameUse(S.vring[v], x)
    BY ZenonT(30), <2>5 DEF VringType, SameUse
  <2>11. [Z EXCEPT !.vring[v].kickfd = FALSE, !.vdev.num_vrings_started = @ - 1] = Y
    BY Zenon, <2>1 DEF StateType
  <2>12. vring_mark_stopped(Z, v) = vdev_maybe_finished(Y)
    <3>1. VHD_ASSERT([Z EXCEPT !.vring[v].kickfd = FALSE, !.vdev.num_vrings_started = @ - 1],
                     Z.vdev.num_vrings_started > 0, "started") = Y
      BY SMTT(30), <2>1, <2>7, <2>11 DEF VHD_ASSERT
    <3> QED
      BY Zenon, <3>1 DEF vring_mark_stopped
  <2> HIDE DEF d, x
  <2>13. /\ Y \in StateType /\ Y.vdev = d /\ Y.ctl = Z.ctl /\ Y.rq = Z.rq
         /\ Y.ext = S.ext /\ Y.failed = {}
         /\ Y.vring[v] = x /\ \A w \in Vring : w # v => Y.vring[w] = S.vring[w]
    BY ZenonT(30), <2>1, <2>9, <2>10 DEF StateType
  <2> HIDE DEF Y
  <2>14. BhsAgree(Z, Y) /\ VrBhs(Z, Y) /\ BhInv(Y)
    BY ZenonT(30), <2>1, <2>13, SameBhs
  <2>15. ASSUME NEW w \in Vring
         PROVE  /\ InMsg(Y, w) <=> InMsg(S, w)
                /\ Running(Y, w) <=> Running(S, w) /\ w # v
                /\ Y.vring[w].started_in_ctl <=> S.vring[w].started_in_ctl
    BY ZenonT(30), <2>2, <2>6, <2>10, <2>13, <2>14 DEF VrBhs, InMsg, Running
  <2>16. MsgSet(Y) = MsgSet(S) /\ RunSet(Y) = RunSet(S) \ {v} /\ CtlSet(Y) = CtlSet(S)
    BY Zenon, <2>15 DEF MsgSet, RunSet, CtlSet
  <2>17. CountInv(Y)
    BY ZenonT(30), <2>5, <2>7, <2>9, <2>13, <2>16 DEF CountInv
  <2>18. WorkInv(Y)
    BY ZenonT(30), <2>3, <2>5, <2>7, <2>8, <2>9, <2>13, <2>14 DEF WorkInv, BhsAgree
  <2>19. ASSUME NEW w \in Vring PROVE Life(Y, w) /\ MsgInv(Y, w) /\ UseInv(Y, w)
    <3>1. Life(Y, w)
      <4>1. CASE w = v
        BY ZenonT(30), <2>2, <2>4, <2>6, <2>10, <2>13, <2>14, <4>1 DEF VrBhs, Life, SameUse
      <4>2. CASE w # v
        BY ZenonT(30), <2>2, <2>4, <2>13, <2>14, <2>15, <4>2 DEF VrBhs, Life
      <4> QED
        BY Zenon, <4>1, <4>2
    <3>2. /\ \A u \in Vring : Y.vring[u].on_drain_cb <=> S.vring[u].on_drain_cb
          /\ Y.vring[w].started_in_rq <=> S.vring[w].started_in_rq
          /\ Y.vring[w].disconnecting <=> S.vring[w].disconnecting
          /\ SameUse(S.vring[w], Y.vring[w])
      BY ZenonT(30), <2>10, <2>13 DEF SameUse
    <3>3. MsgInv(Y, w)
      <4>1. PartInv(Y, w)
        BY ZenonT(30), <2>2, <2>4, <2>9, <2>13, <2>14, <2>15, <3>2 DEF VrBhs, MsgInv, PartInv
      <4>2. UpInv(Y, w)
        BY ZenonT(30), <2>2, <2>4, <2>9, <2>13, <2>14, <2>15, <3>2 DEF VrBhs, MsgInv, UpInv, SameUse
      <4>3. DownInv(Y, w) /\ IdleInv(Y, w)
        BY ZenonT(60), <2>2, <2>4, <2>8, <2>9, <2>13, <2>14, <3>2 DEF VrBhs, MsgInv, DownInv, IdleInv
      <4> QED
        BY Zenon, <4>1, <4>2, <4>3 DEF MsgInv
    <3>4. UseInv(Y, w)
      BY Zenon, <2>2, <2>4, <2>9, <2>13, <2>14, <2>15, <3>2, SameUses DEF VrBhs
    <3> QED
      BY Zenon, <3>1, <3>3, <3>4
  <2>20. Inv(Y)
    BY Zenon, <2>9, <2>13, <2>14, <2>17, <2>18, <2>19 DEF Inv
  <2> QED
    BY ZenonT(30), <2>8, <2>9, <2>12, <2>13, <2>20, MaybeFinished DEF Z
(* The end of vring_mark_drained: the virtq is released, and not counted. *)
<1> DEFINE Release(S, v) ==
             LET D == VHD_ASSERT([S EXCEPT !.vring[v].vq = VqZero],
                                 S.vring[v].vq.buffers, "virtq_release")
             IN vdev_maybe_finished(
                  VHD_ASSERT([D EXCEPT !.vdev.num_vrings_in_flight = @ - 1],
                             D.vdev.num_vrings_in_flight > 0, "in_flight"))
<1> HIDE DEF Release
(* A vring that has drained, before its virtq is released. *)
<1> DEFINE Off(S, v) ==
             LET r == S.vring[v] IN
               /\ ~Starting(S, v) /\ ~StartFailed(S, v) /\ ~Drained(S, v)
               /\ ~StoppedQueued(S, v) /\ (Syncing(S, v) => ~Handled(S, v))
               /\ ~r.started_in_rq /\ ~r.started_in_ctl /\ ~r.on_drain_cb
               /\ r.num_in_flight = 0 /\ r.queued = 0 /\ r.kick_handler = "none"
               /\ r.vq.buffers /\ (r.kickfd => Running(S, v))
               /\ r.shadow_vq.log \in {0, S.vdev.memlog}
<1> HIDE DEF Off
<1>Released.
  ASSUME NEW S \in StateType, S.failed = {}, NEW v \in Vring,
         S.ext \notin {"init", "starting", "start_failed"},
         S.vdev.listen_handler # "attached",
         BhInv(S), KeptInv(S.vdev), ConnInv(S.vdev), WorkInv(S),
         S.vdev.num_vrings_handling_msg = Cardinality(MsgSet(S)),
         S.vdev.num_vrings_started = Cardinality(RunSet(S)),
         S.vdev.num_vrings_in_flight = Cardinality(CtlSet(S)) + 1,
         Off(S, v),
         \A w \in Vring : MsgInv(S, w) /\ (w # v => Life(S, w) /\ UseInv(S, w))
  PROVE  Good(Release(S, v))
  <2> USE <1>Released
  <2> DEFINE n == S.vdev.num_vrings_in_flight
             d == [S.vdev EXCEPT !.num_vrings_in_flight = n - 1]
             x == [S.vring[v] EXCEPT !.vq = VqZero]
             D == [S EXCEPT !.vring[v].vq = VqZero]
             E == [D EXCEPT !.vdev = d]
  <2>1. S.vdev \in VdevType /\ S.vring[v] \in VringType
    BY Zenon DEF StateType
  <2>2. Cardinality(CtlSet(S)) \in Nat
    <3>1. CtlSet(S) \in SUBSET Vring
      BY Zenon DEF CtlSet
    <3> QED
      BY Zenon, <3>1, CountType
  <2>3. n \in Nat /\ n > 0 /\ n - 1 = Cardinality(CtlSet(S)) /\ n - 1 \in Nat
    BY SMTT(30), <2>2
  <2>4. S.vdev.connfd
    BY SMTT(30), <2>3 DEF ConnInv
  <2>5. /\ d \in VdevType /\ d.num_vrings_in_flight = n - 1
        /\ KeptInv(d) /\ ConnInv(d) /\ SameMaps(S.vdev, d)
        /\ d.num_vrings_handling_msg = S.vdev.num_vrings_handling_msg
        /\ d.num_vrings_started = S.vdev.num_vrings_started
        /\ d.work = S.vdev.work /\ d.listen_handler = S.vdev.listen_handler
        /\ (d.released <=> S.vdev.released) /\ d.conn_handler = S.vdev.conn_handler
        /\ d.memmap = S.vdev.memmap /\ d.req = S.vdev.req /\ d.memlog = S.vdev.memlog
        /\ d.handle_complete = S.vdev.handle_complete
    <3>1. d \in VdevType /\ d.num_vrings_in_flight = n - 1
      BY ZenonT(30), <2>1, <2>3 DEF VdevType
    <3>2. KeptInv(d) /\ ConnInv(d) /\ SameMaps(S.vdev, d)
      BY ZenonT(30), <2>1, <2>4 DEF KeptInv, KeptFor, ConnInv, SameMaps, VdevType
    <3> QED
      BY ZenonT(30), <2>1, <3>1, <3>2 DEF VdevType
  <2>6. /\ x \in VringType
        /\ (x.kickfd <=> S.vring[v].kickfd)
        /\ (x.started_in_ctl <=> S.vring[v].started_in_ctl)
        /\ x.kick_handler = S.vring[v].kick_handler
        /\ (x.on_drain_cb <=> S.vring[v].on_drain_cb)
        /\ (x.started_in_rq <=> S.vring[v].started_in_rq)
        /\ (x.disconnecting <=> S.vring[v].disconnecting)
        /\ x.num_in_flight = S.vring[v].num_in_flight
        /\ x.queued = S.vring[v].queued
        /\ x.shadow_vq = S.vring[v].shadow_vq
        /\ ~x.vq.buffers
    <3>1. VqZero \in VqType /\ ~VqZero.buffers
      BY SMTT(30), ConstantsAssumption DEF VqZero, VqType, Id
    <3> QED
      BY ZenonT(30), <2>1, <3>1 DEF VringType
  <2>7. /\ D \in StateType /\ D.vdev = S.vdev /\ D.vring[v] = x
        /\ \A w \in Vring : w # v => D.vring[w] = S.vring[w]
        /\ D.ctl = S.ctl /\ D.rq = S.rq /\ D.ext = S.ext /\ D.failed = {}
    <3>1. D = [S EXCEPT !.vring[v] = x]
      BY Zenon DEF StateType
    <3> HIDE DEF D, x
    <3> QED
      BY Zenon, <2>6, <3>1 DEF StateType
  <2> HIDE DEF D
  <2>8. Release(S, v) = vdev_maybe_finished(E)
    <3>1. VHD_ASSERT([S EXCEPT !.vring[v].vq = VqZero], S.vring[v].vq.buffers,
                     "virtq_release") = D
      BY Zenon DEF VHD_ASSERT, D, Off
    <3>2. [D EXCEPT !.vdev.num_vrings_in_flight = @ - 1] = E
      BY Zenon, <2>7 DEF StateType
    <3>3. VHD_ASSERT([D EXCEPT !.vdev.num_vrings_in_flight = @ - 1],
                     D.vdev.num_vrings_in_flight > 0, "in_flight") = E
      BY Zenon, <2>3, <2>7, <3>2 DEF VHD_ASSERT
    <3> QED
      BY ZenonT(30), <3>1, <3>3 DEF Release
  <2> HIDE DEF d, x
  <2>9. /\ E \in StateType /\ E.vdev = d /\ E.ctl = S.ctl /\ E.rq = S.rq
        /\ E.ext = S.ext /\ E.failed = {}
        /\ E.vring[v] = x /\ \A w \in Vring : w # v => E.vring[w] = S.vring[w]
    BY Zenon, <2>5, <2>7 DEF StateType
  <2> HIDE DEF E
  <2>10. BhsAgree(S, E) /\ VrBhs(S, E) /\ BhInv(E)
    BY Zenon, <2>9, SameBhs
  <2>11. ASSUME NEW w \in Vring
         PROVE  /\ InMsg(E, w) <=> InMsg(S, w)
                /\ Running(E, w) <=> Running(S, w)
                /\ E.vring[w].started_in_ctl <=> S.vring[w].started_in_ctl
                /\ E.vring[w].on_drain_cb <=> S.vring[w].on_drain_cb
                /\ E.vring[w].started_in_rq <=> S.vring[w].started_in_rq
                /\ E.vring[w].disconnecting <=> S.vring[w].disconnecting
                /\ E.vring[w].shadow_vq = S.vring[w].shadow_vq
    BY ZenonT(30), <2>6, <2>9, <2>10 DEF VrBhs, InMsg, Running
  <2>12. MsgSet(E) = MsgSet(S) /\ RunSet(E) = RunSet(S) /\ CtlSet(E) = CtlSet(S)
    BY Zenon, <2>11 DEF MsgSet, RunSet, CtlSet
  <2>13. CountInv(E)
    BY ZenonT(30), <2>3, <2>5, <2>9, <2>12 DEF CountInv
  <2>14. WorkInv(E)
    BY ZenonT(30), <2>5, <2>9, <2>10 DEF WorkInv, BhsAgree
  <2>15. ASSUME NEW w \in Vring PROVE Life(E, w) /\ MsgInv(E, w) /\ UseInv(E, w)
    <3>1. Life(E, w)
      <4>1. CASE w = v
        <5>1. /\ ~Starting(E, v) /\ ~StartFailed(E, v) /\ ~Drained(E, v)
              /\ ~StoppedQueued(E, v) /\ (Syncing(E, v) => ~Handled(E, v))
          BY Zenon, <2>10 DEF VrBhs, Off
        <5>2. /\ ~E.vring[v].started_in_rq /\ ~E.vring[v].started_in_ctl
              /\ ~E.vring[v].on_drain_cb /\ ~E.vring[v].vq.buffers
              /\ E.vring[v].num_in_flight = 0 /\ E.vring[v].queued = 0
              /\ E.vring[v].kick_handler = "none"
              /\ (E.vring[v].kickfd => Running(E, v))
          BY ZenonT(30), <2>6, <2>9, <2>11 DEF Off
        <5> QED
          BY SMTT(30), <4>1, <5>1, <5>2 DEF Life
      <4>2. CASE w # v
        BY ZenonT(60), <2>9, <2>10, <2>11, <4>2 DEF VrBhs, Life
      <4> QED
        BY ZenonT(30), <4>1, <4>2
    <3>2. MsgInv(E, w)
      <4>1. PartInv(E, w)
        BY ZenonT(30), <2>5, <2>9, <2>10, <2>11 DEF VrBhs, MsgInv, PartInv
      <4>2. UpInv(E, w)
        <5>1. /\ UpInv(S, w) /\ E.vdev.memmap = S.vdev.memmap
              /\ E.vdev.conn_handler = S.vdev.conn_handler
          BY Zenon, <2>5, <2>9 DEF MsgInv
        <5>2. /\ Leaving(E, w) <=> Leaving(S, w)
              /\ Stopping(E, w) <=> Stopping(S, w)
              /\ Starting(E, w) <=> Starting(S, w)
              /\ StartFailed(E, w) <=> StartFailed(S, w)
          BY Zenon, <2>10 DEF VrBhs
        <5> QED
          BY ZenonT(30), <2>11, <5>1, <5>2 DEF UpInv
      <4>3. DownInv(E, w) /\ IdleInv(E, w)
        BY SMTT(30), <2>5, <2>9, <2>10, <2>11 DEF VrBhs, MsgInv, DownInv, IdleInv
      <4> QED
        BY Zenon, <4>1, <4>2, <4>3 DEF MsgInv
    <3>3. UseInv(E, w)
      <4>1. CASE w = v
        BY ZenonT(30), <2>5, <2>6, <2>9, <4>1 DEF UseInv, Off
      <4>2. CASE w # v
        BY ZenonT(30), <2>5, <2>9, <2>10, <4>2, SameUses DEF VrBhs, SameUse
      <4> QED
        BY Zenon, <4>1, <4>2
    <3> QED
      BY Zenon, <3>1, <3>2, <3>3
  <2>16. Inv(E)
    BY ZenonT(30), <2>5, <2>9, <2>10, <2>13, <2>14, <2>15 DEF Inv
  <2> QED
    BY Zenon, <2>5, <2>8, <2>9, <2>16, MaybeFinished
(* Two devices that agree but for the handlers and the request. *)
<1> DEFINE SameDev(d, e) ==
             /\ e.listen_handler = d.listen_handler /\ (e.connfd <=> d.connfd)
             /\ e.num_vrings_handling_msg = d.num_vrings_handling_msg
             /\ e.num_vrings_started = d.num_vrings_started
             /\ e.num_vrings_in_flight = d.num_vrings_in_flight
             /\ e.handle_complete = d.handle_complete
             /\ e.work = d.work /\ (e.released <=> d.released)
             /\ SameMaps(d, e)
<1> HIDE DEF SameDev
<1>RepliedSame.
  ASSUME NEW d \in VdevType
  PROVE  /\ SameDev(d, Replied(d)) /\ Replied(d).memmap = d.memmap
         /\ Replied(d).listen_handler = d.listen_handler
         /\ Replied(d).conn_handler # "none" <=> d.conn_handler # "none"
  <2>1. /\ SameDev(d, Replied(d)) /\ Replied(d).memmap = d.memmap
        /\ Replied(d).listen_handler = d.listen_handler
    BY ZenonT(30), <1>RepliedSame DEF SameDev, SameMaps, Replied, VdevType
  <2>2. Replied(d).conn_handler = IF d.conn_handler = "none" THEN "none" ELSE "attached"
    BY ZenonT(30), <1>RepliedSame DEF Replied, VdevType
  <2> QED
    BY SMTT(30), <2>1, <2>2
(* A vring whose virtq is about to be released, before and after. *)
<1> DEFINE SwitchedOff(r, t) ==
             /\ SameUse(r, t) /\ ~t.started_in_ctl /\ ~t.on_drain_cb
             /\ t.kick_handler = r.kick_handler
             /\ t.started_in_rq <=> r.started_in_rq
             /\ t.num_in_flight = r.num_in_flight /\ t.queued = r.queued
             /\ t.kickfd <=> r.kickfd
<1> HIDE DEF SwitchedOff
<1>DrainStep.
  ASSUME NEW S \in StateType, S.failed = {}, Inv(S), NEW v \in Vring,
         <<"vring_mark_drained_bh", v>> \in S.ctl.batch,
         NEW T \in StateType, T.ext = S.ext, SameDev(S.vdev, T.vdev),
         SwitchedOff(S.vring[v], T.vring[v]),
         \A w \in Vring : w # v => SameVring(S.vring[w], T.vring[w]),
         Working(T, "vdev_start") <=> Working(S, "vdev_start"),
         Working(T, "vdev_stop") <=> Working(S, "vdev_stop"),
         \A w \in Vring :
           /\ Starting(T, w) <=> Starting(S, w)
           /\ Syncing(T, w) <=> Syncing(S, w)
           /\ Handled(T, w) <=> Handled(S, w)
           /\ Stopped(T, w) <=> Stopped(S, w)
           /\ StoppedQueued(T, w) <=> StoppedQueued(S, w)
           /\ Drained(T, w) <=> Drained(S, w) /\ w # v
           /\ StartFailed(T, w) <=> StartFailed(S, w)
  PROVE  /\ T.ext \notin {"init", "starting", "start_failed"}
         /\ T.vdev.listen_handler # "attached"
         /\ KeptInv(T.vdev) /\ WorkInv(T) /\ Off(T, v)
         /\ T.vdev.num_vrings_handling_msg = Cardinality(MsgSet(T))
         /\ T.vdev.num_vrings_started = Cardinality(RunSet(T))
         /\ T.vdev.num_vrings_in_flight = Cardinality(CtlSet(T)) + 1
         /\ \A w \in Vring : /\ InMsg(T, w) <=> InMsg(S, w)
                             /\ w # v => Life(T, w) /\ UseInv(T, w)
  <2> USE <1>DrainStep
  <2>1. Drained(S, v) /\ ~StoppedQueued(S, v)
    BY Zenon DEF Inv, BhInv, Drained, StoppedQueued, InC
  <2>2. /\ Life(S, v) /\ UseInv(S, v) /\ S.vring[v] \in VringType
        /\ CountInv(S) /\ KeptInv(S.vdev) /\ ConnInv(S.vdev) /\ WorkInv(S)
    BY Zenon DEF Inv, StateType
  <2>3. /\ ~Starting(S, v) /\ ~StartFailed(S, v)
        /\ S.vring[v].started_in_ctl /\ ~S.vring[v].started_in_rq
        /\ S.vring[v].num_in_flight = 0 /\ S.vring[v].queued <= 0
        /\ S.vring[v].kick_handler = "none" /\ S.vring[v].vq.buffers
        /\ (S.vring[v].kickfd => Running(S, v))
        /\ (Syncing(S, v) => ~Handled(S, v))
        /\ S.vring[v].shadow_vq.log \in {0, S.vdev.memlog}
    BY ZenonT(30), <2>1, <2>2 DEF Life, UseInv
  <2>4. S.vring[v].queued = 0
    <3>1. S.vring[v].queued \in 0 .. client.max_req
      BY Zenon, <2>2 DEF VringType
    <3> QED
      BY SMTT(30), <2>3, <3>1
  <2>5. ASSUME NEW w \in Vring
        PROVE  /\ InMsg(T, w) <=> InMsg(S, w)
               /\ Running(T, w) <=> Running(S, w)
               /\ T.vring[w].started_in_ctl <=> S.vring[w].started_in_ctl /\ w # v
    BY Zenon DEF SameVring, SameLife, SwitchedOff, InMsg, Running
  <2>6. /\ MsgSet(T) = MsgSet(S) /\ RunSet(T) = RunSet(S)
        /\ CtlSet(T) = CtlSet(S) \ {v}
    BY ZenonT(30), <2>5 DEF MsgSet, RunSet, CtlSet
  <2>7. /\ S.vdev.num_vrings_in_flight = Cardinality(CtlSet(T)) + 1
        /\ S.vdev.num_vrings_in_flight # 0
    <3>1. v \in CtlSet(S) /\ CtlSet(S) \in SUBSET Vring
      BY Zenon, <2>3 DEF CtlSet
    <3> QED
      BY SMTT(30), <2>2, <2>6, <3>1, CountLess DEF CountInv
  <2>8. S.ext \notin {"init", "starting", "start_failed"}
        /\ S.vdev.listen_handler # "attached"
    BY ZenonT(30), <2>1, <2>2, <2>7 DEF WorkInv, ConnInv
  <2>9. KeptInv(T.vdev)
    BY ZenonT(30), <2>2 DEF KeptInv, KeptFor, SameDev, SameMaps
  <2>10. WorkInv(T)
    BY ZenonT(30), <2>2, <2>8 DEF WorkInv, SameDev
  <2>11. Off(T, v)
    BY ZenonT(30), <2>1, <2>3, <2>4, <2>5 DEF Off, SwitchedOff, SameUse, SameDev, SameMaps
  <2>12. ASSUME NEW w \in Vring, w # v PROVE Life(T, w) /\ UseInv(T, w)
    <3>1. Life(S, w) /\ UseInv(S, w) /\ SameVring(S.vring[w], T.vring[w])
      BY Zenon, <2>12 DEF Inv
    <3>2. Life(T, w)
      BY ZenonT(30), <2>5, <2>12, <3>1 DEF Life, SameVring, SameLife
    <3>3. UseInv(T, w)
      BY ZenonT(30), <2>12, <3>1, SameUses DEF SameVring, SameLife, SameDev
    <3> QED
      BY Zenon, <3>2, <3>3
  <2> QED
    BY ZenonT(30), <2>2, <2>5, <2>6, <2>7, <2>8, <2>9, <2>10, <2>11, <2>12 DEF SameDev, CountInv
<1>MarkDrained.
  ASSUME NEW S, NEW v, NEW sent, NEW A,
         VHD_ASSERT([S EXCEPT !.vring[v].started_in_ctl = FALSE],
                    S.vring[v].started_in_ctl, "drained") = A
  PROVE  LET R == vhost_reply(A, sent)
             B == [R.st EXCEPT !.vring[v].on_drain_cb = FALSE]
             C == IF ~S.vring[v].on_drain_cb THEN A
                  ELSE IF R.ok THEN B ELSE vdev_disconnect(B)
         IN vring_mark_drained(S, v, sent) = Release(C, v)
  <2> USE <1>MarkDrained
  <2> DEFINE A0 == VHD_ASSERT([S EXCEPT !.vring[v].started_in_ctl = FALSE],
                              S.vring[v].started_in_ctl, "drained")
             R(a) == vhost_reply(a, sent)
             B(a) == [R(a).st EXCEPT !.vring[v].on_drain_cb = FALSE]
             C(a) == IF ~S.vring[v].on_drain_cb THEN a
                     ELSE IF R(a).ok THEN B(a) ELSE vdev_disconnect(B(a))
  <2>1. vring_mark_drained(S, v, sent) = Release(C(A0), v)
    BY Zenon DEF vring_mark_drained, Release
  <2>2. A0 = A
    BY Zenon
  <2> HIDE DEF A0, C
  <2>3. vring_mark_drained(S, v, sent) = Release(C(A), v)
    BY Zenon, <2>1, <2>2
  <2> QED
    BY ZenonT(30), <2>3 DEF C
(* vring_mark_drained_bh: the last request of a stopped vring is over. *)
<1>DrainedGood.
  ASSUME NEW S \in StateType, S.failed = {}, Inv(S), NEW sent \in BOOLEAN,
         NEW v \in Vring, <<"vring_mark_drained_bh", v>> \in S.ctl.batch
  PROVE  Good(vring_mark_drained(
           [S EXCEPT !.ctl.batch = @ \ {<<"vring_mark_drained_bh", v>>}], v, sent))
  <2> USE <1>DrainedGood
  <2> DEFINE name == "vring_mark_drained_bh"
             Z == [S EXCEPT !.ctl.batch = @ \ {<<name, v>>}]
             x == [S.vring[v] EXCEPT !.started_in_ctl = FALSE]
             y == [x EXCEPT !.on_drain_cb = FALSE]
             A == [Z EXCEPT !.vring[v].started_in_ctl = FALSE]
             R == vhost_reply(A, sent)
             B == [R.st EXCEPT !.vring[v].on_drain_cb = FALSE]
             M == vring_mark_drained(Z, v, sent)
  <2>1. /\ Z \in StateType
        /\ Z.vdev = S.vdev /\ Z.vring = S.vring /\ Z.rq = S.rq
        /\ Z.ext = S.ext /\ Z.failed = {}
        /\ CtlRan(S, Z, name, v) /\ BhInv(Z) /\ Drained(S, v)
    BY ZenonT(30), <1>CtlRun DEF Inv, CtlBhName, Drained
  <2> HIDE DEF Z
  <2>2. ASSUME NEW w \in Vring
        PROVE  /\ Starting(Z, w) <=> Starting(S, w)
               /\ Syncing(Z, w) <=> Syncing(S, w)
               /\ Stopping(Z, w) <=> Stopping(S, w)
               /\ Leaving(Z, w) <=> Leaving(S, w)
               /\ Handled(Z, w) <=> Handled(S, w)
               /\ Stopped(Z, w) <=> Stopped(S, w)
               /\ StoppedQueued(Z, w) <=> StoppedQueued(S, w)
               /\ Drained(Z, w) <=> Drained(S, w) /\ w # v
               /\ StartFailed(Z, w) <=> StartFailed(S, w)
    BY Zenon, <2>1 DEF CtlRan
  <2>3. /\ Working(Z, "vdev_start") <=> Working(S, "vdev_start")
        /\ Working(Z, "vdev_stop") <=> Working(S, "vdev_stop")
    BY Zenon, <2>1 DEF CtlRan
  <2>4. ASSUME NEW w \in Vring
        PROVE  Life(S, w) /\ PartInv(S, w) /\ UpInv(S, w) /\ DownInv(S, w) /\ IdleInv(S, w)
    BY Zenon DEF Inv, MsgInv
  <2>5. S.vdev \in VdevType /\ CountInv(S) /\ KeptInv(S.vdev) /\ ConnInv(S.vdev)
        /\ S.vring[v] \in VringType
    BY Zenon DEF Inv, StateType
  <2>6. /\ S.vring[v].started_in_ctl /\ ~S.vring[v].started_in_rq
        /\ S.vdev.num_vrings_in_flight # 0
        /\ S.vdev.connfd /\ S.vdev.timer_handler # "none"
        /\ S.vdev.listen_handler # "attached"
    <3>1. S.vring[v].started_in_ctl /\ ~S.vring[v].started_in_rq
      BY Zenon, <2>1, <2>4 DEF Life
    <3>2. S.vdev.num_vrings_in_flight # 0
      BY ZenonT(30), <2>5, <3>1, NoneCounted
    <3> QED
      BY ZenonT(30), <2>5, <3>1, <3>2 DEF ConnInv
  <2>7. /\ x \in VringType /\ SameUse(S.vring[v], x) /\ ~x.started_in_ctl
        /\ (x.on_drain_cb <=> S.vring[v].on_drain_cb)
        /\ x.kick_handler = S.vring[v].kick_handler
        /\ (x.started_in_rq <=> S.vring[v].started_in_rq)
        /\ (x.disconnecting <=> S.vring[v].disconnecting)
        /\ x.num_in_flight = S.vring[v].num_in_flight
        /\ x.queued = S.vring[v].queued /\ (x.kickfd <=> S.vring[v].kickfd)
    BY ZenonT(30), <2>5 DEF VringType, SameUse
  <2>8. /\ y \in VringType /\ SwitchedOff(S.vring[v], y)
        /\ (y.disconnecting <=> S.vring[v].disconnecting)
    BY ZenonT(30), <2>5 DEF VringType, SameUse, SwitchedOff
  <2>9. /\ A \in StateType /\ A.vdev = S.vdev /\ A.ctl = Z.ctl /\ A.rq = Z.rq
        /\ A.ext = S.ext /\ A.failed = {}
        /\ A.vring[v] = x /\ \A w \in Vring : w # v => A.vring[w] = S.vring[w]
    <3>1. A = [Z EXCEPT !.vring[v] = x]
      BY ZenonT(30), <2>1 DEF StateType
    <3> HIDE DEF A, x
    <3> QED
      BY ZenonT(30), <2>1, <2>7, <3>1 DEF StateType
  <2>10. VHD_ASSERT([Z EXCEPT !.vring[v].started_in_ctl = FALSE],
                    Z.vring[v].started_in_ctl, "drained") = A
    BY ZenonT(30), <2>1, <2>6 DEF VHD_ASSERT
  <2>11. M = Release(IF ~S.vring[v].on_drain_cb THEN A
                     ELSE IF R.ok THEN B ELSE vdev_disconnect(B), v)
    <3> HIDE DEF A
    <3>1. M = Release(IF ~Z.vring[v].on_drain_cb THEN A
                      ELSE IF R.ok THEN B ELSE vdev_disconnect(B), v)
      BY <2>10, <1>MarkDrained, ZenonT(30)
    <3> HIDE DEF M, R, B
    <3> QED
      BY ZenonT(30), <2>1, <3>1
  <2> HIDE DEF A, M
  <2>12. ASSUME ~S.vring[v].on_drain_cb PROVE Good(M)
    <3>1. BhsAgree(Z, A) /\ VrBhs(Z, A) /\ BhInv(A)
      BY Zenon, <2>1, <2>9, SameBhs
    <3>2. SwitchedOff(S.vring[v], A.vring[v]) /\ SameDev(S.vdev, A.vdev)
      BY ZenonT(30), <2>7, <2>9, <2>12 DEF SwitchedOff, SameDev, SameMaps
    <3>3. \A w \in Vring : w # v => SameVring(S.vring[w], A.vring[w])
      BY Zenon, <2>9 DEF SameVring, SameLife, SameUse
    <3>4. ASSUME NEW w \in Vring
          PROVE  /\ Starting(A, w) <=> Starting(S, w)
                 /\ Syncing(A, w) <=> Syncing(S, w)
                 /\ Handled(A, w) <=> Handled(S, w)
                 /\ Stopped(A, w) <=> Stopped(S, w)
                 /\ StoppedQueued(A, w) <=> StoppedQueued(S, w)
                 /\ Drained(A, w) <=> Drained(S, w) /\ w # v
                 /\ StartFailed(A, w) <=> StartFailed(S, w)
                 /\ Stopping(A, w) <=> Stopping(S, w)
                 /\ Leaving(A, w) <=> Leaving(S, w)
      BY Zenon, <2>2, <3>1 DEF VrBhs
    <3>5. /\ Working(A, "vdev_start") <=> Working(S, "vdev_start")
          /\ Working(A, "vdev_stop") <=> Working(S, "vdev_stop")
      BY ZenonT(30), <2>3, <3>1 DEF BhsAgree
    <3>6. /\ A.ext \notin {"init", "starting", "start_failed"}
          /\ A.vdev.listen_handler # "attached"
          /\ KeptInv(A.vdev) /\ WorkInv(A) /\ Off(A, v)
          /\ A.vdev.num_vrings_handling_msg = Cardinality(MsgSet(A))
          /\ A.vdev.num_vrings_started = Cardinality(RunSet(A))
          /\ A.vdev.num_vrings_in_flight = Cardinality(CtlSet(A)) + 1
          /\ \A w \in Vring : /\ InMsg(A, w) <=> InMsg(S, w)
                              /\ w # v => Life(A, w) /\ UseInv(A, w)
      BY SMTT(30), <2>9, <3>2, <3>3, <3>4, <3>5, <1>DrainStep
    <3>7. ASSUME NEW w \in Vring PROVE MsgInv(A, w)
      <4>1. /\ \A u \in Vring : A.vring[u].on_drain_cb <=> S.vring[u].on_drain_cb
            /\ A.vring[w].started_in_ctl => S.vring[w].started_in_ctl
            /\ A.vring[w].started_in_rq <=> S.vring[w].started_in_rq
            /\ A.vring[w].disconnecting <=> S.vring[w].disconnecting
            /\ A.vring[w].shadow_vq = S.vring[w].shadow_vq
        BY ZenonT(30), <2>7, <2>9 DEF SameUse
      <4>2. PartInv(A, w)
        BY Zenon, <2>4, <2>9, <3>4, <3>6, <4>1 DEF PartInv
      <4>3. UpInv(A, w)
        BY ZenonT(30), <2>4, <2>9, <3>4, <4>1 DEF UpInv
      <4>4. DownInv(A, w) /\ IdleInv(A, w)
        BY ZenonT(30), <2>4, <2>9, <3>4, <4>1 DEF DownInv, IdleInv
      <4> QED
        BY ZenonT(30), <4>2, <4>3, <4>4 DEF MsgInv
    <3>8. M = Release(A, v)
      BY Zenon, <2>11, <2>12
    <3> QED
      BY Zenon, <2>5, <2>9, <3>1, <3>6, <3>7, <3>8, <1>Released
  <2>13. ASSUME S.vring[v].on_drain_cb PROVE Good(M)
    <3>1. /\ S.vdev.conn_handler # "attached" /\ S.vdev.num_vrings_handling_msg = 0
          /\ \A w \in Vring : S.vring[w].on_drain_cb => w = v
          /\ ~(S.vdev.listen_handler = "detached" /\ S.vdev.conn_handler = "none")
      BY Zenon, <2>4, <2>13 DEF PartInv, DownInv
    <3>2. ASSUME NEW w \in Vring PROVE ~InMsg(S, w) /\ ~Starting(S, w) /\ ~StartFailed(S, w)
      BY ZenonT(30), <2>5, <3>1, NoneCounted DEF InMsg
    <3>3. /\ R.ok = sent /\ R.st \in StateType
          /\ R.st.vring = A.vring /\ R.st.ctl = A.ctl /\ R.st.rq = A.rq
          /\ R.st.ext = A.ext /\ R.st.failed = {}
          /\ R.st.vdev = IF sent THEN Replied(S.vdev) ELSE S.vdev
      BY SMTT(30), <2>6, <2>9, <3>1, <1>Reply
    <3> HIDE DEF R
    <3>4. /\ B \in StateType /\ B.ctl = Z.ctl /\ B.rq = Z.rq
          /\ B.vdev = R.st.vdev /\ B.ext = S.ext /\ B.failed = {}
          /\ B.vring[v] = y /\ \A w \in Vring : w # v => B.vring[w] = S.vring[w]
      <4>1. B = [R.st EXCEPT !.vring[v] = y]
        BY Zenon, <2>9, <3>3 DEF StateType
      <4> HIDE DEF B, x, y
      <4>2. \A w \in Vring : w # v => R.st.vring[w] = S.vring[w]
        BY ZenonT(30), <2>9, <3>3
      <4>3. /\ B \in StateType /\ B.ctl = R.st.ctl /\ B.rq = R.st.rq
            /\ B.vdev = R.st.vdev /\ B.ext = R.st.ext /\ B.failed = R.st.failed
            /\ B.vring[v] = y /\ \A w \in Vring : w # v => B.vring[w] = R.st.vring[w]
        BY ZenonT(30), <2>8, <3>3, <4>1 DEF StateType
      <4> QED
        BY ZenonT(30), <2>9, <3>3, <4>2, <4>3
    <3> HIDE DEF B, x, y
    <3>5. BhsAgree(Z, B) /\ VrBhs(Z, B) /\ BhInv(B)
      BY ZenonT(30), <2>1, <3>4, SameBhs
    <3>6. /\ SameDev(S.vdev, B.vdev) /\ B.vdev.memmap = S.vdev.memmap
          /\ B.vdev.listen_handler = S.vdev.listen_handler
          /\ B.vdev.conn_handler # "none" <=> S.vdev.conn_handler # "none"
      <4>1. B.vdev = Replied(S.vdev) \/ B.vdev = S.vdev
        BY Zenon, <3>3, <3>4
      <4> QED
        <5>1. CASE B.vdev = Replied(S.vdev)
          BY Zenon, <2>5, <5>1, <1>RepliedSame
        <5>2. CASE B.vdev = S.vdev
          BY Zenon, <5>2 DEF SameDev, SameMaps
        <5> QED
          BY Zenon, <4>1, <5>1, <5>2
    <3>7. ASSUME NEW w \in Vring
          PROVE  /\ Starting(B, w) <=> Starting(S, w)
                 /\ Syncing(B, w) <=> Syncing(S, w)
                 /\ Handled(B, w) <=> Handled(S, w)
                 /\ Stopped(B, w) <=> Stopped(S, w)
                 /\ StoppedQueued(B, w) <=> StoppedQueued(S, w)
                 /\ Drained(B, w) <=> Drained(S, w) /\ w # v
                 /\ StartFailed(B, w) <=> StartFailed(S, w)
                 /\ Stopping(B, w) <=> Stopping(S, w)
                 /\ Leaving(B, w) <=> Leaving(S, w)
      BY Zenon, <2>2, <3>5 DEF VrBhs
    <3>8. /\ Working(B, "vdev_start") <=> Working(S, "vdev_start")
          /\ Working(B, "vdev_stop") <=> Working(S, "vdev_stop")
      BY Zenon, <2>3, <3>5 DEF BhsAgree
    <3>9. \A w \in Vring : w # v => SameVring(S.vring[w], B.vring[w])
      BY ZenonT(30), <3>4 DEF SameVring, SameLife, SameUse
    <3>10. ASSUME NEW w \in Vring
           PROVE  /\ ~B.vring[w].on_drain_cb
                  /\ B.vring[w].started_in_ctl => S.vring[w].started_in_ctl /\ w # v
                  /\ B.vring[w].started_in_rq <=> S.vring[w].started_in_rq
                  /\ B.vring[w].disconnecting <=> S.vring[w].disconnecting
                  /\ B.vring[w].shadow_vq = S.vring[w].shadow_vq
      BY ZenonT(30), <2>8, <3>1, <3>4 DEF SwitchedOff, SameUse
    <3>11. ASSUME sent \/ S.vdev.conn_handler = "none" PROVE Good(M)
      <4>1. M = Release(B, v)
        BY ZenonT(30), <2>11, <2>13, <3>3, <3>4, <3>11 DEF vdev_disconnect
      <4>2. ConnInv(B.vdev)
        <5>1. CASE sent
          BY SMTT(30), <2>5, <2>6, <3>1, <3>3, <3>4, <5>1 DEF ConnInv, Replied, VdevType
        <5>2. CASE ~sent
          BY ZenonT(30), <2>5, <3>3, <3>4, <5>2
        <5> QED
          BY Zenon, <5>1, <5>2
      <4>3. /\ B.ext \notin {"init", "starting", "start_failed"}
            /\ B.vdev.listen_handler # "attached"
            /\ KeptInv(B.vdev) /\ WorkInv(B) /\ Off(B, v)
            /\ B.vdev.num_vrings_handling_msg = Cardinality(MsgSet(B))
            /\ B.vdev.num_vrings_started = Cardinality(RunSet(B))
            /\ B.vdev.num_vrings_in_flight = Cardinality(CtlSet(B)) + 1
            /\ \A w \in Vring : /\ InMsg(B, w) <=> InMsg(S, w)
                                /\ w # v => Life(B, w) /\ UseInv(B, w)
        <5>1. SwitchedOff(S.vring[v], B.vring[v]) /\ B.ext = S.ext /\ B \in StateType
          BY ZenonT(30), <2>8, <3>4
        <5> QED
          <6>1. \A w \in Vring :
                  /\ Starting(B, w) <=> Starting(S, w)
                  /\ Syncing(B, w) <=> Syncing(S, w)
                  /\ Handled(B, w) <=> Handled(S, w)
                  /\ Stopped(B, w) <=> Stopped(S, w)
                  /\ StoppedQueued(B, w) <=> StoppedQueued(S, w)
                  /\ Drained(B, w) <=> Drained(S, w) /\ w # v
                  /\ StartFailed(B, w) <=> StartFailed(S, w)
            BY Zenon, <3>7
          <6> QED
            BY ZenonT(30), <3>6, <3>8, <3>9, <5>1, <6>1, <1>DrainStep
      <4>4. ASSUME NEW w \in Vring PROVE MsgInv(B, w)
        <5>1. PartInv(B, w)
          BY ZenonT(30), <3>2, <3>7, <3>10 DEF PartInv
        <5>2. UpInv(B, w)
          <6>1. CASE w = v
            BY ZenonT(30), <2>4, <2>6, <3>6, <3>7, <3>10, <6>1 DEF UpInv
          <6>2. CASE w # v
            <7>1. ~S.vring[w].on_drain_cb
              BY ZenonT(30), <3>1, <6>2
            <7> QED
              BY ZenonT(30), <2>4, <3>6, <3>7, <3>10, <7>1, <6>2 DEF UpInv
          <6> QED
            BY Zenon, <6>1, <6>2
        <5>3. DownInv(B, w) /\ IdleInv(B, w)
          BY ZenonT(30), <2>6, <3>1, <3>6 DEF DownInv, IdleInv
        <5> QED
          BY Zenon, <5>1, <5>2, <5>3 DEF MsgInv
      <4> QED
        BY ZenonT(30), <3>4, <3>5, <4>1, <4>2, <4>3, <4>4, <1>Released
    <3>12. ASSUME ~sent, S.vdev.conn_handler # "none" PROVE Good(M)
      <4> DEFINE G == Gone(B)
      <4>1. B.vdev = S.vdev /\ B.vdev.conn_handler # "none"
        BY ZenonT(30), <3>3, <3>4, <3>12
      <4>2. ASSUME NEW w \in Vring
            PROVE ~Leaving(B, w) /\ ~Stopping(B, w)
        BY ZenonT(30), <2>4, <2>6, <3>1, <3>7, <3>12 DEF UpInv
      <4>3. /\ vdev_disconnect(B) = vdev_maybe_finished(G)
            /\ G \in StateType /\ G.failed = {}
            /\ G.ctl = B.ctl /\ G.ext = B.ext
            /\ G.vdev = [S.vdev EXCEPT !.conn_handler = "none"]
            /\ \A w \in Vring : SameVring(B.vring[w], G.vring[w])
            /\ RqAgree(B, G, "vring_stop_bh_disconnect", CtlSet(B))
            /\ BhInv(G)
        BY SMTT(30), <3>4, <3>5, <4>1, <4>2, Disconnected
      <4> HIDE DEF G
      <4>4. S.vdev.listen_handler = "detached" /\ S.vdev.req # "NONE"
        BY ZenonT(30), <2>5, <3>1, <3>12 DEF ConnInv, VdevType, Handler
      <4>5. /\ SameDev(S.vdev, G.vdev) /\ ConnInv(G.vdev) /\ G.vdev.req # "NONE"
            /\ G.vdev.conn_handler = "none" /\ G.vdev.listen_handler = "detached"
        BY SMTT(30), <2>5, <3>1, <4>3, <4>4 DEF SameDev, SameMaps, ConnInv, VdevType
      <4>6. vdev_disconnect(B) = G
        BY ZenonT(30), <2>6, <4>3, <4>5, NotFinished DEF vdev_in_use, SameDev
      <4>7. M = Release(G, v)
        BY ZenonT(30), <2>11, <2>13, <3>3, <3>12, <4>6
      <4>8. ASSUME NEW w \in Vring
            PROVE  /\ Starting(G, w) <=> Starting(S, w)
                   /\ Syncing(G, w) <=> Syncing(S, w)
                   /\ Handled(G, w) <=> Handled(S, w)
                   /\ Stopped(G, w) <=> Stopped(S, w)
                   /\ StoppedQueued(G, w) <=> StoppedQueued(S, w)
                   /\ Drained(G, w) <=> Drained(S, w) /\ w # v
                   /\ StartFailed(G, w) <=> StartFailed(S, w)
                   /\ ~Stopping(G, w)
        BY ZenonT(30), <3>7, <4>2, <4>3 DEF RqAgree
      <4>9. /\ Working(G, "vdev_start") <=> Working(S, "vdev_start")
            /\ Working(G, "vdev_stop") <=> Working(S, "vdev_stop")
        BY ZenonT(30), <3>8, <4>3 DEF RqAgree
      <4>10. \A w \in Vring : w # v => SameVring(S.vring[w], G.vring[w])
        BY SMTT(30), <3>9, <4>3 DEF SameVring, SameLife, SameUse
      <4>11. SwitchedOff(S.vring[v], G.vring[v])
        BY ZenonT(30), <2>8, <3>4, <4>3 DEF SwitchedOff, SameVring, SameLife, SameUse
      <4>12. /\ G.ext \notin {"init", "starting", "start_failed"}
             /\ G.vdev.listen_handler # "attached"
             /\ KeptInv(G.vdev) /\ WorkInv(G) /\ Off(G, v)
             /\ G.vdev.num_vrings_handling_msg = Cardinality(MsgSet(G))
             /\ G.vdev.num_vrings_started = Cardinality(RunSet(G))
             /\ G.vdev.num_vrings_in_flight = Cardinality(CtlSet(G)) + 1
             /\ \A w \in Vring : /\ InMsg(G, w) <=> InMsg(S, w)
                                 /\ w # v => Life(G, w) /\ UseInv(G, w)
        <5>1. G.ext = S.ext /\ G \in StateType /\ SameDev(S.vdev, G.vdev)
          BY Zenon, <3>4, <4>3, <4>5
        <5> QED
          BY ZenonT(60), <4>8, <4>9, <4>10, <4>11, <5>1, <1>DrainStep
      <4>13. ASSUME NEW w \in Vring PROVE MsgInv(G, w)
        <5>1. \A u \in Vring : ~G.vring[u].on_drain_cb
          BY Zenon, <3>10, <4>3 DEF SameVring, SameLife
        <5>2. PartInv(G, w)
          BY Zenon, <3>2, <4>8, <5>1 DEF PartInv
        <5>3. UpInv(G, w) /\ DownInv(G, w) /\ IdleInv(G, w)
          BY Zenon, <4>5, <4>8, <5>1 DEF UpInv, DownInv, IdleInv
        <5> QED
          BY Zenon, <5>2, <5>3 DEF MsgInv
      <4> QED
        BY ZenonT(30), <4>3, <4>5, <4>7, <4>12, <4>13, <1>Released
    <3> QED
      BY Zenon, <3>11, <3>12
  <2> QED
    BY ZenonT(30), <2>12, <2>13 DEF M, Z
(* What a vring that failed to start means for the device. *)
<1>FailedVring.
  ASSUME NEW S \in StateType, Inv(S), NEW v \in Vring, StartFailed(S, v)
  PROVE  /\ ~Starting(S, v) /\ ~Syncing(S, v) /\ ~Handled(S, v) /\ ~Drained(S, v)
         /\ ~Stopped(S, v) /\ ~StoppedQueued(S, v)
         /\ ~S.vring[v].started_in_rq /\ S.vring[v].started_in_ctl
         /\ S.vring[v].num_in_flight = 0 /\ S.vring[v].queued = 0
         /\ S.vring[v].kick_handler = "none" /\ S.vring[v].vq.buffers
         /\ S.vring[v].shadow_vq.log \in {0, S.vdev.memlog}
         /\ S.vdev.handle_complete = "set_vring_kick"
         /\ S.vdev.num_vrings_handling_msg = 1
         /\ S.vdev.num_vrings_started # 0 /\ S.vdev.num_vrings_in_flight # 0
         /\ S.vdev.connfd /\ S.vdev.timer_handler # "none"
         /\ S.vdev.conn_handler # "attached" /\ S.vdev.listen_handler # "attached"
         /\ ~(S.vdev.listen_handler = "detached" /\ S.vdev.conn_handler = "none")
         /\ S.ext \notin {"init", "starting", "start_failed"}
         /\ \A w \in Vring :
              /\ ~S.vring[w].on_drain_cb
              /\ w # v => ~Starting(S, w) /\ ~Syncing(S, w) /\ ~Handled(S, w)
                          /\ ~StartFailed(S, w)
  <2> USE <1>FailedVring
  <2>1. Life(S, v) /\ PartInv(S, v) /\ UseInv(S, v) /\ S.vring[v] \in VringType
        /\ CountInv(S) /\ ConnInv(S.vdev) /\ WorkInv(S) /\ S.vdev \in VdevType
    BY Zenon DEF Inv, MsgInv, StateType
  <2>2. /\ ~Starting(S, v) /\ ~Syncing(S, v) /\ ~Handled(S, v) /\ ~Drained(S, v)
        /\ ~Stopped(S, v) /\ ~S.vring[v].started_in_rq /\ S.vring[v].started_in_ctl
        /\ S.vring[v].num_in_flight = 0 /\ S.vring[v].queued <= 0
        /\ S.vring[v].kick_handler = "none" /\ S.vring[v].vq.buffers
        /\ S.vring[v].shadow_vq.log \in {0, S.vdev.memlog}
    BY ZenonT(30), <2>1 DEF Life, UseInv
  <2>3. S.vring[v].queued = 0
    <3>1. S.vring[v].queued \in 0 .. client.max_req
      BY Zenon, <2>1 DEF VringType
    <3> QED
      BY SMTT(30), <2>2, <3>1
  <2>4. ~StoppedQueued(S, v)
    BY ZenonT(30), <2>2 DEF Stopped, StoppedQueued, InC
  <2>5. /\ S.vdev.handle_complete = "set_vring_kick"
        /\ \A w \in Vring : InMsg(S, w) => w = v
    BY Zenon, <2>1 DEF PartInv
  <2>6. S.vdev.num_vrings_handling_msg = 1
    <3>1. MsgSet(S) = {v}
      BY Zenon, <2>5 DEF MsgSet, InMsg
    <3> QED
      BY ZenonT(30), <2>1, <3>1, CountFew DEF CountInv
  <2>7. S.vdev.num_vrings_started # 0 /\ S.vdev.num_vrings_in_flight # 0
    BY ZenonT(30), <2>1, <2>2, NoneCounted DEF Running
  <2>8. /\ S.vdev.connfd /\ S.vdev.timer_handler # "none"
        /\ S.vdev.conn_handler # "attached" /\ S.vdev.listen_handler # "attached"
        /\ ~(S.vdev.listen_handler = "detached" /\ S.vdev.conn_handler = "none")
        /\ S.ext \notin {"init", "starting", "start_failed"}
    <3>1. S.vdev.num_vrings_handling_msg # 0
      BY SMTT(30), <2>6
    <3>2. /\ S.vdev.connfd /\ S.vdev.timer_handler # "none"
          /\ S.vdev.conn_handler # "attached" /\ S.vdev.listen_handler # "attached"
          /\ ~(S.vdev.listen_handler = "detached" /\ S.vdev.conn_handler = "none")
      BY ZenonT(30), <2>1, <2>7, <3>1 DEF ConnInv
    <3>3. S.ext \notin {"init", "starting", "start_failed"}
      BY SMTT(30), <2>1, <2>7 DEF WorkInv
    <3> QED
      BY Zenon, <3>2, <3>3
  <2>9. ASSUME NEW w \in Vring PROVE ~S.vring[w].on_drain_cb
    BY SMTT(30), <2>6 DEF Inv, MsgInv, PartInv
  <2> QED
    BY Zenon, <2>2, <2>3, <2>4, <2>5, <2>6, <2>7, <2>8, <2>9 DEF InMsg
(* A state X in which the failed start of the vring v has been answered. *)
<1> DEFINE FailedBhs(S, X, v) ==
             /\ Working(X, "vdev_start") <=> Working(S, "vdev_start")
             /\ Working(X, "vdev_stop") <=> Working(S, "vdev_stop")
             /\ \A w \in Vring :
                  /\ Starting(X, w) <=> Starting(S, w)
                  /\ Syncing(X, w) <=> Syncing(S, w)
                  /\ Handled(X, w) <=> Handled(S, w)
                  /\ Stopped(X, w) <=> Stopped(S, w)
                  /\ StoppedQueued(X, w) <=> StoppedQueued(S, w)
                  /\ Drained(X, w) <=> Drained(S, w)
                  /\ StartFailed(X, w) <=> StartFailed(S, w) /\ w # v
<1> HIDE DEF FailedBhs
<1> DEFINE FailedDev(S, X) ==
             /\ X.vdev.listen_handler = S.vdev.listen_handler
             /\ X.vdev.connfd <=> S.vdev.connfd
             /\ X.vdev.num_vrings_handling_msg = 0
             /\ X.vdev.num_vrings_started = S.vdev.num_vrings_started
             /\ X.vdev.num_vrings_in_flight = S.vdev.num_vrings_in_flight
             /\ X.vdev.memmap = S.vdev.memmap /\ X.vdev.memlog = S.vdev.memlog
             /\ X.vdev.work = S.vdev.work /\ (X.vdev.released <=> S.vdev.released)
             /\ KeptInv(X.vdev) /\ ConnInv(X.vdev)
<1> HIDE DEF FailedDev
<1> DEFINE FailedMsg(S, X) ==
             /\ X.vdev.conn_handler # "none" =>
                  /\ S.vdev.conn_handler # "none"
                  /\ \A w \in Vring : ~Leaving(X, w) /\ ~Stopping(X, w)
             /\ X.vdev.listen_handler = "detached" /\ X.vdev.conn_handler = "none" =>
                  X.vdev.req # "NONE" /\ \A w \in Vring : ~Stopping(X, w)
<1> HIDE DEF FailedMsg
<1>NoDrainCb.
  ASSUME NEW S, NEW v, NEW sent, NEW A,
         VHD_ASSERT([S EXCEPT !.vring[v].started_in_ctl = FALSE],
                    S.vring[v].started_in_ctl, "drained") = A,
         ~S.vring[v].on_drain_cb
  PROVE  vring_mark_drained(S, v, sent) = Release(A, v)
  <2> USE <1>NoDrainCb
  <2> DEFINE R == vhost_reply(A, sent)
             B == [R.st EXCEPT !.vring[v].on_drain_cb = FALSE]
  <2>1. vring_mark_drained(S, v, sent) =
          Release(IF ~S.vring[v].on_drain_cb THEN A
                  ELSE IF R.ok THEN B ELSE vdev_disconnect(B), v)
    BY <1>MarkDrained, ZenonT(30)
  <2> HIDE DEF R, B
  <2> QED
    BY ZenonT(30), <2>1
(* A vring that failed to start is stopped and drained at once. *)
<1>FailStep.
  ASSUME NEW S \in StateType, Inv(S), NEW v \in Vring, StartFailed(S, v),
         NEW sent, NEW X \in StateType, X.failed = {}, X.ext = S.ext, BhInv(X),
         FailedBhs(S, X, v), FailedDev(S, X), FailedMsg(S, X),
         \A w \in Vring : SameVring(S.vring[w], X.vring[w])
  PROVE  Good(vring_mark_drained(vring_mark_stopped(X, v), v, sent))
  <2> USE <1>FailStep
  <2> DEFINE n == S.vdev.num_vrings_started
             d == [X.vdev EXCEPT !.num_vrings_started = n - 1]
             x == [X.vring[v] EXCEPT !.kickfd = FALSE]
             Y == [X EXCEPT !.vring[v] = x, !.vdev = d]
             Q == vring_mark_stopped(X, v)
             y == [Q.vring[v] EXCEPT !.started_in_ctl = FALSE]
             A == [Q EXCEPT !.vring[v] = y]
  <2>1. /\ ~Starting(S, v) /\ ~Syncing(S, v) /\ ~Handled(S, v) /\ ~Drained(S, v)
        /\ ~Stopped(S, v) /\ ~StoppedQueued(S, v)
        /\ ~S.vring[v].started_in_rq /\ S.vring[v].started_in_ctl
        /\ S.vring[v].num_in_flight = 0 /\ S.vring[v].queued = 0
        /\ S.vring[v].kick_handler = "none" /\ S.vring[v].vq.buffers
        /\ S.vring[v].shadow_vq.log \in {0, S.vdev.memlog}
        /\ S.vdev.num_vrings_started # 0 /\ S.vdev.num_vrings_in_flight # 0
        /\ S.vdev.connfd /\ S.vdev.listen_handler # "attached"
        /\ S.ext \notin {"init", "starting", "start_failed"}
        /\ \A w \in Vring :
             /\ ~S.vring[w].on_drain_cb
             /\ w # v => ~Starting(S, w) /\ ~Syncing(S, w) /\ ~Handled(S, w)
                         /\ ~StartFailed(S, w)
    BY ZenonT(30), <1>FailedVring
  <2>2. /\ X.vdev \in VdevType /\ X.vring[v] \in VringType /\ S.vdev \in VdevType
        /\ CountInv(S) /\ WorkInv(S)
        /\ \A w \in Vring : Life(S, w) /\ UpInv(S, w) /\ UseInv(S, w)
    BY Zenon DEF StateType, Inv, MsgInv
  <2>3. n \in Nat /\ n > 0 /\ n - 1 \in Nat
    <3>1. n \in Nat
      BY ZenonT(30), <2>2 DEF VdevType
    <3>2. n # 0
      BY Zenon, <2>1
    <3> HIDE DEF n
    <3> QED
      BY SMTT(30), <3>1, <3>2
  <2>4. /\ d \in VdevType /\ d.num_vrings_started = n - 1
        /\ d.num_vrings_handling_msg = 0
        /\ d.num_vrings_in_flight = S.vdev.num_vrings_in_flight
        /\ KeptInv(d) /\ ConnInv(d) /\ (d.released <=> S.vdev.released)
        /\ d.work = S.vdev.work /\ d.listen_handler = S.vdev.listen_handler
        /\ d.conn_handler = X.vdev.conn_handler /\ d.req = X.vdev.req
        /\ d.memmap = S.vdev.memmap /\ d.memlog = S.vdev.memlog
    <3>1. d \in VdevType /\ d.num_vrings_started = n - 1
      BY ZenonT(30), <2>2, <2>3 DEF VdevType
    <3>2. KeptInv(d) /\ ConnInv(d)
      BY ZenonT(30), <2>1, <2>2 DEF KeptInv, KeptFor, ConnInv, VdevType, FailedDev
    <3> QED
      BY SMTT(30), <2>2, <3>1, <3>2 DEF VdevType, FailedDev
  <2>5. /\ x \in VringType /\ ~x.kickfd /\ x.started_in_ctl
        /\ ~x.started_in_rq /\ ~x.on_drain_cb /\ x.kick_handler = "none"
        /\ x.num_in_flight = 0 /\ x.queued = 0
        /\ SameUse(S.vring[v], x)
    BY ZenonT(30), <2>1, <2>2 DEF VringType, SameUse, SameVring, SameLife
  <2>6. Q = vdev_maybe_finished(Y)
    <3>1. [X EXCEPT !.vring[v].kickfd = FALSE, !.vdev.num_vrings_started = @ - 1] = Y
      BY Zenon DEF StateType, FailedDev
    <3>2. VHD_ASSERT([X EXCEPT !.vring[v].kickfd = FALSE, !.vdev.num_vrings_started = @ - 1],
                     X.vdev.num_vrings_started > 0, "started") = Y
      BY ZenonT(30), <2>3, <3>1 DEF VHD_ASSERT, FailedDev
    <3> QED
      BY Zenon, <3>2 DEF vring_mark_stopped
  <2> HIDE DEF d, x, Q
  <2>7. /\ Y \in StateType /\ Y.vdev = d /\ Y.ctl = X.ctl /\ Y.rq = X.rq
        /\ Y.ext = S.ext /\ Y.failed = {}
        /\ Y.vring[v] = x /\ \A w \in Vring : w # v => Y.vring[w] = X.vring[w]
    BY ZenonT(30), <2>4, <2>5 DEF StateType
  <2> HIDE DEF Y
  <2>8. /\ Q \in StateType /\ Q.vring = Y.vring /\ Q.ctl = X.ctl /\ Q.rq = X.rq
        /\ Q.failed = {} /\ Q.ext \notin {"init", "starting", "start_failed"}
        /\ Q.vdev.num_vrings_started = n - 1
        /\ Q.vdev.num_vrings_handling_msg = 0
        /\ Q.vdev.num_vrings_in_flight = S.vdev.num_vrings_in_flight
        /\ KeptInv(Q.vdev) /\ ConnInv(Q.vdev)
        /\ Q.vdev.listen_handler = S.vdev.listen_handler
        /\ Q.vdev.conn_handler = X.vdev.conn_handler /\ Q.vdev.req = X.vdev.req
        /\ Q.vdev.memmap = S.vdev.memmap /\ Q.vdev.memlog = S.vdev.memlog
        /\ WorkInv(Q)
    <3>1. vdev_in_use(Y) /\ \A e : vdev_in_use([Y EXCEPT !.ext = e, !.vdev.work = "none"])
      BY SMTT(30), <2>1, <2>4, <2>7 DEF vdev_in_use, StateType, VdevType
    <3>2. /\ Working(Y, "vdev_start") <=> Working(S, "vdev_start")
          /\ Working(Y, "vdev_stop") <=> Working(S, "vdev_stop")
      <4>1. BhsAgree(X, Y)
        BY Zenon, <2>7, SameBhs
      <4> QED
        BY Zenon, <4>1 DEF BhsAgree, FailedBhs
    <3>3. CASE d.num_vrings_started = 0 /\ d.listen_handler = "none" /\ d.work # "none"
      <4> DEFINE e == [d EXCEPT !.work = "none"]
      <4>1. S.vdev.work = "vdev_stop"
        BY ZenonT(30), <2>2, <2>4, <3>3 DEF WorkInv
      <4>2. vdev_complete_work(Y, TRUE) = [Y EXCEPT !.ext = "stopped", !.vdev.work = "none"]
        BY ZenonT(30), <2>4, <2>7, <4>1 DEF vdev_complete_work
      <4>3. Q = [Y EXCEPT !.ext = "stopped", !.vdev.work = "none"]
        <5> DEFINE F == [Y EXCEPT !.ext = "stopped", !.vdev.work = "none"]
        <5>1. vdev_vrings_stopped(Y) = F /\ Y.vdev.num_vrings_started = 0
          BY ZenonT(30), <2>7, <3>3, <4>2 DEF vdev_vrings_stopped
        <5>2. vdev_in_use(F)
          BY Zenon, <3>1
        <5> HIDE DEF F
        <5>3. Q = F
          BY ZenonT(30), <2>6, <5>1, <5>2 DEF vdev_maybe_finished
        <5> QED
          BY Zenon, <5>3 DEF F
      <4>4. Q = [Y EXCEPT !.ext = "stopped", !.vdev = e]
        BY ZenonT(30), <2>7, <4>3 DEF StateType
      <4>5. e \in VdevType /\ e.work = "none"
        BY Zenon, <2>4 DEF VdevType
      <4>6. /\ e.num_vrings_started = n - 1
            /\ e.num_vrings_handling_msg = 0
            /\ e.num_vrings_in_flight = S.vdev.num_vrings_in_flight
            /\ KeptInv(e) /\ ConnInv(e)
            /\ e.listen_handler = S.vdev.listen_handler
            /\ e.conn_handler = X.vdev.conn_handler /\ e.req = X.vdev.req
            /\ e.memmap = S.vdev.memmap /\ e.memlog = S.vdev.memlog
            /\ (e.released <=> S.vdev.released)
        BY ZenonT(30), <2>4 DEF VdevType, KeptInv, KeptFor, ConnInv
      <4> HIDE DEF e
      <4>7. /\ Q \in StateType /\ Q.vring = Y.vring /\ Q.ctl = X.ctl /\ Q.rq = X.rq
            /\ Q.failed = {} /\ Q.ext = "stopped" /\ Q.vdev = e
        BY Zenon, <2>7, <4>4, <4>5 DEF StateType, ExtType
      <4>8. /\ Working(Q, "vdev_start") <=> Working(S, "vdev_start")
            /\ Working(Q, "vdev_stop") <=> Working(S, "vdev_stop")
        <5>1. BhsAgree(Y, Q)
          BY ZenonT(30), <2>7, <4>7, SameBhs
        <5> QED
          BY ZenonT(30), <3>2, <5>1 DEF BhsAgree
      <4>9. WorkInv(Q)
        BY ZenonT(30), <2>2, <2>4, <3>3, <4>1, <4>5, <4>6, <4>7, <4>8 DEF WorkInv
      <4> QED
        BY ZenonT(30), <4>6, <4>7, <4>9
    <3>4. CASE ~(d.num_vrings_started = 0 /\ d.listen_handler = "none" /\ d.work # "none")
      <4>1. Q = Y
        BY ZenonT(30), <2>6, <2>7, <3>1, <3>4
           DEF vdev_maybe_finished, vdev_vrings_stopped, vdev_complete_work
      <4>2. WorkInv(Y)
        BY ZenonT(30), <2>1, <2>2, <2>4, <2>7, <3>2 DEF WorkInv
      <4> QED
        BY ZenonT(30), <2>1, <2>4, <2>7, <4>1, <4>2
    <3> QED
      BY ZenonT(30), <3>3, <3>4
  <2>9. vring_mark_drained(Q, v, sent) = Release(A, v)
    <3>1. [Q EXCEPT !.vring[v].started_in_ctl = FALSE] = A
      BY Zenon, <2>8 DEF StateType
    <3>2. VHD_ASSERT([Q EXCEPT !.vring[v].started_in_ctl = FALSE],
                     Q.vring[v].started_in_ctl, "drained") = A
      BY Zenon, <2>5, <2>7, <2>8, <3>1 DEF VHD_ASSERT
    <3>3. ~Q.vring[v].on_drain_cb
      BY ZenonT(30), <2>5, <2>7, <2>8
    <3> HIDE DEF A
    <3> QED
      BY Zenon, <3>2, <3>3, <1>NoDrainCb
  <2>10. /\ y \in VringType /\ SameUse(S.vring[v], y)
         /\ ~y.kickfd /\ ~y.started_in_ctl /\ ~y.started_in_rq /\ ~y.on_drain_cb
         /\ y.kick_handler = "none" /\ y.num_in_flight = 0 /\ y.queued = 0
    <3>1. Q.vring[v] = x
      BY ZenonT(30), <2>7, <2>8
    <3> QED
      BY ZenonT(30), <2>5, <3>1 DEF VringType, SameUse
  <2> HIDE DEF y
  <2>11. /\ A \in StateType /\ A.vdev = Q.vdev /\ A.ctl = X.ctl /\ A.rq = X.rq
         /\ A.ext = Q.ext /\ A.failed = {}
         /\ A.vring[v] = y
         /\ \A w \in Vring : w # v => A.vring[w] = X.vring[w]
    BY ZenonT(60), <2>7, <2>8, <2>10 DEF StateType
  <2> HIDE DEF A
  <2>12. BhsAgree(X, A) /\ VrBhs(X, A) /\ BhInv(A)
    BY Zenon, <2>11, SameBhs
  <2>13. ASSUME NEW w \in Vring
         PROVE  /\ Starting(A, w) <=> Starting(S, w)
                /\ Syncing(A, w) <=> Syncing(S, w)
                /\ Handled(A, w) <=> Handled(S, w)
                /\ Stopped(A, w) <=> Stopped(S, w)
                /\ StoppedQueued(A, w) <=> StoppedQueued(S, w)
                /\ Drained(A, w) <=> Drained(S, w)
                /\ StartFailed(A, w) <=> StartFailed(S, w) /\ w # v
                /\ Stopping(A, w) <=> Stopping(X, w)
                /\ Leaving(A, w) <=> Leaving(X, w)
    BY Zenon, <2>12 DEF VrBhs, FailedBhs
  <2>14. ASSUME NEW w \in Vring, w # v PROVE SameVring(S.vring[w], A.vring[w])
    BY Zenon, <2>11, <2>14
  <2>15. ASSUME NEW w \in Vring
         PROVE  /\ ~InMsg(A, w)
                /\ Running(A, w) <=> Running(S, w) /\ w # v
                /\ A.vring[w].started_in_ctl <=> S.vring[w].started_in_ctl /\ w # v
                /\ ~A.vring[w].on_drain_cb
    <3>1. CASE w = v
      BY Zenon, <2>1, <2>10, <2>11, <2>13, <3>1 DEF InMsg, Running
    <3>2. CASE w # v
      BY ZenonT(30), <2>1, <2>13, <2>14, <3>2 DEF InMsg, Running, SameVring, SameLife
    <3> QED
      BY Zenon, <3>1, <3>2
  <2>16. /\ MsgSet(A) = {} /\ RunSet(A) = RunSet(S) \ {v} /\ CtlSet(A) = CtlSet(S) \ {v}
    BY Zenon, <2>15 DEF MsgSet, RunSet, CtlSet
  <2>17. /\ A.vdev.num_vrings_handling_msg = Cardinality(MsgSet(A))
         /\ A.vdev.num_vrings_started = Cardinality(RunSet(A))
         /\ A.vdev.num_vrings_in_flight = Cardinality(CtlSet(A)) + 1
    <3>1. /\ v \in RunSet(S) /\ RunSet(S) \in SUBSET Vring
          /\ v \in CtlSet(S) /\ CtlSet(S) \in SUBSET Vring
      BY ZenonT(30), <2>1 DEF RunSet, CtlSet, Running
    <3>2. /\ Cardinality(RunSet(A)) = n - 1
          /\ S.vdev.num_vrings_in_flight = Cardinality(CtlSet(A)) + 1
      BY SMTT(30), <2>2, <2>16, <3>1, CountLess DEF CountInv
    <3> QED
      BY ZenonT(30), <2>8, <2>11, <2>16, <3>2, CountFew
  <2>18. WorkInv(A)
    <3>1. BhsAgree(Q, A)
      BY ZenonT(30), <2>8, <2>11, SameBhs
    <3> QED
      BY ZenonT(30), <2>8, <2>11, <3>1 DEF WorkInv, BhsAgree
  <2>19. Off(A, v)
    BY ZenonT(30), <2>1, <2>8, <2>10, <2>11, <2>13 DEF Off, SameUse
  <2>20. ASSUME NEW w \in Vring, w # v PROVE Life(A, w) /\ UseInv(A, w)
    <3>1. Life(A, w)
      <4>1. SameVring(S.vring[w], A.vring[w]) /\ Life(S, w)
        BY ZenonT(30), <2>2, <2>14, <2>20
      <4> QED
        BY ZenonT(30), <2>13, <2>15, <2>20, <4>1 DEF Life, SameVring, SameLife
    <3>2. UseInv(A, w)
      <4>1. SameVring(S.vring[w], A.vring[w]) /\ UseInv(S, w)
        BY Zenon, <2>2, <2>14, <2>20
      <4>2. ~Syncing(S, w) /\ ~Starting(S, w) /\ ~Syncing(A, w) /\ ~Starting(A, w)
        BY ZenonT(30), <2>1, <2>13, <2>20
      <4>3. A.vdev.memmap = S.vdev.memmap /\ A.vdev.memlog = S.vdev.memlog
        BY ZenonT(30), <2>8, <2>11
      <4> QED
        BY ZenonT(30), <4>1, <4>2, <4>3 DEF UseInv, SameVring, SameLife, SameUse
    <3> QED
      BY Zenon, <3>1, <3>2
  <2>21. ASSUME NEW w \in Vring PROVE MsgInv(A, w)
    <3>1. PartInv(A, w)
      BY ZenonT(30), <2>15 DEF PartInv, InMsg
    <3>2. UpInv(A, w)
      <4>1. CASE w = v
        BY ZenonT(30), <2>8, <2>11, <2>13, <2>15, <4>1 DEF UpInv, FailedMsg
      <4>2. CASE w # v
        <5>1. SameVring(S.vring[w], A.vring[w]) /\ UpInv(S, w)
          BY ZenonT(30), <2>2, <2>14, <4>2
        <5>2. ~Starting(S, w) /\ ~StartFailed(S, w) /\ ~S.vring[w].on_drain_cb
          BY ZenonT(30), <2>1, <4>2
        <5>3. A.vdev.memmap = S.vdev.memmap /\ A.vdev.conn_handler = X.vdev.conn_handler
          BY ZenonT(30), <2>8, <2>11
        <5> QED
          BY ZenonT(30), <2>13, <5>1, <5>2, <5>3 DEF UpInv, SameVring, SameLife, SameUse, FailedMsg
      <4> QED
        BY ZenonT(30), <4>1, <4>2
    <3>3. DownInv(A, w) /\ IdleInv(A, w)
      <4>1. /\ A.vdev.listen_handler = X.vdev.listen_handler /\ A.vdev.req = X.vdev.req
            /\ A.vdev.conn_handler = X.vdev.conn_handler
            /\ A.vdev.listen_handler # "attached"
        BY ZenonT(60), <2>1, <2>8, <2>11 DEF FailedDev
      <4> QED
        BY ZenonT(30), <2>13, <2>15, <4>1 DEF DownInv, IdleInv, FailedMsg
    <3> QED
      BY ZenonT(30), <3>1, <3>2, <3>3 DEF MsgInv
  <2> QED
    BY ZenonT(60), <2>1, <2>8, <2>9, <2>11, <2>12, <2>17, <2>18, <2>19, <2>20, <2>21, <1>Released DEF Q
(* vring_start_failed_bh: the vring could not be started. *)
<1>StartFailedGood.
  ASSUME NEW S \in StateType, S.failed = {}, Inv(S), NEW sent \in BOOLEAN,
         NEW v \in Vring, <<"vring_start_failed_bh", v>> \in S.ctl.batch
  PROVE  Good(vring_start_failed(
           [S EXCEPT !.ctl.batch = @ \ {<<"vring_start_failed_bh", v>>}], v, sent))
  <2> USE <1>StartFailedGood
  <2> DEFINE name == "vring_start_failed_bh"
             Z == [S EXCEPT !.ctl.batch = @ \ {<<name, v>>}]
             d == [S.vdev EXCEPT !.handle_complete = "set_vring_kick_fail"]
             T == [Z EXCEPT !.vdev = d]
             e == [d EXCEPT !.num_vrings_handling_msg = 0]
             M == vring_start_failed(Z, v, sent)
             X == vring_mark_msg_handled(T, sent)
  <2>1. /\ Z \in StateType
        /\ Z.vdev = S.vdev /\ Z.vring = S.vring /\ Z.rq = S.rq
        /\ Z.ext = S.ext /\ Z.failed = {}
        /\ CtlRan(S, Z, name, v) /\ BhInv(Z) /\ StartFailed(S, v)
    BY ZenonT(30), <1>CtlRun DEF Inv, CtlBhName, StartFailed
  <2> HIDE DEF Z
  <2>2. /\ S.vdev.handle_complete = "set_vring_kick"
        /\ S.vdev.num_vrings_handling_msg = 1
        /\ S.vdev.num_vrings_started # 0 /\ S.vdev.num_vrings_in_flight # 0
        /\ S.vdev.connfd /\ S.vdev.timer_handler # "none"
        /\ S.vdev.conn_handler # "attached" /\ S.vdev.listen_handler # "attached"
        /\ ~(S.vdev.listen_handler = "detached" /\ S.vdev.conn_handler = "none")
        /\ \A w \in Vring : ~S.vring[w].on_drain_cb
    BY ZenonT(30), <2>1, <1>FailedVring
  <2>3. S.vdev \in VdevType /\ KeptInv(S.vdev) /\ ConnInv(S.vdev)
    BY Zenon DEF Inv, StateType
  <2>4. /\ d \in VdevType /\ KeptFor(d) /\ d.num_vrings_handling_msg = 1
        /\ d.handle_complete # "none" /\ d.conn_handler # "attached"
        /\ d.timer_handler # "none"
    BY ZenonT(30), <2>2, <2>3 DEF VdevType, KeptInv, KeptFor
  <2>5. /\ e.listen_handler = S.vdev.listen_handler /\ (e.connfd <=> S.vdev.connfd)
        /\ e.num_vrings_handling_msg = 0
        /\ e.num_vrings_started = S.vdev.num_vrings_started
        /\ e.num_vrings_in_flight = S.vdev.num_vrings_in_flight
        /\ e.memmap = S.vdev.memmap /\ e.memlog = S.vdev.memlog
        /\ e.work = S.vdev.work /\ (e.released <=> S.vdev.released)
        /\ e.conn_handler = S.vdev.conn_handler /\ e.req = S.vdev.req
        /\ e.timer_handler = S.vdev.timer_handler
    BY ZenonT(30), <2>3 DEF VdevType
  <2>6. M = vring_mark_drained(vring_mark_stopped(X, v), v, sent)
    <3>1. [Z EXCEPT !.vdev.handle_complete = "set_vring_kick_fail"] = T
      BY Zenon, <2>1 DEF StateType
    <3> HIDE DEF T
    <3> QED
      BY ZenonT(30), <3>1 DEF vring_start_failed
  <2> HIDE DEF d, M
  <2>7. /\ T \in StateType /\ T.vdev = d /\ T.vring = S.vring /\ T.ctl = Z.ctl
        /\ T.rq = Z.rq /\ T.ext = S.ext /\ T.failed = {}
    BY ZenonT(30), <2>1, <2>4 DEF StateType
  <2> HIDE DEF T
  <2>8. PICK U \in StateType :
          /\ X = IF sent THEN U ELSE vdev_disconnect(U)
          /\ U.vring = S.vring /\ U.ctl = Z.ctl /\ U.rq = Z.rq
          /\ U.ext = S.ext /\ U.failed = {}
          /\ Completed(e, U.vdev, sent)
    <3>1. /\ T.vdev.num_vrings_handling_msg = 1 /\ T.vdev.handle_complete # "none"
          /\ T.vdev.conn_handler # "attached" /\ T.vdev.timer_handler # "none"
          /\ KeptFor(T.vdev)
      BY Zenon, <2>4, <2>7
    <3>2. \E U \in StateType :
            /\ vring_mark_msg_handled(T, sent) =
                 IF sent THEN U ELSE vdev_disconnect(U)
            /\ U.vring = T.vring /\ U.ctl = T.ctl /\ U.rq = T.rq
            /\ U.ext = T.ext /\ U.failed = {}
            /\ Completed([T.vdev EXCEPT !.num_vrings_handling_msg = 0], U.vdev, sent)
      BY Zenon, <2>7, <3>1, <1>LastHandled
    <3> QED
      BY Zenon, <2>7, <3>2
  <2> HIDE DEF X, e
  <2>9. BhsAgree(Z, U) /\ VrBhs(Z, U) /\ BhInv(U)
    BY Zenon, <2>1, <2>8, SameBhs
  <2>10. FailedBhs(S, U, v)
    BY ZenonT(30), <2>1, <2>9 DEF CtlRan, BhsAgree, VrBhs, FailedBhs
  <2>11. ASSUME NEW w \in Vring
         PROVE  /\ Stopping(U, w) <=> Stopping(S, w)
                /\ Leaving(U, w) <=> Leaving(S, w)
                /\ UpInv(S, w)
    BY Zenon, <2>1, <2>9 DEF CtlRan, VrBhs, Inv, MsgInv
  <2>12. ASSUME NEW w \in Vring, S.vdev.conn_handler # "none"
         PROVE  ~Leaving(U, w) /\ ~Stopping(U, w)
    BY ZenonT(30), <2>2, <2>11, <2>12 DEF UpInv
  <2>13. KeptInv(U.vdev)
    BY ZenonT(30), <2>5, <2>8 DEF KeptInv, KeptFor, Completed
  <2>14. /\ U.vdev.listen_handler = S.vdev.listen_handler
         /\ U.vdev.connfd <=> S.vdev.connfd
         /\ U.vdev.num_vrings_handling_msg = 0
         /\ U.vdev.num_vrings_started = S.vdev.num_vrings_started
         /\ U.vdev.num_vrings_in_flight = S.vdev.num_vrings_in_flight
         /\ U.vdev.memmap = S.vdev.memmap /\ U.vdev.memlog = S.vdev.memlog
         /\ U.vdev.work = S.vdev.work /\ (U.vdev.released <=> S.vdev.released)
         /\ U.vdev.conn_handler # "none" <=> S.vdev.conn_handler # "none"
    BY ZenonT(60), <2>5, <2>8 DEF Completed
  <2>15. ASSUME sent \/ S.vdev.conn_handler = "none" PROVE Good(M)
    <3>1. X = U
      BY Zenon, <2>8, <2>14, <2>15 DEF vdev_disconnect
    <3>2. ConnInv(U.vdev)
      BY ZenonT(30), <2>2, <2>3, <2>5, <2>8, <2>14, <2>15 DEF ConnInv, Completed
    <3>3. FailedDev(S, U)
      BY Zenon, <2>13, <2>14, <3>2 DEF FailedDev
    <3>4. FailedMsg(S, U)
      BY ZenonT(30), <2>2, <2>12, <2>14 DEF FailedMsg
    <3>5. \A w \in Vring : SameVring(S.vring[w], U.vring[w])
      BY Zenon, <2>8 DEF SameVring, SameLife, SameUse
    <3> QED
      BY Zenon, <2>1, <2>6, <2>8, <2>9, <2>10, <3>1, <3>3, <3>4, <3>5, <1>FailStep
  <2>16. ASSUME ~sent, S.vdev.conn_handler # "none" PROVE Good(M)
    <3> DEFINE G == Gone(U)
    <3>1. /\ vdev_disconnect(U) = vdev_maybe_finished(G)
          /\ G \in StateType /\ G.failed = {}
          /\ G.ctl = U.ctl /\ G.ext = U.ext
          /\ G.vdev = [U.vdev EXCEPT !.conn_handler = "none"]
          /\ \A w \in Vring : SameVring(U.vring[w], G.vring[w])
          /\ RqAgree(U, G, "vring_stop_bh_disconnect", CtlSet(U))
          /\ BhInv(G)
      BY ZenonT(30), <2>8, <2>9, <2>12, <2>14, <2>16, Disconnected
    <3> HIDE DEF G
    <3>2. /\ S.vdev.listen_handler = "detached" /\ S.vdev.req # "NONE"
          /\ U.vdev \in VdevType /\ U.vdev.req # "NONE" /\ U.vdev.timer_handler # "none"
      BY ZenonT(30), <2>2, <2>3, <2>5, <2>8, <2>16 DEF ConnInv, VdevType, Handler, StateType, Completed
    <3>3. FailedDev(S, G) /\ G.vdev.conn_handler = "none" /\ G.vdev.req # "NONE"
      <4>1. KeptInv(G.vdev) /\ ConnInv(G.vdev)
        BY SMTT(30), <2>2, <2>13, <2>14, <3>1, <3>2 DEF KeptInv, KeptFor, ConnInv, VdevType
      <4> QED
        BY SMTT(30), <2>14, <3>1, <3>2, <4>1 DEF FailedDev, VdevType
    <3>4. X = G
      <4>1. vdev_in_use(G) /\ G.vdev.listen_handler # "none"
        BY ZenonT(30), <2>2, <3>2, <3>3 DEF FailedDev, vdev_in_use
      <4> QED
        BY ZenonT(30), <2>8, <2>16, <3>1, <4>1, NotFinished
    <3>5. FailedBhs(S, G, v)
      BY ZenonT(30), <2>10, <3>1 DEF RqAgree, FailedBhs
    <3>6. FailedMsg(S, G)
      <4>1. \A w \in Vring : ~Stopping(G, w)
        BY ZenonT(30), <2>12, <2>16, <3>1 DEF RqAgree
      <4> QED
        BY Zenon, <3>3, <4>1 DEF FailedMsg
    <3>7. \A w \in Vring : SameVring(S.vring[w], G.vring[w])
      BY ZenonT(30), <2>8, <3>1
    <3>8. G.ext = S.ext
      BY Zenon, <2>8, <3>1
    <3> QED
      BY ZenonT(30), <2>1, <2>6, <3>1, <3>3, <3>4, <3>5, <3>6, <3>7, <3>8, <1>FailStep
  <2> QED
    BY Zenon, <2>15, <2>16 DEF M, Z
<1> SUFFICES ASSUME NEW S \in StateType, S.failed = {}, Inv(S),
                    NEW b \in S.ctl.batch, NEW ok \in BOOLEAN
             PROVE  Good(CtlBody([S EXCEPT !.ctl.batch = @ \ {b}], b, ok))
  BY Zenon
<1>1. \/ b \in CtlBhName \X Vring
      \/ b \in {"work_bh"} \X {"vdev_start", "vdev_stop"}
  BY Zenon DEF StateType, CtlBhs
<1>2. CASE b \in {"work_bh"} \X {"vdev_start", "vdev_stop"}
  <2>1. PICK func \in {"vdev_start", "vdev_stop"} : b = <<"work_bh", func>>
    BY SMTT(30), <1>2
  <2> DEFINE Z == [S EXCEPT !.ctl.batch = @ \ {<<"work_bh", func>>}]
  <2>2. CtlBody(Z, <<"work_bh", func>>, ok) = vdev_work_fn(Z, func, ok)
    BY Zenon DEF CtlBody
  <2>3. Good(vdev_work_fn(Z, func, ok))
    BY ZenonT(30), <2>1, <1>StartGood, <1>StopGood
  <2> QED
    BY ZenonT(30), <2>1, <2>2, <2>3
<1>3. CASE b \in CtlBhName \X Vring
  <2>1. PICK name \in CtlBhName, v \in Vring : b = <<name, v>>
    BY SMTT(30), <1>3
  <2> DEFINE Z == [S EXCEPT !.ctl.batch = @ \ {<<name, v>>}]
  <2>2. CASE name = "vring_mark_msg_handled_bh"
    <3>1. CtlBody(Z, <<name, v>>, ok) = vring_mark_msg_handled(Z, ok)
      BY Zenon, <2>2 DEF CtlBody
    <3>2. Good(vring_mark_msg_handled(Z, ok))
      BY Zenon, <2>1, <2>2, <1>HandledGood
    <3> QED
      BY ZenonT(30), <2>1, <3>1, <3>2
  <2>3. CASE name = "vring_mark_stopped_bh"
    <3>1. CtlBody(Z, <<name, v>>, ok) = vring_mark_stopped(Z, v)
      BY Zenon, <2>3 DEF CtlBody
    <3>2. Good(vring_mark_stopped(Z, v))
      BY ZenonT(30), <2>1, <2>3, <1>StoppedGood
    <3> QED
      BY ZenonT(30), <2>1, <3>1, <3>2
  <2>4. CASE name = "vring_mark_drained_bh"
    <3>1. CtlBody(Z, <<name, v>>, ok) = vring_mark_drained(Z, v, ok)
      BY Zenon, <2>4 DEF CtlBody
    <3>2. Good(vring_mark_drained(Z, v, ok))
      BY ZenonT(30), <2>1, <2>4, <1>DrainedGood
    <3> QED
      BY ZenonT(30), <2>1, <3>1, <3>2
  <2>5. CASE name = "vring_start_failed_bh"
    <3>1. CtlBody(Z, <<name, v>>, ok) = vring_start_failed(Z, v, ok)
      BY Zenon, <2>5 DEF CtlBody
    <3>2. Good(vring_start_failed(Z, v, ok))
      BY ZenonT(30), <2>1, <2>5, <1>StartFailedGood
    <3> QED
      BY Zenon, <2>1, <3>1, <3>2
  <2> QED
    BY ZenonT(30), <2>2, <2>3, <2>4, <2>5 DEF CtlBhName
<1> QED
  BY Zenon, <1>1, <1>2, <1>3

(* A vring after it has copied its shadow state. *)
LEMMA Synced ==
  ASSUME NEW r \in VringType
  PROVE  LET t == vring_sync_to_virtq(r) IN
         /\ t \in VringType /\ SameLife(r, t)
         /\ t.callfd = r.callfd /\ t.shadow_vq = r.shadow_vq
         /\ (t.disconnecting <=> r.disconnecting)
         /\ t.vq.mm = r.shadow_vq.mm /\ t.vq.log = r.shadow_vq.log
         /\ t.vq.notify_fd = r.callfd /\ (t.vq.enabled <=> r.shadow_vq.enabled)
<1> DEFINE u == [r.vq EXCEPT !.enabled = r.shadow_vq.enabled, !.mm = r.shadow_vq.mm,
                             !.log = r.shadow_vq.log, !.notify_fd = r.callfd]
<1>1. r.vq \in VqType /\ r.callfd \in Id
      /\ r.shadow_vq \in [enabled : BOOLEAN, mm : Id, log : Id]
  BY Zenon DEF VringType
<1>2. /\ u \in VqType /\ (u.buffers <=> r.vq.buffers) /\ u.mm = r.shadow_vq.mm
      /\ u.log = r.shadow_vq.log /\ u.notify_fd = r.callfd
      /\ (u.enabled <=> r.shadow_vq.enabled)
  BY Zenon, <1>1 DEF VqType
<1>3. vring_sync_to_virtq(r) = [r EXCEPT !.vq = u]
  BY Zenon, <1>1 DEF vring_sync_to_virtq, VringType, VqType
<1> HIDE DEF u
<1> QED
  BY ZenonT(30), <1>2, <1>3 DEF VringType, SameLife

-----------------------------------------------------------------------------
(* Requests. *)

(* The bounds on the requests of a vring. *)
LEMMA Positive == \A n \in Nat : n > 0 => n # 0
BY SMTT(30)

LEMMA MaxReqType == client \in Client => client.max_req \in Nat /\ client.max_req \in Int
BY SMTT(30), ConstantsAssumption DEF ClientType

(* What the types say of the number of requests of a vring. *)
LEMMA Requests ==
  ASSUME client \in Client, NEW r \in VringType
  PROVE  /\ client.max_req \in Nat
         /\ r.num_in_flight \in Nat /\ r.num_in_flight <= client.max_req
         /\ r.queued \in Nat /\ r.queued <= client.max_req
<1>1. client.max_req \in Nat
  BY Zenon, ConstantsAssumption DEF ClientType
<1>2. r.num_in_flight \in 0 .. client.max_req /\ r.queued \in 0 .. client.max_req
  BY Zenon DEF VringType
<1> QED
  BY SMTT(30), <1>1, <1>2

(* vhd_vdev_init_server failed: the device is released. *)
LEMMA InitFailedGood ==
  ASSUME NEW S \in StateType, S.failed = {}, Inv(S), S.ext = "start_failed"
  PROVE  Good(vhd_vdev_release(S))
<1> DEFINE T == vhd_vdev_release(S)
<1>1. S.vdev \in VdevType
  BY Zenon DEF StateType
<1>2. /\ T.vdev = [S.vdev EXCEPT !.released = TRUE] /\ T.vdev \in VdevType
      /\ T \in StateType /\ T.failed = {} /\ T.ext = S.ext
      /\ T.vring = S.vring /\ T.ctl = S.ctl /\ T.rq = S.rq
  <2>1. [S.vdev EXCEPT !.released = TRUE] \in VdevType
    BY Zenon, <1>1 DEF VdevType
  <2> QED
    BY Zenon, <2>1 DEF StateType, vhd_vdev_release
<1> HIDE DEF T
<1>3. BhsAgree(S, T) /\ VrBhs(S, T) /\ BhInv(T)
  BY Zenon, <1>2, SameBhs DEF Inv
<1>4. CountInv(T)
  <2>1. MsgSet(T) = MsgSet(S) /\ RunSet(T) = RunSet(S) /\ CtlSet(T) = CtlSet(S)
    BY Zenon, <1>2, SameVrings
  <2> QED
    BY ZenonT(30), <1>1, <1>2, <2>1 DEF Inv, CountInv, VdevType
<1>5. KeptInv(T.vdev) /\ ConnInv(T.vdev)
  BY SMTT(30), <1>1, <1>2 DEF Inv, KeptInv, KeptFor, ConnInv, VdevType
<1>6. WorkInv(T)
  <2>1. /\ S.vdev = [VdevInit EXCEPT !.released = S.vdev.released]
        /\ S.vring = [v \in Vring |-> VringInit]
        /\ S.rq = [r \in Rq |-> LoopInit]
        /\ \A v \in Vring : /\ ~Handled(S, v) /\ ~Stopped(S, v)
                            /\ ~Drained(S, v) /\ ~StartFailed(S, v)
        /\ ~Working(S, "vdev_start") /\ ~Working(S, "vdev_stop")
        /\ S.vdev.work = "none"
    BY Zenon DEF Inv, WorkInv, VdevInit
  <2>2. T.vdev = [VdevInit EXCEPT !.released = T.vdev.released] /\ T.vdev.work = "none"
    <3> DEFINE x == S.vdev.released
    <3>1. T.vdev.released = TRUE /\ T.vdev.work = S.vdev.work
      BY Zenon, <1>1, <1>2 DEF VdevType
    <3>2. S.vdev = [VdevInit EXCEPT !.released = x]
      BY Zenon, <2>1
    <3> HIDE DEF x
    <3>3. [S.vdev EXCEPT !.released = TRUE] = [VdevInit EXCEPT !.released = TRUE]
      BY ZenonT(30), <3>2 DEF VdevInit
    <3> QED
      BY Zenon, <1>2, <2>1, <3>1, <3>3
  <2> QED
    BY Zenon, <1>2, <1>3, <2>1, <2>2 DEF WorkInv, BhsAgree, VrBhs
<1>7. ASSUME NEW v \in Vring PROVE Life(T, v) /\ MsgInv(T, v) /\ UseInv(T, v)
  <2>1. Life(T, v)
    BY ZenonT(30), <1>2, SameVrings DEF Inv
  <2>2. MsgInv(T, v)
    <3>1. \A w \in Vring : InMsg(T, w) <=> InMsg(S, w)
      BY Zenon, <1>3, SameMsgs
    <3> QED
      BY SMTT(30), <1>1, <1>2, <1>3, <3>1 DEF Inv, MsgInv, PartInv, UpInv, DownInv, IdleInv,
         VdevType, VrBhs
  <2>3. UseInv(T, v)
    BY ZenonT(30), <1>1, <1>2, <1>3, SameUses DEF Inv, VdevType, VrBhs, SameMaps, SameUse
  <2> QED
    BY Zenon, <2>1, <2>2, <2>3
<1> QED
  BY Zenon, <1>2, <1>3, <1>4, <1>5, <1>6, <1>7 DEF Good, Inv, T

-----------------------------------------------------------------------------
(* Messages. *)

(* server_read: a client connects. *)
LEMMA ServerReadGood ==
  ASSUME Counting,
         NEW S \in StateType, S.failed = {}, Inv(S), S.vdev.listen_handler = "attached"
  PROVE  Good(server_read(S))
<1> DEFINE d == S.vdev
           e == [d EXCEPT !.listen_handler = "detached", !.connfd = TRUE,
                          !.conn_handler = "attached", !.timer_handler = "detached",
                          !.log_all = FALSE, !.vring_enable = FALSE]
           T == server_read(S)
<1>1. d \in VdevType /\ ConnInv(d) /\ KeptInv(d) /\ WorkInv(S) /\ CountInv(S)
  BY Zenon DEF StateType, Inv
<1>2. /\ ~d.connfd /\ d.conn_handler = "none" /\ d.req = "NONE"
      /\ d.num_vrings_handling_msg = 0 /\ d.num_vrings_started = 0
      /\ d.num_vrings_in_flight = 0
  BY Zenon, <1>1 DEF ConnInv
<1>3. T = [S EXCEPT !.vdev = e]
  BY ZenonT(30), <1>2 DEF server_read, VHD_ASSERT, StateType, VdevType
<1>4. /\ e \in VdevType /\ e.listen_handler = "detached" /\ e.connfd
      /\ e.conn_handler = "attached" /\ e.timer_handler = "detached"
      /\ e.req = "NONE" /\ e.num_vrings_handling_msg = 0
      /\ e.num_vrings_started = d.num_vrings_started
      /\ e.num_vrings_in_flight = d.num_vrings_in_flight
      /\ e.handle_complete = d.handle_complete /\ SameMaps(d, e)
      /\ e.work = d.work /\ (e.released <=> d.released)
  <2>1. e \in VdevType
    BY ZenonT(30), <1>1 DEF VdevType, Handler
  <2> QED
    BY ZenonT(30), <1>1, <1>2, <2>1 DEF VdevType, SameMaps
<1> HIDE DEF e
<1>5. /\ T \in StateType /\ T.vdev = e /\ T.failed = {} /\ T.ext = S.ext
      /\ T.vring = S.vring /\ T.ctl = S.ctl /\ T.rq = S.rq
  BY Zenon, <1>3, <1>4 DEF StateType
<1> HIDE DEF T
<1>6. BhsAgree(S, T) /\ VrBhs(S, T) /\ BhInv(T)
  BY Zenon, <1>5, SameBhs DEF Inv
<1>7. CountInv(T)
  <2>1. MsgSet(T) = MsgSet(S) /\ RunSet(T) = RunSet(S) /\ CtlSet(T) = CtlSet(S)
    BY Zenon, <1>5, SameVrings
  <2> QED
    BY ZenonT(30), <1>1, <1>2, <1>4, <1>5, <2>1 DEF CountInv
<1>8. KeptInv(T.vdev)
  BY ZenonT(30), <1>1, <1>2, <1>4, <1>5 DEF KeptInv, KeptFor, SameMaps
<1>9. ConnInv(T.vdev)
  BY Zenon, <1>4, <1>5 DEF ConnInv
<1>10. WorkInv(T)
  <2>1. S.ext \notin {"init", "starting", "start_failed", "stopped"}
    <3>1. S.ext # "stopped"
      BY Zenon, <1>1 DEF WorkInv
    <3>2. [VdevInit EXCEPT !.released = d.released].listen_handler = "none"
      BY Zenon DEF VdevInit
    <3> QED
      BY Zenon, <1>1, <3>1, <3>2 DEF WorkInv
  <2> QED
    BY ZenonT(30), <1>1, <1>4, <1>5, <1>6, <2>1 DEF WorkInv, BhsAgree
<1>11. ASSUME NEW v \in Vring PROVE Life(T, v) /\ MsgInv(T, v) /\ UseInv(T, v)
  <2>1. Life(S, v) /\ IdleInv(S, v) /\ UseInv(S, v)
    BY Zenon DEF Inv, MsgInv
  <2>2. ~InMsg(S, v) /\ ~S.vring[v].started_in_ctl
    BY Zenon, <1>1, <1>2, NoneCounted
  <2>3. Life(T, v)
    BY Zenon, <1>5, <2>1, SameVrings
  <2>4. /\ ~Starting(T, v) /\ ~StartFailed(T, v) /\ ~Stopping(T, v) /\ ~Leaving(T, v)
        /\ ~T.vring[v].started_in_ctl /\ ~T.vring[v].on_drain_cb
    BY Zenon, <1>5, <1>6, <2>1, <2>2, <2>3 DEF VrBhs, InMsg, IdleInv, Life
  <2>5. MsgInv(T, v)
    BY Zenon, <1>4, <1>5, <2>4 DEF MsgInv, PartInv, UpInv, DownInv, IdleInv
  <2>6. UseInv(T, v)
    BY Zenon, <1>4, <1>5, <1>6, <2>1, SameUses DEF VrBhs, SameUse
  <2> QED
    BY Zenon, <2>3, <2>5, <2>6
<1> QED
  BY Zenon, <1>5, <1>6, <1>7, <1>8, <1>9, <1>10, <1>11 DEF Good, Inv, T

(* A loop swaps its list of bottom halves out. *)
PollGood(S) ==
  /\ S.ctl.batch = {} => \A T \in StateType :
       /\ T.ctl = Polled(S.ctl) /\ T.rq = S.rq
       /\ T.vdev = S.vdev /\ T.vring = S.vring /\ T.ext = S.ext
       => Inv(T)
  /\ \A q \in Rq : S.rq[q].batch = {} /\ S.rq[q].pending # {} => \A T \in StateType :
       /\ T.rq = [S.rq EXCEPT ![q] = Polled(S.rq[q])] /\ T.ctl = S.ctl
       /\ T.vdev = S.vdev /\ T.vring = S.vring /\ T.ext = S.ext
       => Inv(T)

(* The external thread submits the start or the stop of the device. *)
CallGood(S) ==
  S.failed = {} => \A to, func :
    \/ S.ext = "init" /\ to = "starting" /\ func = "vdev_start"
    \/ S.ext = "running" /\ to = "stopping" /\ func = "vdev_stop"
    => Good(vhd_run_in_ctl([S EXCEPT !.ext = to], {<<"work_bh", func>>}))

(* A request queue runs a bottom half. *)
QueueGood(S) ==
  S.failed = {} => \A q \in Rq : \A b \in S.rq[q].batch, ok \in BOOLEAN :
    Good(RqBody([S EXCEPT !.rq[q].batch = @ \ {b}], b, ok))

(* The guest kicks a vring; the backend takes and completes a request. *)
KickState(S, v, n, ok) ==
  [S EXCEPT !.vring = [S.vring EXCEPT
     ![v].num_in_flight = @ + n, ![v].queued = @ + n,
     ![v].kick_handler = IF ok THEN @ ELSE "detached"]]

KickGood(S) ==
  \A v \in Vring, n \in 0 .. client.max_req, ok \in BOOLEAN :
    /\ S.vring[v].kick_handler = "attached"
    /\ S.vring[v].num_in_flight + n <= client.max_req
    => KickState(S, v, n, ok) \in StateType /\ Inv(KickState(S, v, n, ok))

DequeueGood(S) ==
  \A v \in Vring : S.vring[v].queued > 0 =>
    LET T == [S EXCEPT !.vring = [S.vring EXCEPT ![v].queued = @ - 1]]
    IN T \in StateType /\ Inv(T)

CompleteGood(S) ==
  S.failed = {} => \A v \in Vring :
    S.vring[v].num_in_flight > S.vring[v].queued =>
      Good(vhd_vring_dec_in_flight(S, v))

RequestGood(S) == KickGood(S) /\ DequeueGood(S) /\ CompleteGood(S)

(* The loops poll and run their bottom halves, the guest kicks, the backend *)
(* takes and completes requests, and the external thread submits a work.    *)
LEMMA LoopsGood ==
  ASSUME Counting
  PROVE  client \in Client => \A S \in StateType : Inv(S) =>
           PollGood(S) /\ CallGood(S) /\ QueueGood(S) /\ RequestGood(S)
(* What the helpers of the handlers do to a state. *)

(* A BH queued on the control loop. *)
<1>RunInCtl.
  ASSUME NEW S \in StateType, S.failed = {}, NEW B \in SUBSET CtlBhs,
         B \cap (S.ctl.pending \cup S.ctl.batch) = {}
  PROVE  LET T == vhd_run_in_ctl(S, B) IN
         /\ T \in StateType
         /\ T.vdev = S.vdev /\ T.vring = S.vring /\ T.rq = S.rq
         /\ T.ext = S.ext /\ T.failed = {}
         /\ T.ctl = [pending |-> S.ctl.pending \cup B, batch |-> S.ctl.batch]
  BY ZenonT(30), <1>RunInCtl DEF vhd_run_in_ctl, VHD_ASSERT, StateType
(* T has the BHs of S, and those of B. *)
<1> DEFINE CtlAgree(S, T, B) ==
             /\ Working(T, "vdev_start") <=>
                  Working(S, "vdev_start") \/ <<"work_bh", "vdev_start">> \in B
             /\ Working(T, "vdev_stop") <=>
                  Working(S, "vdev_stop") \/ <<"work_bh", "vdev_stop">> \in B
             /\ \A v \in Vring :
                  /\ Starting(T, v) <=> Starting(S, v)
                  /\ Syncing(T, v) <=> Syncing(S, v)
                  /\ Stopping(T, v) <=> Stopping(S, v)
                  /\ Leaving(T, v) <=> Leaving(S, v)
                  /\ Handled(T, v) <=>
                       Handled(S, v) \/ <<"vring_mark_msg_handled_bh", v>> \in B
                  /\ Stopped(T, v) <=> Stopped(S, v) \/ <<"vring_mark_stopped_bh", v>> \in B
                  /\ StoppedQueued(T, v) <=>
                       StoppedQueued(S, v) \/ <<"vring_mark_stopped_bh", v>> \in B
                  /\ Drained(T, v) <=> Drained(S, v) \/ <<"vring_mark_drained_bh", v>> \in B
                  /\ StartFailed(T, v) <=>
                       StartFailed(S, v) \/ <<"vring_start_failed_bh", v>> \in B
<1> HIDE DEF CtlAgree
<1>QueuedInCtl.
  ASSUME NEW S, NEW T, NEW B, B \cap (S.ctl.pending \cup S.ctl.batch) = {},
         \A v \in Vring : <<"vring_mark_stopped_bh", v>> \in B
                              => <<"vring_mark_drained_bh", v>> \notin S.ctl.batch,
         T.rq = S.rq,
         T.ctl = [pending |-> S.ctl.pending \cup B, batch |-> S.ctl.batch]
  PROVE  /\ CtlAgree(S, T, B)
         /\ BhInv(S) => BhInv(T)
  <2> USE <1>QueuedInCtl
  <2>1. \A n, x : InC(T, n, x) <=> InC(S, n, x) \/ <<n, x>> \in B
    BY SMTT(30) DEF InC
  <2>2. \A n, x : InR(T, n, x) <=> InR(S, n, x)
    BY ZenonT(30) DEF InR
  <2>3. CtlAgree(S, T, B)
    BY SMTT(30), <2>1, <2>2 DEF CtlAgree, Starting, Syncing, Stopping, Leaving, Handled,
       Stopped, StoppedQueued, Drained, StartFailed, Working
  <2> QED
    BY SMTT(30), <2>3 DEF BhInv
(* The loops and the external thread. *)

(* The BHs about vrings are those of S; one that tells of the end of a     *)
(* vring may have been swapped out.                                        *)
<1> DEFINE Moved(S, T) ==
             \A v \in Vring :
               /\ Starting(T, v) <=> Starting(S, v)
               /\ Syncing(T, v) <=> Syncing(S, v)
               /\ Stopping(T, v) <=> Stopping(S, v)
               /\ Leaving(T, v) <=> Leaving(S, v)
               /\ Handled(T, v) <=> Handled(S, v)
               /\ Stopped(T, v) <=> Stopped(S, v)
               /\ StoppedQueued(T, v) => StoppedQueued(S, v)
               /\ Drained(T, v) <=> Drained(S, v)
               /\ StartFailed(T, v) <=> StartFailed(S, v)
<1> HIDE DEF Moved
<1>Moves.
  ASSUME NEW S, Inv(S), NEW T, Moved(S, T), BhInv(T), WorkInv(T),
         T.vdev = S.vdev, T.vring = S.vring
  PROVE  Inv(T)
  <2> USE <1>Moves
  <2>1. ASSUME NEW w \in Vring
        PROVE  /\ InMsg(T, w) <=> InMsg(S, w)
               /\ Running(T, w) <=> Running(S, w)
    BY Zenon DEF Moved, InMsg, Running
  <2>2. MsgSet(T) = MsgSet(S) /\ RunSet(T) = RunSet(S) /\ CtlSet(T) = CtlSet(S)
    BY Zenon, <2>1 DEF MsgSet, RunSet, CtlSet
  <2>3. CountInv(T) /\ KeptInv(T.vdev) /\ ConnInv(T.vdev)
    BY Zenon, <2>2 DEF Inv, CountInv
  <2>4. ASSUME NEW w \in Vring PROVE Life(T, w) /\ MsgInv(T, w) /\ UseInv(T, w)
    <3>1. Life(S, w) /\ PartInv(S, w) /\ UpInv(S, w) /\ DownInv(S, w) /\ IdleInv(S, w)
          /\ UseInv(S, w)
      BY Zenon DEF Inv, MsgInv
    <3>2. Life(T, w)
      BY Zenon, <2>1, <3>1 DEF Life, Moved
    <3>3. PartInv(T, w)
      BY Zenon, <2>1, <3>1 DEF PartInv, Moved
    <3>4. UpInv(T, w) /\ DownInv(T, w) /\ IdleInv(T, w)
      BY Zenon, <3>1 DEF UpInv, DownInv, IdleInv, Moved
    <3>5. UseInv(T, w)
      BY Zenon, <3>1, SameUses DEF Moved, SameMaps, SameUse
    <3> QED
      BY Zenon, <3>2, <3>3, <3>4, <3>5 DEF MsgInv
  <2> QED
    BY Zenon, <2>3, <2>4 DEF Inv
(* bh_poll: a loop swaps out its list of BHs. *)
<1>CtlPollGood.
  ASSUME NEW S \in StateType, Inv(S), S.ctl.batch = {}, NEW T \in StateType,
         T.ctl = Polled(S.ctl), T.rq = S.rq,
         T.vdev = S.vdev, T.vring = S.vring, T.ext = S.ext
  PROVE  Inv(T)
  <2> USE <1>CtlPollGood
  <2>1. /\ T.ctl.pending = {} /\ T.ctl.batch = S.ctl.pending
        /\ T.ctl.pending \cup T.ctl.batch = S.ctl.pending \cup S.ctl.batch
    BY SMTT(30) DEF Polled, StateType
  <2>2. /\ Moved(S, T)
        /\ Working(T, "vdev_start") <=> Working(S, "vdev_start")
        /\ Working(T, "vdev_stop") <=> Working(S, "vdev_stop")
    BY Zenon, <2>1 DEF Moved, InR, InC, Starting, Syncing, Stopping, Leaving, Handled,
         Stopped, StoppedQueued, Drained, StartFailed, Working
  <2>3. BhInv(T)
    BY Zenon, <2>1 DEF Inv, BhInv
  <2>4. WorkInv(T)
    BY ZenonT(30), <2>2 DEF Inv, WorkInv, Moved
  <2> QED
    BY ZenonT(30), <2>2, <2>3, <2>4, <1>Moves
<1>RqPollGood.
  ASSUME NEW S \in StateType, Inv(S), NEW q \in Rq, S.rq[q].batch = {},
         S.rq[q].pending # {}, NEW T \in StateType,
         T.rq = [S.rq EXCEPT ![q] = Polled(S.rq[q])], T.ctl = S.ctl,
         T.vdev = S.vdev, T.vring = S.vring, T.ext = S.ext
  PROVE  Inv(T)
  <2> USE <1>RqPollGood
  <2>1. /\ T.rq[q].pending = {} /\ T.rq[q].batch = S.rq[q].pending
        /\ \A r \in Rq : r # q => T.rq[r] = S.rq[r]
        /\ \A r \in Rq : T.rq[r].pending \cup T.rq[r].batch
                         = S.rq[r].pending \cup S.rq[r].batch
    BY SMTT(30) DEF Polled, StateType
  <2>2. /\ Moved(S, T)
        /\ Working(T, "vdev_start") <=> Working(S, "vdev_start")
        /\ Working(T, "vdev_stop") <=> Working(S, "vdev_stop")
    <3>1. \A v \in Vring : RqOf[v] \in Rq
      BY Zenon, ConstantsAssumption
    <3> QED
      BY ZenonT(30), <2>1, <3>1 DEF Moved, InR, InC, Starting, Syncing, Stopping, Leaving, Handled,
         Stopped, StoppedQueued, Drained, StartFailed, Working
  <2>3. BhInv(T)
    BY ZenonT(60), <2>1 DEF Inv, BhInv
  <2>4. S.ext \notin {"init", "starting", "start_failed"}
    BY SMTT(30) DEF Inv, WorkInv, LoopInit
  <2>5. WorkInv(T)
    BY Zenon, <2>2, <2>4 DEF Inv, WorkInv
  <2> QED
    BY Zenon, <2>2, <2>3, <2>5, <1>Moves
(* vhd_vdev_init_server, vhd_vdev_stop_server: a work is submitted. *)
<1>SubmitGood.
  ASSUME NEW S \in StateType, S.failed = {}, Inv(S), NEW to, NEW func,
         \/ S.ext = "init" /\ to = "starting" /\ func = "vdev_start"
         \/ S.ext = "running" /\ to = "stopping" /\ func = "vdev_stop"
  PROVE  Good(vhd_run_in_ctl([S EXCEPT !.ext = to], {<<"work_bh", func>>}))
  <2> USE <1>SubmitGood
  <2> DEFINE b == <<"work_bh", func>>
             Y == [S EXCEPT !.ext = to]
             T == vhd_run_in_ctl(Y, {b})
  <2>1. /\ Y \in StateType /\ Y.failed = {} /\ Y.ctl = S.ctl /\ Y.rq = S.rq
        /\ Y.vdev = S.vdev /\ Y.vring = S.vring /\ Y.ext = to
    BY Zenon DEF StateType, ExtType
  <2> HIDE DEF Y
  <2>2. WorkInv(S)
    BY Zenon DEF Inv
  <2>3. ~Working(S, "vdev_start") /\ ~Working(S, "vdev_stop")
    BY Zenon, <2>2 DEF WorkInv
  <2>4. {b} \in SUBSET CtlBhs /\ {b} \cap (Y.ctl.pending \cup Y.ctl.batch) = {}
    BY SMTT(30), <2>1, <2>3 DEF Working, InC, CtlBhs
  <2>5. /\ T \in StateType
        /\ T.vdev = S.vdev /\ T.vring = S.vring /\ T.rq = S.rq
        /\ T.ext = to /\ T.failed = {}
        /\ T.ctl = [pending |-> S.ctl.pending \cup {b}, batch |-> S.ctl.batch]
    BY SMTT(30), <2>1, <2>4, <1>RunInCtl
  <2> HIDE DEF T
  <2>6. CtlAgree(S, T, {b}) /\ BhInv(T)
    BY ZenonT(30), <2>1, <2>4, <2>5, <1>QueuedInCtl DEF Inv
  <2>7. Moved(S, T)
    BY Zenon, <2>6 DEF CtlAgree, Moved
  <2>8. WorkInv(T)
    BY ZenonT(30), <2>2, <2>3, <2>5, <2>6, <2>7 DEF WorkInv, CtlAgree, Moved
  <2> QED
    BY Zenon, <2>5, <2>6, <2>7, <2>8, <1>Moves DEF Good, T, Y, b
<1> DEFINE RqRuns(S, T, b) ==
             /\ Working(T, "vdev_start") <=> Working(S, "vdev_start")
             /\ Working(T, "vdev_stop") <=> Working(S, "vdev_stop")
             /\ \A v \in Vring :
                  /\ Starting(T, v) <=> Starting(S, v) /\ b # <<"vring_start_bh", v>>
                  /\ Syncing(T, v) <=> Syncing(S, v) /\ b # <<"vring_sync_to_virtq_bh", v>>
                  /\ Stopping(T, v) <=> Stopping(S, v) /\ b # <<"vring_stop_bh", v>>
                  /\ Leaving(T, v) <=> Leaving(S, v) /\ b # <<"vring_stop_bh_disconnect", v>>
                  /\ Handled(T, v) <=> Handled(S, v)
                  /\ Stopped(T, v) <=> Stopped(S, v)
                  /\ StoppedQueued(T, v) <=> StoppedQueued(S, v)
                  /\ Drained(T, v) <=> Drained(S, v)
                  /\ StartFailed(T, v) <=> StartFailed(S, v)
<1> HIDE DEF RqRuns
<1>RunsInRq.
  ASSUME NEW S \in StateType, BhInv(S), NEW q \in Rq, NEW b \in S.rq[q].batch
  PROVE  LET T == [S EXCEPT !.rq[q].batch = @ \ {b}] IN
         /\ T \in StateType
         /\ T.vdev = S.vdev /\ T.vring = S.vring /\ T.ctl = S.ctl
         /\ T.ext = S.ext /\ T.failed = S.failed
         /\ RqRuns(S, T, b)
         /\ BhInv(T)
  <2> USE <1>RunsInRq
  <2> DEFINE T == [S EXCEPT !.rq[q].batch = @ \ {b}]
  <2>1. /\ T \in StateType
        /\ T.vdev = S.vdev /\ T.vring = S.vring /\ T.ctl = S.ctl
        /\ T.ext = S.ext /\ T.failed = S.failed
        /\ T.rq[q].pending = S.rq[q].pending /\ T.rq[q].batch = S.rq[q].batch \ {b}
        /\ \A r \in Rq : r # q => T.rq[r] = S.rq[r]
    BY ZenonT(30) DEF StateType
  <2> HIDE DEF T
  <2>2. ASSUME NEW n, NEW v \in Vring
        PROVE  InR(T, n, v) <=> InR(S, n, v) /\ b # <<n, v>>
    <3>1. RqOf[v] \in Rq
      BY ZenonT(30), ConstantsAssumption
    <3>2. b = <<n, v>> => RqOf[v] = q
      BY SMTT(30) DEF BhInv
    <3> QED
      BY SMTT(30), <2>1, <3>1, <3>2 DEF InR, BhInv
  <2>3. \A n, x : InC(T, n, x) <=> InC(S, n, x)
    BY Zenon, <2>1 DEF InC
  <2>4. RqRuns(S, T, b)
    BY ZenonT(30), <2>1, <2>2, <2>3 DEF RqRuns, Starting, Syncing, Stopping, Leaving, Handled,
       Stopped, StoppedQueued, Drained, StartFailed, Working
  <2>5. BhInv(T)
    BY SMTT(30), <2>1 DEF BhInv
  <2> QED
    BY ZenonT(30), <2>1, <2>4, <2>5 DEF T
(* The request queues. *)

(* Nothing changed but the vring v and the BHs about it. *)
<1> DEFINE OnlyVring(S, T, v) ==
             /\ T.vdev = S.vdev /\ T.ext = S.ext
             /\ Working(T, "vdev_start") <=> Working(S, "vdev_start")
             /\ Working(T, "vdev_stop") <=> Working(S, "vdev_stop")
             /\ \A w \in Vring : w # v =>
                  /\ T.vring[w] = S.vring[w]
                  /\ Starting(T, w) <=> Starting(S, w)
                  /\ Syncing(T, w) <=> Syncing(S, w)
                  /\ Stopping(T, w) <=> Stopping(S, w)
                  /\ Leaving(T, w) <=> Leaving(S, w)
                  /\ Handled(T, w) <=> Handled(S, w)
                  /\ Stopped(T, w) <=> Stopped(S, w)
                  /\ StoppedQueued(T, w) <=> StoppedQueued(S, w)
                  /\ Drained(T, w) <=> Drained(S, w)
                  /\ StartFailed(T, w) <=> StartFailed(S, w)
<1> HIDE DEF OnlyVring
<1>VringStep.
  ASSUME NEW S \in StateType, Inv(S), NEW v \in Vring,
         NEW T \in StateType, OnlyVring(S, T, v), BhInv(T),
         S.ext \notin {"init", "starting", "start_failed"},
         InMsg(T, v) <=> InMsg(S, v), Running(T, v) <=> Running(S, v),
         T.vring[v].started_in_ctl <=> S.vring[v].started_in_ctl,
         T.vring[v].on_drain_cb <=> S.vring[v].on_drain_cb,
         Life(T, v), PartInv(T, v), UpInv(T, v), DownInv(T, v), IdleInv(T, v),
         UseInv(T, v)
  PROVE  Inv(T)
  <2> USE <1>VringStep
  <2>1. ASSUME NEW w \in Vring
        PROVE  /\ InMsg(T, w) <=> InMsg(S, w)
               /\ Running(T, w) <=> Running(S, w)
               /\ T.vring[w].started_in_ctl <=> S.vring[w].started_in_ctl
               /\ T.vring[w].on_drain_cb <=> S.vring[w].on_drain_cb
    BY ZenonT(30) DEF OnlyVring, InMsg, Running
  <2>2. MsgSet(T) = MsgSet(S) /\ RunSet(T) = RunSet(S) /\ CtlSet(T) = CtlSet(S)
    BY Zenon, <2>1 DEF MsgSet, RunSet, CtlSet
  <2>3. CountInv(T) /\ KeptInv(T.vdev) /\ ConnInv(T.vdev)
    BY Zenon, <2>2 DEF Inv, CountInv, OnlyVring
  <2>4. WorkInv(T)
    BY Zenon DEF Inv, WorkInv, OnlyVring
  <2>5. ASSUME NEW w \in Vring PROVE Life(T, w) /\ MsgInv(T, w) /\ UseInv(T, w)
    <3>1. CASE w = v
      BY ZenonT(30), <3>1 DEF MsgInv
    <3>2. CASE w # v
      <4>1. Life(S, w) /\ PartInv(S, w) /\ UpInv(S, w) /\ DownInv(S, w) /\ IdleInv(S, w)
            /\ UseInv(S, w)
        BY Zenon DEF Inv, MsgInv
      <4>2. Life(T, w)
        BY ZenonT(30), <2>1, <3>2, <4>1 DEF Life, OnlyVring
      <4>3. PartInv(T, w)
        BY ZenonT(30), <2>1, <3>2, <4>1 DEF PartInv, OnlyVring
      <4>4. UpInv(T, w) /\ DownInv(T, w) /\ IdleInv(T, w)
        BY ZenonT(30), <3>2, <4>1 DEF UpInv, DownInv, IdleInv, OnlyVring
      <4>5. UseInv(T, w)
        BY Zenon, <3>2, <4>1, SameUses DEF OnlyVring, SameMaps, SameUse
      <4> QED
        BY ZenonT(30), <4>2, <4>3, <4>4, <4>5 DEF MsgInv
    <3> QED
      BY Zenon, <3>1, <3>2
  <2> QED
    BY ZenonT(30), <2>3, <2>4, <2>5 DEF Inv
(* T has the BHs of S but the one called name about v, which runs. *)
<1> DEFINE RqRan(S, T, name, v) ==
             /\ OnlyVring(S, T, v)
             /\ Starting(T, v) <=> Starting(S, v) /\ name # "vring_start_bh"
             /\ Syncing(T, v) <=> Syncing(S, v) /\ name # "vring_sync_to_virtq_bh"
             /\ Stopping(T, v) <=> Stopping(S, v) /\ name # "vring_stop_bh"
             /\ Leaving(T, v) <=> Leaving(S, v) /\ name # "vring_stop_bh_disconnect"
             /\ Handled(T, v) <=> Handled(S, v)
             /\ Stopped(T, v) <=> Stopped(S, v)
             /\ StoppedQueued(T, v) <=> StoppedQueued(S, v)
             /\ Drained(T, v) <=> Drained(S, v)
             /\ StartFailed(T, v) <=> StartFailed(S, v)
<1> HIDE DEF RqRan
<1>RqRun.
  ASSUME NEW S \in StateType, Inv(S), NEW name \in RqBhName, NEW v \in Vring,
         NEW q \in Rq, <<name, v>> \in S.rq[q].batch
  PROVE  LET T == [S EXCEPT !.rq[q].batch = @ \ {<<name, v>>}] IN
         /\ T \in StateType
         /\ T.vdev = S.vdev /\ T.vring = S.vring /\ T.ctl = S.ctl
         /\ T.ext = S.ext /\ T.failed = S.failed
         /\ RqRan(S, T, name, v) /\ BhInv(T) /\ InR(S, name, v)
         /\ S.ext \notin {"init", "starting", "start_failed"}
  <2> USE <1>RqRun
  <2> DEFINE b == <<name, v>>
             T == [S EXCEPT !.rq[q].batch = @ \ {b}]
  <2>1. /\ T \in StateType
        /\ T.vdev = S.vdev /\ T.vring = S.vring /\ T.ctl = S.ctl
        /\ T.ext = S.ext /\ T.failed = S.failed
        /\ RqRuns(S, T, b) /\ BhInv(T)
    <3> HIDE DEF b
    <3> QED
      BY Zenon, <1>RunsInRq DEF b, Inv
  <2> HIDE DEF T
  <2>2. \A n, w : b # <<n, w>> <=> ~(name = n /\ w = v)
    BY ZenonT(30)
  <2>3. RqOf[v] = q
    BY SMTT(30) DEF Inv, BhInv
  <2>4. InR(S, name, v)
    BY ZenonT(30), <2>3 DEF InR
  <2>5. S.ext \notin {"init", "starting", "start_failed"}
    BY SMTT(30) DEF Inv, WorkInv, LoopInit
  <2> HIDE DEF b
  <2>6. RqRan(S, T, name, v)
    BY Zenon, <2>1, <2>2 DEF RqRuns, RqRan, OnlyVring
  <2> QED
    BY ZenonT(30), <2>1, <2>4, <2>5, <2>6 DEF T, b
(* A BH about v is queued on the control loop by a request queue. *)
<1>Tells.
  ASSUME NEW S \in StateType, NEW v \in Vring, NEW Z \in StateType, BhInv(Z),
         NEW name, RqRan(S, Z, name, v), NEW Y \in StateType, Y.failed = {},
         Y.ctl = Z.ctl, Y.rq = Z.rq, Y.vdev = Z.vdev, Y.ext = Z.ext,
         \A w \in Vring : w # v => Y.vring[w] = Z.vring[w],
         NEW B, B \subseteq CtlBhName \X {v},
         <<"vring_mark_msg_handled_bh", v>> \in B => ~Handled(S, v),
         <<"vring_mark_stopped_bh", v>> \in B => ~Stopped(S, v) /\ ~Drained(S, v),
         <<"vring_mark_drained_bh", v>> \in B => ~Drained(S, v),
         <<"vring_start_failed_bh", v>> \in B => ~StartFailed(S, v)
  PROVE  LET T == vhd_run_in_ctl(Y, B) IN
         /\ T \in StateType /\ T.failed = {} /\ T.vring = Y.vring
         /\ BhInv(T) /\ OnlyVring(S, T, v) /\ CtlAgree(Z, T, B)
  <2> USE <1>Tells
  <2> DEFINE T == vhd_run_in_ctl(Y, B)
  <2>1. B \in SUBSET CtlBhs
    BY Zenon DEF CtlBhs
  <2>2. /\ Handled(Z, v) <=> Handled(S, v)
        /\ Stopped(Z, v) <=> Stopped(S, v)
        /\ Drained(Z, v) <=> Drained(S, v)
        /\ StartFailed(Z, v) <=> StartFailed(S, v)
    BY ZenonT(30) DEF RqRan
  <2>3. B \cap (Y.ctl.pending \cup Y.ctl.batch) = {}
    BY SMTT(30), <2>2 DEF CtlBhName, Handled, Stopped, Drained, StartFailed, InC
  <2>4. \A w \in Vring : <<"vring_mark_stopped_bh", w>> \in B
                           => <<"vring_mark_drained_bh", w>> \notin Y.ctl.batch
    BY Zenon, <2>2 DEF Drained, InC
  <2>5. BhsAgree(Z, Y) /\ VrBhs(Z, Y) /\ BhInv(Y)
    BY ZenonT(30), SameBhs
  <2>6. /\ T \in StateType
        /\ T.vdev = Y.vdev /\ T.vring = Y.vring /\ T.rq = Y.rq
        /\ T.ext = Y.ext /\ T.failed = {}
        /\ T.ctl = [pending |-> Y.ctl.pending \cup B, batch |-> Y.ctl.batch]
    BY ZenonT(30), <2>1, <2>3, <1>RunInCtl
  <2> HIDE DEF T
  <2>7. CtlAgree(Y, T, B) /\ BhInv(T)
    BY ZenonT(30), <2>3, <2>4, <2>5, <2>6, <1>QueuedInCtl
  <2>8. CtlAgree(Z, T, B)
    BY Zenon, <2>5, <2>7 DEF CtlAgree, BhsAgree, VrBhs
  <2>9. OnlyVring(S, T, v)
    <3>1. /\ <<"work_bh", "vdev_start">> \notin B /\ <<"work_bh", "vdev_stop">> \notin B
          /\ \A n, w : w # v => <<n, w>> \notin B
      BY Zenon DEF CtlBhName
    <3> QED
      BY ZenonT(30), <2>6, <2>8, <3>1 DEF OnlyVring, CtlAgree, RqRan
  <2> QED
    BY ZenonT(30), <2>6, <2>7, <2>8, <2>9 DEF T
(* vring_sync_to_virtq_bh: a vring takes part in a message. *)
<1>SyncGood.
  ASSUME NEW S \in StateType, S.failed = {}, Inv(S), NEW v \in Vring, NEW q \in Rq,
         <<"vring_sync_to_virtq_bh", v>> \in S.rq[q].batch
  PROVE  Good(vring_sync_to_virtq_bh(
           [S EXCEPT !.rq[q].batch = @ \ {<<"vring_sync_to_virtq_bh", v>>}], v))
  <2> USE <1>SyncGood
  <2> DEFINE name == "vring_sync_to_virtq_bh"
             Z == [S EXCEPT !.rq[q].batch = @ \ {<<name, v>>}]
             t == vring_sync_to_virtq(S.vring[v])
             Y == [Z EXCEPT !.vring[v] = t]
             B == {<<"vring_mark_msg_handled_bh", v>>}
             T == vhd_run_in_ctl(Y, B)
  <2>1. /\ Z \in StateType
        /\ Z.vdev = S.vdev /\ Z.vring = S.vring /\ Z.ctl = S.ctl
        /\ Z.ext = S.ext /\ Z.failed = {}
        /\ RqRan(S, Z, name, v) /\ BhInv(Z) /\ Syncing(S, v)
        /\ S.ext \notin {"init", "starting", "start_failed"}
    BY SMTT(30), <1>RqRun DEF RqBhName, Syncing
  <2> HIDE DEF Z
  <2>2. /\ Life(S, v) /\ PartInv(S, v) /\ UpInv(S, v) /\ DownInv(S, v) /\ IdleInv(S, v)
        /\ UseInv(S, v) /\ S.vring[v] \in VringType
    BY Zenon DEF Inv, MsgInv, StateType
  <2>3. ~Starting(S, v) /\ ~StartFailed(S, v) /\ ~Handled(S, v)
    BY Zenon, <2>1, <2>2 DEF Life
  <2>4. /\ t \in VringType /\ SameLife(S.vring[v], t)
        /\ t.callfd = S.vring[v].callfd /\ t.shadow_vq = S.vring[v].shadow_vq
        /\ (t.disconnecting <=> S.vring[v].disconnecting)
        /\ t.vq.mm = t.shadow_vq.mm /\ t.vq.log = t.shadow_vq.log
        /\ t.vq.notify_fd = t.callfd /\ (t.vq.enabled <=> t.shadow_vq.enabled)
    BY Zenon, <2>2, Synced
  <2>5. vring_sync_to_virtq_bh(Z, v) = T
    BY Zenon, <2>1 DEF vring_sync_to_virtq_bh
  <2> HIDE DEF t
  <2>6. /\ Y \in StateType /\ Y.failed = {} /\ Y.ctl = Z.ctl /\ Y.rq = Z.rq
        /\ Y.vdev = Z.vdev /\ Y.ext = Z.ext
        /\ Y.vring[v] = t /\ \A w \in Vring : w # v => Y.vring[w] = Z.vring[w]
    BY ZenonT(30), <2>1, <2>4 DEF StateType
  <2>7. /\ B \subseteq CtlBhName \X {v} /\ <<"vring_mark_msg_handled_bh", v>> \in B
        /\ <<"vring_mark_stopped_bh", v>> \notin B
        /\ <<"vring_mark_drained_bh", v>> \notin B
        /\ <<"vring_start_failed_bh", v>> \notin B
    BY SMTT(30) DEF CtlBhName
  <2> HIDE DEF Y, B
  <2>8. /\ T \in StateType /\ T.failed = {} /\ T.vring = Y.vring
        /\ BhInv(T) /\ OnlyVring(S, T, v) /\ CtlAgree(Z, T, B)
    BY ZenonT(30), <2>1, <2>3, <2>6, <2>7, <1>Tells
  <2> HIDE DEF T
  <2>9. /\ ~Starting(T, v) /\ ~Syncing(T, v) /\ Handled(T, v) /\ ~StartFailed(T, v)
        /\ Stopping(T, v) <=> Stopping(S, v)
        /\ Leaving(T, v) <=> Leaving(S, v)
        /\ Stopped(T, v) <=> Stopped(S, v)
        /\ StoppedQueued(T, v) <=> StoppedQueued(S, v)
        /\ Drained(T, v) <=> Drained(S, v)
    BY ZenonT(30), <2>1, <2>3, <2>7, <2>8 DEF CtlAgree, RqRan
  <2>10. T.vring[v] = t /\ T.vdev = S.vdev
    BY ZenonT(30), <2>6, <2>8 DEF OnlyVring
  <2>11. /\ InMsg(T, v) <=> InMsg(S, v)
         /\ Running(T, v) <=> Running(S, v)
    BY ZenonT(30), <2>1, <2>3, <2>4, <2>9, <2>10 DEF InMsg, Running, SameLife
  <2>12. Life(T, v)
    BY ZenonT(30), <2>2, <2>4, <2>9, <2>10, <2>11 DEF Life, SameLife
  <2>13. PartInv(T, v)
    <3>1. \A w \in Vring : T.vring[w].on_drain_cb <=> S.vring[w].on_drain_cb
      BY ZenonT(30), <2>4, <2>8, <2>10 DEF SameLife, OnlyVring
    <3> QED
      BY ZenonT(30), <2>2, <2>9, <2>10, <3>1 DEF PartInv
  <2>14. UpInv(T, v) /\ DownInv(T, v) /\ IdleInv(T, v)
    BY ZenonT(30), <2>2, <2>3, <2>4, <2>9, <2>10 DEF UpInv, DownInv, IdleInv, SameLife
  <2>15. UseInv(T, v)
    <3>1. /\ t.shadow_vq.log \in {0, S.vdev.memlog}
          /\ t.started_in_ctl => S.vdev.memmap # 0 /\ t.shadow_vq.mm = S.vdev.memmap
      BY ZenonT(30), <2>1, <2>2, <2>4 DEF UseInv, SameLife
    <3> QED
      BY Zenon, <2>4, <2>9, <2>10, <3>1 DEF UseInv
  <2>16. Inv(T)
    BY ZenonT(30), <2>1, <2>4, <2>8, <2>10, <2>11, <2>12, <2>13, <2>14, <2>15, <1>VringStep DEF SameLife
  <2> QED
    BY Zenon, <2>5, <2>8, <2>16 DEF Good, Z
(* vring_start_bh: a vring starts, or cannot. *)
<1>VringStartGood.
  ASSUME NEW S \in StateType, S.failed = {}, Inv(S), NEW v \in Vring, NEW q \in Rq,
         NEW added \in BOOLEAN, <<"vring_start_bh", v>> \in S.rq[q].batch
  PROVE  Good(vring_start_bh(
           [S EXCEPT !.rq[q].batch = @ \ {<<"vring_start_bh", v>>}], v, added))
  <2> USE <1>VringStartGood
  <2> DEFINE name == "vring_start_bh"
             Z == [S EXCEPT !.rq[q].batch = @ \ {<<name, v>>}]
             fails == S.vring[v].disconnecting \/ ~added
             u == vring_sync_to_virtq(S.vring[v])
             t == [u EXCEPT !.kick_handler = "attached", !.started_in_rq = TRUE]
             Y == IF fails THEN Z ELSE [Z EXCEPT !.vring[v] = t]
             bh == IF fails THEN "vring_start_failed_bh" ELSE "vring_mark_msg_handled_bh"
             B == {<<bh, v>>}
             T == vhd_run_in_ctl(Y, B)
  <2>1. /\ Z \in StateType
        /\ Z.vdev = S.vdev /\ Z.vring = S.vring /\ Z.ctl = S.ctl
        /\ Z.ext = S.ext /\ Z.failed = {}
        /\ RqRan(S, Z, name, v) /\ BhInv(Z) /\ Starting(S, v)
        /\ S.ext \notin {"init", "starting", "start_failed"}
    BY SMTT(30), <1>RqRun DEF RqBhName, Starting
  <2> HIDE DEF Z
  <2>2. /\ Life(S, v) /\ PartInv(S, v) /\ UpInv(S, v) /\ DownInv(S, v) /\ IdleInv(S, v)
        /\ UseInv(S, v) /\ S.vring[v] \in VringType
    BY Zenon DEF Inv, MsgInv, StateType
  <2>3. /\ ~Syncing(S, v) /\ ~StartFailed(S, v) /\ ~Handled(S, v) /\ ~Stopped(S, v)
        /\ ~Drained(S, v) /\ ~StoppedQueued(S, v)
        /\ ~S.vring[v].started_in_rq /\ S.vring[v].started_in_ctl
        /\ ~S.vring[v].on_drain_cb
    <3>1. /\ ~Syncing(S, v) /\ ~StartFailed(S, v) /\ ~Handled(S, v) /\ ~Stopped(S, v)
          /\ ~Drained(S, v) /\ ~S.vring[v].started_in_rq /\ S.vring[v].started_in_ctl
      BY Zenon, <2>1, <2>2 DEF Life
    <3>2. ~StoppedQueued(S, v)
      BY Zenon, <3>1 DEF Stopped, StoppedQueued, InC
    <3>3. S.vdev.num_vrings_handling_msg # 0
      BY Zenon, <2>1, NoneCounted DEF Inv, InMsg
    <3> QED
      BY ZenonT(30), <2>2, <3>1, <3>2, <3>3 DEF PartInv
  <2>4. vring_start_bh(Z, v, added) = T
    <3>1. VHD_ASSERT(Z, ~Z.vring[v].started_in_rq, "start") = Z
      BY Zenon, <2>1, <2>3 DEF VHD_ASSERT
    <3>2. CASE fails
      BY ZenonT(30), <2>1, <3>1, <3>2 DEF vring_start_bh
    <3>3. CASE ~fails
      BY ZenonT(30), <2>1, <3>1, <3>3 DEF vring_start_bh
    <3> QED
      BY ZenonT(30), <3>2, <3>3
  <2>5. /\ u \in VringType /\ SameLife(S.vring[v], u)
        /\ u.callfd = S.vring[v].callfd /\ u.shadow_vq = S.vring[v].shadow_vq
        /\ (u.disconnecting <=> S.vring[v].disconnecting)
        /\ u.vq.mm = u.shadow_vq.mm /\ u.vq.log = u.shadow_vq.log
        /\ u.vq.notify_fd = u.callfd /\ (u.vq.enabled <=> u.shadow_vq.enabled)
    BY Zenon, <2>2, Synced
  <2> HIDE DEF u
  <2>6. /\ t \in VringType /\ t.kick_handler = "attached" /\ t.started_in_rq
        /\ (t.kickfd <=> S.vring[v].kickfd) /\ t.started_in_ctl /\ ~t.on_drain_cb
        /\ (t.vq.buffers <=> S.vring[v].vq.buffers)
        /\ t.num_in_flight = S.vring[v].num_in_flight /\ t.queued = S.vring[v].queued
        /\ t.callfd = S.vring[v].callfd /\ t.shadow_vq = S.vring[v].shadow_vq
        /\ (t.disconnecting <=> S.vring[v].disconnecting)
        /\ t.vq.mm = t.shadow_vq.mm /\ t.vq.log = t.shadow_vq.log
        /\ t.vq.notify_fd = t.callfd /\ (t.vq.enabled <=> t.shadow_vq.enabled)
    BY Zenon, <2>3, <2>5 DEF VringType, SameLife, Handler
  <2> HIDE DEF t, fails
  <2>7. /\ Y \in StateType /\ Y.failed = {} /\ Y.ctl = Z.ctl /\ Y.rq = Z.rq
        /\ Y.vdev = Z.vdev /\ Y.ext = Z.ext
        /\ Y.vring[v] = IF fails THEN S.vring[v] ELSE t
        /\ \A w \in Vring : w # v => Y.vring[w] = Z.vring[w]
    BY ZenonT(30), <2>1, <2>6 DEF StateType
  <2>8. /\ B \subseteq CtlBhName \X {v}
        /\ <<"vring_mark_msg_handled_bh", v>> \in B <=> ~fails
        /\ <<"vring_start_failed_bh", v>> \in B <=> fails
        /\ <<"vring_mark_stopped_bh", v>> \notin B
        /\ <<"vring_mark_drained_bh", v>> \notin B
    BY SMTT(30) DEF CtlBhName
  <2> HIDE DEF Y, B
  <2>9. /\ T \in StateType /\ T.failed = {} /\ T.vring = Y.vring
        /\ BhInv(T) /\ OnlyVring(S, T, v) /\ CtlAgree(Z, T, B)
    BY ZenonT(30), <2>1, <2>3, <2>7, <2>8, <1>Tells
  <2> HIDE DEF T
  <2>10. /\ ~Starting(T, v) /\ ~Syncing(T, v)
         /\ Handled(T, v) <=> ~fails
         /\ StartFailed(T, v) <=> fails
         /\ Stopping(T, v) <=> Stopping(S, v)
         /\ Leaving(T, v) <=> Leaving(S, v)
         /\ ~Stopped(T, v) /\ ~StoppedQueued(T, v) /\ ~Drained(T, v)
    BY ZenonT(30), <2>1, <2>3, <2>8, <2>9 DEF CtlAgree, RqRan
  <2>11. T.vring[v] = (IF fails THEN S.vring[v] ELSE t) /\ T.vdev = S.vdev
    BY ZenonT(30), <2>7, <2>9 DEF OnlyVring
  <2>12. /\ InMsg(T, v) <=> InMsg(S, v)
         /\ Running(T, v) <=> Running(S, v)
         /\ T.vring[v].started_in_ctl <=> S.vring[v].started_in_ctl
         /\ T.vring[v].on_drain_cb <=> S.vring[v].on_drain_cb
    BY ZenonT(30), <2>1, <2>3, <2>6, <2>10, <2>11 DEF InMsg, Running
  <2>13. Life(T, v)
    <3>1. CASE fails
      BY ZenonT(30), <2>1, <2>2, <2>3, <2>10, <2>11, <2>12, <3>1 DEF Life
    <3>2. CASE ~fails
      BY ZenonT(30), <2>1, <2>2, <2>3, <2>6, <2>10, <2>11, <2>12, <3>2 DEF Life
    <3> QED
      BY ZenonT(30), <3>1, <3>2
  <2>14. PartInv(T, v)
    <3>1. \A w \in Vring : InMsg(T, w) => InMsg(S, w)
      BY ZenonT(30), <2>9, <2>12 DEF OnlyVring, InMsg
    <3> QED
      BY ZenonT(30), <2>1, <2>2, <2>3, <2>10, <2>11, <2>12, <3>1 DEF PartInv
  <2>15. UpInv(T, v)
    <3>1. CASE fails
      BY ZenonT(30), <2>2, <2>3, <2>10, <2>11, <3>1 DEF UpInv
    <3>2. CASE ~fails
      BY ZenonT(30), <2>1, <2>2, <2>3, <2>6, <2>10, <2>11, <3>2 DEF UpInv
    <3> QED
      BY Zenon, <3>1, <3>2
  <2>16. DownInv(T, v) /\ IdleInv(T, v)
    <3>1. CASE fails
      BY ZenonT(30), <2>2, <2>10, <2>11, <3>1 DEF DownInv, IdleInv
    <3>2. CASE ~fails
      BY ZenonT(30), <2>2, <2>6, <2>10, <2>11, <3>2 DEF DownInv, IdleInv
    <3> QED
      BY ZenonT(30), <3>1, <3>2
  <2>17. UseInv(T, v)
    <3>1. CASE fails
      BY ZenonT(30), <2>2, <2>3, <2>10, <2>11, <3>1 DEF UseInv
    <3>2. CASE ~fails
      BY ZenonT(30), <2>1, <2>2, <2>3, <2>6, <2>10, <2>11, <3>2 DEF UseInv
    <3> QED
      BY Zenon, <3>1, <3>2
  <2>18. Inv(T)
    BY Zenon, <2>1, <2>9, <2>12, <2>13, <2>14, <2>15, <2>16, <2>17, <1>VringStep
  <2> QED
    BY ZenonT(30), <2>4, <2>9, <2>18 DEF Good, Z
(* vring_stop_bh: a vring stops, unless it has stopped already. *)
<1>VringStopGood.
  ASSUME client \in Client, NEW S \in StateType, S.failed = {}, Inv(S),
         NEW v \in Vring, NEW q \in Rq,
         NEW name \in {"vring_stop_bh", "vring_stop_bh_disconnect"},
         <<name, v>> \in S.rq[q].batch
  PROVE  Good(vring_stop_bh([S EXCEPT !.rq[q].batch = @ \ {<<name, v>>}], v))
  <2> USE <1>VringStopGood
  <2> DEFINE Z == [S EXCEPT !.rq[q].batch = @ \ {<<name, v>>}]
             M == vring_stop_bh(Z, v)
  <2>1. /\ Z \in StateType
        /\ Z.vdev = S.vdev /\ Z.vring = S.vring /\ Z.ctl = S.ctl
        /\ Z.ext = S.ext /\ Z.failed = {}
        /\ RqRan(S, Z, name, v) /\ BhInv(Z)
        /\ S.ext \notin {"init", "starting", "start_failed"}
        /\ InR(S, name, v)
    <3>1. name \in RqBhName
      BY Zenon DEF RqBhName
    <3> QED
      BY SMTT(30), <3>1, <1>RqRun
  <2> HIDE DEF Z
  <2>2. /\ Life(S, v) /\ PartInv(S, v) /\ UpInv(S, v) /\ DownInv(S, v) /\ IdleInv(S, v)
        /\ UseInv(S, v) /\ S.vring[v] \in VringType
    BY Zenon DEF Inv, MsgInv, StateType
  <2>3. /\ name = "vring_stop_bh" => Stopping(S, v)
        /\ name = "vring_stop_bh_disconnect" => Leaving(S, v)
    BY Zenon, <2>1 DEF Stopping, Leaving
  <2>4. /\ Starting(Z, v) <=> Starting(S, v)
        /\ Syncing(Z, v) <=> Syncing(S, v)
        /\ Stopping(Z, v) <=> Stopping(S, v) /\ name # "vring_stop_bh"
        /\ Leaving(Z, v) <=> Leaving(S, v) /\ name # "vring_stop_bh_disconnect"
        /\ Handled(Z, v) <=> Handled(S, v)
        /\ Stopped(Z, v) <=> Stopped(S, v)
        /\ StoppedQueued(Z, v) <=> StoppedQueued(S, v)
        /\ Drained(Z, v) <=> Drained(S, v)
        /\ StartFailed(Z, v) <=> StartFailed(S, v)
        /\ OnlyVring(S, Z, v)
    BY Zenon, <2>1 DEF RqRan
  <2>5. ASSUME ~S.vring[v].started_in_rq PROVE Good(M)
    <3>1. M = Z
      BY Zenon, <2>1, <2>5 DEF vring_stop_bh
    <3>2. /\ InMsg(Z, v) <=> InMsg(S, v)
          /\ Running(Z, v) <=> Running(S, v)
      BY Zenon, <2>1, <2>4 DEF InMsg, Running
    <3>3. Life(Z, v)
      BY ZenonT(30), <2>1, <2>2, <2>4, <3>2 DEF Life
    <3>4. PartInv(Z, v)
      <4>1. \A w \in Vring : InMsg(Z, w) => InMsg(S, w)
        BY ZenonT(30), <2>4, <3>2 DEF OnlyVring, InMsg
      <4> QED
        BY ZenonT(30), <2>1, <2>2, <2>4, <4>1 DEF PartInv
    <3>5. UpInv(Z, v) /\ DownInv(Z, v) /\ IdleInv(Z, v)
      BY ZenonT(30), <2>1, <2>2, <2>4 DEF UpInv, DownInv, IdleInv
    <3>6. UseInv(Z, v)
      BY ZenonT(30), <2>1, <2>2, <2>4, SameUses DEF SameMaps, SameUse
    <3>7. Inv(Z)
      BY ZenonT(30), <2>1, <2>4, <3>2, <3>3, <3>4, <3>5, <3>6, <1>VringStep
    <3> QED
      BY ZenonT(30), <2>1, <3>1, <3>7 DEF Good
  <2>6. ASSUME S.vring[v].started_in_rq PROVE Good(M)
    <3> DEFINE r == S.vring[v]
               c == IF r.disconnecting THEN vhd_cancel_queued_requests(r) ELSE r
               t == [c EXCEPT !.kick_handler = "none", !.started_in_rq = FALSE]
               Y == [Z EXCEPT !.vring[v] = t]
               B == {<<"vring_mark_stopped_bh", v>>} \cup
                    (IF c.num_in_flight = 0 THEN {<<"vring_mark_drained_bh", v>>} ELSE {})
               T == vhd_run_in_ctl(Y, B)
    <3>1. /\ ~Starting(S, v) /\ ~StartFailed(S, v) /\ ~Stopped(S, v) /\ ~Drained(S, v)
          /\ r.started_in_ctl /\ r.queued <= r.num_in_flight
      BY ZenonT(30), <2>2, <2>6 DEF Life
    <3>2. M = T
      BY ZenonT(30), <2>1, <2>6 DEF vring_stop_bh
    <3>3. /\ c \in VringType /\ c.queued <= c.num_in_flight
          /\ (c.kickfd <=> r.kickfd) /\ (c.started_in_ctl <=> r.started_in_ctl)
          /\ (c.on_drain_cb <=> r.on_drain_cb) /\ (c.disconnecting <=> r.disconnecting)
          /\ SameUse(r, c)
      <4>1. CASE r.disconnecting
        <5>1. /\ r.num_in_flight \in 0 .. client.max_req /\ r.queued \in 0 .. client.max_req
              /\ client.max_req \in Int
          <6>1. r.num_in_flight \in 0 .. client.max_req /\ r.queued \in 0 .. client.max_req
            BY ZenonT(30), <2>2 DEF VringType
          <6>2. client.max_req \in Int
            BY Zenon, MaxReqType
          <6> QED
            BY ZenonT(30), <6>1, <6>2
        <5>2. r.num_in_flight - r.queued \in 0 .. client.max_req /\ 0 \in 0 .. client.max_req
              /\ 0 <= r.num_in_flight - r.queued
          BY SMTT(30), <3>1, <5>1
        <5>3. c = [r EXCEPT !.num_in_flight = r.num_in_flight - r.queued, !.queued = 0]
          BY ZenonT(30), <4>1 DEF vhd_cancel_queued_requests
        <5> HIDE DEF c
        <5> QED
          BY ZenonT(30), <2>2, <5>2, <5>3 DEF VringType, SameUse
      <4>2. CASE ~r.disconnecting
        BY ZenonT(30), <2>2, <3>1, <4>2 DEF SameUse
      <4> QED
        BY ZenonT(30), <4>1, <4>2
    <3> HIDE DEF c
    <3>4. /\ t \in VringType /\ t.queued <= t.num_in_flight
          /\ (t.kickfd <=> r.kickfd) /\ t.started_in_ctl
          /\ (t.on_drain_cb <=> r.on_drain_cb) /\ (t.disconnecting <=> r.disconnecting)
          /\ SameUse(r, t) /\ t.kick_handler = "none" /\ ~t.started_in_rq
          /\ t.num_in_flight = c.num_in_flight
      BY ZenonT(30), <3>1, <3>3 DEF VringType, SameUse, Handler
    <3> HIDE DEF t
    <3>5. /\ Y \in StateType /\ Y.failed = {} /\ Y.ctl = Z.ctl /\ Y.rq = Z.rq
          /\ Y.vdev = Z.vdev /\ Y.ext = Z.ext
          /\ Y.vring[v] = t /\ \A w \in Vring : w # v => Y.vring[w] = Z.vring[w]
      BY ZenonT(30), <2>1, <3>4 DEF StateType
    <3>6. /\ B \subseteq CtlBhName \X {v}
          /\ <<"vring_mark_msg_handled_bh", v>> \notin B
          /\ <<"vring_start_failed_bh", v>> \notin B
          /\ <<"vring_mark_stopped_bh", v>> \in B
          /\ <<"vring_mark_drained_bh", v>> \in B <=> t.num_in_flight = 0
      BY SMTT(30), <3>4 DEF CtlBhName
    <3> HIDE DEF Y, B
    <3>7. /\ T \in StateType /\ T.failed = {} /\ T.vring = Y.vring
          /\ BhInv(T) /\ OnlyVring(S, T, v) /\ CtlAgree(Z, T, B)
      BY ZenonT(30), <2>1, <3>1, <3>5, <3>6, <1>Tells
    <3> HIDE DEF T
    <3>8. /\ ~Starting(T, v) /\ ~StartFailed(T, v)
          /\ Syncing(T, v) <=> Syncing(S, v)
          /\ Handled(T, v) <=> Handled(S, v)
          /\ Stopping(T, v) <=> Stopping(Z, v)
          /\ Leaving(T, v) <=> Leaving(Z, v)
          /\ Stopped(T, v) /\ StoppedQueued(T, v)
          /\ Drained(T, v) <=> t.num_in_flight = 0
      BY ZenonT(30), <2>4, <3>1, <3>6, <3>7 DEF CtlAgree
    <3>9. T.vring[v] = t /\ T.vdev = S.vdev
      BY Zenon, <3>5, <3>7 DEF OnlyVring
    <3>10. /\ InMsg(T, v) <=> InMsg(S, v)
           /\ Running(T, v) <=> Running(S, v)
      BY ZenonT(30), <2>6, <3>1, <3>8 DEF InMsg, Running
    <3>11. Life(T, v)
      BY ZenonT(30), <2>2, <3>1, <3>4, <3>8, <3>9, <3>10 DEF Life, SameUse
    <3>12. PartInv(T, v)
      <4>1. \A w \in Vring : T.vring[w].on_drain_cb <=> S.vring[w].on_drain_cb
        BY ZenonT(30), <3>4, <3>7, <3>9 DEF OnlyVring
      <4> QED
        BY ZenonT(30), <2>2, <3>8, <3>9, <4>1 DEF PartInv
    <3>13. UpInv(T, v)
      BY ZenonT(30), <2>2, <2>3, <2>4, <3>1, <3>4, <3>8, <3>9 DEF UpInv, SameUse
    <3>14. DownInv(T, v) /\ IdleInv(T, v)
      BY ZenonT(30), <2>2, <2>3, <2>4, <3>4, <3>8, <3>9 DEF DownInv, IdleInv, SameUse
    <3>15. UseInv(T, v)
      BY ZenonT(30), <2>2, <3>1, <3>4, <3>8, <3>9, SameUses DEF SameMaps
    <3>16. Inv(T)
      BY ZenonT(30), <2>1, <3>1, <3>4, <3>7, <3>9, <3>10, <3>11, <3>12, <3>13, <3>14, <3>15, <1>VringStep
    <3> QED
      BY ZenonT(30), <3>2, <3>7, <3>16 DEF Good
  <2> QED
    BY ZenonT(30), <2>5, <2>6 DEF M, Z
(* RqBody: every bottom half of a request queue. *)
<1>RqBhGood.
  ASSUME client \in Client, NEW S \in StateType, S.failed = {}, Inv(S),
         NEW q \in Rq, NEW b \in S.rq[q].batch, NEW ok \in BOOLEAN
  PROVE  Good(RqBody([S EXCEPT !.rq[q].batch = @ \ {b}], b, ok))
  <2> USE <1>RqBhGood
  <2>1. b \in RqBhName \X Vring
    BY Zenon DEF StateType, RqBhs
  <2>2. PICK name \in RqBhName, v \in Vring : b = <<name, v>>
    BY SMTT(30), <2>1
  <2> DEFINE Z == [S EXCEPT !.rq[q].batch = @ \ {<<name, v>>}]
  <2>3. CASE name = "vring_start_bh"
    <3>1. RqBody(Z, <<name, v>>, ok) = vring_start_bh(Z, v, ok)
      BY Zenon, <2>3 DEF RqBody, SyncBh
    <3>2. Good(vring_start_bh(Z, v, ok))
      BY Zenon, <2>2, <2>3, <1>VringStartGood
    <3> QED
      BY Zenon, <2>2, <3>1, <3>2
  <2>4. CASE name = "vring_sync_to_virtq_bh"
    <3>1. RqBody(Z, <<name, v>>, ok) = vring_sync_to_virtq_bh(Z, v)
      BY Zenon, <2>4 DEF RqBody, SyncBh
    <3>2. Good(vring_sync_to_virtq_bh(Z, v))
      BY ZenonT(30), <2>2, <2>4, <1>SyncGood
    <3> QED
      BY ZenonT(30), <2>2, <3>1, <3>2
  <2>5. CASE name \in {"vring_stop_bh", "vring_stop_bh_disconnect"}
    <3>1. RqBody(Z, <<name, v>>, ok) = vring_stop_bh(Z, v)
      BY Zenon, <2>5 DEF RqBody, SyncBh
    <3>2. Good(vring_stop_bh(Z, v))
      BY ZenonT(30), <2>2, <2>5, <1>VringStopGood
    <3> QED
      BY Zenon, <2>2, <3>1, <3>2
  <2> QED
    BY ZenonT(30), <2>3, <2>4, <2>5 DEF RqBhName
(* The guest, the backend and the completion of requests change a vring in *)
(* what it has in flight only.                                             *)
<1>RequestStep.
  ASSUME NEW S \in StateType, Inv(S), NEW v \in Vring, NEW T \in StateType,
         T.vdev = S.vdev, T.ctl = S.ctl, T.rq = S.rq, T.ext = S.ext,
         \A w \in Vring : w # v => T.vring[w] = S.vring[w],
         SameUse(S.vring[v], T.vring[v]),
         T.vring[v].kickfd <=> S.vring[v].kickfd,
         T.vring[v].started_in_ctl <=> S.vring[v].started_in_ctl,
         T.vring[v].on_drain_cb <=> S.vring[v].on_drain_cb,
         T.vring[v].started_in_rq <=> S.vring[v].started_in_rq,
         T.vring[v].disconnecting <=> S.vring[v].disconnecting,
         ~S.vring[v].started_in_rq => T.vring[v].kick_handler = "none",
         T.vring[v].queued <= T.vring[v].num_in_flight,
         S.vring[v].num_in_flight = 0 /\ ~S.vring[v].started_in_rq
           => T.vring[v].num_in_flight = 0,
         S.vring[v] # VringInit
  PROVE  Inv(T)
  <2> USE <1>RequestStep
  <2>1. /\ Life(S, v) /\ PartInv(S, v) /\ UpInv(S, v) /\ DownInv(S, v) /\ IdleInv(S, v)
        /\ UseInv(S, v)
    BY Zenon DEF Inv, MsgInv
  <2>2. S.ext \notin {"init", "starting", "start_failed"}
    BY ZenonT(30) DEF Inv, WorkInv
  <2>3. BhsAgree(S, T) /\ VrBhs(S, T) /\ BhInv(T)
    BY Zenon, SameBhs DEF Inv
  <2>4. OnlyVring(S, T, v)
    BY Zenon, <2>3 DEF OnlyVring, BhsAgree, VrBhs
  <2>5. /\ InMsg(T, v) <=> InMsg(S, v)
        /\ Running(T, v) <=> Running(S, v)
    BY Zenon, <2>3 DEF VrBhs, InMsg, Running
  <2>6. Life(T, v)
    BY Zenon, <2>1, <2>3, <2>5 DEF Life, VrBhs, SameUse
  <2>7. PartInv(T, v)
    <3>1. \A w \in Vring : /\ T.vring[w].on_drain_cb <=> S.vring[w].on_drain_cb
                           /\ InMsg(T, w) <=> InMsg(S, w)
      BY Zenon, <2>3 DEF VrBhs, InMsg
    <3> QED
      BY Zenon, <2>1, <2>3, <3>1 DEF PartInv, VrBhs
  <2>8. UpInv(T, v) /\ DownInv(T, v) /\ IdleInv(T, v)
    BY ZenonT(30), <2>1, <2>3 DEF UpInv, DownInv, IdleInv, VrBhs, SameUse
  <2>9. UseInv(T, v)
    BY Zenon, <2>1, <2>3, SameUses DEF SameMaps, VrBhs
  <2> QED
    BY ZenonT(30), <2>2, <2>3, <2>4, <2>5, <2>6, <2>7, <2>8, <2>9, <1>VringStep
(* vring_kick: new requests on a vring. *)
<1>Kick.
  ASSUME client \in Client, NEW S \in StateType, Inv(S), NEW v \in Vring,
         NEW n \in 0 .. client.max_req, NEW ok \in BOOLEAN,
         S.vring[v].kick_handler = "attached",
         S.vring[v].num_in_flight + n <= client.max_req
  PROVE  LET T == [S EXCEPT !.vring = [S.vring EXCEPT
                     ![v].num_in_flight = @ + n, ![v].queued = @ + n,
                     ![v].kick_handler = IF ok THEN @ ELSE "detached"]]
         IN T \in StateType /\ Inv(T)
  <2> USE <1>Kick
  <2> DEFINE T == [S EXCEPT !.vring = [S.vring EXCEPT
                     ![v].num_in_flight = @ + n, ![v].queued = @ + n,
                     ![v].kick_handler = IF ok THEN @ ELSE "detached"]]
             r == S.vring[v]
             t == [r EXCEPT !.num_in_flight = @ + n, !.queued = @ + n,
                            !.kick_handler = IF ok THEN @ ELSE "detached"]
  <2>1. r \in VringType /\ Life(S, v) /\ S.vring \in [Vring -> VringType]
    BY Zenon DEF StateType, Inv
  <2>2. r.started_in_rq /\ r.queued <= r.num_in_flight
    BY Zenon, <2>1 DEF Life
  <2>3. /\ client.max_req \in Nat
        /\ r.num_in_flight \in Nat /\ r.num_in_flight <= client.max_req
        /\ r.queued \in Nat /\ r.queued <= client.max_req
    BY ZenonT(30), <2>1, Requests
  <2>4. /\ r.num_in_flight + n \in 0 .. client.max_req
        /\ r.queued + n \in 0 .. client.max_req
        /\ r.queued + n <= r.num_in_flight + n
    BY SMTT(30), <2>2, <2>3
  <2>5. /\ t \in VringType /\ t.queued <= t.num_in_flight
        /\ (t.kickfd <=> r.kickfd) /\ (t.started_in_ctl <=> r.started_in_ctl)
        /\ (t.on_drain_cb <=> r.on_drain_cb) /\ (t.disconnecting <=> r.disconnecting)
        /\ (t.started_in_rq <=> r.started_in_rq) /\ SameUse(r, t)
    BY ZenonT(30), <2>1, <2>4 DEF VringType, SameUse, Handler
  <2>6. T = [S EXCEPT !.vring = [S.vring EXCEPT ![v] = t]]
    BY ZenonT(30), <2>1
  <2> HIDE DEF t, T
  <2>7. /\ T \in StateType /\ T.vdev = S.vdev /\ T.ctl = S.ctl /\ T.rq = S.rq
        /\ T.ext = S.ext /\ T.vring[v] = t
        /\ \A w \in Vring : w # v => T.vring[w] = S.vring[w]
    BY ZenonT(30), <2>1, <2>5, <2>6 DEF StateType
  <2>8. r # VringInit
    BY SMTT(30), <2>2 DEF VringInit
  <2>9. Inv(T)
    BY ZenonT(30), <2>2, <2>3, <2>5, <2>7, <2>8, <1>RequestStep
  <2> QED
    BY ZenonT(30), <2>7, <2>9 DEF T
(* vhd_dequeue_request: the backend takes a request. *)
<1>Dequeue.
  ASSUME client \in Client, NEW S \in StateType, Inv(S), NEW v \in Vring,
         S.vring[v].queued > 0
  PROVE  LET T == [S EXCEPT !.vring = [S.vring EXCEPT ![v].queued = @ - 1]]
         IN T \in StateType /\ Inv(T)
  <2> USE <1>Dequeue
  <2> DEFINE T == [S EXCEPT !.vring = [S.vring EXCEPT ![v].queued = @ - 1]]
             r == S.vring[v]
             t == [r EXCEPT !.queued = @ - 1]
  <2>1. r \in VringType /\ Life(S, v) /\ S.vring \in [Vring -> VringType]
    BY Zenon DEF StateType, Inv
  <2>2. r.queued <= r.num_in_flight /\ (~r.started_in_rq => r.kick_handler = "none")
    BY Zenon, <2>1 DEF Life
  <2>3. /\ client.max_req \in Nat
        /\ r.num_in_flight \in Nat /\ r.num_in_flight <= client.max_req
        /\ r.queued \in Nat /\ r.queued <= client.max_req
    BY ZenonT(30), <2>1, Requests
  <2>4. r.queued - 1 \in 0 .. client.max_req /\ r.queued - 1 <= r.num_in_flight
    BY SMTT(30), <2>2, <2>3
  <2>5. /\ t \in VringType /\ t.queued <= t.num_in_flight
        /\ t.num_in_flight = r.num_in_flight /\ t.kick_handler = r.kick_handler
        /\ (t.kickfd <=> r.kickfd) /\ (t.started_in_ctl <=> r.started_in_ctl)
        /\ (t.on_drain_cb <=> r.on_drain_cb) /\ (t.disconnecting <=> r.disconnecting)
        /\ (t.started_in_rq <=> r.started_in_rq) /\ SameUse(r, t)
    BY ZenonT(30), <2>1, <2>4 DEF VringType, SameUse, Handler
  <2>6. T = [S EXCEPT !.vring = [S.vring EXCEPT ![v] = t]]
    BY Zenon, <2>1
  <2> HIDE DEF t, T
  <2>7. /\ T \in StateType /\ T.vdev = S.vdev /\ T.ctl = S.ctl /\ T.rq = S.rq
        /\ T.ext = S.ext /\ T.vring[v] = t
        /\ \A w \in Vring : w # v => T.vring[w] = S.vring[w]
    BY ZenonT(30), <2>1, <2>5, <2>6 DEF StateType
  <2>8. r # VringInit
    <3>1. VringInit.queued = 0
      BY Zenon DEF VringInit
    <3>2. r.queued # 0
      BY Zenon, <2>3, Positive
    <3> QED
      BY Zenon, <3>1, <3>2
  <2>9. Inv(T)
    BY SMTT(30), <2>2, <2>3, <2>5, <2>7, <2>8, <1>RequestStep
  <2> QED
    BY Zenon, <2>7, <2>9 DEF T
(* vhd_vring_dec_in_flight: a request is completed. *)
<1>Complete.
  ASSUME client \in Client, NEW S \in StateType, S.failed = {}, Inv(S),
         NEW v \in Vring, S.vring[v].num_in_flight > S.vring[v].queued
  PROVE  Good(vhd_vring_dec_in_flight(S, v))
  <2> USE <1>Complete
  <2> DEFINE r == S.vring[v]
             t == [r EXCEPT !.num_in_flight = @ - 1]
             Y == [S EXCEPT !.vring[v] = t]
             B == {<<"vring_mark_drained_bh", v>>}
             T == vhd_run_in_ctl(Y, B)
             M == vhd_vring_dec_in_flight(S, v)
  <2>1. /\ Life(S, v) /\ PartInv(S, v) /\ UpInv(S, v) /\ DownInv(S, v) /\ IdleInv(S, v)
        /\ UseInv(S, v) /\ r \in VringType
    BY Zenon DEF Inv, MsgInv, StateType
  <2>2. /\ client.max_req \in Nat
        /\ r.num_in_flight \in Nat /\ r.num_in_flight <= client.max_req
        /\ r.queued \in Nat /\ r.queued <= client.max_req
    BY ZenonT(30), <2>1, Requests
  <2>3. /\ r.num_in_flight # 0 /\ r.num_in_flight - 1 \in 0 .. client.max_req
        /\ r.queued <= r.num_in_flight - 1
    BY SMTT(30), <2>2
  <2>4. /\ ~Starting(S, v) /\ ~StartFailed(S, v) /\ ~Drained(S, v) /\ r.started_in_ctl
        /\ (~r.started_in_rq => r.kick_handler = "none")
    BY ZenonT(30), <2>1, <2>3 DEF Life
  <2>5. /\ t \in VringType /\ t.queued <= t.num_in_flight
        /\ t.num_in_flight = r.num_in_flight - 1
        /\ t.kick_handler = r.kick_handler
        /\ (t.kickfd <=> r.kickfd) /\ (t.started_in_ctl <=> r.started_in_ctl)
        /\ (t.on_drain_cb <=> r.on_drain_cb) /\ (t.disconnecting <=> r.disconnecting)
        /\ (t.started_in_rq <=> r.started_in_rq) /\ SameUse(r, t)
    BY ZenonT(30), <2>1, <2>3 DEF VringType, SameUse
  <2>6. M = IF t.num_in_flight = 0 /\ ~r.started_in_rq THEN T ELSE Y
    BY Zenon DEF vhd_vring_dec_in_flight, StateType
  <2> HIDE DEF t
  <2>7. /\ Y \in StateType /\ Y.vdev = S.vdev /\ Y.ctl = S.ctl /\ Y.rq = S.rq
        /\ Y.ext = S.ext /\ Y.failed = {} /\ Y.vring[v] = t
        /\ \A w \in Vring : w # v => Y.vring[w] = S.vring[w]
    BY ZenonT(30), <2>5 DEF StateType
  <2>8. r # VringInit
    <3>1. VringInit.num_in_flight = 0
      BY Zenon DEF VringInit
    <3> QED
      BY Zenon, <2>3, <3>1
  <2> HIDE DEF Y
  <2>9. Inv(Y)
    BY SMTT(30), <2>3, <2>4, <2>5, <2>7, <2>8, <1>RequestStep
  <2>10. ASSUME t.num_in_flight = 0, ~r.started_in_rq PROVE T \in StateType /\ T.failed = {} /\ Inv(T)
    <3>1. BhInv(S) /\ S.ext \notin {"init", "starting", "start_failed"}
      BY Zenon, <2>8 DEF Inv, WorkInv
    <3>2. RqRan(S, S, "none", v)
      BY ZenonT(30) DEF RqRan, OnlyVring
    <3>3. /\ B \subseteq CtlBhName \X {v}
          /\ <<"vring_mark_msg_handled_bh", v>> \notin B
          /\ <<"vring_start_failed_bh", v>> \notin B
          /\ <<"vring_mark_stopped_bh", v>> \notin B
          /\ <<"vring_mark_drained_bh", v>> \in B
      BY SMTT(30) DEF CtlBhName
    <3> HIDE DEF B
    <3>4. /\ T \in StateType /\ T.failed = {} /\ T.vring = Y.vring
          /\ BhInv(T) /\ OnlyVring(S, T, v) /\ CtlAgree(S, T, B)
      BY ZenonT(30), <2>4, <2>7, <3>1, <3>2, <3>3, <1>Tells
    <3> HIDE DEF T
    <3>5. /\ ~Starting(T, v) /\ ~StartFailed(T, v)
          /\ Syncing(T, v) <=> Syncing(S, v)
          /\ Handled(T, v) <=> Handled(S, v)
          /\ Stopping(T, v) <=> Stopping(S, v)
          /\ Leaving(T, v) <=> Leaving(S, v)
          /\ Stopped(T, v) <=> Stopped(S, v)
          /\ StoppedQueued(T, v) <=> StoppedQueued(S, v)
          /\ Drained(T, v)
      BY ZenonT(30), <2>4, <3>3, <3>4 DEF CtlAgree
    <3>6. T.vring[v] = t /\ T.vdev = S.vdev
      BY Zenon, <2>7, <3>4 DEF OnlyVring
    <3>7. /\ InMsg(T, v) <=> InMsg(S, v)
          /\ Running(T, v) <=> Running(S, v)
      BY ZenonT(30), <2>4, <2>5, <3>5, <3>6 DEF InMsg, Running
    <3>8. Life(T, v)
      BY ZenonT(30), <2>1, <2>4, <2>5, <2>10, <3>5, <3>6, <3>7 DEF Life, SameUse
    <3>9. PartInv(T, v)
      <4>1. \A w \in Vring : T.vring[w].on_drain_cb <=> S.vring[w].on_drain_cb
        BY ZenonT(30), <2>5, <3>4, <3>6 DEF OnlyVring
      <4> QED
        BY ZenonT(30), <2>1, <3>5, <3>6, <4>1 DEF PartInv
    <3>10. UpInv(T, v) /\ DownInv(T, v) /\ IdleInv(T, v)
      BY ZenonT(30), <2>1, <2>4, <2>5, <3>5, <3>6 DEF UpInv, DownInv, IdleInv, SameUse
    <3>11. UseInv(T, v)
      BY ZenonT(30), <2>1, <2>4, <2>5, <3>5, <3>6, SameUses DEF SameMaps
    <3>12. Inv(T)
      BY ZenonT(30), <2>5, <3>1, <3>4, <3>6, <3>7, <3>8, <3>9, <3>10, <3>11, <1>VringStep
    <3> QED
      BY ZenonT(30), <3>4, <3>12
  <2> HIDE DEF T
  <2>11. M \in StateType /\ M.failed = {} /\ Inv(M)
    BY ZenonT(30), <2>6, <2>7, <2>9, <2>10
  <2> QED
    BY Zenon, <2>11 DEF Good
<1> SUFFICES ASSUME client \in Client, NEW S \in StateType, Inv(S)
             PROVE  PollGood(S) /\ CallGood(S) /\ QueueGood(S) /\ RequestGood(S)
  BY Zenon
<1>1. PollGood(S)
  BY Zenon, <1>CtlPollGood, <1>RqPollGood DEF PollGood
<1>2. CallGood(S)
  BY Zenon, <1>SubmitGood DEF CallGood
<1>3. QueueGood(S)
  BY ZenonT(30), <1>RqBhGood DEF QueueGood
<1>4. KickGood(S)
  <2> SUFFICES ASSUME NEW v \in Vring, NEW n \in 0 .. client.max_req, NEW ok \in BOOLEAN,
                      S.vring[v].kick_handler = "attached",
                      S.vring[v].num_in_flight + n <= client.max_req
               PROVE  KickState(S, v, n, ok) \in StateType /\ Inv(KickState(S, v, n, ok))
    BY ZenonT(30) DEF KickGood
  <2> QED
    BY ZenonT(30), <1>Kick DEF KickState
<1>5. DequeueGood(S)
  BY ZenonT(30), <1>Dequeue DEF DequeueGood
<1>6. CompleteGood(S)
  BY ZenonT(30), <1>Complete DEF CompleteGood
<1> QED
  BY ZenonT(30), <1>1, <1>2, <1>3, <1>4, <1>5, <1>6 DEF RequestGood
=============================================================================
