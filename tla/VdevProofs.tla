----------------------------- MODULE VdevProofs -----------------------------
(***************************************************************************)
(* The device state machine is correct for any number of vrings and        *)
(* request queues and any client: the invariants of Vdev, proved from one  *)
(* inductive invariant, Inv, of VdevLifecycleProofs.                       *)
(***************************************************************************)
EXTENDS Vdev, VdevLifecycleProofs

(* Inv of the current state.  Only the check of vdev->req may have failed. *)
IInv == TypeOK /\ Inv(State) /\ failed \subseteq {"cleanup_req"}

(* A message from the client: conn_read. *)
LEMMA ConnReadGood ==
  ASSUME Counting
  PROVE  client \in Client => \A S \in StateType :
           /\ S.failed = {} /\ Inv(S)
           /\ S.vdev.conn_handler = "attached" /\ S.ctl.batch = {}
           => \A req \in client.req : (req = "SET_VRING_KICK" => S.vdev.memmap # 0) =>
                \A v \in client.vrings, valid \in BOOLEAN, arg \in ArgOf(req),
                   sent \in BOOLEAN : Good(conn_read(S, req, v, valid, arg, sent))
(* What a vring uses while it has no BH, but maybe is about to copy its     *)
(* shadow state.                                                           *)
<1> DEFINE NewUse(S, v, sync) ==
             LET r == S.vring[v]
                 d == S.vdev
             IN /\ r.shadow_vq.log \in {0, d.memlog}
                /\ r.started_in_ctl =>
                     /\ d.memmap # 0
                     /\ \/ r.vq.mm = d.memmap
                        \/ sync /\ r.vq.mm = d.old_memmap /\ d.old_memmap # 0
                     /\ \/ r.vq.log = r.shadow_vq.log
                        \/ sync /\ r.vq.log \in {0, d.memlog, d.old_memlog}
                     /\ \/ r.vq.notify_fd = r.callfd
                        \/ /\ sync
                           /\ \/ r.vq.notify_fd = 0
                              \/ d.keep_fd = <<"call", v, r.vq.notify_fd>>
                     /\ (r.vq.enabled <=> r.shadow_vq.enabled) \/ sync
<1> HIDE DEF NewUse
(* A message is being read: nothing is outstanding on any vring. *)
<1> DEFINE QuietVring(S, v) ==
             LET r == S.vring[v] IN
               /\ Life(S, v) /\ ~InMsg(S, v) /\ ~Leaving(S, v) /\ ~Stopping(S, v)
               /\ ~r.on_drain_cb /\ (r.started_in_ctl => r.started_in_rq)
<1> HIDE DEF QuietVring
<1> DEFINE Busy(S) ==
             /\ S \in StateType /\ S.failed = {} /\ S.ext \notin {"init", "starting", "start_failed"}
             /\ S.vdev.conn_handler = "detached" /\ S.vdev.timer_handler = "attached"
             /\ S.vdev.listen_handler = "detached" /\ S.vdev.connfd /\ S.vdev.req # "NONE"
             /\ S.vdev.num_vrings_handling_msg = 0 /\ S.vdev.handle_complete = "none"
             /\ BhInv(S) /\ CountInv(S) /\ WorkInv(S)
             /\ \A v \in Vring : QuietVring(S, v)
<1> HIDE DEF Busy
<1> DEFINE NoneKept(d) == d.old_memmap = 0 /\ d.old_memlog = 0 /\ d.keep_fd = <<>>
<1> HIDE DEF NoneKept
(* The message may fail, may be answered, or may be handed to the vrings. *)
<1> DEFINE Failing(S) ==
             Busy(S) /\ NoneKept(S.vdev) /\ \A v \in Vring : NewUse(S, v, FALSE)
<1> HIDE DEF Failing
<1> DEFINE CurrentMap(S) ==
             \A v \in Vring :
               S.vring[v].started_in_ctl => S.vring[v].shadow_vq.mm = S.vdev.memmap
<1> HIDE DEF CurrentMap
<1> DEFINE Ready(S) == Failing(S) /\ CurrentMap(S)
<1> HIDE DEF Ready
(* The result H of the handler of a message leaves a good state. *)
<1> DEFINE Done(H) ==
             IF H.ok THEN Good(H.st) ELSE Good(vdev_disconnect(vdev_handle_finish(H.st)))
<1> HIDE DEF Done
(* T differs from S in the configuration only. *)
<1> DEFINE Configures(S, T) ==
             /\ T \in StateType /\ T.failed = S.failed
             /\ T.ctl = S.ctl /\ T.rq = S.rq /\ T.ext = S.ext
             /\ T.vdev.listen_handler = S.vdev.listen_handler
             /\ T.vdev.conn_handler = S.vdev.conn_handler
             /\ T.vdev.timer_handler = S.vdev.timer_handler
             /\ T.vdev.connfd <=> S.vdev.connfd
             /\ T.vdev.req = S.vdev.req /\ T.vdev.handle_complete = S.vdev.handle_complete
             /\ T.vdev.num_vrings_handling_msg = S.vdev.num_vrings_handling_msg
             /\ T.vdev.num_vrings_started = S.vdev.num_vrings_started
             /\ T.vdev.num_vrings_in_flight = S.vdev.num_vrings_in_flight
             /\ T.vdev.work = S.vdev.work
             /\ T.vdev.released <=> S.vdev.released
             /\ \A v \in Vring : SameLife(S.vring[v], T.vring[v])
<1> HIDE DEF Configures
<1>StaysBusy.
  ASSUME NEW S, Busy(S), NEW T, Configures(S, T)
  PROVE  Busy(T)
  <2> USE <1>StaysBusy
  <2>1. BhsAgree(S, T) /\ VrBhs(S, T) /\ BhInv(T)
    BY Zenon, SameBhs DEF Busy, Configures
  <2>2. /\ MsgSet(T) = MsgSet(S) /\ RunSet(T) = RunSet(S) /\ CtlSet(T) = CtlSet(S)
        /\ \A v \in Vring : Life(T, v) <=> Life(S, v)
    BY Zenon, <2>1, SameLives DEF Configures
  <2>3. CountInv(T)
    BY ZenonT(30), <2>2 DEF Busy, Configures, CountInv
  <2>4. WorkInv(T)
    BY ZenonT(30), <2>1 DEF Busy, Configures, WorkInv, BhsAgree
  <2>5. ASSUME NEW v \in Vring PROVE QuietVring(T, v)
    <3>1. QuietVring(S, v) /\ SameLife(S.vring[v], T.vring[v])
      BY Zenon DEF Busy, Configures
    <3>2. /\ InMsg(T, v) <=> InMsg(S, v)
          /\ Leaving(T, v) <=> Leaving(S, v)
          /\ Stopping(T, v) <=> Stopping(S, v)
      BY Zenon, <2>1, SameMsgs DEF VrBhs
    <3> QED
      BY Zenon, <2>2, <3>1, <3>2 DEF QuietVring, SameLife
  <2> QED
    BY ZenonT(30), <2>1, <2>3, <2>4, <2>5 DEF Busy, Configures
(* vdev_handle_start: the connection is not polled any more. *)
<1>HandleStart.
  ASSUME client \in Client, NEW S \in StateType, S.failed = {}, Inv(S),
         S.vdev.conn_handler = "attached", NEW req \in client.req
  PROVE  LET T == vdev_handle_start(S, req) IN
         Ready(T) /\ T.ctl = S.ctl /\ T.vdev.memmap = S.vdev.memmap
  <2> USE <1>HandleStart
  <2> DEFINE d == S.vdev
             e == [d EXCEPT !.conn_handler = "detached", !.req = req,
                            !.timer_handler = "attached"]
             T == vdev_handle_start(S, req)
  <2>1. d \in VdevType /\ ConnInv(d) /\ KeptInv(d) /\ WorkInv(S) /\ CountInv(S) /\ BhInv(S)
    BY Zenon DEF StateType, Inv
  <2>2. /\ d.listen_handler = "detached" /\ d.connfd /\ d.timer_handler = "detached"
        /\ d.num_vrings_handling_msg = 0 /\ d.handle_complete = "none" /\ NoneKept(d)
    <3>1. /\ d.listen_handler = "detached" /\ d.connfd /\ d.timer_handler = "detached"
          /\ d.num_vrings_handling_msg = 0
      BY Zenon, <2>1 DEF ConnInv
    <3> QED
      BY Zenon, <2>1, <3>1 DEF KeptInv, KeptFor, NoneKept
  <2>3. S.ext \notin {"init", "starting", "start_failed"}
    BY ZenonT(30), <2>1 DEF WorkInv, VdevInit
  <2>4. T = [S EXCEPT !.vdev = e]
    BY Zenon, <2>2 DEF vdev_handle_start, VHD_ASSERT, StateType, VdevType
  <2>5. req # "NONE"
    BY Zenon, ConstantsAssumption DEF ClientType, KnownReq
  <2>6. /\ e \in VdevType /\ e.listen_handler = "detached" /\ e.connfd
        /\ e.conn_handler = "detached" /\ e.timer_handler = "attached"
        /\ e.req = req /\ e.num_vrings_handling_msg = 0
        /\ e.num_vrings_started = d.num_vrings_started
        /\ e.num_vrings_in_flight = d.num_vrings_in_flight
        /\ e.handle_complete = d.handle_complete /\ SameMaps(d, e)
        /\ e.work = d.work /\ (e.released <=> d.released)
    <3>1. e \in VdevType
      BY ZenonT(30), <2>1 DEF VdevType, Handler
    <3> QED
      BY ZenonT(30), <2>1, <2>2, <3>1 DEF VdevType, SameMaps
  <2> HIDE DEF e
  <2>7. /\ T \in StateType /\ T.vdev = e /\ T.failed = {} /\ T.ext = S.ext
        /\ T.vring = S.vring /\ T.ctl = S.ctl /\ T.rq = S.rq
    BY Zenon, <2>4, <2>6 DEF StateType
  <2> HIDE DEF T
  <2>8. BhsAgree(S, T) /\ VrBhs(S, T) /\ BhInv(T)
    BY ZenonT(30), <2>1, <2>7, SameBhs
  <2>9. CountInv(T)
    <3>1. MsgSet(T) = MsgSet(S) /\ RunSet(T) = RunSet(S) /\ CtlSet(T) = CtlSet(S)
      BY Zenon, <2>7, SameVrings
    <3> QED
      BY ZenonT(60), <2>1, <2>2, <2>6, <2>7, <3>1 DEF CountInv
  <2>10. WorkInv(T)
    BY ZenonT(30), <2>1, <2>3, <2>2, <2>6, <2>7, <2>8 DEF WorkInv, BhsAgree
  <2>11. ASSUME NEW v \in Vring
         PROVE  /\ QuietVring(T, v) /\ NewUse(T, v, FALSE)
                /\ T.vring[v].started_in_ctl => T.vring[v].shadow_vq.mm = T.vdev.memmap
    <3>1. Life(S, v) /\ PartInv(S, v) /\ UpInv(S, v) /\ UseInv(S, v)
      BY Zenon DEF Inv, MsgInv
    <3>2. ~InMsg(S, v)
      BY Zenon, <2>1, <2>2, NoneCounted
    <3>3. Life(T, v)
      BY Zenon, <2>7, <3>1, SameVrings
    <3>4. /\ ~InMsg(T, v) /\ ~Starting(T, v) /\ ~StartFailed(T, v) /\ ~Syncing(T, v)
          /\ Leaving(T, v) <=> Leaving(S, v)
          /\ Stopping(T, v) <=> Stopping(S, v)
          /\ ~Starting(S, v) /\ ~StartFailed(S, v) /\ ~Syncing(S, v)
      BY Zenon, <2>8, <3>2 DEF VrBhs, InMsg
    <3>5. /\ ~Leaving(T, v) /\ ~S.vring[v].on_drain_cb /\ ~Stopping(T, v)
          /\ S.vring[v].started_in_ctl =>
               S.vring[v].started_in_rq /\ S.vring[v].shadow_vq.mm = d.memmap
      BY ZenonT(30), <3>1, <3>4 DEF PartInv, UpInv
    <3>6. QuietVring(T, v)
      BY ZenonT(30), <2>7, <3>3, <3>4, <3>5 DEF QuietVring
    <3>7. NewUse(T, v, FALSE)
      BY ZenonT(30), <2>6, <2>7, <3>1, <3>4 DEF NewUse, UseInv, SameMaps
    <3> QED
      BY ZenonT(30), <2>6, <2>7, <3>5, <3>6, <3>7 DEF SameMaps
  <2>12. Busy(T)
    BY Zenon, <2>2, <2>3, <2>5, <2>6, <2>7, <2>8, <2>9, <2>10, <2>11 DEF Busy
  <2>13. NoneKept(T.vdev)
    BY ZenonT(30), <2>2, <2>6, <2>7 DEF NoneKept, SameMaps
  <2> QED
    BY ZenonT(30), <2>6, <2>7, <2>11, <2>12, <2>13 DEF Ready, Failing, CurrentMap, T, SameMaps
(* vdev_handle_finish: the message is over. *)
<1>Finishing.
  ASSUME NEW S, Failing(S)
  PROVE  LET T == vdev_handle_finish(S) IN
         /\ T \in StateType /\ T.failed = {}
         /\ T.ext \notin {"init", "starting", "start_failed"}
         /\ T.vring = S.vring /\ T.vdev.memmap = S.vdev.memmap
         /\ T.vdev.conn_handler = "attached" /\ T.vdev.timer_handler = "detached"
         /\ T.vdev.listen_handler = "detached" /\ T.vdev.connfd
         /\ T.vdev.req = "NONE" /\ T.vdev.num_vrings_handling_msg = 0
         /\ BhInv(T) /\ CountInv(T) /\ KeptInv(T.vdev) /\ WorkInv(T)
         /\ \A v \in Vring : QuietVring(T, v) /\ UseInv(T, v)
  <2> USE <1>Finishing
  <2> DEFINE d == S.vdev
             T == vdev_handle_finish(S)
             e == T.vdev
  <2>1. /\ Busy(S) /\ S \in StateType /\ S.failed = {} /\ d \in VdevType
        /\ S.vdev.conn_handler = "detached" /\ S.vdev.timer_handler = "attached"
    BY Zenon DEF Failing, Busy, StateType
  <2>2. /\ T \in StateType
        /\ T.vring = S.vring /\ T.ctl = S.ctl /\ T.rq = S.rq
        /\ T.ext = S.ext /\ T.failed = {}
        /\ T.vdev = Replied(S.vdev)
    BY Zenon, <2>1, HandleFinish
  <2> HIDE DEF T
  <2>3. /\ e.timer_handler = "detached" /\ e.req = "NONE" /\ e.conn_handler = "attached"
        /\ e.listen_handler = d.listen_handler /\ (e.connfd <=> d.connfd)
        /\ e.num_vrings_handling_msg = d.num_vrings_handling_msg
        /\ e.num_vrings_started = d.num_vrings_started
        /\ e.num_vrings_in_flight = d.num_vrings_in_flight
        /\ e.handle_complete = d.handle_complete /\ SameMaps(d, e)
        /\ e.work = d.work /\ (e.released <=> d.released)
    BY SMTT(30), <2>1, <2>2 DEF Replied, VdevType, SameMaps
  <2>4. BhsAgree(S, T) /\ VrBhs(S, T) /\ BhInv(T)
    BY Zenon, <2>1, <2>2, SameBhs DEF Busy
  <2>5. /\ MsgSet(T) = MsgSet(S) /\ RunSet(T) = RunSet(S) /\ CtlSet(T) = CtlSet(S)
        /\ \A v \in Vring : Life(T, v) <=> Life(S, v)
    BY Zenon, <2>2, SameVrings
  <2>6. CountInv(T)
    BY ZenonT(30), <2>1, <2>3, <2>5 DEF Busy, CountInv
  <2>7. WorkInv(T)
    BY ZenonT(30), <2>1, <2>2, <2>3, <2>4 DEF Busy, WorkInv, BhsAgree
  <2>8. KeptInv(e)
    BY ZenonT(30), <2>1, <2>3 DEF Failing, Busy, KeptInv, KeptFor, NoneKept, SameMaps
  <2>9. ASSUME NEW v \in Vring PROVE QuietVring(T, v) /\ UseInv(T, v)
    <3>1. QuietVring(S, v) /\ NewUse(S, v, FALSE)
      BY Zenon, <2>1 DEF Failing, Busy
    <3>2. /\ InMsg(T, v) <=> InMsg(S, v)
          /\ Leaving(T, v) <=> Leaving(S, v)
          /\ Stopping(T, v) <=> Stopping(S, v)
      BY ZenonT(30), <2>4, SameMsgs DEF VrBhs
    <3>3. QuietVring(T, v)
      BY ZenonT(30), <2>2, <2>5, <3>1, <3>2 DEF QuietVring
    <3>4. ~Starting(T, v) /\ ~Syncing(T, v)
      BY Zenon, <3>3 DEF QuietVring, InMsg
    <3>5. UseInv(T, v)
      BY ZenonT(30), <2>2, <2>3, <3>1, <3>4 DEF NewUse, UseInv, SameMaps
    <3> QED
      BY Zenon, <3>3, <3>5
  <2>10. S.ext \notin {"init", "starting", "start_failed"} /\ d.listen_handler = "detached"
         /\ d.connfd /\ d.num_vrings_handling_msg = 0
    BY Zenon, <2>1 DEF Busy
  <2> QED
    BY ZenonT(30), <2>2, <2>3, <2>4, <2>6, <2>7, <2>8, <2>9, <2>10 DEF T, SameMaps
(* A message that fails ends the connection. *)
<1>ErrDone.
  ASSUME NEW S, Failing(S)
  PROVE  Done(Err(S))
  <2> USE <1>ErrDone
  <2> DEFINE T == vdev_handle_finish(S)
  <2>1. /\ T \in StateType /\ T.failed = {}
        /\ T.ext \notin {"init", "starting", "start_failed"}
        /\ T.vdev.conn_handler = "attached" /\ T.vdev.timer_handler = "detached"
        /\ T.vdev.listen_handler = "detached" /\ T.vdev.connfd
        /\ T.vdev.num_vrings_handling_msg = 0
        /\ BhInv(T) /\ CountInv(T) /\ KeptInv(T.vdev) /\ WorkInv(T)
        /\ \A v \in Vring : QuietVring(T, v) /\ UseInv(T, v)
    BY Zenon, <1>Finishing
  <2> HIDE DEF T
  <2>2. ASSUME NEW v \in Vring
        PROVE  /\ Life(T, v) /\ UseInv(T, v) /\ ~Leaving(T, v) /\ ~Stopping(T, v)
               /\ ~Starting(T, v) /\ ~StartFailed(T, v) /\ ~T.vring[v].on_drain_cb
               /\ T.vring[v].started_in_ctl => T.vring[v].started_in_rq
    BY Zenon, <2>1 DEF QuietVring, InMsg
  <2>3. Good(vdev_disconnect(T))
    BY Zenon, <2>1, <2>2, DisconnectGood
  <2> QED
    BY Zenon, <2>3 DEF Done, Err, T
(* A message that is answered, or cannot be. *)
<1>ReplyDone.
  ASSUME NEW S, Ready(S), NEW sent \in BOOLEAN
  PROVE  Done(vhost_reply(S, sent))
  <2> USE <1>ReplyDone
  <2>1. CASE ~sent
    BY Zenon, <2>1, <1>ErrDone DEF vhost_reply, Ready
  <2>2. CASE sent
    <3> DEFINE T == vdev_handle_finish(S)
    <3>1. /\ T \in StateType /\ T.failed = {}
          /\ T.vring = S.vring /\ T.vdev.memmap = S.vdev.memmap
          /\ T.vdev.conn_handler = "attached" /\ T.vdev.timer_handler = "detached"
          /\ T.vdev.listen_handler = "detached" /\ T.vdev.connfd
          /\ T.vdev.req = "NONE" /\ T.vdev.num_vrings_handling_msg = 0
          /\ BhInv(T) /\ CountInv(T) /\ KeptInv(T.vdev) /\ WorkInv(T)
          /\ \A v \in Vring : QuietVring(T, v) /\ UseInv(T, v)
      BY ZenonT(30), <1>Finishing DEF Ready
    <3> HIDE DEF T
    <3>2. ConnInv(T.vdev)
      BY ZenonT(30), <3>1 DEF ConnInv
    <3>3. ASSUME NEW v \in Vring PROVE Life(T, v) /\ MsgInv(T, v) /\ UseInv(T, v)
      <4>1. /\ Life(T, v) /\ ~Leaving(T, v) /\ ~Stopping(T, v)
            /\ ~Starting(T, v) /\ ~StartFailed(T, v) /\ ~T.vring[v].on_drain_cb
            /\ T.vring[v].started_in_ctl => T.vring[v].started_in_rq
        BY Zenon, <3>1 DEF QuietVring, InMsg
      <4>2. T.vring[v].started_in_ctl => T.vring[v].shadow_vq.mm = T.vdev.memmap
        BY Zenon, <3>1 DEF Ready, CurrentMap
      <4>3. MsgInv(T, v)
        BY Zenon, <3>1, <4>1, <4>2 DEF MsgInv, PartInv, UpInv, DownInv, IdleInv
      <4> QED
        BY Zenon, <3>1, <4>1, <4>3
    <3>4. Good(T)
      BY Zenon, <3>1, <3>2, <3>3 DEF Good, Inv
    <3> QED
      BY Zenon, <2>2, <3>4 DEF Done, vhost_reply, Ok, T
  <2> QED
    BY Zenon, <2>1, <2>2
(* The message is handed to the started vrings of V. *)
<1> DEFINE SyncReady(S, V, cb) ==
             /\ Busy(S) /\ CurrentMap(S)
             /\ KeptFor([S.vdev EXCEPT !.handle_complete = cb])
             /\ \A v \in Vring : NewUse(S, v, v \in V)
             /\ \E v \in V : S.vring[v].started_in_ctl
<1> HIDE DEF SyncReady
<1>SyncDone.
  ASSUME NEW S, NEW V \in SUBSET Vring,
         NEW cb \in {"set_mem_table", "set_log_base", "set_vring_fd",
                     "set_vring_addr", "set_features", "vring_enable"},
         SyncReady(S, V, cb)
  PROVE  Done(SyncVrings(S, V, cb))
  <2> USE <1>SyncDone
  <2> DEFINE W == {v \in V : S.vring[v].started_in_ctl}
             d == S.vdev
             n == Cardinality(W)
             e == [d EXCEPT !.handle_complete = cb, !.num_vrings_handling_msg = n]
             Y == [S EXCEPT !.vdev = e]
             T == vhd_run_in_rq(Y, SyncBh, W)
  <2>1. /\ Busy(S) /\ S \in StateType /\ S.failed = {} /\ d \in VdevType
        /\ d.conn_handler = "detached" /\ d.timer_handler = "attached"
        /\ d.listen_handler = "detached" /\ d.connfd /\ d.req # "NONE"
        /\ d.num_vrings_handling_msg = 0
        /\ S.ext \notin {"init", "starting", "start_failed"}
        /\ BhInv(S) /\ CountInv(S) /\ WorkInv(S)
    BY Zenon DEF SyncReady, Busy, StateType
  <2>2. W \in SUBSET Vring /\ W # {} /\ n \in Nat /\ n # 0
    <3>1. W \in SUBSET Vring /\ W # {}
      BY Zenon DEF SyncReady
    <3> QED
      BY Zenon, <3>1, CountType
  <2>3. SyncVrings(S, V, cb) = Ok(T)
    <3> DEFINE A == [S EXCEPT !.vdev.handle_complete = cb]
    <3>1. /\ A.vring = S.vring /\ A.vdev.num_vrings_handling_msg = 0
          /\ {v \in V : A.vring[v].started_in_ctl} = W
      BY ZenonT(30), <2>1 DEF StateType, VdevType
    <3>2. [A EXCEPT !.vdev.num_vrings_handling_msg = @ + n] = Y
      <4> HIDE DEF n
      <4>1. A.vdev.num_vrings_handling_msg + n = n
        BY SMTT(30), <2>2, <3>1
      <4>2. [A EXCEPT !.vdev.num_vrings_handling_msg = n] = Y
        BY Zenon, <2>1 DEF StateType, VdevType
      <4> QED
        BY Zenon, <4>1, <4>2
    <3> HIDE DEF A, Y, n
    <3>3. vring_handle_msg(A, V, SyncBh) = vhd_run_in_rq(Y, SyncBh, W)
      BY Zenon, <3>1, <3>2 DEF vring_handle_msg, n
    <3> QED
      BY Zenon, <3>3 DEF SyncVrings, A
  <2>4. /\ e \in VdevType /\ e.conn_handler = "detached" /\ e.timer_handler = "attached"
        /\ e.listen_handler = "detached" /\ e.connfd /\ e.req # "NONE"
        /\ e.num_vrings_handling_msg = n /\ e.handle_complete = cb
        /\ e.num_vrings_started = d.num_vrings_started
        /\ e.num_vrings_in_flight = d.num_vrings_in_flight /\ SameMaps(d, e)
        /\ e.work = d.work /\ (e.released <=> d.released)
    <3> HIDE DEF n
    <3>1. e \in VdevType
      BY ZenonT(30), <2>1, <2>2 DEF VdevType
    <3> QED
      BY ZenonT(30), <2>1, <3>1 DEF VdevType, SameMaps
  <2> HIDE DEF e
  <2>5. /\ Y \in StateType /\ Y.failed = {} /\ Y.ctl = S.ctl /\ Y.rq = S.rq
        /\ Y.vdev = e /\ Y.vring = S.vring /\ Y.ext = S.ext
    BY ZenonT(30), <2>1, <2>4 DEF StateType
  <2> HIDE DEF Y
  <2>6. BhsAgree(S, Y) /\ VrBhs(S, Y) /\ BhInv(Y)
    BY Zenon, <2>1, <2>5, SameBhs
  <2>7. ASSUME NEW v \in Vring
        PROVE  /\ QuietVring(S, v) /\ Life(S, v) /\ ~InMsg(S, v) /\ ~Starting(S, v)
               /\ ~Syncing(S, v) /\ ~Handled(S, v) /\ ~StartFailed(S, v)
               /\ ~Leaving(S, v) /\ ~Stopping(S, v) /\ ~S.vring[v].on_drain_cb
               /\ S.vring[v].started_in_ctl => S.vring[v].started_in_rq
    <3>1. QuietVring(S, v)
      BY Zenon, <2>1 DEF Busy
    <3> QED
      BY Zenon, <3>1 DEF QuietVring, InMsg
  <2>8. SyncBh \in RqBhName /\ \A v \in W : ~InR(Y, SyncBh, v)
    BY ZenonT(30), <2>2, <2>6, <2>7 DEF RqBhName, VrBhs, Syncing, SyncBh
  <2> HIDE DEF W
  <2>9. /\ T \in StateType
        /\ T.vdev = e /\ T.vring = S.vring /\ T.ctl = S.ctl
        /\ T.ext = S.ext /\ T.failed = {}
        /\ \A r \in Rq : /\ T.rq[r].pending = Y.rq[r].pending \cup BhsOf(SyncBh, W, r)
                         /\ T.rq[r].batch = Y.rq[r].batch
    BY SMTT(30), <2>2, <2>5, <2>8, RunInRq
  <2> HIDE DEF T
  <2>10. RqAgree(Y, T, SyncBh, W) /\ BhInv(T)
    <3>1. Queued(Y, T, SyncBh, W)
      BY ZenonT(30), <2>5, <2>8, <2>9 DEF Queued
    <3> QED
      BY ZenonT(30), <2>2, <2>5, <2>6, <2>8, <3>1, QueuedInRq
  <2>11. ASSUME NEW v \in Vring
         PROVE  /\ ~Starting(T, v) /\ ~StartFailed(T, v) /\ ~Handled(T, v)
                /\ Syncing(T, v) <=> v \in W
                /\ ~Leaving(T, v) /\ ~Stopping(T, v)
                /\ Stopped(T, v) <=> Stopped(S, v)
                /\ StoppedQueued(T, v) <=> StoppedQueued(S, v)
                /\ Drained(T, v) <=> Drained(S, v)
                /\ InMsg(T, v) <=> v \in W
                /\ Running(T, v) <=> Running(S, v)
    <3>1. /\ ~Starting(T, v) /\ ~StartFailed(T, v) /\ ~Handled(T, v)
          /\ Syncing(T, v) <=> v \in W
          /\ ~Leaving(T, v) /\ ~Stopping(T, v)
          /\ Stopped(T, v) <=> Stopped(S, v)
          /\ StoppedQueued(T, v) <=> StoppedQueued(S, v)
          /\ Drained(T, v) <=> Drained(S, v)
      BY Zenon, <2>6, <2>7, <2>10 DEF RqAgree, VrBhs, SyncBh
    <3> QED
      BY Zenon, <2>7, <2>9, <3>1 DEF InMsg, Running
  <2>12. CountInv(T)
    <3>1. MsgSet(T) = W /\ RunSet(T) = RunSet(S) /\ CtlSet(T) = CtlSet(S)
      BY ZenonT(30), <2>2, <2>9, <2>11 DEF MsgSet, RunSet, CtlSet
    <3> QED
      BY ZenonT(30), <2>1, <2>4, <2>9, <3>1 DEF CountInv
  <2>13. KeptInv(T.vdev)
    <3>1. KeptFor(e)
      BY SMTT(30), <2>1, <2>4 DEF SyncReady, KeptFor, SameMaps, VdevType
    <3> QED
      BY ZenonT(30), <2>2, <2>4, <2>9, <3>1 DEF KeptInv
  <2>14. ConnInv(T.vdev)
    BY Zenon, <2>4, <2>9 DEF ConnInv
  <2>15. WorkInv(T)
    BY ZenonT(30), <2>1, <2>4, <2>6, <2>9, <2>10 DEF WorkInv, BhsAgree, RqAgree
  <2>16. ASSUME NEW v \in Vring PROVE Life(T, v) /\ MsgInv(T, v) /\ UseInv(T, v)
    <3>1. Life(T, v)
      BY ZenonT(30), <2>7, <2>9, <2>11 DEF Life
    <3>2. S.vring[v].started_in_ctl => S.vring[v].shadow_vq.mm = d.memmap
      BY Zenon DEF SyncReady, CurrentMap
    <3>3. MsgInv(T, v)
      BY ZenonT(30), <2>4, <2>7, <2>9, <2>11, <3>2 DEF MsgInv, PartInv, UpInv, DownInv, IdleInv, SameMaps
    <3>4. UseInv(T, v)
      <4>1. NewUse(S, v, v \in V) /\ (v \in W <=> v \in V /\ S.vring[v].started_in_ctl)
        BY Zenon DEF SyncReady, W
      <4>2. /\ T.vring[v] = S.vring[v] /\ ~Starting(T, v)
            /\ Syncing(T, v) <=> v \in W
        BY Zenon, <2>9, <2>11
      <4> QED
        BY SMTT(30), <2>4, <2>9, <3>2, <4>1, <4>2 DEF UseInv, NewUse, SameMaps
    <3> QED
      BY ZenonT(30), <3>1, <3>3, <3>4
  <2>17. Good(T)
    BY ZenonT(30), <2>9, <2>10, <2>12, <2>13, <2>14, <2>15, <2>16 DEF Good, Inv
  <2> QED
    BY SMTT(30), <2>3, <2>17 DEF Done, Ok
(* GET_VRING_BASE: the vring is to stop, the reply waits until it drained. *)
<1>BaseDone.
  ASSUME NEW S, Ready(S), NEW v \in Vring, NEW valid \in BOOLEAN, NEW sent \in BOOLEAN
  PROVE  Done(vhost_get_vring_base(S, v, valid, sent))
  <2> USE <1>BaseDone
  <2> DEFINE r == S.vring[v]
             t == [r EXCEPT !.on_drain_cb = TRUE]
             Y == [S EXCEPT !.vring[v] = t]
             W == {v}
             T == vhd_run_in_rq(Y, "vring_stop_bh", W)
  <2>1. CASE ~valid
    BY ZenonT(30), <2>1, <1>ErrDone DEF vhost_get_vring_base, Ready
  <2>2. CASE valid /\ ~r.started_in_ctl
    BY ZenonT(30), <2>2, <1>ReplyDone DEF vhost_get_vring_base
  <2>3. ASSUME valid, r.started_in_ctl PROVE Done(vhost_get_vring_base(S, v, valid, sent))
    <3>1. /\ Busy(S) /\ S \in StateType /\ S.failed = {} /\ r \in VringType
          /\ S.vdev.conn_handler = "detached" /\ S.vdev.timer_handler = "attached"
          /\ S.vdev.listen_handler = "detached" /\ S.vdev.connfd /\ S.vdev.req # "NONE"
          /\ S.vdev.num_vrings_handling_msg = 0 /\ S.vdev.handle_complete = "none"
          /\ S.ext \notin {"init", "starting", "start_failed"}
          /\ BhInv(S) /\ CountInv(S) /\ WorkInv(S) /\ NoneKept(S.vdev)
      BY Zenon DEF Ready, Failing, Busy, StateType
    <3>2. vhost_get_vring_base(S, v, valid, sent) = Ok(T)
      BY Zenon, <2>3, <3>1 DEF vhost_get_vring_base, StateType, VringType
    <3>3. /\ t \in VringType /\ t.on_drain_cb /\ SameUse(r, t)
          /\ (t.kickfd <=> r.kickfd) /\ (t.started_in_ctl <=> r.started_in_ctl)
          /\ t.kick_handler = r.kick_handler
          /\ (t.started_in_rq <=> r.started_in_rq)
          /\ t.num_in_flight = r.num_in_flight /\ t.queued = r.queued
      BY ZenonT(30), <3>1 DEF VringType, SameUse
    <3> HIDE DEF t
    <3>4. /\ Y \in StateType /\ Y.failed = {} /\ Y.ctl = S.ctl /\ Y.rq = S.rq
          /\ Y.vdev = S.vdev /\ Y.ext = S.ext /\ Y.vring[v] = t
          /\ \A w \in Vring : w # v => Y.vring[w] = S.vring[w]
      BY Zenon, <3>1, <3>3 DEF StateType
    <3> HIDE DEF Y
    <3>5. BhsAgree(S, Y) /\ VrBhs(S, Y) /\ BhInv(Y)
      BY ZenonT(30), <3>1, <3>4, SameBhs
    <3>6. ASSUME NEW w \in Vring
          PROVE  /\ QuietVring(S, w) /\ Life(S, w) /\ ~InMsg(S, w) /\ ~Starting(S, w)
                 /\ ~Syncing(S, w) /\ ~Handled(S, w) /\ ~StartFailed(S, w)
                 /\ ~Leaving(S, w) /\ ~Stopping(S, w) /\ ~S.vring[w].on_drain_cb
                 /\ S.vring[w].started_in_ctl => S.vring[w].started_in_rq
      <4>1. QuietVring(S, w)
        BY Zenon, <3>1 DEF Busy
      <4> QED
        BY Zenon, <4>1 DEF QuietVring, InMsg
    <3>7. /\ "vring_stop_bh" \in RqBhName /\ W \in SUBSET Vring
          /\ \A w \in W : ~InR(Y, "vring_stop_bh", w)
          /\ \A w : w \in W <=> w = v
      BY ZenonT(30), <3>5, <3>6 DEF RqBhName, VrBhs, Stopping
    <3> HIDE DEF W
    <3>8. /\ T \in StateType
          /\ T.vdev = S.vdev /\ T.vring = Y.vring /\ T.ctl = S.ctl
          /\ T.ext = S.ext /\ T.failed = {}
          /\ \A q \in Rq : /\ T.rq[q].pending = Y.rq[q].pending
                                                  \cup BhsOf("vring_stop_bh", W, q)
                           /\ T.rq[q].batch = Y.rq[q].batch
      BY SMTT(30), <3>4, <3>7, RunInRq
    <3> HIDE DEF T
    <3>9. RqAgree(Y, T, "vring_stop_bh", W) /\ BhInv(T)
      <4>1. Queued(Y, T, "vring_stop_bh", W)
        BY ZenonT(30), <3>4, <3>7, <3>8 DEF Queued
      <4> QED
        BY ZenonT(30), <3>4, <3>5, <3>7, <4>1, QueuedInRq
    <3>10. ASSUME NEW w \in Vring
           PROVE  /\ ~Starting(T, w) /\ ~StartFailed(T, w) /\ ~Handled(T, w)
                  /\ ~Syncing(T, w) /\ ~Leaving(T, w) /\ ~InMsg(T, w)
                  /\ Stopping(T, w) <=> w = v
                  /\ Stopped(T, w) <=> Stopped(S, w)
                  /\ StoppedQueued(T, w) <=> StoppedQueued(S, w)
                  /\ Drained(T, w) <=> Drained(S, w)
      BY ZenonT(30), <3>5, <3>6, <3>7, <3>9 DEF RqAgree, VrBhs, InMsg
    <3>11. ASSUME NEW w \in Vring
           PROVE  /\ (T.vring[w].kickfd <=> S.vring[w].kickfd)
                  /\ (T.vring[w].started_in_ctl <=> S.vring[w].started_in_ctl)
                  /\ T.vring[w].kick_handler = S.vring[w].kick_handler
                  /\ (T.vring[w].started_in_rq <=> S.vring[w].started_in_rq)
                  /\ T.vring[w].num_in_flight = S.vring[w].num_in_flight
                  /\ T.vring[w].queued = S.vring[w].queued
                  /\ SameUse(S.vring[w], T.vring[w])
                  /\ (T.vring[w].on_drain_cb <=> w = v)
                  /\ Running(T, w) <=> Running(S, w)
      <4>1. /\ (T.vring[w].kickfd <=> S.vring[w].kickfd)
            /\ (T.vring[w].started_in_ctl <=> S.vring[w].started_in_ctl)
            /\ T.vring[w].kick_handler = S.vring[w].kick_handler
            /\ (T.vring[w].started_in_rq <=> S.vring[w].started_in_rq)
            /\ T.vring[w].num_in_flight = S.vring[w].num_in_flight
            /\ T.vring[w].queued = S.vring[w].queued
            /\ SameUse(S.vring[w], T.vring[w])
            /\ (T.vring[w].on_drain_cb <=> w = v)
        BY ZenonT(30), <3>3, <3>4, <3>6, <3>8 DEF SameUse
      <4> QED
        BY ZenonT(30), <3>6, <3>10, <4>1 DEF Running
    <3>12. CountInv(T)
      <4>1. MsgSet(T) = MsgSet(S) /\ RunSet(T) = RunSet(S) /\ CtlSet(T) = CtlSet(S)
        BY ZenonT(30), <3>6, <3>10, <3>11 DEF MsgSet, RunSet, CtlSet
      <4> QED
        BY Zenon, <3>1, <3>8, <4>1 DEF CountInv
    <3>13. KeptInv(T.vdev) /\ ConnInv(T.vdev)
      BY ZenonT(30), <3>1, <3>8 DEF KeptInv, KeptFor, NoneKept, ConnInv
    <3>14. WorkInv(T)
      BY ZenonT(30), <3>1, <3>5, <3>8, <3>9 DEF WorkInv, BhsAgree, RqAgree
    <3>15. ASSUME NEW w \in Vring PROVE Life(T, w) /\ MsgInv(T, w) /\ UseInv(T, w)
      <4>1. Life(T, w)
        <5>1. S.vring[w].started_in_ctl \/ w # v
          BY Zenon, <2>3
        <5> QED
          BY ZenonT(60), <3>6, <3>10, <3>11, <5>1 DEF Life, SameUse
      <4>2. PartInv(T, w)
        BY ZenonT(30), <3>1, <3>8, <3>10, <3>11 DEF PartInv
      <4>3. UpInv(T, w)
        <5>1. S.vring[w].started_in_ctl => S.vring[w].shadow_vq.mm = S.vdev.memmap
          BY Zenon DEF Ready, CurrentMap
        <5> QED
          BY Zenon, <2>3, <3>6, <3>8, <3>10, <3>11, <5>1 DEF UpInv, SameUse
      <4>4. DownInv(T, w) /\ IdleInv(T, w)
        BY Zenon, <3>1, <3>8 DEF DownInv, IdleInv
      <4>5. UseInv(T, w)
        <5>1. NewUse(S, w, FALSE)
          BY Zenon DEF Ready, Failing
        <5> QED
          BY ZenonT(30), <3>8, <3>10, <3>11, <5>1 DEF UseInv, NewUse, SameUse
      <4> QED
        BY ZenonT(30), <4>1, <4>2, <4>3, <4>4, <4>5 DEF MsgInv
    <3>16. Good(T)
      BY ZenonT(30), <3>8, <3>9, <3>12, <3>13, <3>14, <3>15 DEF Good, Inv
    <3> QED
      BY SMTT(30), <3>2, <3>16 DEF Done, Ok
  <2> QED
    BY ZenonT(30), <2>1, <2>2, <2>3
(* SET_VRING_KICK: the vring is to start. *)
<1>KickDone.
  ASSUME NEW S, Ready(S), S.ctl.batch = {}, S.vdev.memmap # 0,
         NEW v \in Vring, NEW valid \in BOOLEAN
  PROVE  Done(vhost_set_vring_kick(S, v, valid))
  <2> USE <1>KickDone
  <2> DEFINE r == S.vring[v]
             d == S.vdev
             a == [r EXCEPT !.shadow_vq.mm = d.memmap, !.kickfd = TRUE]
             u == vring_sync_to_virtq(a)
             t == [u EXCEPT !.vq.buffers = TRUE, !.started_in_ctl = TRUE]
             e == [d EXCEPT !.num_vrings_started = @ + 1, !.num_vrings_in_flight = @ + 1,
                            !.handle_complete = "set_vring_kick",
                            !.num_vrings_handling_msg = 1]
             Y == [S EXCEPT !.vring[v] = t, !.vdev = e]
             W == {v}
             T == vhd_run_in_rq(Y, "vring_start_bh", W)
  <2>1. CASE ~valid \/ r.started_in_ctl
    BY Zenon, <2>1, <1>ErrDone DEF vhost_set_vring_kick, Ready
  <2>2. ASSUME valid, ~r.started_in_ctl PROVE Done(vhost_set_vring_kick(S, v, valid))
    <3>1. /\ Busy(S) /\ S \in StateType /\ S.failed = {} /\ r \in VringType /\ d \in VdevType
          /\ d.conn_handler = "detached" /\ d.timer_handler = "attached"
          /\ d.listen_handler = "detached" /\ d.connfd /\ d.req # "NONE"
          /\ d.num_vrings_handling_msg = 0 /\ d.handle_complete = "none"
          /\ S.ext \notin {"init", "starting", "start_failed"}
          /\ BhInv(S) /\ CountInv(S) /\ WorkInv(S) /\ NoneKept(d)
      BY Zenon DEF Ready, Failing, Busy, StateType
    <3>2. ASSUME NEW w \in Vring
          PROVE  /\ QuietVring(S, w) /\ Life(S, w) /\ ~InMsg(S, w) /\ ~Starting(S, w)
                 /\ ~Syncing(S, w) /\ ~Handled(S, w) /\ ~StartFailed(S, w)
                 /\ ~Leaving(S, w) /\ ~Stopping(S, w) /\ ~S.vring[w].on_drain_cb
                 /\ S.vring[w].started_in_ctl => S.vring[w].started_in_rq
      <4>1. QuietVring(S, w)
        BY Zenon, <3>1 DEF Busy
      <4> QED
        BY Zenon, <4>1 DEF QuietVring, InMsg
    <3>3. /\ ~Stopped(S, v) /\ ~Drained(S, v) /\ ~StoppedQueued(S, v)
          /\ ~r.started_in_rq /\ ~r.kickfd /\ ~Running(S, v)
          /\ r.num_in_flight = 0 /\ r.kick_handler = "none" /\ r.queued <= r.num_in_flight
      <4>1. Life(S, v)
        BY Zenon, <3>2
      <4>2. ~StoppedQueued(S, v) /\ ~Drained(S, v) /\ ~r.started_in_rq
        BY Zenon, <2>2, <4>1 DEF Life
      <4>3. ~Stopped(S, v)
        BY Zenon, <4>2 DEF Stopped, StoppedQueued, InC
      <4>4. ~Running(S, v)
        BY Zenon, <3>2, <4>2, <4>3 DEF Running
      <4> QED
        BY ZenonT(30), <2>2, <4>1, <4>2, <4>3, <4>4 DEF Life
    <3>4. /\ a \in VringType /\ a.kickfd /\ a.shadow_vq.mm = d.memmap
          /\ a.shadow_vq.log = r.shadow_vq.log /\ ~a.started_in_ctl /\ ~a.started_in_rq
          /\ a.kick_handler = "none" /\ ~a.on_drain_cb
          /\ a.num_in_flight = r.num_in_flight /\ a.queued = r.queued
      <4>1. /\ [r.shadow_vq EXCEPT !.mm = d.memmap] \in [enabled : BOOLEAN, mm : Id, log : Id]
            /\ [r.shadow_vq EXCEPT !.mm = d.memmap].mm = d.memmap
            /\ [r.shadow_vq EXCEPT !.mm = d.memmap].log = r.shadow_vq.log
        BY Zenon, <3>1 DEF VringType, VdevType
      <4> DEFINE s == [r.shadow_vq EXCEPT !.mm = d.memmap]
      <4>2. a = [r EXCEPT !.shadow_vq = s, !.kickfd = TRUE]
        BY Zenon, <3>1 DEF VringType
      <4> HIDE DEF s
      <4>3. ~r.on_drain_cb
        BY Zenon, <3>2
      <4> QED
        BY ZenonT(30), <2>2, <3>1, <3>3, <4>1, <4>2, <4>3 DEF VringType, s
    <3> HIDE DEF a
    <3>5. /\ u \in VringType /\ SameLife(a, u)
          /\ u.callfd = a.callfd /\ u.shadow_vq = a.shadow_vq
          /\ u.vq.mm = a.shadow_vq.mm /\ u.vq.log = a.shadow_vq.log
          /\ u.vq.notify_fd = a.callfd /\ (u.vq.enabled <=> a.shadow_vq.enabled)
      BY Zenon, <3>4, Synced
    <3> HIDE DEF u
    <3>6. /\ t \in VringType /\ t.kickfd /\ t.started_in_ctl /\ ~t.started_in_rq
          /\ t.vq.buffers /\ t.kick_handler = "none" /\ ~t.on_drain_cb
          /\ t.num_in_flight = 0 /\ t.queued <= t.num_in_flight
          /\ t.shadow_vq.mm = d.memmap /\ t.shadow_vq.log = r.shadow_vq.log
          /\ t.vq.mm = d.memmap /\ t.vq.log = t.shadow_vq.log
          /\ t.vq.notify_fd = t.callfd /\ (t.vq.enabled <=> t.shadow_vq.enabled)
      <4> DEFINE q == [u.vq EXCEPT !.buffers = TRUE]
      <4>1. /\ q \in VqType /\ q.buffers /\ q.mm = u.vq.mm /\ q.log = u.vq.log
            /\ q.notify_fd = u.vq.notify_fd /\ (q.enabled <=> u.vq.enabled)
        BY Zenon, <3>5 DEF VringType, VqType
      <4>2. t = [u EXCEPT !.vq = q, !.started_in_ctl = TRUE]
        BY Zenon, <3>5 DEF VringType
      <4> HIDE DEF q
      <4>3. u.num_in_flight = 0 /\ u.queued <= u.num_in_flight
        BY Zenon, <3>3, <3>4, <3>5 DEF SameLife
      <4>4. /\ t \in VringType /\ (t.kickfd <=> u.kickfd) /\ t.started_in_ctl
            /\ (t.started_in_rq <=> u.started_in_rq) /\ t.vq = q
            /\ t.kick_handler = u.kick_handler /\ (t.on_drain_cb <=> u.on_drain_cb)
            /\ t.num_in_flight = u.num_in_flight /\ t.queued = u.queued
            /\ t.shadow_vq = u.shadow_vq /\ t.callfd = u.callfd
        BY ZenonT(30), <3>5, <4>1, <4>2 DEF VringType
      <4> HIDE DEF t
      <4> QED
        BY ZenonT(30), <3>4, <3>5, <4>1, <4>3, <4>4 DEF SameLife
    <3> HIDE DEF t
    <3>7. /\ e \in VdevType /\ e.conn_handler = "detached" /\ e.timer_handler = "attached"
          /\ e.listen_handler = "detached" /\ e.connfd /\ e.req # "NONE"
          /\ e.num_vrings_handling_msg = 1 /\ e.handle_complete = "set_vring_kick"
          /\ e.num_vrings_started = d.num_vrings_started + 1
          /\ e.num_vrings_in_flight = d.num_vrings_in_flight + 1 /\ SameMaps(d, e)
          /\ e.work = d.work /\ (e.released <=> d.released)
      <4>1. e \in VdevType
        <5>1. /\ d.num_vrings_started + 1 \in Nat /\ d.num_vrings_in_flight + 1 \in Nat
              /\ 1 \in Nat
          BY SMTT(30), <3>1 DEF VdevType
        <5> QED
          BY ZenonT(30), <3>1, <5>1 DEF VdevType
      <4> QED
        BY SMTT(30), <3>1, <4>1 DEF VdevType, SameMaps
    <3>8. vhost_set_vring_kick(S, v, valid) = Ok(T)
      <4> DEFINE A == [S EXCEPT !.vring[v].shadow_vq.mm = S.vdev.memmap,
                                !.vring[v].kickfd = TRUE]
                 B == [A EXCEPT !.vring[v] = [vring_sync_to_virtq(A.vring[v]) EXCEPT
                         !.vq.buffers = TRUE, !.started_in_ctl = TRUE],
                       !.vdev.num_vrings_started = @ + 1,
                       !.vdev.num_vrings_in_flight = @ + 1,
                       !.vdev.handle_complete = "set_vring_kick"]
                 e1 == [d EXCEPT !.num_vrings_started = @ + 1,
                                 !.num_vrings_in_flight = @ + 1,
                                 !.handle_complete = "set_vring_kick"]
                 B1 == [S EXCEPT !.vring[v] = t, !.vdev = e1]
      <4>1. A = [S EXCEPT !.vring[v] = a] /\ A.vring[v] = a
        BY ZenonT(30), <3>1 DEF a, StateType
      <4> HIDE DEF A
      <4>2. B = B1
        <5>1. B = [A EXCEPT !.vring[v] = t, !.vdev = e1]
          BY ZenonT(30), <3>1, <4>1 DEF StateType, t, u
        <5> HIDE DEF e1
        <5>2. [A EXCEPT !.vring[v] = t, !.vdev = e1] = B1
          BY ZenonT(30), <3>1, <4>1 DEF StateType
        <5> QED
          BY Zenon, <5>1, <5>2
      <4>3. VHD_ASSERT(B, ~r.kickfd, "kickfd") = B1
        BY ZenonT(30), <3>3, <4>2 DEF VHD_ASSERT
      <4>4. vhost_set_vring_kick(S, v, valid)
            = Ok(vring_handle_msg(VHD_ASSERT(B, ~r.kickfd, "kickfd"), {v}, "vring_start_bh"))
        BY Zenon, <2>2 DEF vhost_set_vring_kick, A
      <4> HIDE DEF B
      <4>5. e1.num_vrings_handling_msg = 0 /\ e = [e1 EXCEPT !.num_vrings_handling_msg = 1]
        BY Zenon, <3>1 DEF VdevType
      <4> HIDE DEF e, e1
      <4>6. B1.vdev = e1 /\ B1.vring[v] = t
        BY Zenon, <3>1 DEF StateType
      <4>7. vring_handle_msg(B1, {v}, "vring_start_bh") = T
        <5>1. /\ {w \in {v} : B1.vring[w].started_in_ctl} = {v}
              /\ Cardinality({v}) = 1
          BY ZenonT(30), <3>6, <4>6, CountFew
        <5>2. B1.vdev.num_vrings_handling_msg + 1 = 1
          BY SMTT(30), <4>5, <4>6
        <5>3. [B1 EXCEPT !.vdev.num_vrings_handling_msg = 1] = Y
          BY Zenon, <3>1, <4>5 DEF StateType
        <5> HIDE DEF B1, Y
        <5> QED
          BY ZenonT(30), <5>1, <5>2, <5>3 DEF vring_handle_msg
      <4> QED
        BY Zenon, <4>3, <4>4, <4>7
    <3> HIDE DEF e
    <3>9. /\ Y \in StateType /\ Y.failed = {} /\ Y.ctl = S.ctl /\ Y.rq = S.rq
          /\ Y.vdev = e /\ Y.ext = S.ext /\ Y.vring[v] = t
          /\ \A w \in Vring : w # v => Y.vring[w] = S.vring[w]
      BY ZenonT(30), <3>1, <3>6, <3>7 DEF StateType
    <3> HIDE DEF Y
    <3>10. BhsAgree(S, Y) /\ VrBhs(S, Y) /\ BhInv(Y)
      BY ZenonT(30), <3>1, <3>9, SameBhs
    <3>11. /\ "vring_start_bh" \in RqBhName /\ W \in SUBSET Vring
           /\ \A w \in W : ~InR(Y, "vring_start_bh", w)
           /\ \A w : w \in W <=> w = v
      BY ZenonT(30), <3>2, <3>10 DEF RqBhName, VrBhs, Starting
    <3> HIDE DEF W
    <3>12. /\ T \in StateType
           /\ T.vdev = e /\ T.vring = Y.vring /\ T.ctl = S.ctl
           /\ T.ext = S.ext /\ T.failed = {}
           /\ \A q \in Rq : /\ T.rq[q].pending = Y.rq[q].pending
                                                   \cup BhsOf("vring_start_bh", W, q)
                            /\ T.rq[q].batch = Y.rq[q].batch
      BY SMTT(30), <3>9, <3>11, RunInRq
    <3> HIDE DEF T
    <3>13. RqAgree(Y, T, "vring_start_bh", W) /\ BhInv(T)
      <4>1. Queued(Y, T, "vring_start_bh", W)
        BY ZenonT(30), <3>9, <3>11, <3>12 DEF Queued
      <4> QED
        BY ZenonT(30), <3>9, <3>10, <3>11, <4>1, QueuedInRq
    <3>14. ASSUME NEW w \in Vring
           PROVE  /\ ~StartFailed(T, w) /\ ~Handled(T, w)
                  /\ ~Syncing(T, w) /\ ~Leaving(T, w) /\ ~Stopping(T, w)
                  /\ Starting(T, w) <=> w = v
                  /\ InMsg(T, w) <=> w = v
                  /\ Stopped(T, w) <=> Stopped(S, w)
                  /\ StoppedQueued(T, w) <=> StoppedQueued(S, w)
                  /\ Drained(T, w) <=> Drained(S, w)
      BY ZenonT(30), <3>2, <3>10, <3>11, <3>13 DEF RqAgree, VrBhs, InMsg
    <3>15. /\ T.vring[v] = t
           /\ \A w \in Vring : w # v => T.vring[w] = S.vring[w]
      BY Zenon, <3>9, <3>12
    <3>16. \A w \in Vring :
             /\ Running(T, w) <=> Running(S, w) \/ w = v
             /\ T.vring[w].started_in_ctl <=> S.vring[w].started_in_ctl \/ w = v
      BY ZenonT(30), <3>2, <3>6, <3>14, <3>15 DEF Running
    <3>17. CountInv(T)
      <4>1. MsgSet(T) = {v} /\ RunSet(T) = RunSet(S) \cup {v} /\ CtlSet(T) = CtlSet(S) \cup {v}
        BY ZenonT(30), <3>14, <3>16 DEF MsgSet, RunSet, CtlSet
      <4>2. /\ RunSet(S) \in SUBSET Vring /\ v \in Vring \ RunSet(S)
            /\ CtlSet(S) \in SUBSET Vring /\ v \in Vring \ CtlSet(S)
        BY Zenon, <2>2, <3>3 DEF RunSet, CtlSet
      <4>3. /\ Cardinality(RunSet(T)) = Cardinality(RunSet(S)) + 1
            /\ Cardinality(CtlSet(T)) = Cardinality(CtlSet(S)) + 1
            /\ Cardinality(MsgSet(T)) = 1
        BY ZenonT(30), <4>1, <4>2, CountMore, CountFew
      <4> QED
        BY SMTT(30), <3>1, <3>7, <3>12, <4>3 DEF CountInv
    <3>18. KeptInv(T.vdev) /\ ConnInv(T.vdev)
      BY SMTT(30), <3>1, <3>7, <3>12 DEF KeptInv, KeptFor, NoneKept, ConnInv, SameMaps
    <3>19. WorkInv(T)
      BY ZenonT(30), <3>1, <3>7, <3>10, <3>12, <3>13 DEF WorkInv, BhsAgree, RqAgree
    <3>20. ASSUME NEW w \in Vring PROVE Life(T, w) /\ MsgInv(T, w) /\ UseInv(T, w)
      <4>1. NewUse(S, w, FALSE)
            /\ (S.vring[w].started_in_ctl => S.vring[w].shadow_vq.mm = d.memmap)
        BY Zenon DEF Ready, Failing, CurrentMap
      <4>2. ~T.vring[w].on_drain_cb
        BY ZenonT(30), <3>2, <3>6, <3>15
      <4>3. CASE w = v
        <5>1. Life(T, v)
          BY ZenonT(30), <3>3, <3>6, <3>14, <3>15, <3>16 DEF Life
        <5>2. PartInv(T, v) /\ DownInv(T, v) /\ IdleInv(T, v)
          BY ZenonT(30), <3>7, <3>12, <3>14, <4>2, <4>3 DEF PartInv, DownInv, IdleInv
        <5>3. UpInv(T, v)
          BY ZenonT(30), <3>6, <3>7, <3>12, <3>14, <3>15 DEF UpInv, SameMaps
        <5>4. UseInv(T, v)
          <6>1. r.shadow_vq.log \in {0, d.memlog}
            BY Zenon, <4>1, <4>3 DEF NewUse
          <6> QED
            BY ZenonT(30), <3>6, <3>7, <3>12, <3>14, <3>15, <6>1 DEF UseInv, SameMaps
        <5> QED
          BY ZenonT(30), <4>3, <5>1, <5>2, <5>3, <5>4 DEF MsgInv
      <4>4. CASE w # v
        <5>1. Life(T, w)
          BY ZenonT(30), <3>2, <3>14, <3>15, <3>16, <4>4 DEF Life
        <5>2. PartInv(T, w) /\ DownInv(T, w) /\ IdleInv(T, w)
          BY ZenonT(30), <3>7, <3>12, <3>14, <4>2, <4>4 DEF PartInv, DownInv, IdleInv
        <5>3. UpInv(T, w)
          BY ZenonT(30), <3>2, <3>7, <3>12, <3>14, <3>15, <4>1, <4>4 DEF UpInv, SameMaps
        <5>4. UseInv(T, w)
          BY ZenonT(30), <3>7, <3>12, <3>14, <3>15, <4>1, <4>4 DEF UseInv, NewUse, SameMaps
        <5> QED
          BY Zenon, <5>1, <5>2, <5>3, <5>4 DEF MsgInv
      <4> QED
        BY Zenon, <4>3, <4>4
    <3>21. Good(T)
      BY ZenonT(30), <3>12, <3>13, <3>17, <3>18, <3>19, <3>20 DEF Good, Inv
    <3> QED
      BY SMTT(30), <3>8, <3>21 DEF Done, Ok
  <2> QED
    BY Zenon, <2>1, <2>2
<1>FreshId.
  ASSUME NEW i \in Id
  PROVE  NextId(i) \in Id /\ NextId(i) # 0 /\ 0 \in Id
  BY SMTT(30), <1>FreshId, ConstantsAssumption DEF Id, NextId
(* A device e that differs from d in its configuration only. *)
<1> DEFINE SameControl(d, e) ==
             /\ e.listen_handler = d.listen_handler /\ e.conn_handler = d.conn_handler
             /\ e.timer_handler = d.timer_handler /\ (e.connfd <=> d.connfd)
             /\ e.req = d.req /\ e.handle_complete = d.handle_complete
             /\ e.num_vrings_handling_msg = d.num_vrings_handling_msg
             /\ e.num_vrings_started = d.num_vrings_started
             /\ e.num_vrings_in_flight = d.num_vrings_in_flight
             /\ e.work = d.work /\ (e.released <=> d.released)
<1> HIDE DEF SameControl
(* The configuration of the device and of its vrings changes. *)
<1> DEFINE SameLoops(S, T) ==
             T.failed = S.failed /\ T.ctl = S.ctl /\ T.rq = S.rq /\ T.ext = S.ext
<1> HIDE DEF SameLoops
<1>Configured.
  ASSUME NEW S, Busy(S), NEW T \in StateType, SameLoops(S, T),
         SameControl(S.vdev, T.vdev),
         \A w \in Vring : SameLife(S.vring[w], T.vring[w])
  PROVE  Busy(T)
  <2> USE <1>Configured
  <2>1. Configures(S, T)
    BY Zenon DEF Configures, SameControl, SameLoops
  <2> QED
    BY Zenon, <2>1, <1>StaysBusy
(* A vring after its shadow state or its fds have changed. *)
<1>ShadowType.
  ASSUME NEW r \in VringType, NEW s \in [enabled : BOOLEAN, mm : Id, log : Id]
  PROVE  LET t == [r EXCEPT !.shadow_vq = s] IN
         /\ t \in VringType /\ SameLife(r, t) /\ t.shadow_vq = s
         /\ t.vq = r.vq /\ t.callfd = r.callfd
  BY Zenon, <1>ShadowType DEF VringType, SameLife
<1>ShadowFields.
  ASSUME NEW r \in VringType
  PROVE  /\ r.shadow_vq \in [enabled : BOOLEAN, mm : Id, log : Id]
         /\ r.vq \in VqType /\ r.callfd \in Id /\ r.errfd \in BOOLEAN
  BY Zenon, <1>ShadowFields DEF VringType
<1>ReplyOnlyDone.
  ASSUME NEW S, Ready(S), NEW valid \in BOOLEAN, NEW sent \in BOOLEAN
  PROVE  Done(ReplyOnly(S, valid, sent))
  <2> USE <1>ReplyOnlyDone
  <2>1. CASE valid
    BY Zenon, <2>1, <1>ReplyDone DEF ReplyOnly
  <2>2. CASE ~valid
    BY Zenon, <2>2, <1>ErrDone DEF ReplyOnly, Ready
  <2> QED
    BY Zenon, <2>1, <2>2
(* Is any vring started? *)
<1>AnyStarted.
  ASSUME NEW S, Busy(S)
  PROVE  S.vdev.num_vrings_in_flight = 0
           <=> \A v \in Vring : ~S.vring[v].started_in_ctl
  BY Zenon, <1>AnyStarted, NoneCounted DEF Busy
(* SET_MEM_TABLE and its kin: a new memory map. *)
<1>MemmapDone.
  ASSUME NEW S, Ready(S), NEW valid \in BOOLEAN, NEW hit \in SUBSET Vring,
         NEW sent \in BOOLEAN, NEW mm \in Id, mm # 0
  PROVE  Done(ReplaceMemmap(S, mm, valid, hit, sent))
  <2> USE <1>MemmapDone
  <2> DEFINE d == S.vdev
             V == IF valid THEN StartedVrings(S) ELSE hit \cap StartedVrings(S)
             f == [v \in Vring |->
                    [S.vring[v] EXCEPT !.shadow_vq.mm = IF v \in V THEN mm ELSE @]]
             T == [S EXCEPT !.vring = f]
             U == [T EXCEPT !.vdev.old_memmap = d.memmap, !.vdev.memmap = mm]
  <2>1. /\ Busy(S) /\ S \in StateType /\ d \in VdevType /\ S.vring \in [Vring -> VringType]
        /\ NoneKept(d) /\ \A v \in Vring : NewUse(S, v, FALSE)
        /\ CurrentMap(S)
    BY Zenon DEF Ready, Failing, Busy, StateType
  <2>2. ASSUME NEW v \in Vring
        PROVE  /\ f[v] \in VringType /\ SameLife(S.vring[v], f[v])
               /\ f[v].vq = S.vring[v].vq /\ f[v].callfd = S.vring[v].callfd
               /\ f[v].shadow_vq.log = S.vring[v].shadow_vq.log
               /\ (f[v].shadow_vq.enabled <=> S.vring[v].shadow_vq.enabled)
               /\ f[v].shadow_vq.mm = IF v \in V THEN mm ELSE S.vring[v].shadow_vq.mm
    <3> DEFINE r == S.vring[v]
               m == IF v \in V THEN mm ELSE r.shadow_vq.mm
               s == [r.shadow_vq EXCEPT !.mm = m]
    <3>1. r \in VringType
      BY Zenon, <2>1
    <3>2. r.shadow_vq \in [enabled : BOOLEAN, mm : Id, log : Id]
      BY ZenonT(30), <3>1, <1>ShadowFields
    <3>3. m \in Id
      BY Zenon, <3>2
    <3>4. f[v] = [r EXCEPT !.shadow_vq = s]
      BY Zenon, <3>1 DEF VringType
    <3> HIDE DEF m, r, f
    <3>5. /\ s \in [enabled : BOOLEAN, mm : Id, log : Id] /\ s.mm = m
          /\ s.log = r.shadow_vq.log /\ (s.enabled <=> r.shadow_vq.enabled)
      BY ZenonT(30), <3>2, <3>3
    <3> HIDE DEF s
    <3>6. /\ f[v] \in VringType /\ SameLife(r, f[v]) /\ f[v].shadow_vq = s
          /\ f[v].vq = r.vq /\ f[v].callfd = r.callfd
      BY SMTT(30), <3>1, <3>4, <3>5, <1>ShadowType
    <3> QED
      BY Zenon, <3>5, <3>6 DEF r, m
  <2>3. \A v \in Vring : v \in V => S.vring[v].started_in_ctl
    BY Zenon DEF StartedVrings
  <2>4. valid => \A v \in Vring : v \in V <=> S.vring[v].started_in_ctl
    BY Zenon DEF StartedVrings
  <2>5. f \in [Vring -> VringType]
    BY Zenon, <2>2
  <2> HIDE DEF f
  <2>6. Busy(S) /\ SameControl(d, d) /\ \A v \in Vring : SameLife(S.vring[v], f[v])
    BY Zenon, <2>1, <2>2 DEF SameControl
  <2>7. ASSUME ~valid PROVE Done(ReplaceMemmap(S, mm, valid, hit, sent))
    <3>1. T = [S EXCEPT !.vdev = d, !.vring = f]
      BY Zenon, <2>1 DEF StateType
    <3> HIDE DEF T
    <3>2. Busy(T) /\ T.vdev = d /\ T.vring = f
      <4>1. T \in StateType /\ SameLoops(S, T) /\ T.vdev = d /\ T.vring = f
        BY ZenonT(30), <2>1, <2>5, <3>1 DEF StateType, SameLoops
      <4> QED
        BY Zenon, <2>6, <4>1, <1>Configured
    <3>3. \A v \in Vring : NewUse(T, v, FALSE)
      BY SMTT(30), <2>1, <2>2, <3>2 DEF NewUse, SameLife
    <3>4. Failing(T)
      BY ZenonT(30), <2>1, <3>2, <3>3 DEF Failing
    <3>5. ReplaceMemmap(S, mm, valid, hit, sent) = Err(T)
      BY Zenon, <2>7 DEF ReplaceMemmap, T, f
    <3> QED
      BY Zenon, <3>4, <3>5, <1>ErrDone
  <2>8. ASSUME valid PROVE Done(ReplaceMemmap(S, mm, valid, hit, sent))
    <3> DEFINE e == [d EXCEPT !.old_memmap = d.memmap, !.memmap = mm]
               e0 == [d EXCEPT !.old_memmap = 0, !.memmap = mm]
               U0 == [S EXCEPT !.vdev = e0, !.vring = f]
    <3>1. /\ e \in VdevType /\ SameControl(d, e) /\ e.memmap = mm
          /\ e.old_memmap = d.memmap /\ e.memlog = d.memlog
          /\ e.old_memlog = d.old_memlog /\ e.keep_fd = d.keep_fd
      <4>1. e \in VdevType
        BY ZenonT(30), <2>1 DEF VdevType
      <4> QED
        BY ZenonT(30), <2>1, <4>1 DEF VdevType, SameControl
    <3>2. /\ e0 \in VdevType /\ SameControl(d, e0) /\ e0.memmap = mm
          /\ e0.old_memmap = 0 /\ e0.memlog = d.memlog
          /\ e0.old_memlog = d.old_memlog /\ e0.keep_fd = d.keep_fd
      <4>1. 0 \in Id
        BY ZenonT(30), <2>1, <1>FreshId DEF VdevType
      <4>2. e0 \in VdevType
        BY ZenonT(30), <2>1, <4>1 DEF VdevType
      <4> QED
        BY ZenonT(30), <2>1, <4>2 DEF VdevType, SameControl
    <3>3. U = [S EXCEPT !.vdev = e, !.vring = f]
      BY ZenonT(30), <2>1 DEF StateType
    <3>4. [U EXCEPT !.vdev.old_memmap = 0] = U0
      <4>1. [e EXCEPT !.old_memmap = 0] = e0
        BY ZenonT(30), <2>1 DEF VdevType
      <4> HIDE DEF e, e0, U
      <4> QED
        BY ZenonT(30), <2>1, <3>3, <4>1 DEF StateType
    <3>5. ReplaceMemmap(S, mm, valid, hit, sent)
          = IF d.num_vrings_in_flight = 0 THEN vhost_reply(U0, sent)
            ELSE SyncVrings(U, Vring, "set_mem_table")
      <4> HIDE DEF U0
      <4> QED
        BY SMTT(30), <2>8, <3>4 DEF ReplaceMemmap, set_mem_table_complete, vhost_ack, f
    <3> HIDE DEF U, e, e0
    <3>6. Busy(U) /\ U.vdev = e /\ U.vring = f
      <4>1. U \in StateType /\ SameLoops(S, U) /\ U.vdev = e /\ U.vring = f
        BY ZenonT(30), <2>1, <2>5, <3>1, <3>3 DEF StateType, SameLoops
      <4> QED
        BY ZenonT(30), <2>6, <3>1, <4>1, <1>Configured
    <3>7. Busy(U0) /\ U0.vdev = e0 /\ U0.vring = f
      <4>1. U0 \in StateType /\ SameLoops(S, U0) /\ U0.vdev = e0 /\ U0.vring = f
        BY ZenonT(30), <2>1, <2>5, <3>2 DEF StateType, SameLoops
      <4> HIDE DEF U0
      <4> QED
        BY ZenonT(30), <2>6, <3>2, <4>1, <1>Configured
    <3> HIDE DEF U0
    <3>8. ASSUME d.num_vrings_in_flight = 0
          PROVE  Done(ReplaceMemmap(S, mm, valid, hit, sent))
      <4>1. \A v \in Vring : ~S.vring[v].started_in_ctl
        BY ZenonT(30), <2>1, <3>8, <1>AnyStarted
      <4>2. \A v \in Vring : ~U0.vring[v].started_in_ctl
        BY ZenonT(30), <2>2, <3>7, <4>1 DEF SameLife
      <4>3. \A v \in Vring : NewUse(U0, v, FALSE)
        BY ZenonT(30), <2>1, <2>2, <3>2, <3>7, <4>2 DEF NewUse
      <4>4. Ready(U0)
        BY ZenonT(30), <2>1, <3>2, <3>7, <4>2, <4>3 DEF Ready, Failing, NoneKept, CurrentMap
      <4> QED
        BY ZenonT(30), <3>5, <3>8, <4>4, <1>ReplyDone
    <3>9. ASSUME d.num_vrings_in_flight # 0
          PROVE  Done(ReplaceMemmap(S, mm, valid, hit, sent))
      <4>1. \E v \in Vring : S.vring[v].started_in_ctl
        BY ZenonT(30), <2>1, <3>9, <1>AnyStarted
      <4>2. \E v \in Vring : U.vring[v].started_in_ctl
        BY ZenonT(30), <2>2, <3>6, <4>1 DEF SameLife
      <4>3. CurrentMap(U)
        BY ZenonT(30), <2>2, <2>4, <2>8, <3>1, <3>6 DEF CurrentMap, SameLife
      <4>4. ASSUME NEW v \in Vring PROVE NewUse(U, v, v \in Vring)
        <5>1. /\ NewUse(S, v, FALSE)
              /\ U.vring[v].vq = S.vring[v].vq /\ U.vring[v].callfd = S.vring[v].callfd
              /\ U.vring[v].shadow_vq.log = S.vring[v].shadow_vq.log
              /\ (U.vring[v].shadow_vq.enabled <=> S.vring[v].shadow_vq.enabled)
              /\ (U.vring[v].started_in_ctl <=> S.vring[v].started_in_ctl)
          BY ZenonT(30), <2>1, <2>2, <3>6 DEF SameLife
        <5> QED
          BY ZenonT(30), <3>1, <3>6, <5>1 DEF NewUse
      <4>5. KeptFor([U.vdev EXCEPT !.handle_complete = "set_mem_table"])
        BY ZenonT(30), <2>1, <3>1, <3>6 DEF KeptFor, NoneKept, VdevType
      <4>6. SyncReady(U, Vring, "set_mem_table")
        BY ZenonT(30), <3>6, <4>2, <4>3, <4>4, <4>5 DEF SyncReady
      <4> QED
        BY ZenonT(30), <3>5, <3>9, <4>6, <1>SyncDone
    <3> QED
      BY ZenonT(30), <3>8, <3>9
  <2> QED
    BY ZenonT(30), <2>7, <2>8
(* update_shadow_vq_memlog: the shadow state of every vring gets the log. *)
<1> DEFINE WithLog(g, log) == [v \in Vring |-> [g[v] EXCEPT !.shadow_vq.log = log]]
<1> HIDE DEF WithLog
<1>LogVrings.
  ASSUME NEW g \in [Vring -> VringType], NEW log \in Id
  PROVE  LET f == WithLog(g, log) IN
         /\ f \in [Vring -> VringType]
         /\ \A v \in Vring :
              /\ SameLife(g[v], f[v]) /\ f[v].vq = g[v].vq /\ f[v].callfd = g[v].callfd
              /\ f[v].shadow_vq.mm = g[v].shadow_vq.mm /\ f[v].shadow_vq.log = log
  <2> USE <1>LogVrings
  <2> DEFINE f == [v \in Vring |-> [g[v] EXCEPT !.shadow_vq.log = log]]
  <2>1. ASSUME NEW v \in Vring
        PROVE  /\ f[v] \in VringType /\ SameLife(g[v], f[v]) /\ f[v].vq = g[v].vq
               /\ f[v].callfd = g[v].callfd
               /\ f[v].shadow_vq.mm = g[v].shadow_vq.mm /\ f[v].shadow_vq.log = log
    <3> DEFINE r == g[v]
               s == [r.shadow_vq EXCEPT !.log = log]
    <3>1. r \in VringType
      BY Zenon
    <3>2. r.shadow_vq \in [enabled : BOOLEAN, mm : Id, log : Id]
      BY Zenon, <3>1, <1>ShadowFields
    <3>3. f[v] = [r EXCEPT !.shadow_vq = s]
      BY Zenon, <3>1 DEF VringType
    <3> HIDE DEF r, f
    <3>4. s \in [enabled : BOOLEAN, mm : Id, log : Id] /\ s.mm = r.shadow_vq.mm /\ s.log = log
      BY ZenonT(30), <3>2
    <3> HIDE DEF s
    <3>5. /\ f[v] \in VringType /\ SameLife(r, f[v]) /\ f[v].shadow_vq = s
          /\ f[v].vq = r.vq /\ f[v].callfd = r.callfd
      BY SMTT(30), <3>1, <3>3, <3>4, <1>ShadowType
    <3> QED
      BY ZenonT(30), <3>4, <3>5 DEF r
  <2>2. f \in [Vring -> VringType]
    BY ZenonT(30), <2>1
  <2> HIDE DEF f
  <2> QED
    BY ZenonT(30), <2>1, <2>2 DEF f, WithLog
(* SET_LOG_BASE: a new dirty log. *)
<1>LogBaseDone.
  ASSUME NEW S, Ready(S), NEW valid \in BOOLEAN, NEW sent \in BOOLEAN
  PROVE  Done(vhost_set_log_base(S, valid, sent))
  <2> USE <1>LogBaseDone
  <2> DEFINE d == S.vdev
             memlog == NextId(d.memlog)
             e == [d EXCEPT !.old_memlog = d.memlog, !.memlog = memlog]
             e0 == [d EXCEPT !.old_memlog = 0, !.memlog = memlog]
             log == IF d.log_all THEN memlog ELSE 0
             f == WithLog(S.vring, log)
             T == [S EXCEPT !.vdev = e, !.vring = f]
             T0 == [S EXCEPT !.vdev = e0, !.vring = f]
  <2>1. /\ Busy(S) /\ S \in StateType /\ d \in VdevType /\ S.vring \in [Vring -> VringType]
        /\ NoneKept(d) /\ \A v \in Vring : NewUse(S, v, FALSE)
        /\ CurrentMap(S)
    BY Zenon DEF Ready, Failing, Busy, StateType
  <2>2. memlog \in Id /\ memlog # 0 /\ log \in Id /\ 0 \in Id /\ d.memlog \in Id
    BY Zenon, <2>1, <1>FreshId DEF VdevType
  <2> HIDE DEF memlog
  <2>3. /\ e \in VdevType /\ SameControl(d, e) /\ e.memlog = memlog
        /\ e.old_memlog = d.memlog /\ e.memmap = d.memmap
        /\ e.old_memmap = d.old_memmap /\ e.keep_fd = d.keep_fd
        /\ (e.log_all <=> d.log_all)
    <3>1. e \in VdevType
      BY ZenonT(30), <2>1, <2>2 DEF VdevType
    <3> QED
      BY ZenonT(30), <2>1, <3>1 DEF VdevType, SameControl
  <2>4. /\ e0 \in VdevType /\ SameControl(d, e0) /\ e0.memlog = memlog
        /\ e0.old_memlog = 0 /\ e0.memmap = d.memmap
        /\ e0.old_memmap = d.old_memmap /\ e0.keep_fd = d.keep_fd
    <3>1. e0 \in VdevType
      BY ZenonT(30), <2>1, <2>2 DEF VdevType
    <3> QED
      BY ZenonT(30), <2>1, <3>1 DEF VdevType, SameControl
  <2>5. [e EXCEPT !.old_memlog = 0] = e0
    BY Zenon, <2>1 DEF VdevType
  <2>6. [S EXCEPT !.vdev.old_memlog = d.memlog, !.vdev.memlog = memlog] = [S EXCEPT !.vdev = e]
    BY ZenonT(30), <2>1 DEF StateType
  <2> HIDE DEF e, e0
  <2>7. update_shadow_vq_memlog([S EXCEPT !.vdev = e]) = T
    <3> DEFINE A == [S EXCEPT !.vdev = e]
    <3>1. A.vdev = e /\ A.vring = S.vring /\ [A EXCEPT !.vring = f] = T
      BY ZenonT(30), <2>1 DEF StateType
    <3>2. log = IF A.vdev.log_all THEN A.vdev.memlog ELSE 0
      BY ZenonT(30), <2>3, <3>1
    <3> HIDE DEF A, log
    <3> QED
      BY SMTT(30), <3>1, <3>2 DEF update_shadow_vq_memlog, WithLog, A
  <2>8. [T EXCEPT !.vdev.old_memlog = 0] = T0
    <3> HIDE DEF f
    <3> QED
      BY ZenonT(30), <2>1, <2>5 DEF StateType
  <2>9. /\ f \in [Vring -> VringType]
        /\ \A v \in Vring :
             /\ SameLife(S.vring[v], f[v]) /\ f[v].vq = S.vring[v].vq
             /\ f[v].callfd = S.vring[v].callfd
             /\ f[v].shadow_vq.mm = S.vring[v].shadow_vq.mm /\ f[v].shadow_vq.log = log
    <3> HIDE DEF log
    <3> QED
      BY ZenonT(60), <2>1, <2>2, <1>LogVrings
  <2> HIDE DEF f
  <2>10. T \in StateType /\ SameLoops(S, T) /\ T.vdev = e /\ T.vring = f
    BY Zenon, <2>1, <2>3, <2>9 DEF StateType, SameLoops
  <2>11. T0 \in StateType /\ SameLoops(S, T0) /\ T0.vdev = e0 /\ T0.vring = f
    BY Zenon, <2>1, <2>4, <2>9 DEF StateType, SameLoops
  <2>12. vhost_set_log_base(S, valid, sent)
         = IF ~valid THEN Err(S)
           ELSE IF d.num_vrings_in_flight = 0 THEN vhost_reply(T0, sent)
           ELSE SyncVrings(T, Vring, "set_log_base")
    <3> HIDE DEF T, T0
    <3> QED
      BY SMTT(30), <2>6, <2>7, <2>8 DEF vhost_set_log_base, set_log_base_complete, memlog
  <2> HIDE DEF T, T0
  <2>13. Busy(T) /\ Busy(T0)
    BY Zenon, <2>1, <2>3, <2>4, <2>9, <2>10, <2>11, <1>Configured
  <2>14. log \in {0, memlog}
    BY Zenon
  <2> HIDE DEF log
  <2>15. CASE ~valid
    BY Zenon, <2>12, <2>15, <1>ErrDone DEF Ready
  <2>16. ASSUME valid, d.num_vrings_in_flight = 0
         PROVE  Done(vhost_set_log_base(S, valid, sent))
    <3>1. \A v \in Vring : ~S.vring[v].started_in_ctl
      BY Zenon, <2>1, <2>16, <1>AnyStarted
    <3>2. \A v \in Vring : ~T0.vring[v].started_in_ctl
      BY ZenonT(30), <2>9, <2>11, <3>1 DEF SameLife
    <3>3. \A v \in Vring : NewUse(T0, v, FALSE)
      BY ZenonT(30), <2>4, <2>9, <2>11, <2>14, <3>2 DEF NewUse
    <3>4. Ready(T0)
      BY ZenonT(30), <2>1, <2>4, <2>11, <2>13, <3>2, <3>3 DEF Ready, Failing, NoneKept, CurrentMap
    <3> QED
      BY Zenon, <2>12, <2>16, <3>4, <1>ReplyDone
  <2>17. ASSUME valid, d.num_vrings_in_flight # 0
         PROVE  Done(vhost_set_log_base(S, valid, sent))
    <3>1. \E v \in Vring : S.vring[v].started_in_ctl
      BY ZenonT(30), <2>1, <2>17, <1>AnyStarted
    <3>2. \E v \in Vring : T.vring[v].started_in_ctl
      BY ZenonT(30), <2>9, <2>10, <3>1 DEF SameLife
    <3>3. CurrentMap(T)
      BY ZenonT(30), <2>1, <2>3, <2>9, <2>10 DEF CurrentMap, SameLife
    <3>4. ASSUME NEW v \in Vring PROVE NewUse(T, v, v \in Vring)
      <4>1. /\ NewUse(S, v, FALSE)
            /\ T.vring[v].vq = S.vring[v].vq /\ T.vring[v].callfd = S.vring[v].callfd
            /\ T.vring[v].shadow_vq.log = log
            /\ (T.vring[v].started_in_ctl <=> S.vring[v].started_in_ctl)
        BY ZenonT(30), <2>1, <2>9, <2>10 DEF SameLife
      <4> QED
        BY SMTT(30), <2>3, <2>10, <2>14, <4>1 DEF NewUse
    <3>5. KeptFor([T.vdev EXCEPT !.handle_complete = "set_log_base"])
      BY ZenonT(30), <2>1, <2>3, <2>10 DEF KeptFor, NoneKept, VdevType
    <3>6. SyncReady(T, Vring, "set_log_base")
      BY ZenonT(30), <2>13, <3>2, <3>3, <3>4, <3>5 DEF SyncReady
    <3> QED
      BY ZenonT(30), <2>12, <2>17, <3>6, <1>SyncDone
  <2> QED
    BY ZenonT(30), <2>15, <2>16, <2>17
(* SET_FEATURES. *)
<1>FeaturesDone.
  ASSUME NEW S, Ready(S), NEW valid \in BOOLEAN, NEW feats, NEW sent \in BOOLEAN
  PROVE  Done(vhost_set_features(S, valid, feats, sent))
  <2> USE <1>FeaturesDone
  <2> DEFINE d == S.vdev
             log_all == "LOG_ALL" \in feats
             vring_enable == "PROTOCOL_FEATURES" \in feats
             e == [d EXCEPT !.log_all = log_all, !.vring_enable = vring_enable]
             log == IF log_all THEN d.memlog ELSE 0
             f == WithLog(S.vring, log)
             g == [v \in Vring |-> [S.vring[v] EXCEPT
                     !.shadow_vq.enabled = ~vring_enable, !.vq.enabled = ~vring_enable]]
             T == [S EXCEPT !.vdev = e, !.vring = f]
             U == [S EXCEPT !.vdev = e, !.vring = g]
  <2>1. /\ Busy(S) /\ S \in StateType /\ d \in VdevType /\ S.vring \in [Vring -> VringType]
        /\ NoneKept(d) /\ \A v \in Vring : NewUse(S, v, FALSE)
        /\ CurrentMap(S)
    BY Zenon DEF Ready, Failing, Busy, StateType
  <2>2. log \in Id /\ log_all \in BOOLEAN /\ vring_enable \in BOOLEAN
    BY SMTT(30), <2>1, <1>FreshId DEF VdevType
  <2> HIDE DEF log_all, vring_enable
  <2>3. /\ e \in VdevType /\ SameControl(d, e) /\ e.memlog = d.memlog
        /\ e.old_memlog = d.old_memlog /\ e.memmap = d.memmap
        /\ e.old_memmap = d.old_memmap /\ e.keep_fd = d.keep_fd
        /\ (e.log_all <=> log_all)
    <3>1. e \in VdevType
      BY ZenonT(30), <2>1, <2>2 DEF VdevType
    <3> QED
      BY ZenonT(30), <2>1, <3>1 DEF VdevType, SameControl
  <2>4. [S EXCEPT !.vdev.log_all = log_all, !.vdev.vring_enable = vring_enable]
        = [S EXCEPT !.vdev = e]
    BY ZenonT(30), <2>1 DEF StateType
  <2> HIDE DEF e
  <2>5. update_shadow_vq_memlog([S EXCEPT !.vdev = e]) = T
    <3> DEFINE A == [S EXCEPT !.vdev = e]
    <3>1. A.vdev = e /\ A.vring = S.vring /\ [A EXCEPT !.vring = f] = T
      BY Zenon, <2>1 DEF StateType
    <3>2. log = IF A.vdev.log_all THEN A.vdev.memlog ELSE 0
      BY ZenonT(30), <2>3, <3>1
    <3> HIDE DEF A, log
    <3> QED
      BY SMTT(30), <3>1, <3>2 DEF update_shadow_vq_memlog, WithLog, A
  <2>6. [[S EXCEPT !.vdev = e] EXCEPT !.vring = g] = U
    <3> HIDE DEF g
    <3> QED
      BY Zenon, <2>1 DEF StateType
  <2>7. /\ f \in [Vring -> VringType]
        /\ \A v \in Vring :
             /\ SameLife(S.vring[v], f[v]) /\ f[v].vq = S.vring[v].vq
             /\ f[v].callfd = S.vring[v].callfd
             /\ f[v].shadow_vq.mm = S.vring[v].shadow_vq.mm /\ f[v].shadow_vq.log = log
    <3> HIDE DEF log
    <3> QED
      BY ZenonT(60), <2>1, <2>2, <1>LogVrings
  <2>8. ASSUME NEW v \in Vring
        PROVE  /\ g[v] \in VringType /\ SameLife(S.vring[v], g[v])
               /\ g[v].shadow_vq.log = S.vring[v].shadow_vq.log
    <3> DEFINE r == S.vring[v]
               s == [r.shadow_vq EXCEPT !.enabled = ~vring_enable]
               q == [r.vq EXCEPT !.enabled = ~vring_enable]
    <3>1. /\ r \in VringType /\ r.shadow_vq \in [enabled : BOOLEAN, mm : Id, log : Id]
          /\ r.vq \in VqType
      BY Zenon, <2>1, <1>ShadowFields
    <3>2. g[v] = [r EXCEPT !.shadow_vq = s, !.vq = q]
      BY Zenon, <3>1 DEF VringType
    <3> HIDE DEF r, g
    <3>3. /\ s \in [enabled : BOOLEAN, mm : Id, log : Id] /\ s.log = r.shadow_vq.log
          /\ q \in VqType /\ (q.buffers <=> r.vq.buffers)
      BY Zenon, <3>1 DEF VqType
    <3> HIDE DEF s, q
    <3>4. g[v] \in VringType /\ SameLife(r, g[v]) /\ g[v].shadow_vq = s
      BY ZenonT(30), <3>1, <3>2, <3>3 DEF VringType, SameLife
    <3> QED
      BY Zenon, <3>3, <3>4 DEF r
  <2>9. vhost_set_features(S, valid, feats, sent)
        = IF ~valid THEN Err(S)
          ELSE IF d.num_vrings_in_flight = 0 THEN vhost_reply(U, sent)
          ELSE IF vring_enable # d.vring_enable THEN Err(S)
          ELSE SyncVrings(T, Vring, "set_features")
    <3> DEFINE A == [S EXCEPT !.vdev.log_all = log_all, !.vdev.vring_enable = vring_enable]
    <3>1. vhost_set_features(S, valid, feats, sent)
          = IF ~valid THEN Err(S)
            ELSE IF S.vdev.num_vrings_in_flight = 0
            THEN vhost_ack([A EXCEPT !.vring = g], sent)
            ELSE IF vring_enable # S.vdev.vring_enable THEN Err(S)
            ELSE SyncVrings(update_shadow_vq_memlog(A), Vring, "set_features")
      BY Zenon DEF vhost_set_features, log_all, vring_enable
    <3>2. A = [S EXCEPT !.vdev = e]
      BY Zenon, <2>4
    <3> HIDE DEF A, g
    <3>3. [A EXCEPT !.vring = g] = U
      BY ZenonT(30), <2>6, <3>2
    <3>4. update_shadow_vq_memlog(A) = T
      BY ZenonT(30), <2>5, <3>2
    <3> HIDE DEF T, U
    <3> QED
      BY ZenonT(30), <3>1, <3>3, <3>4 DEF vhost_ack
  <2>10. g \in [Vring -> VringType]
    BY Zenon, <2>8
  <2> HIDE DEF f, g
  <2>11. T \in StateType /\ SameLoops(S, T) /\ T.vdev = e /\ T.vring = f
    BY ZenonT(30), <2>1, <2>3, <2>7 DEF StateType, SameLoops
  <2>12. U \in StateType /\ SameLoops(S, U) /\ U.vdev = e /\ U.vring = g
    BY ZenonT(30), <2>1, <2>3, <2>10 DEF StateType, SameLoops
  <2> HIDE DEF T, U
  <2>13. Busy(T) /\ Busy(U)
    BY ZenonT(30), <2>1, <2>3, <2>7, <2>8, <2>11, <2>12, <1>Configured
  <2>14. log \in {0, d.memlog}
    BY Zenon
  <2> HIDE DEF log
  <2>15. CASE ~valid \/ (d.num_vrings_in_flight # 0 /\ vring_enable # d.vring_enable)
    BY ZenonT(30), <2>9, <2>15, <1>ErrDone DEF Ready
  <2>16. ASSUME valid, d.num_vrings_in_flight = 0
         PROVE  Done(vhost_set_features(S, valid, feats, sent))
    <3>1. \A v \in Vring : ~S.vring[v].started_in_ctl
      BY Zenon, <2>1, <2>16, <1>AnyStarted
    <3>2. \A v \in Vring : ~U.vring[v].started_in_ctl
      BY ZenonT(30), <2>8, <2>12, <3>1 DEF SameLife
    <3>3. \A v \in Vring : NewUse(U, v, FALSE)
      BY ZenonT(30), <2>1, <2>3, <2>8, <2>12, <3>2 DEF NewUse
    <3>4. Ready(U)
      BY ZenonT(30), <2>1, <2>3, <2>12, <2>13, <3>2, <3>3 DEF Ready, Failing, NoneKept, CurrentMap
    <3> QED
      BY ZenonT(30), <2>9, <2>16, <3>4, <1>ReplyDone
  <2>17. ASSUME valid, d.num_vrings_in_flight # 0, vring_enable = d.vring_enable
         PROVE  Done(vhost_set_features(S, valid, feats, sent))
    <3>1. \E v \in Vring : S.vring[v].started_in_ctl
      BY ZenonT(30), <2>1, <2>17, <1>AnyStarted
    <3>2. \E v \in Vring : T.vring[v].started_in_ctl
      BY Zenon, <2>7, <2>11, <3>1 DEF SameLife
    <3>3. CurrentMap(T)
      BY SMTT(30), <2>1, <2>3, <2>7, <2>11 DEF CurrentMap, SameLife
    <3>4. ASSUME NEW v \in Vring PROVE NewUse(T, v, v \in Vring)
      <4>1. /\ NewUse(S, v, FALSE)
            /\ T.vring[v].vq = S.vring[v].vq /\ T.vring[v].callfd = S.vring[v].callfd
            /\ T.vring[v].shadow_vq.log = log
            /\ (T.vring[v].started_in_ctl <=> S.vring[v].started_in_ctl)
        BY Zenon, <2>1, <2>7, <2>11 DEF SameLife
      <4> QED
        BY ZenonT(30), <2>3, <2>11, <2>14, <4>1 DEF NewUse
    <3>5. KeptFor([T.vdev EXCEPT !.handle_complete = "set_features"])
      BY ZenonT(30), <2>1, <2>3, <2>11 DEF KeptFor, NoneKept, VdevType
    <3>6. SyncReady(T, Vring, "set_features")
      BY ZenonT(30), <2>13, <3>2, <3>3, <3>4, <3>5 DEF SyncReady
    <3> QED
      BY ZenonT(30), <2>9, <2>17, <3>6, <1>SyncDone
  <2> QED
    BY ZenonT(30), <2>2, <2>15, <2>16, <2>17
(* A message about one vring changes its configuration, to t, and the      *)
(* device's, to e.                                                         *)
<1> DEFINE Put(S, e, v, t) == [S EXCEPT !.vdev = e, !.vring[v] = t]
<1> HIDE DEF Put
<1>OneConfigured.
  ASSUME NEW S, Busy(S), NEW v \in Vring, NEW e \in VdevType, SameControl(S.vdev, e),
         NEW t \in VringType, SameLife(S.vring[v], t)
  PROVE  /\ Busy(Put(S, e, v, t))
         /\ Put(S, e, v, t).vdev = e
         /\ Put(S, e, v, t).vring[v] = t
         /\ \A w \in Vring : w # v => Put(S, e, v, t).vring[w] = S.vring[w]
  <2> USE <1>OneConfigured
  <2> DEFINE T == Put(S, e, v, t)
  <2>1. S \in StateType
    BY Zenon DEF Busy
  <2>2. /\ T \in StateType /\ SameLoops(S, T) /\ T.vdev = e /\ T.vring[v] = t
        /\ \A w \in Vring : w # v => T.vring[w] = S.vring[w]
    BY ZenonT(30), <2>1 DEF StateType, SameLoops, Put
  <2> HIDE DEF T
  <2>3. \A w \in Vring : SameLife(S.vring[w], T.vring[w])
    BY ZenonT(30), <2>2 DEF SameLife
  <2>4. Busy(T)
    BY ZenonT(30), <2>2, <2>3, <1>Configured
  <2> QED
    BY ZenonT(30), <2>2, <2>4 DEF T
(* Of two such states, the one that is answered and the one that is handed *)
(* to the vring.                                                           *)
<1>OneReady.
  ASSUME NEW S, Ready(S), NEW v \in Vring, ~S.vring[v].started_in_ctl, NEW T, Busy(T),
         SameMaps(S.vdev, T.vdev), SameLife(S.vring[v], T.vring[v]),
         T.vring[v].shadow_vq.log = S.vring[v].shadow_vq.log,
         \A w \in Vring : w # v => T.vring[w] = S.vring[w]
  PROVE  Ready(T)
  <2> USE <1>OneReady
  <2>1. ~T.vring[v].started_in_ctl
    BY Zenon DEF SameLife
  <2>2. ASSUME NEW w \in Vring PROVE NewUse(T, w, FALSE)
    <3>1. NewUse(S, w, FALSE)
      BY Zenon DEF Ready, Failing
    <3>2. CASE w = v
      BY ZenonT(30), <2>1, <3>1, <3>2 DEF NewUse, SameMaps
    <3>3. CASE w # v
      BY ZenonT(30), <3>1, <3>3 DEF NewUse, SameMaps
    <3> QED
      BY ZenonT(30), <3>2, <3>3
  <2>3. CurrentMap(T)
    BY Zenon, <2>1 DEF Ready, CurrentMap, SameMaps
  <2>4. NoneKept(T.vdev)
    BY Zenon DEF Ready, Failing, NoneKept, SameMaps
  <2> QED
    BY ZenonT(30), <2>2, <2>3, <2>4 DEF Ready, Failing
<1>OneSync.
  ASSUME NEW S, Ready(S), NEW v \in Vring, S.vring[v].started_in_ctl, NEW T, Busy(T),
         NEW cb \in {"set_vring_fd", "set_vring_addr", "vring_enable"},
         T.vdev.memmap = S.vdev.memmap, T.vdev.old_memmap = S.vdev.old_memmap,
         T.vdev.memlog = S.vdev.memlog, T.vdev.old_memlog = S.vdev.old_memlog,
         T.vdev.keep_fd # <<>> => cb = "set_vring_fd",
         SameLife(S.vring[v], T.vring[v]), T.vring[v].vq = S.vring[v].vq,
         T.vring[v].shadow_vq.log = S.vring[v].shadow_vq.log,
         T.vring[v].shadow_vq.mm = S.vring[v].shadow_vq.mm,
         \/ T.vring[v].callfd = S.vring[v].callfd
         \/ S.vring[v].callfd = 0
         \/ T.vdev.keep_fd = <<"call", v, S.vring[v].callfd>>,
         \A w \in Vring : w # v => T.vring[w] = S.vring[w]
  PROVE  Done(SyncVrings(T, {v}, cb))
  <2> USE <1>OneSync
  <2>1. T.vring[v].started_in_ctl /\ T.vdev \in VdevType
    BY Zenon DEF SameLife, Busy, StateType
  <2>2. ASSUME NEW w \in Vring PROVE NewUse(T, w, w \in {v})
    <3>1. NewUse(S, w, FALSE)
      BY Zenon DEF Ready, Failing
    <3>2. CASE w = v
      <4>1. /\ S.vring[v].shadow_vq.log \in {0, S.vdev.memlog}
            /\ S.vdev.memmap # 0 /\ S.vring[v].vq.mm = S.vdev.memmap
            /\ S.vring[v].vq.log = S.vring[v].shadow_vq.log
            /\ S.vring[v].vq.notify_fd = S.vring[v].callfd
        BY ZenonT(30), <3>1, <3>2 DEF NewUse
      <4>2. NewUse(T, v, TRUE)
        BY ZenonT(30), <4>1 DEF NewUse
      <4> QED
        BY ZenonT(30), <3>2, <4>2
    <3>3. CASE w # v
      <4>1. NewUse(T, w, FALSE)
        BY ZenonT(30), <3>1, <3>3 DEF NewUse
      <4>2. (w \in {v}) = FALSE
        BY SMTT(30), <3>3
      <4> QED
        BY Zenon, <4>1, <4>2
    <3> QED
      BY ZenonT(30), <3>2, <3>3
  <2>3. CurrentMap(T)
    BY ZenonT(30) DEF Ready, CurrentMap, SameLife
  <2>4. KeptFor([T.vdev EXCEPT !.handle_complete = cb])
    <3>1. S.vdev.old_memmap = 0 /\ S.vdev.old_memlog = 0
      BY Zenon DEF Ready, Failing, NoneKept
    <3> QED
      BY ZenonT(30), <2>1, <3>1 DEF KeptFor, VdevType
  <2>5. SyncReady(T, {v}, cb)
    BY ZenonT(30), <2>1, <2>2, <2>3, <2>4 DEF SyncReady
  <2>6. {v} \in SUBSET Vring
    BY Zenon
  <2> QED
    BY ZenonT(30), <2>5, <2>6, <1>SyncDone
(* SET_VRING_ADDR. *)
<1>AddrDone.
  ASSUME NEW S, Ready(S), NEW v \in Vring, NEW valid \in BOOLEAN, NEW sent \in BOOLEAN
  PROVE  Done(vhost_set_vring_addr(S, v, valid, sent))
  <2> USE <1>AddrDone
  <2>1. CASE ~valid
    BY Zenon, <2>1, <1>ErrDone DEF vhost_set_vring_addr, Ready
  <2>2. CASE valid /\ ~S.vring[v].started_in_ctl
    BY ZenonT(30), <2>2, <1>ReplyDone DEF vhost_set_vring_addr, vhost_ack
  <2>3. CASE valid /\ S.vring[v].started_in_ctl
    <3>1. Busy(S) /\ S.vdev.keep_fd = <<>> /\ SameLife(S.vring[v], S.vring[v])
      BY Zenon DEF Ready, Failing, NoneKept, SameLife
    <3>2. Done(SyncVrings(S, {v}, "set_vring_addr"))
      BY ZenonT(30), <2>3, <3>1, <1>OneSync
    <3> QED
      BY ZenonT(30), <2>3, <3>2 DEF vhost_set_vring_addr
  <2> QED
    BY ZenonT(30), <2>1, <2>2, <2>3
(* SET_VRING_ENABLE. *)
<1>EnableDone.
  ASSUME NEW S, Ready(S), NEW v \in Vring, NEW valid \in BOOLEAN, NEW sent \in BOOLEAN
  PROVE  Done(vhost_vring_enable(S, v, valid, sent))
  <2> USE <1>EnableDone
  <2> DEFINE r == S.vring[v]
             s == [r.shadow_vq EXCEPT !.enabled = ~@]
             t == [r EXCEPT !.shadow_vq = s]
             T == [S EXCEPT !.vring[v].shadow_vq.enabled = ~@]
  <2>1. /\ Busy(S) /\ S \in StateType /\ S.vdev \in VdevType /\ r \in VringType
        /\ S.vdev.keep_fd = <<>>
    BY Zenon DEF Ready, Failing, Busy, StateType, NoneKept
  <2>2. r.shadow_vq \in [enabled : BOOLEAN, mm : Id, log : Id]
    BY ZenonT(30), <2>1, <1>ShadowFields
  <2>3. /\ s \in [enabled : BOOLEAN, mm : Id, log : Id] /\ s.mm = r.shadow_vq.mm
        /\ s.log = r.shadow_vq.log
    BY ZenonT(30), <2>2
  <2>4. T = [S EXCEPT !.vring[v] = t]
    BY ZenonT(30), <2>1 DEF StateType, VringType
  <2> HIDE DEF s
  <2>5. /\ t \in VringType /\ SameLife(r, t) /\ t.shadow_vq = s
        /\ t.vq = r.vq /\ t.callfd = r.callfd
    BY ZenonT(30), <2>1, <2>3, <1>ShadowType
  <2> HIDE DEF t
  <2>6. T = Put(S, S.vdev, v, t) /\ SameControl(S.vdev, S.vdev)
    BY ZenonT(30), <2>1, <2>4 DEF StateType, SameControl, Put
  <2>7. vhost_vring_enable(S, v, valid, sent)
        = IF ~valid \/ ~S.vdev.vring_enable THEN Err(S)
          ELSE IF r.started_in_ctl THEN SyncVrings(T, {v}, "vring_enable")
          ELSE vhost_reply(T, sent)
    BY ZenonT(30) DEF vhost_vring_enable, vhost_ack
  <2> HIDE DEF T
  <2>8. /\ Busy(T) /\ T.vdev = S.vdev /\ T.vring[v] = t
        /\ \A w \in Vring : w # v => T.vring[w] = S.vring[w]
    <3>1. /\ Busy(S) /\ S.vdev \in VdevType /\ SameControl(S.vdev, S.vdev)
          /\ t \in VringType /\ SameLife(S.vring[v], t)
      BY Zenon, <2>1, <2>5, <2>6
    <3>2. /\ Busy(Put(S, S.vdev, v, t)) /\ Put(S, S.vdev, v, t).vdev = S.vdev
          /\ Put(S, S.vdev, v, t).vring[v] = t
          /\ \A w \in Vring : w # v => Put(S, S.vdev, v, t).vring[w] = S.vring[w]
      BY SMTT(30), <3>1, <1>OneConfigured
    <3> QED
      BY Zenon, <2>6, <3>2
  <2>9. CASE ~valid \/ ~S.vdev.vring_enable
    BY ZenonT(30), <2>7, <2>9, <1>ErrDone DEF Ready
  <2>10. ASSUME ~r.started_in_ctl PROVE Done(vhost_reply(T, sent))
    <3>1. SameMaps(S.vdev, T.vdev)
      BY ZenonT(30), <2>8 DEF SameMaps
    <3>2. Ready(T)
      BY ZenonT(30), <2>3, <2>5, <2>8, <2>10, <3>1, <1>OneReady
    <3> QED
      BY ZenonT(30), <3>2, <1>ReplyDone
  <2>11. ASSUME r.started_in_ctl PROVE Done(SyncVrings(T, {v}, "vring_enable"))
    <3>1. /\ T.vdev.memmap = S.vdev.memmap
          /\ T.vdev.old_memmap = S.vdev.old_memmap
          /\ T.vdev.memlog = S.vdev.memlog
          /\ T.vdev.old_memlog = S.vdev.old_memlog
      BY ZenonT(30), <2>1, <2>3, <2>5, <2>8, <2>11
    <3>2. SameLife(S.vring[v], T.vring[v])
      BY ZenonT(30), <2>1, <2>3, <2>5, <2>8, <2>11
    <3>3. /\ T.vring[v].vq = S.vring[v].vq
          /\ T.vring[v].shadow_vq.log = S.vring[v].shadow_vq.log
          /\ T.vring[v].shadow_vq.mm = S.vring[v].shadow_vq.mm
      BY ZenonT(30), <2>1, <2>3, <2>5, <2>8, <2>11
    <3>4. \/ T.vring[v].callfd = S.vring[v].callfd
          \/ S.vring[v].callfd = 0
          \/ T.vdev.keep_fd = <<"call", v, S.vring[v].callfd>>
      BY ZenonT(30), <2>1, <2>3, <2>5, <2>8, <2>11
    <3>5. T.vdev.keep_fd # <<>> => "vring_enable" = "set_vring_fd"
      BY ZenonT(30), <2>1, <2>3, <2>5, <2>8, <2>11
    <3>6. Busy(T) /\ \A w \in Vring : w # v => T.vring[w] = S.vring[w]
      BY ZenonT(30), <2>1, <2>3, <2>5, <2>8, <2>11
    <3>7. S.vring[v].started_in_ctl
      BY ZenonT(30), <2>1, <2>3, <2>5, <2>8, <2>11
    <3>8. "vring_enable" \in {"set_vring_fd", "set_vring_addr", "vring_enable"}
      BY Zenon
    <3> HIDE DEF r
    <3> QED
      BY ZenonT(30), <3>1, <3>2, <3>3, <3>4, <3>5, <3>6, <3>7, <3>8, <1>OneSync
  <2> QED
    BY ZenonT(30), <2>7, <2>9, <2>10, <2>11
(* SET_VRING_CALL: the eventfd the guest is signalled with. *)
<1>CallDone.
  ASSUME NEW S, Ready(S), NEW v \in Vring, NEW valid \in BOOLEAN,
         NEW has_fd \in BOOLEAN, NEW sent \in BOOLEAN
  PROVE  Done(vhost_set_vring_call(S, v, valid, has_fd, sent))
  <2> USE <1>CallDone
  <2> DEFINE r == S.vring[v]
             d == S.vdev
             keep == IF r.callfd = 0 THEN <<>> ELSE <<"call", v, r.callfd>>
             fd == IF has_fd THEN NextId(r.callfd) ELSE 0
             e == [d EXCEPT !.keep_fd = keep]
             t == [r EXCEPT !.callfd = fd]
             t0 == [r EXCEPT !.callfd = 0]
             T == Put(S, e, v, t)
             U == Put(S, d, v, t)
             U0 == Put(S, d, v, t0)
             C == set_vring_call_complete(T, sent)
  <2>1. /\ Busy(S) /\ S \in StateType /\ d \in VdevType /\ r \in VringType
        /\ d.keep_fd = <<>> /\ r.callfd \in Id
    BY Zenon DEF Ready, Failing, Busy, StateType, NoneKept, VringType
  <2>2. fd \in Id /\ 0 \in Id /\ keep \in KeepFd
    BY ZenonT(30), <2>1, <1>FreshId DEF KeepFd
  <2>3. keep = <<>> \/ keep = <<"call", v, r.callfd>>
    BY Zenon
  <2>4. r.callfd = 0 \/ keep = <<"call", v, r.callfd>>
    BY Zenon
  <2> DEFINE A == VHD_ASSERT([S EXCEPT !.vdev.keep_fd = keep, !.vring[v].callfd = fd],
                             S.vdev.keep_fd = <<>>, "keep_fd")
             B == set_vring_call_complete(A, sent)
  <2>35. vhost_set_vring_call(S, v, valid, has_fd, sent)
         = IF ~valid THEN Err(S)
           ELSE IF r.started_in_ctl THEN SyncVrings(A, {v}, "set_vring_fd")
           ELSE IF B.ok THEN B ELSE Err([B.st EXCEPT !.vring[v].callfd = 0])
    BY Zenon DEF vhost_set_vring_call
  <2>5. A = T
    <3> HIDE DEF keep, fd
    <3> QED
      BY Zenon, <2>1 DEF VHD_ASSERT, StateType, Put
  <2>6. vhost_set_vring_call(S, v, valid, has_fd, sent)
        = IF ~valid THEN Err(S)
          ELSE IF r.started_in_ctl THEN SyncVrings(T, {v}, "set_vring_fd")
          ELSE IF C.ok THEN C ELSE Err([C.st EXCEPT !.vring[v].callfd = 0])
    <3> HIDE DEF T, A
    <3> QED
      BY ZenonT(30), <2>5, <2>35
  <2> HIDE DEF keep, fd
  <2>7. /\ e \in VdevType /\ SameControl(d, e) /\ e.keep_fd = keep /\ e.memmap = d.memmap
        /\ e.old_memmap = d.old_memmap /\ e.memlog = d.memlog
        /\ e.old_memlog = d.old_memlog /\ [e EXCEPT !.keep_fd = <<>>] = d
        /\ SameControl(d, d)
    <3>1. e \in VdevType
      BY ZenonT(30), <2>1, <2>2 DEF VdevType
    <3> QED
      BY ZenonT(30), <2>1, <3>1 DEF VdevType, SameControl
  <2>8. /\ t \in VringType /\ SameLife(r, t) /\ t.shadow_vq = r.shadow_vq /\ t.vq = r.vq
        /\ t0 \in VringType /\ SameLife(r, t0) /\ t0.shadow_vq = r.shadow_vq
        /\ [t EXCEPT !.callfd = 0] = t0
    BY ZenonT(30), <2>1, <2>2 DEF VringType, SameLife
  <2> HIDE DEF e, t, t0
  <2>9. C = vhost_reply(U, sent)
    <3>1. [T EXCEPT !.vdev.keep_fd = <<>>] = U
      BY ZenonT(30), <2>1, <2>7 DEF StateType, Put
    <3> HIDE DEF T, U
    <3> QED
      BY ZenonT(30), <3>1 DEF set_vring_call_complete, vhost_ack
  <2>10. [U EXCEPT !.vring[v].callfd = 0] = U0
    BY ZenonT(30), <2>1, <2>8 DEF StateType, Put
  <2> HIDE DEF T, U, U0, C
  <2>11. /\ Busy(T) /\ T.vdev = e /\ T.vring[v] = t
         /\ \A w \in Vring : w # v => T.vring[w] = S.vring[w]
    <3>1. /\ Busy(S) /\ e \in VdevType /\ SameControl(S.vdev, e)
          /\ t \in VringType /\ SameLife(S.vring[v], t)
      BY Zenon, <2>1, <2>7, <2>8
    <3>2. /\ Busy(Put(S, e, v, t)) /\ Put(S, e, v, t).vdev = e
          /\ Put(S, e, v, t).vring[v] = t
          /\ \A w \in Vring : w # v => Put(S, e, v, t).vring[w] = S.vring[w]
      BY SMTT(30), <3>1, <1>OneConfigured
    <3> QED
      BY Zenon, <3>2 DEF T
  <2>12. /\ Busy(U) /\ U.vdev = d /\ U.vring[v] = t
         /\ \A w \in Vring : w # v => U.vring[w] = S.vring[w]
    <3>1. /\ Busy(S) /\ S.vdev \in VdevType /\ SameControl(S.vdev, S.vdev)
          /\ t \in VringType /\ SameLife(S.vring[v], t)
      BY Zenon, <2>1, <2>7, <2>8
    <3>2. /\ Busy(Put(S, S.vdev, v, t)) /\ Put(S, S.vdev, v, t).vdev = S.vdev
          /\ Put(S, S.vdev, v, t).vring[v] = t
          /\ \A w \in Vring : w # v => Put(S, S.vdev, v, t).vring[w] = S.vring[w]
      BY SMTT(30), <3>1, <1>OneConfigured
    <3> QED
      BY Zenon, <3>2 DEF U
  <2>13. /\ Busy(U0) /\ U0.vdev = d /\ U0.vring[v] = t0
         /\ \A w \in Vring : w # v => U0.vring[w] = S.vring[w]
    <3>1. /\ Busy(S) /\ S.vdev \in VdevType /\ SameControl(S.vdev, S.vdev)
          /\ t0 \in VringType /\ SameLife(S.vring[v], t0)
      BY Zenon, <2>1, <2>7, <2>8
    <3>2. /\ Busy(Put(S, S.vdev, v, t0)) /\ Put(S, S.vdev, v, t0).vdev = S.vdev
          /\ Put(S, S.vdev, v, t0).vring[v] = t0
          /\ \A w \in Vring : w # v => Put(S, S.vdev, v, t0).vring[w] = S.vring[w]
      BY SMTT(30), <3>1, <1>OneConfigured
    <3> QED
      BY Zenon, <3>2 DEF U0
  <2>14. CASE ~valid
    BY ZenonT(30), <2>6, <2>14, <1>ErrDone DEF Ready
  <2>15. ASSUME r.started_in_ctl PROVE Done(SyncVrings(T, {v}, "set_vring_fd"))
    <3>1. /\ T.vdev.memmap = S.vdev.memmap
          /\ T.vdev.old_memmap = S.vdev.old_memmap
          /\ T.vdev.memlog = S.vdev.memlog
          /\ T.vdev.old_memlog = S.vdev.old_memlog
      BY ZenonT(30), <2>4, <2>7, <2>8, <2>11, <2>15
    <3>2. SameLife(S.vring[v], T.vring[v])
      BY ZenonT(30), <2>4, <2>7, <2>8, <2>11, <2>15
    <3>3. /\ T.vring[v].vq = S.vring[v].vq
          /\ T.vring[v].shadow_vq.log = S.vring[v].shadow_vq.log
          /\ T.vring[v].shadow_vq.mm = S.vring[v].shadow_vq.mm
      BY ZenonT(30), <2>4, <2>7, <2>8, <2>11, <2>15
    <3>4. \/ T.vring[v].callfd = S.vring[v].callfd
          \/ S.vring[v].callfd = 0
          \/ T.vdev.keep_fd = <<"call", v, S.vring[v].callfd>>
      BY ZenonT(30), <2>4, <2>7, <2>8, <2>11, <2>15
    <3>5. T.vdev.keep_fd # <<>> => "set_vring_fd" = "set_vring_fd"
      BY ZenonT(30), <2>4, <2>7, <2>8, <2>11, <2>15
    <3>6. Busy(T) /\ \A w \in Vring : w # v => T.vring[w] = S.vring[w]
      BY ZenonT(30), <2>4, <2>7, <2>8, <2>11, <2>15
    <3>7. S.vring[v].started_in_ctl
      BY ZenonT(30), <2>4, <2>7, <2>8, <2>11, <2>15
    <3>8. "set_vring_fd" \in {"set_vring_fd", "set_vring_addr", "vring_enable"}
      BY Zenon
    <3> HIDE DEF r
    <3> QED
      BY ZenonT(30), <3>1, <3>2, <3>3, <3>4, <3>5, <3>6, <3>7, <3>8, <1>OneSync
  <2>16. ASSUME ~r.started_in_ctl
         PROVE  Done(IF C.ok THEN C ELSE Err([C.st EXCEPT !.vring[v].callfd = 0]))
    <3>1. SameMaps(d, d)
      BY ZenonT(30) DEF SameMaps
    <3>2. Ready(U) /\ Ready(U0)
      <4>1. /\ SameMaps(S.vdev, U.vdev) /\ SameLife(S.vring[v], U.vring[v])
            /\ U.vring[v].shadow_vq.log = S.vring[v].shadow_vq.log /\ Busy(U)
            /\ \A w \in Vring : w # v => U.vring[w] = S.vring[w]
        BY ZenonT(30), <2>8, <2>12, <3>1
      <4>2. /\ SameMaps(S.vdev, U0.vdev) /\ SameLife(S.vring[v], U0.vring[v])
            /\ U0.vring[v].shadow_vq.log = S.vring[v].shadow_vq.log /\ Busy(U0)
            /\ \A w \in Vring : w # v => U0.vring[w] = S.vring[w]
        BY ZenonT(30), <2>8, <2>13, <3>1
      <4> QED
        BY ZenonT(30), <2>16, <4>1, <4>2, <1>OneReady
    <3>3. CASE sent
      BY ZenonT(30), <2>9, <3>2, <3>3, <1>ReplyDone DEF vhost_reply, Ok
    <3>4. CASE ~sent
      <4>1. C = Err(U)
        BY ZenonT(30), <2>9, <3>4 DEF vhost_reply
      <4>2. C.ok = FALSE /\ C.st = U
        BY Zenon, <4>1 DEF Err
      <4> QED
        BY ZenonT(30), <2>10, <3>2, <4>2, <1>ErrDone DEF Ready
    <3> QED
      BY ZenonT(30), <3>3, <3>4
  <2> QED
    BY ZenonT(30), <2>6, <2>14, <2>15, <2>16
(* SET_VRING_ERR. *)
<1>ErrFdDone.
  ASSUME NEW S, Ready(S), NEW v \in Vring, NEW valid \in BOOLEAN,
         NEW has_fd \in BOOLEAN, NEW sent \in BOOLEAN
  PROVE  Done(vhost_set_vring_err(S, v, valid, has_fd, sent))
  <2> USE <1>ErrFdDone
  <2> DEFINE r == S.vring[v]
             d == S.vdev
             keep == IF r.errfd THEN <<"err", v>> ELSE <<>>
             e == [d EXCEPT !.keep_fd = keep]
             t == [r EXCEPT !.errfd = has_fd]
             t0 == [r EXCEPT !.errfd = FALSE]
             T == Put(S, e, v, t)
             U == Put(S, d, v, t)
             U0 == Put(S, d, v, t0)
             C == set_vring_call_complete(T, sent)
  <2>1. /\ Busy(S) /\ S \in StateType /\ d \in VdevType /\ r \in VringType
        /\ d.keep_fd = <<>>
    BY ZenonT(30) DEF Ready, Failing, Busy, StateType, NoneKept, VringType
  <2>2. keep \in KeepFd
    BY Zenon DEF KeepFd
  <2> DEFINE A == VHD_ASSERT([S EXCEPT !.vdev.keep_fd = keep, !.vring[v].errfd = has_fd],
                             S.vdev.keep_fd = <<>>, "keep_fd")
             B == set_vring_call_complete(A, sent)
  <2>33. vhost_set_vring_err(S, v, valid, has_fd, sent)
         = IF ~valid THEN Err(S)
           ELSE IF r.started_in_ctl THEN SyncVrings(A, {v}, "set_vring_fd")
           ELSE IF B.ok THEN B ELSE Err([B.st EXCEPT !.vring[v].errfd = FALSE])
    BY Zenon DEF vhost_set_vring_err
  <2>3. A = T
    <3> HIDE DEF keep
    <3> QED
      BY Zenon, <2>1 DEF VHD_ASSERT, StateType, Put
  <2>4. vhost_set_vring_err(S, v, valid, has_fd, sent)
        = IF ~valid THEN Err(S)
          ELSE IF r.started_in_ctl THEN SyncVrings(T, {v}, "set_vring_fd")
          ELSE IF C.ok THEN C ELSE Err([C.st EXCEPT !.vring[v].errfd = FALSE])
    <3> HIDE DEF T, A
    <3> QED
      BY ZenonT(30), <2>3, <2>33
  <2> HIDE DEF keep
  <2>5. /\ e \in VdevType /\ SameControl(d, e) /\ e.memmap = d.memmap
        /\ e.old_memmap = d.old_memmap /\ e.memlog = d.memlog
        /\ e.old_memlog = d.old_memlog /\ [e EXCEPT !.keep_fd = <<>>] = d
        /\ SameControl(d, d)
    <3>1. e \in VdevType
      BY ZenonT(30), <2>1, <2>2 DEF VdevType
    <3> QED
      BY ZenonT(30), <2>1, <3>1 DEF VdevType, SameControl
  <2>6. /\ t \in VringType /\ SameLife(r, t) /\ t.shadow_vq = r.shadow_vq /\ t.vq = r.vq
        /\ t.callfd = r.callfd
        /\ t0 \in VringType /\ SameLife(r, t0) /\ t0.shadow_vq = r.shadow_vq
        /\ [t EXCEPT !.errfd = FALSE] = t0
    BY ZenonT(30), <2>1 DEF VringType, SameLife
  <2> HIDE DEF e, t, t0
  <2>7. C = vhost_reply(U, sent)
    <3>1. [T EXCEPT !.vdev.keep_fd = <<>>] = U
      BY Zenon, <2>1, <2>5 DEF StateType, Put
    <3> HIDE DEF T, U
    <3> QED
      BY Zenon, <3>1 DEF set_vring_call_complete, vhost_ack
  <2>8. [U EXCEPT !.vring[v].errfd = FALSE] = U0
    BY ZenonT(30), <2>1, <2>6 DEF StateType, Put
  <2> HIDE DEF T, U, U0, C
  <2>9. /\ Busy(T) /\ T.vdev = e /\ T.vring[v] = t
        /\ \A w \in Vring : w # v => T.vring[w] = S.vring[w]
    <3>1. /\ Busy(S) /\ e \in VdevType /\ SameControl(S.vdev, e)
          /\ t \in VringType /\ SameLife(S.vring[v], t)
      BY Zenon, <2>1, <2>5, <2>6
    <3>2. /\ Busy(Put(S, e, v, t)) /\ Put(S, e, v, t).vdev = e
          /\ Put(S, e, v, t).vring[v] = t
          /\ \A w \in Vring : w # v => Put(S, e, v, t).vring[w] = S.vring[w]
      BY SMTT(30), <3>1, <1>OneConfigured
    <3> QED
      BY Zenon, <3>2 DEF T
  <2>10. /\ Busy(U) /\ U.vdev = d /\ U.vring[v] = t
         /\ \A w \in Vring : w # v => U.vring[w] = S.vring[w]
    <3>1. /\ Busy(S) /\ S.vdev \in VdevType /\ SameControl(S.vdev, S.vdev)
          /\ t \in VringType /\ SameLife(S.vring[v], t)
      BY Zenon, <2>1, <2>5, <2>6
    <3>2. /\ Busy(Put(S, S.vdev, v, t)) /\ Put(S, S.vdev, v, t).vdev = S.vdev
          /\ Put(S, S.vdev, v, t).vring[v] = t
          /\ \A w \in Vring : w # v => Put(S, S.vdev, v, t).vring[w] = S.vring[w]
      BY SMTT(30), <3>1, <1>OneConfigured
    <3> QED
      BY Zenon, <3>2 DEF U
  <2>11. /\ Busy(U0) /\ U0.vdev = d /\ U0.vring[v] = t0
         /\ \A w \in Vring : w # v => U0.vring[w] = S.vring[w]
    <3>1. /\ Busy(S) /\ S.vdev \in VdevType /\ SameControl(S.vdev, S.vdev)
          /\ t0 \in VringType /\ SameLife(S.vring[v], t0)
      BY Zenon, <2>1, <2>5, <2>6
    <3>2. /\ Busy(Put(S, S.vdev, v, t0)) /\ Put(S, S.vdev, v, t0).vdev = S.vdev
          /\ Put(S, S.vdev, v, t0).vring[v] = t0
          /\ \A w \in Vring : w # v => Put(S, S.vdev, v, t0).vring[w] = S.vring[w]
      BY SMTT(30), <3>1, <1>OneConfigured
    <3> QED
      BY Zenon, <3>2 DEF U0
  <2>12. CASE ~valid
    BY ZenonT(30), <2>4, <2>12, <1>ErrDone DEF Ready
  <2>13. ASSUME r.started_in_ctl PROVE Done(SyncVrings(T, {v}, "set_vring_fd"))
    <3>1. /\ T.vdev.memmap = S.vdev.memmap
          /\ T.vdev.old_memmap = S.vdev.old_memmap
          /\ T.vdev.memlog = S.vdev.memlog
          /\ T.vdev.old_memlog = S.vdev.old_memlog
      BY ZenonT(30), <2>5, <2>6, <2>9, <2>13
    <3>2. SameLife(S.vring[v], T.vring[v])
      BY ZenonT(30), <2>5, <2>6, <2>9, <2>13
    <3>3. /\ T.vring[v].vq = S.vring[v].vq
          /\ T.vring[v].shadow_vq.log = S.vring[v].shadow_vq.log
          /\ T.vring[v].shadow_vq.mm = S.vring[v].shadow_vq.mm
      BY ZenonT(30), <2>5, <2>6, <2>9, <2>13
    <3>4. \/ T.vring[v].callfd = S.vring[v].callfd
          \/ S.vring[v].callfd = 0
          \/ T.vdev.keep_fd = <<"call", v, S.vring[v].callfd>>
      BY ZenonT(30), <2>5, <2>6, <2>9, <2>13
    <3>5. T.vdev.keep_fd # <<>> => "set_vring_fd" = "set_vring_fd"
      BY ZenonT(30), <2>5, <2>6, <2>9, <2>13
    <3>6. Busy(T) /\ \A w \in Vring : w # v => T.vring[w] = S.vring[w]
      BY ZenonT(30), <2>5, <2>6, <2>9, <2>13
    <3>7. S.vring[v].started_in_ctl
      BY ZenonT(30), <2>5, <2>6, <2>9, <2>13
    <3>8. "set_vring_fd" \in {"set_vring_fd", "set_vring_addr", "vring_enable"}
      BY Zenon
    <3> HIDE DEF r
    <3> QED
      BY Zenon, <3>1, <3>2, <3>3, <3>4, <3>5, <3>6, <3>7, <3>8, <1>OneSync
  <2>14. ASSUME ~r.started_in_ctl
         PROVE  Done(IF C.ok THEN C ELSE Err([C.st EXCEPT !.vring[v].errfd = FALSE]))
    <3>1. SameMaps(d, d)
      BY Zenon DEF SameMaps
    <3>2. Ready(U) /\ Ready(U0)
      <4>1. /\ SameMaps(S.vdev, U.vdev) /\ SameLife(S.vring[v], U.vring[v])
            /\ U.vring[v].shadow_vq.log = S.vring[v].shadow_vq.log /\ Busy(U)
            /\ \A w \in Vring : w # v => U.vring[w] = S.vring[w]
        BY ZenonT(30), <2>6, <2>10, <3>1
      <4>2. /\ SameMaps(S.vdev, U0.vdev) /\ SameLife(S.vring[v], U0.vring[v])
            /\ U0.vring[v].shadow_vq.log = S.vring[v].shadow_vq.log /\ Busy(U0)
            /\ \A w \in Vring : w # v => U0.vring[w] = S.vring[w]
        BY ZenonT(30), <2>6, <2>11, <3>1
      <4> QED
        BY ZenonT(30), <2>14, <4>1, <4>2, <1>OneReady
    <3>3. CASE sent
      BY ZenonT(30), <2>7, <3>2, <3>3, <1>ReplyDone DEF vhost_reply, Ok
    <3>4. CASE ~sent
      <4>1. C = Err(U)
        BY Zenon, <2>7, <3>4 DEF vhost_reply
      <4>2. C.ok = FALSE /\ C.st = U
        BY Zenon, <4>1 DEF Err
      <4> QED
        BY ZenonT(30), <2>8, <3>2, <4>2, <1>ErrDone DEF Ready
    <3> QED
      BY ZenonT(30), <3>3, <3>4
  <2> QED
    BY ZenonT(30), <2>4, <2>12, <2>13, <2>14
(* GET_INFLIGHT_FD and SET_INFLIGHT_FD: a new region for every vring. *)
<1> DEFINE WithRegion(g, mem) == [v \in Vring |-> [g[v] EXCEPT !.vq.inflight_region = mem]]
<1> HIDE DEF WithRegion
<1>RegionVrings.
  ASSUME NEW g \in [Vring -> VringType], NEW mem \in Id
  PROVE  /\ WithRegion(g, mem) \in [Vring -> VringType]
         /\ \A v \in Vring : /\ SameLife(g[v], WithRegion(g, mem)[v])
                             /\ WithRegion(g, mem)[v].shadow_vq = g[v].shadow_vq
  <2> USE <1>RegionVrings
  <2> DEFINE f == WithRegion(g, mem)
  <2>1. ASSUME NEW v \in Vring
        PROVE  /\ f[v] \in VringType /\ SameLife(g[v], f[v])
               /\ f[v].shadow_vq = g[v].shadow_vq
    <3> DEFINE r == g[v]
               q == [r.vq EXCEPT !.inflight_region = mem]
    <3>1. r \in VringType /\ r.vq \in VqType
      BY Zenon DEF VringType
    <3>2. q \in VqType /\ (q.buffers <=> r.vq.buffers)
      BY ZenonT(30), <3>1 DEF VqType
    <3>3. f[v] = [r EXCEPT !.vq = q]
      BY Zenon, <3>1 DEF WithRegion
    <3> HIDE DEF q, r
    <3>4. [r EXCEPT !.vq = q] \in VringType
      BY ZenonT(30), <3>1, <3>2 DEF VringType
    <3>5. SameLife(r, [r EXCEPT !.vq = q]) /\ [r EXCEPT !.vq = q].shadow_vq = r.shadow_vq
      BY ZenonT(30), <3>1, <3>2 DEF VringType, SameLife
    <3> QED
      BY ZenonT(30), <3>3, <3>4, <3>5 DEF r
  <2>2. f = [v \in Vring |-> f[v]]
    BY ZenonT(30) DEF WithRegion
  <2> HIDE DEF f
  <2>3. f \in [Vring -> VringType]
    BY ZenonT(30), <2>1, <2>2
  <2> QED
    BY ZenonT(30), <2>1, <2>3 DEF f
<1>RegionReady.
  ASSUME NEW S, Ready(S), S.vdev.num_vrings_in_flight = 0, NEW mapped \in BOOLEAN
  PROVE  Ready(inflight_mmap_region(S, mapped))
  <2> USE <1>RegionReady
  <2> DEFINE d == S.vdev
             mem == NextId(d.inflight_mem)
             f == WithRegion(S.vring, mem)
             e1 == [d EXCEPT !.inflight_mem = mem]
             e0 == [d EXCEPT !.inflight_mem = 0]
             T1 == [S EXCEPT !.vdev = e1, !.vring = f]
             T0 == [S EXCEPT !.vdev = e0]
  <2>1. /\ Busy(S) /\ S \in StateType /\ d \in VdevType /\ S.vring \in [Vring -> VringType]
        /\ NoneKept(d) /\ \A v \in Vring : NewUse(S, v, FALSE)
    BY Zenon DEF Ready, Failing, Busy, StateType
  <2>2. d.inflight_mem \in Id
    BY ZenonT(30), <2>1 DEF VdevType
  <2>3. mem \in Id /\ 0 \in Id
    BY ZenonT(30), <2>2, <1>FreshId
  <2> HIDE DEF mem
  <2>4. /\ e1 \in VdevType /\ SameControl(d, e1) /\ SameMaps(d, e1)
        /\ e0 \in VdevType /\ SameControl(d, e0) /\ SameMaps(d, e0)
    <3>1. e1 \in VdevType /\ e0 \in VdevType
      BY ZenonT(30), <2>1, <2>3 DEF VdevType
    <3> QED
      BY SMTT(30), <2>1, <3>1 DEF VdevType, SameControl, SameMaps
  <2>5. inflight_mmap_region(S, mapped) = IF mapped THEN T1 ELSE T0
    BY <2>1, Zenon DEF inflight_mmap_region, mem, StateType, WithRegion
  <2>6. /\ f \in [Vring -> VringType]
        /\ \A v \in Vring : /\ SameLife(S.vring[v], f[v])
                            /\ f[v].shadow_vq = S.vring[v].shadow_vq
    BY ZenonT(30), <2>1, <2>3, <1>RegionVrings
  <2> HIDE DEF f, e1, e0
  <2>7. T1 \in StateType /\ SameLoops(S, T1) /\ T1.vdev = e1 /\ T1.vring = f
    BY ZenonT(30), <2>1, <2>4, <2>6 DEF StateType, SameLoops
  <2>8. T0 \in StateType /\ SameLoops(S, T0) /\ T0.vdev = e0 /\ T0.vring = S.vring
    BY ZenonT(30), <2>1, <2>4 DEF StateType, SameLoops
  <2> HIDE DEF T1, T0
  <2>9. \A v \in Vring : ~S.vring[v].started_in_ctl
    BY ZenonT(30), <2>1, <1>AnyStarted
  <2>10. ASSUME NEW T \in StateType, SameLoops(S, T), SameControl(d, T.vdev),
                SameMaps(d, T.vdev),
                \A v \in Vring : /\ SameLife(S.vring[v], T.vring[v])
                                 /\ T.vring[v].shadow_vq = S.vring[v].shadow_vq
         PROVE  Ready(T)
    <3>1. Busy(T)
      BY ZenonT(30), <2>1, <2>10, <1>Configured
    <3>2. \A v \in Vring : ~T.vring[v].started_in_ctl
      BY ZenonT(30), <2>9, <2>10 DEF SameLife
    <3>3. \A v \in Vring : NewUse(T, v, FALSE)
      BY ZenonT(30), <2>1, <2>10, <3>2 DEF NewUse, SameMaps
    <3> QED
      BY ZenonT(30), <2>1, <2>10, <3>1, <3>2, <3>3 DEF Ready, Failing, NoneKept, CurrentMap, SameMaps
  <2>11. Ready(T1)
    BY ZenonT(30), <2>4, <2>6, <2>7, <2>10
  <2>12. \A v \in Vring : SameLife(S.vring[v], S.vring[v])
    BY Zenon DEF SameLife
  <2>13. Ready(T0)
    BY ZenonT(30), <2>4, <2>8, <2>10, <2>12
  <2> QED
    BY ZenonT(30), <2>5, <2>11, <2>13
<1>InflightDone.
  ASSUME NEW S, Ready(S), NEW valid \in BOOLEAN, NEW mapped \in BOOLEAN,
         NEW sent \in BOOLEAN
  PROVE  /\ Done(vhost_get_inflight_fd(S, valid, mapped, sent))
         /\ Done(vhost_set_inflight_fd(S, valid, mapped, sent))
  <2> USE <1>InflightDone
  <2>1. CASE ~valid \/ S.vdev.num_vrings_in_flight # 0
    BY ZenonT(30), <2>1, <1>ErrDone DEF vhost_get_inflight_fd, vhost_set_inflight_fd, Ready
  <2>2. CASE valid /\ S.vdev.num_vrings_in_flight = 0
    <3>1. Ready(inflight_mmap_region(S, TRUE)) /\ Ready(inflight_mmap_region(S, FALSE))
      BY ZenonT(30), <2>2, <1>RegionReady
    <3> QED
      BY ZenonT(30), <2>2, <3>1, <1>ErrDone, <1>ReplyDone
      DEF vhost_get_inflight_fd, vhost_set_inflight_fd, vhost_ack, Ready
  <2> QED
    BY ZenonT(30), <2>1, <2>2
(* SET_MEM_TABLE, ADD_MEM_REG and REM_MEM_REG. *)
<1>MemDone.
  ASSUME NEW S, Ready(S), NEW valid \in BOOLEAN, NEW hit \in SUBSET Vring,
         NEW sent \in BOOLEAN
  PROVE  /\ Done(vhost_set_mem_table(S, valid, hit, sent))
         /\ Done(vhost_add_mem_reg(S, valid, hit, sent))
         /\ Done(vhost_rem_mem_reg(S, valid, hit, sent))
  <2> USE <1>MemDone
  <2>1. S.vdev.memmap \in Id
    BY Zenon DEF Ready, Failing, Busy, StateType, VdevType
  <2> DEFINE mm == NextId(S.vdev.memmap)
  <2>2. mm \in Id /\ mm # 0
    BY ZenonT(30), <2>1, <1>FreshId
  <2> HIDE DEF mm
  <2>3. Done(ReplaceMemmap(S, mm, valid, hit, sent))
    BY ZenonT(30), <2>2, <1>MemmapDone
  <2>4. Done(ReplyOnly(S, valid, sent)) /\ Done(Err(S))
    BY ZenonT(30), <1>ReplyOnlyDone, <1>ErrDone DEF Ready
  <2> QED
    BY ZenonT(30), <2>3, <2>4 DEF vhost_set_mem_table, vhost_add_mem_reg, vhost_rem_mem_reg, mm
(* vhost_handle_msg, for a message of every kind. *)
<1>MsgDone.
  ASSUME NEW S, Ready(S), S.ctl.batch = {}, client \in Client, NEW req,
         req = "SET_VRING_KICK" => S.vdev.memmap # 0,
         NEW v \in client.vrings, NEW valid \in BOOLEAN, NEW arg \in ArgOf(req),
         NEW sent \in BOOLEAN
  PROVE  Done(vhost_handle_msg(S, req, v, valid, arg, sent))
  <2> USE <1>MsgDone
  <2>1. client.vrings \in SUBSET Vring
    BY Zenon, ConstantsAssumption DEF ClientType
  <2>2. v \in Vring
    BY Zenon, <2>1
  <2>3. req \in {"SET_MEM_TABLE", "ADD_MEM_REG", "REM_MEM_REG"} => arg \in SUBSET Vring
    BY Zenon, <2>1 DEF ArgOf
  <2>4. req \in {"SET_VRING_CALL", "SET_VRING_ERR", "SET_VRING_ENABLE",
                 "GET_INFLIGHT_FD", "SET_INFLIGHT_FD"} => arg \in BOOLEAN
    BY Zenon DEF ArgOf
  <2>5. Done(ReplyOnly(S, valid, sent)) /\ Done(Err(S))
    BY ZenonT(30), <1>ReplyOnlyDone, <1>ErrDone DEF Ready
  <2>6. /\ Done(vhost_get_features(S, valid, sent))
        /\ Done(vhost_set_owner(S, valid, sent))
        /\ Done(vhost_get_protocol_features(S, valid, sent))
        /\ Done(vhost_get_config(S, valid, sent))
        /\ Done(vhost_get_queue_num(S, valid, sent))
        /\ Done(vhost_get_max_mem_slots(S, valid, sent))
    BY Zenon, <2>5 DEF vhost_get_features, vhost_set_owner, vhost_get_protocol_features,
                vhost_get_config, vhost_get_queue_num, vhost_get_max_mem_slots
  <2>7. \A c \in BOOLEAN : Done(ReplyOnly(S, valid /\ c, sent))
    <3> TAKE c \in BOOLEAN
    <3>1. (valid /\ c) \in BOOLEAN
      BY Zenon
    <3> QED
      BY ZenonT(30), <3>1, <1>ReplyOnlyDone
  <2>8. /\ Done(vhost_set_protocol_features(S, valid, sent))
        /\ Done(vhost_set_vring_num(S, v, valid, sent))
        /\ Done(vhost_set_vring_base(S, v, valid, sent))
    BY ZenonT(30), <2>7 DEF vhost_set_protocol_features, vhost_set_vring_num, vhost_set_vring_base
  <2>9. /\ Done(vhost_set_features(S, valid, arg, sent))
        /\ Done(vhost_set_log_base(S, valid, sent))
        /\ Done(vhost_get_vring_base(S, v, valid, sent))
        /\ Done(vhost_set_vring_addr(S, v, valid, sent))
        /\ Done(vhost_vring_enable(S, v, valid, sent))
    BY ZenonT(30), <2>2, <1>FeaturesDone, <1>LogBaseDone, <1>BaseDone, <1>AddrDone, <1>EnableDone
  <2>10. req \in {"SET_MEM_TABLE", "ADD_MEM_REG", "REM_MEM_REG"} =>
           /\ Done(vhost_set_mem_table(S, valid, arg, sent))
           /\ Done(vhost_add_mem_reg(S, valid, arg, sent))
           /\ Done(vhost_rem_mem_reg(S, valid, arg, sent))
    BY ZenonT(30), <2>3, <1>MemDone
  <2>11. req \in {"SET_VRING_CALL", "SET_VRING_ERR", "GET_INFLIGHT_FD",
                  "SET_INFLIGHT_FD"} =>
           /\ Done(vhost_set_vring_call(S, v, valid, arg, sent))
           /\ Done(vhost_set_vring_err(S, v, valid, arg, sent))
           /\ Done(vhost_get_inflight_fd(S, valid, arg, sent))
           /\ Done(vhost_set_inflight_fd(S, valid, arg, sent))
    BY ZenonT(30), <2>2, <2>4, <1>CallDone, <1>ErrFdDone, <1>InflightDone
  <2>12. req = "SET_VRING_KICK" => Done(vhost_set_vring_kick(S, v, valid))
    BY ZenonT(30), <2>2, <1>KickDone
  <2> QED
    BY ZenonT(30), <2>5, <2>6, <2>8, <2>9, <2>10, <2>11, <2>12 DEF vhost_handle_msg
<1> SUFFICES ASSUME client \in Client, NEW S \in StateType, S.failed = {}, Inv(S),
                    S.vdev.conn_handler = "attached", S.ctl.batch = {},
                    NEW req \in client.req, req = "SET_VRING_KICK" => S.vdev.memmap # 0,
                    NEW v \in client.vrings, NEW valid \in BOOLEAN,
                    NEW arg \in ArgOf(req), NEW sent \in BOOLEAN
             PROVE  Good(conn_read(S, req, v, valid, arg, sent))
  BY Zenon
<1> DEFINE T == vdev_handle_start(S, req)
           H == vhost_handle_msg(T, req, v, valid, arg, sent)
<1>1. Ready(T) /\ T.ctl = S.ctl /\ T.vdev.memmap = S.vdev.memmap
  BY Zenon, <1>HandleStart
<1>2. conn_read(S, req, v, valid, arg, sent)
      = IF H.ok THEN H.st ELSE vdev_disconnect(vdev_handle_finish(H.st))
  BY Zenon DEF conn_read
<1> HIDE DEF T
<1>3. Done(H)
  BY ZenonT(30), <1>1, <1>MsgDone
<1> HIDE DEF H
<1> QED
  BY Zenon, <1>2, <1>3 DEF Done

(* A vring that is not started has nothing for its request queue to do. *)
OffIsQuiet ==
  \A v \in Vring : ~vring[v].started_in_ctl =>
    /\ vring[v].num_in_flight = 0 /\ vring[v].queued = 0
    /\ ~vring[v].started_in_rq /\ vring[v].kick_handler = "none"

LEMMA ReleaseStep ==
  IInv /\ OffIsQuiet' /\ [Next]_vars => \A v \in Vring :
    vring[v].started_in_ctl /\ ~vring'[v].started_in_ctl =>
      /\ vring[v].num_in_flight = 0 /\ vring[v].queued = 0
      /\ ~vring[v].started_in_rq /\ vring[v].kick_handler = "none"
(* The messages. *)
<1>KeepsSync.
  ASSUME NEW S, NEW V, NEW cb
  PROVE  Keeps(S, SyncVrings(S, V, cb).st)
  <2> USE <1>KeepsSync
  <2> DEFINE T == SyncVrings(S, V, cb).st
  <2>1. Shape(S) => "vring" \in DOMAIN T /\ T.vring = S.vring
    BY ZenonT(30) DEF Shape, SyncVrings, Ok, vring_handle_msg, vhd_run_in_rq, VHD_ASSERT
  <2> HIDE DEF T
  <2>2. Keeps(S, T)
    BY Zenon, <2>1, KeepsVring
  <2> QED
    BY ZenonT(30), <2>2 DEF T
<1>KeepsErr.
  ASSUME NEW S
  PROVE  Keeps(S, Err(S).st)
  <2> USE <1>KeepsErr
  <2>1. Err(S).st = S
    BY Zenon DEF Err
  <2> QED
    BY ZenonT(30), <2>1, KeepsFinish
<1>KeepsReplyOnly.
  ASSUME NEW S, NEW valid, NEW sent
  PROVE  Keeps(S, ReplyOnly(S, valid, sent).st)
  <2> USE <1>KeepsReplyOnly
  <2>1. \/ ReplyOnly(S, valid, sent) = vhost_reply(S, sent)
        \/ ReplyOnly(S, valid, sent) = Err(S)
    BY Zenon DEF ReplyOnly
  <2> QED
    BY ZenonT(30), <2>1, <1>KeepsErr, KeepsFinish
(* A handler configures the device and then fails, answers or waits. *)
<1> DEFINE Ends(T, H) ==
             \/ H = Err(T)
             \/ \E sent : H = vhost_reply(T, sent)
             \/ \E V, cb : H = SyncVrings(T, V, cb)
<1> HIDE DEF Ends
<1>KeepsEnd.
  ASSUME NEW S, NEW T, NEW H, Keeps(S, T), Ends(T, H)
  PROVE  Keeps(S, H.st)
  BY ZenonT(30), <1>KeepsEnd, <1>KeepsErr, KeepsFinish, <1>KeepsSync, KeepsTrans DEF Ends
<1>KeepsFeatures.
  ASSUME NEW S, NEW valid, NEW feats, NEW sent
  PROVE  Keeps(S, vhost_set_features(S, valid, feats, sent).st)
  <2> USE <1>KeepsFeatures
  <2> DEFINE vring_enable == "PROTOCOL_FEATURES" \in feats
             A == [S EXCEPT !.vdev.log_all = "LOG_ALL" \in feats,
                            !.vdev.vring_enable = vring_enable]
             g == [v \in Vring |-> [S.vring[v] EXCEPT
                     !.shadow_vq.enabled = ~vring_enable, !.vq.enabled = ~vring_enable]]
             B == [A EXCEPT !.vring = g]
             U == update_shadow_vq_memlog(A)
             H == vhost_set_features(S, valid, feats, sent)
  <2>1. \/ H = Err(S) \/ H = vhost_reply(B, sent) \/ H = SyncVrings(U, Vring, "set_features")
    BY Zenon DEF vhost_set_features, vhost_ack
  <2>2. Shape(S) => "vring" \in DOMAIN A /\ A.vring = S.vring
    BY Zenon DEF Shape
  <2> HIDE DEF A
  <2>3. DOMAIN g = Vring
    BY Zenon
  <2>4. Shape(S) => \A v \in Vring : SameRun(S.vring[v], g[v])
    BY Zenon DEF Shape, SameRun
  <2> HIDE DEF g
  <2>5. Shape(S) => "vring" \in DOMAIN B /\ B.vring = g
    BY Zenon, <2>2 DEF Shape
  <2> DEFINE log == IF A.vdev.log_all THEN A.vdev.memlog ELSE 0
             f == [v \in Vring |-> [A.vring[v] EXCEPT !.shadow_vq.log = log]]
  <2>6. U = [A EXCEPT !.vring = f]
    BY Zenon DEF update_shadow_vq_memlog
  <2> HIDE DEF log
  <2>7. DOMAIN f = Vring /\ (Shape(A) => \A v \in Vring : SameRun(A.vring[v], f[v]))
    BY Zenon DEF Shape, SameRun
  <2> HIDE DEF f
  <2>8. Shape(A) => "vring" \in DOMAIN U /\ U.vring = f
    BY Zenon, <2>6 DEF Shape
  <2> HIDE DEF B, U, H
  <2>9. Keeps(S, B) /\ Keeps(S, A) /\ Keeps(A, U) /\ Keeps(S, S)
    BY ZenonT(30), <2>2, <2>3, <2>4, <2>5, <2>7, <2>8, KeepsVring, KeepsAll, KeepsFinish
  <2>10. Keeps(S, U)
    BY Zenon, <2>9, KeepsTrans
  <2>11. Keeps(S, H.st)
    BY ZenonT(30), <2>1, <2>9, <2>10, <1>KeepsEnd DEF Ends
  <2> QED
    BY Zenon, <2>11 DEF H
<1>KeepsMemmap.
  ASSUME NEW S, NEW mm, NEW valid, NEW hit, NEW sent
  PROVE  Keeps(S, ReplaceMemmap(S, mm, valid, hit, sent).st)
  <2> USE <1>KeepsMemmap
  <2> DEFINE V == IF valid THEN StartedVrings(S) ELSE hit \cap StartedVrings(S)
             g == [v \in Vring |->
                    [S.vring[v] EXCEPT !.shadow_vq.mm = IF v \in V THEN mm ELSE @]]
             T == [S EXCEPT !.vring = g]
             U == [T EXCEPT !.vdev.old_memmap = S.vdev.memmap, !.vdev.memmap = mm]
             O == [U EXCEPT !.vdev.old_memmap = 0]
             H == ReplaceMemmap(S, mm, valid, hit, sent)
  <2>1. \/ H = Err(T) \/ H = vhost_reply(O, sent) \/ H = SyncVrings(U, Vring, "set_mem_table")
    BY Zenon DEF ReplaceMemmap, set_mem_table_complete, vhost_ack
  <2> HIDE DEF V
  <2>2. DOMAIN g = Vring /\ (Shape(S) => \A v \in Vring : SameRun(S.vring[v], g[v]))
    BY Zenon DEF Shape, SameRun
  <2> HIDE DEF g
  <2>3. Shape(S) => "vring" \in DOMAIN T /\ T.vring = g
    BY Zenon DEF Shape
  <2> HIDE DEF T
  <2>4. Shape(T) => "vring" \in DOMAIN U /\ U.vring = T.vring
    BY Zenon DEF Shape
  <2> HIDE DEF U
  <2>5. Shape(U) => "vring" \in DOMAIN O /\ O.vring = U.vring
    BY Zenon DEF Shape
  <2> HIDE DEF O, H
  <2>6. Keeps(S, T) /\ Keeps(T, U) /\ Keeps(U, O)
    BY ZenonT(30), <2>2, <2>3, <2>4, <2>5, KeepsVring, KeepsAll
  <2>7. Keeps(S, U) /\ Keeps(S, O)
    BY Zenon, <2>6, KeepsTrans
  <2>8. Keeps(S, H.st)
    BY ZenonT(30), <2>1, <2>6, <2>7, <1>KeepsEnd DEF Ends
  <2> QED
    BY Zenon, <2>8 DEF H
<1>KeepsLogBase.
  ASSUME NEW S, NEW valid, NEW sent
  PROVE  Keeps(S, vhost_set_log_base(S, valid, sent).st)
  <2> USE <1>KeepsLogBase
  <2> DEFINE A == [S EXCEPT !.vdev.old_memlog = S.vdev.memlog,
                            !.vdev.memlog = NextId(S.vdev.memlog)]
             U == update_shadow_vq_memlog(A)
             O == [U EXCEPT !.vdev.old_memlog = 0]
             H == vhost_set_log_base(S, valid, sent)
  <2>1. \/ H = Err(S) \/ H = vhost_reply(O, sent) \/ H = SyncVrings(U, Vring, "set_log_base")
    BY Zenon DEF vhost_set_log_base, set_log_base_complete
  <2>2. Shape(S) => "vring" \in DOMAIN A /\ A.vring = S.vring
    BY ZenonT(30) DEF Shape
  <2> HIDE DEF A
  <2> DEFINE log == IF A.vdev.log_all THEN A.vdev.memlog ELSE 0
             f == [v \in Vring |-> [A.vring[v] EXCEPT !.shadow_vq.log = log]]
  <2>3. U = [A EXCEPT !.vring = f]
    BY Zenon DEF update_shadow_vq_memlog
  <2> HIDE DEF log
  <2>4. DOMAIN f = Vring /\ (Shape(A) => \A v \in Vring : SameRun(A.vring[v], f[v]))
    BY Zenon DEF Shape, SameRun
  <2> HIDE DEF f
  <2>5. Shape(A) => "vring" \in DOMAIN U /\ U.vring = f
    BY Zenon, <2>3 DEF Shape
  <2> HIDE DEF U
  <2>6. Shape(U) => "vring" \in DOMAIN O /\ O.vring = U.vring
    BY Zenon DEF Shape
  <2> HIDE DEF O, H
  <2>7. Keeps(S, A) /\ Keeps(A, U) /\ Keeps(U, O) /\ Keeps(S, S)
    BY ZenonT(30), <2>2, <2>4, <2>5, <2>6, KeepsVring, KeepsAll, KeepsFinish
  <2>8. Keeps(S, U) /\ Keeps(S, O)
    BY Zenon, <2>7, KeepsTrans
  <2>9. Keeps(S, H.st)
    BY ZenonT(30), <2>1, <2>7, <2>8, <1>KeepsEnd DEF Ends
  <2> QED
    BY Zenon, <2>9 DEF H
<1>KeepsCall.
  ASSUME NEW S, NEW v \in Vring, NEW valid, NEW has_fd, NEW sent
  PROVE  Keeps(S, vhost_set_vring_call(S, v, valid, has_fd, sent).st)
  <2> USE <1>KeepsCall
  <2> DEFINE keep == IF S.vring[v].callfd = 0 THEN <<>>
                                             ELSE <<"call", v, S.vring[v].callfd>>
             fd == IF has_fd THEN NextId(S.vring[v].callfd) ELSE 0
             Z == [S EXCEPT !.vdev.keep_fd = keep, !.vring[v].callfd = fd]
             T == VHD_ASSERT(Z, S.vdev.keep_fd = <<>>, "keep_fd")
             O == [T EXCEPT !.vdev.keep_fd = <<>>]
             C == vhost_reply(O, sent)
             Q == C.st
             F == [Q EXCEPT !.vring[v].callfd = 0]
             H == vhost_set_vring_call(S, v, valid, has_fd, sent)
  <2>1. \/ H = Err(S) \/ H = SyncVrings(T, {v}, "set_vring_fd")
        \/ H = vhost_reply(O, sent) \/ H = Err(F)
    BY Zenon DEF vhost_set_vring_call, set_vring_call_complete, vhost_ack
  <2> HIDE DEF keep, fd
  <2>2. Keeps(S, Z)
    <3> DEFINE t == [S.vring[v] EXCEPT !.callfd = fd]
    <3>1. Shape(S) => /\ "vring" \in DOMAIN Z /\ Z.vring = [S.vring EXCEPT ![v] = t]
                      /\ SameRun(S.vring[v], t)
      BY Zenon DEF Shape, SameRun
    <3> HIDE DEF Z, t
    <3> QED
      BY Zenon, <3>1, KeepsOne
  <2> HIDE DEF Z
  <2>3. Keeps(Z, T)
    BY Zenon, KeepsAssert
  <2> HIDE DEF T
  <2>4. Shape(T) => "vring" \in DOMAIN O /\ O.vring = T.vring
    BY Zenon DEF Shape
  <2> HIDE DEF O
  <2>5. Keeps(T, O)
    BY Zenon, <2>4, KeepsVring
  <2>6. Keeps(O, Q)
    BY Zenon, KeepsFinish
  <2> HIDE DEF C, Q
  <2>7. Keeps(Q, F)
    <3> DEFINE t == [Q.vring[v] EXCEPT !.callfd = 0]
    <3>1. Shape(Q) => /\ "vring" \in DOMAIN F /\ F.vring = [Q.vring EXCEPT ![v] = t]
                      /\ SameRun(Q.vring[v], t)
      BY Zenon DEF Shape, SameRun
    <3> HIDE DEF F, t
    <3> QED
      BY Zenon, <3>1, KeepsOne
  <2> HIDE DEF F, H
  <2>8. Keeps(S, T) /\ Keeps(S, O) /\ Keeps(S, F) /\ Keeps(S, S)
    BY ZenonT(30), <2>2, <2>3, <2>5, <2>6, <2>7, KeepsTrans, KeepsFinish
  <2>9. Keeps(S, H.st)
    BY ZenonT(30), <2>1, <2>8, <1>KeepsEnd DEF Ends
  <2> QED
    BY ZenonT(30), <2>9 DEF H
<1>KeepsErrFd.
  ASSUME NEW S, NEW v \in Vring, NEW valid, NEW has_fd, NEW sent
  PROVE  Keeps(S, vhost_set_vring_err(S, v, valid, has_fd, sent).st)
  <2> USE <1>KeepsErrFd
  <2> DEFINE keep == IF S.vring[v].errfd THEN <<"err", v>> ELSE <<>>
             fd == has_fd
             Z == [S EXCEPT !.vdev.keep_fd = keep, !.vring[v].errfd = fd]
             T == VHD_ASSERT(Z, S.vdev.keep_fd = <<>>, "keep_fd")
             O == [T EXCEPT !.vdev.keep_fd = <<>>]
             C == vhost_reply(O, sent)
             Q == C.st
             F == [Q EXCEPT !.vring[v].errfd = FALSE]
             H == vhost_set_vring_err(S, v, valid, has_fd, sent)
  <2>1. \/ H = Err(S) \/ H = SyncVrings(T, {v}, "set_vring_fd")
        \/ H = vhost_reply(O, sent) \/ H = Err(F)
    BY ZenonT(30) DEF vhost_set_vring_err, set_vring_call_complete, vhost_ack
  <2> HIDE DEF keep, fd
  <2>2. Keeps(S, Z)
    <3> DEFINE t == [S.vring[v] EXCEPT !.errfd = fd]
    <3>1. Shape(S) => /\ "vring" \in DOMAIN Z /\ Z.vring = [S.vring EXCEPT ![v] = t]
                      /\ SameRun(S.vring[v], t)
      BY ZenonT(30) DEF Shape, SameRun
    <3> HIDE DEF Z, t
    <3> QED
      BY Zenon, <3>1, KeepsOne
  <2> HIDE DEF Z
  <2>3. Keeps(Z, T)
    BY Zenon, KeepsAssert
  <2> HIDE DEF T
  <2>4. Shape(T) => "vring" \in DOMAIN O /\ O.vring = T.vring
    BY Zenon DEF Shape
  <2> HIDE DEF O
  <2>5. Keeps(T, O)
    BY Zenon, <2>4, KeepsVring
  <2>6. Keeps(O, Q)
    BY Zenon, KeepsFinish
  <2> HIDE DEF C, Q
  <2>7. Keeps(Q, F)
    <3> DEFINE t == [Q.vring[v] EXCEPT !.errfd = FALSE]
    <3>1. Shape(Q) => /\ "vring" \in DOMAIN F /\ F.vring = [Q.vring EXCEPT ![v] = t]
                      /\ SameRun(Q.vring[v], t)
      BY ZenonT(30) DEF Shape, SameRun
    <3> HIDE DEF F, t
    <3> QED
      BY Zenon, <3>1, KeepsOne
  <2> HIDE DEF F, H
  <2>8. Keeps(S, T) /\ Keeps(S, O) /\ Keeps(S, F) /\ Keeps(S, S)
    BY Zenon, <2>2, <2>3, <2>5, <2>6, <2>7, KeepsTrans, KeepsFinish
  <2>9. Keeps(S, H.st)
    BY Zenon, <2>1, <2>8, <1>KeepsEnd DEF Ends
  <2> QED
    BY Zenon, <2>9 DEF H
<1>KeepsEnable.
  ASSUME NEW S, NEW v \in Vring, NEW valid, NEW sent
  PROVE  Keeps(S, vhost_vring_enable(S, v, valid, sent).st)
  <2> USE <1>KeepsEnable
  <2> DEFINE T == [S EXCEPT !.vring[v].shadow_vq.enabled = ~@]
             H == vhost_vring_enable(S, v, valid, sent)
  <2>1. \/ H = Err(S) \/ H = SyncVrings(T, {v}, "vring_enable") \/ H = vhost_reply(T, sent)
    BY ZenonT(30) DEF vhost_vring_enable, vhost_ack
  <2>2. Keeps(S, T)
    <3> DEFINE t == [S.vring[v] EXCEPT !.shadow_vq.enabled = ~@]
    <3>1. Shape(S) => /\ "vring" \in DOMAIN T /\ T.vring = [S.vring EXCEPT ![v] = t]
                      /\ SameRun(S.vring[v], t)
      BY Zenon DEF Shape, SameRun
    <3> HIDE DEF T, t
    <3> QED
      BY Zenon, <3>1, KeepsOne
  <2> HIDE DEF T, H
  <2>3. Keeps(S, H.st)
    BY ZenonT(30), <2>1, <2>2, KeepsFinish, <1>KeepsEnd DEF Ends
  <2> QED
    BY Zenon, <2>3 DEF H
<1>KeepsAddr.
  ASSUME NEW S, NEW v \in Vring, NEW valid, NEW sent
  PROVE  Keeps(S, vhost_set_vring_addr(S, v, valid, sent).st)
  <2> USE <1>KeepsAddr
  <2> DEFINE H == vhost_set_vring_addr(S, v, valid, sent)
  <2>1. \/ H = Err(S) \/ H = SyncVrings(S, {v}, "set_vring_addr") \/ H = vhost_reply(S, sent)
    BY Zenon DEF vhost_set_vring_addr, vhost_ack
  <2> HIDE DEF H
  <2>2. Keeps(S, H.st)
    BY Zenon, <2>1, KeepsFinish, <1>KeepsEnd DEF Ends
  <2> QED
    BY Zenon, <2>2 DEF H
<1>KeepsKick.
  ASSUME NEW S, NEW v \in Vring, NEW valid
  PROVE  Keeps(S, vhost_set_vring_kick(S, v, valid).st)
  <2> USE <1>KeepsKick
  <2> DEFINE A == [S EXCEPT !.vring[v].shadow_vq.mm = S.vdev.memmap,
                            !.vring[v].kickfd = TRUE]
             t == [vring_sync_to_virtq(A.vring[v]) EXCEPT
                     !.vq.buffers = TRUE, !.started_in_ctl = TRUE]
             B == [A EXCEPT !.vring[v] = t,
                            !.vdev.num_vrings_started = @ + 1,
                            !.vdev.num_vrings_in_flight = @ + 1,
                            !.vdev.handle_complete = "set_vring_kick"]
             C == VHD_ASSERT(B, ~S.vring[v].kickfd, "kickfd")
             D == vring_handle_msg(C, {v}, "vring_start_bh")
             H == vhost_set_vring_kick(S, v, valid)
  <2>1. H = Err(S) \/ H = Ok(D)
    BY ZenonT(30) DEF vhost_set_vring_kick
  <2>2. Keeps(S, A)
    <3> DEFINE u == [[S.vring[v] EXCEPT !.shadow_vq.mm = S.vdev.memmap] EXCEPT !.kickfd = TRUE]
    <3>1. Shape(S) => /\ "vring" \in DOMAIN A /\ A.vring = [S.vring EXCEPT ![v] = u]
                      /\ SameRun(S.vring[v], u)
      BY ZenonT(30) DEF Shape, SameRun
    <3> HIDE DEF A, u
    <3> QED
      BY Zenon, <3>1, KeepsOne
  <2> HIDE DEF A
  <2>3. Shape(A) => SameRun(A.vring[v], t)
    BY ZenonT(30) DEF Shape, SameRun, vring_sync_to_virtq
  <2> HIDE DEF t
  <2>4. Shape(A) => "vring" \in DOMAIN B /\ B.vring = [A.vring EXCEPT ![v] = t]
    BY Zenon DEF Shape
  <2> HIDE DEF B
  <2>5. Keeps(A, B)
    BY Zenon, <2>3, <2>4, KeepsOne
  <2>6. Keeps(B, C)
    BY ZenonT(30), KeepsAssert
  <2> HIDE DEF C
  <2>7. Shape(C) => "vring" \in DOMAIN D /\ D.vring = C.vring
    BY ZenonT(30) DEF Shape, vring_handle_msg, vhd_run_in_rq, VHD_ASSERT
  <2> HIDE DEF D, H
  <2>8. Keeps(C, D)
    BY Zenon, <2>7, KeepsVring
  <2>9. Keeps(S, D)
    BY ZenonT(30), <2>2, <2>5, <2>6, <2>8, KeepsTrans
  <2>10. Ok(D).st = D
    BY Zenon DEF Ok
  <2>11. Keeps(S, H.st)
    BY ZenonT(30), <2>1, <2>9, <2>10, <1>KeepsErr
  <2> QED
    BY Zenon, <2>11 DEF H
<1>KeepsBase.
  ASSUME NEW S, NEW v \in Vring, NEW valid, NEW sent
  PROVE  Keeps(S, vhost_get_vring_base(S, v, valid, sent).st)
  <2> USE <1>KeepsBase
  <2> DEFINE T == [S EXCEPT !.vring[v].on_drain_cb = TRUE]
             D == vhd_run_in_rq(T, "vring_stop_bh", {v})
             H == vhost_get_vring_base(S, v, valid, sent)
  <2>1. H = Err(S) \/ H = vhost_reply(S, sent) \/ H = Ok(D)
    BY ZenonT(30) DEF vhost_get_vring_base
  <2>2. Keeps(S, T)
    <3> DEFINE t == [S.vring[v] EXCEPT !.on_drain_cb = TRUE]
    <3>1. Shape(S) => /\ "vring" \in DOMAIN T /\ T.vring = [S.vring EXCEPT ![v] = t]
                      /\ SameRun(S.vring[v], t)
      BY Zenon DEF Shape, SameRun
    <3> HIDE DEF T, t
    <3> QED
      BY Zenon, <3>1, KeepsOne
  <2> HIDE DEF T
  <2>3. Keeps(T, D)
    BY Zenon, KeepsRunInRq
  <2> HIDE DEF D, H
  <2>4. Ok(D).st = D
    BY Zenon DEF Ok
  <2>5. Keeps(S, D)
    BY Zenon, <2>2, <2>3, KeepsTrans
  <2>6. Keeps(S, H.st)
    BY ZenonT(30), <2>1, <2>4, <2>5, <1>KeepsErr, KeepsFinish
  <2> QED
    BY Zenon, <2>6 DEF H
<1>KeepsInflight.
  ASSUME NEW S, NEW valid, NEW mapped, NEW sent
  PROVE  /\ Keeps(S, vhost_get_inflight_fd(S, valid, mapped, sent).st)
         /\ Keeps(S, vhost_set_inflight_fd(S, valid, mapped, sent).st)
  <2> USE <1>KeepsInflight
  <2> DEFINE A == inflight_mmap_region(S, TRUE)
             B == inflight_mmap_region(S, FALSE)
             G == vhost_get_inflight_fd(S, valid, mapped, sent)
             H == vhost_set_inflight_fd(S, valid, mapped, sent)
             mem == NextId(S.vdev.inflight_mem)
             g == [v \in Vring |-> [S.vring[v] EXCEPT !.vq.inflight_region = mem]]
  <2>1. /\ G = Err(S) \/ G = vhost_reply(A, sent) \/ G = Err(B)
        /\ H = Err(S) \/ H = vhost_reply(A, sent) \/ H = Err(B)
    BY Zenon DEF vhost_get_inflight_fd, vhost_set_inflight_fd, vhost_ack
  <2>2. A = [S EXCEPT !.vdev.inflight_mem = mem, !.vring = g]
    BY Zenon DEF inflight_mmap_region
  <2>3. B = [S EXCEPT !.vdev.inflight_mem = 0]
    BY Zenon DEF inflight_mmap_region
  <2> HIDE DEF mem, A, B
  <2>4. DOMAIN g = Vring /\ (Shape(S) => \A v \in Vring : SameRun(S.vring[v], g[v]))
    BY Zenon DEF Shape, SameRun
  <2> HIDE DEF g
  <2>5. Shape(S) => "vring" \in DOMAIN A /\ A.vring = g
    BY Zenon, <2>2 DEF Shape
  <2>6. Shape(S) => "vring" \in DOMAIN B /\ B.vring = S.vring
    BY Zenon, <2>3 DEF Shape
  <2>7. Keeps(S, A) /\ Keeps(S, B) /\ Keeps(S, S)
    BY ZenonT(30), <2>4, <2>5, <2>6, KeepsAll, KeepsVring, KeepsFinish
  <2> HIDE DEF G, H
  <2>8. Keeps(S, G.st) /\ Keeps(S, H.st)
    BY ZenonT(30), <2>1, <2>7, <1>KeepsEnd DEF Ends
  <2> QED
    BY Zenon, <2>8 DEF G, H
<1>KeepsMsg.
  ASSUME NEW S, NEW req, NEW v \in Vring, NEW valid, NEW arg, NEW sent
  PROVE  Keeps(S, vhost_handle_msg(S, req, v, valid, arg, sent).st)
  <2> USE <1>KeepsMsg
  <2>1. /\ \A mm : Keeps(S, ReplaceMemmap(S, mm, valid, arg, sent).st)
        /\ \A c : Keeps(S, ReplyOnly(S, c, sent).st)
        /\ Keeps(S, Err(S).st)
    BY Zenon, <1>KeepsMemmap, <1>KeepsReplyOnly, <1>KeepsErr
  <2>2. /\ Keeps(S, vhost_set_mem_table(S, valid, arg, sent).st)
        /\ Keeps(S, vhost_add_mem_reg(S, valid, arg, sent).st)
        /\ Keeps(S, vhost_rem_mem_reg(S, valid, arg, sent).st)
    BY Zenon, <2>1 DEF vhost_set_mem_table, vhost_add_mem_reg, vhost_rem_mem_reg
  <2>3. /\ Keeps(S, vhost_get_features(S, valid, sent).st)
        /\ Keeps(S, vhost_set_owner(S, valid, sent).st)
        /\ Keeps(S, vhost_get_protocol_features(S, valid, sent).st)
        /\ Keeps(S, vhost_set_protocol_features(S, valid, sent).st)
        /\ Keeps(S, vhost_get_config(S, valid, sent).st)
        /\ Keeps(S, vhost_get_queue_num(S, valid, sent).st)
        /\ Keeps(S, vhost_get_max_mem_slots(S, valid, sent).st)
        /\ Keeps(S, vhost_set_vring_num(S, v, valid, sent).st)
        /\ Keeps(S, vhost_set_vring_base(S, v, valid, sent).st)
    BY Zenon, <2>1 DEF vhost_get_features, vhost_set_owner, vhost_get_protocol_features,
                vhost_set_protocol_features, vhost_get_config, vhost_get_queue_num,
                vhost_get_max_mem_slots, vhost_set_vring_num, vhost_set_vring_base
  <2>4. /\ Keeps(S, vhost_set_features(S, valid, arg, sent).st)
        /\ Keeps(S, vhost_set_log_base(S, valid, sent).st)
        /\ Keeps(S, vhost_set_vring_call(S, v, valid, arg, sent).st)
        /\ Keeps(S, vhost_set_vring_kick(S, v, valid).st)
        /\ Keeps(S, vhost_set_vring_err(S, v, valid, arg, sent).st)
        /\ Keeps(S, vhost_get_vring_base(S, v, valid, sent).st)
        /\ Keeps(S, vhost_set_vring_addr(S, v, valid, sent).st)
        /\ Keeps(S, vhost_get_inflight_fd(S, valid, arg, sent).st)
        /\ Keeps(S, vhost_set_inflight_fd(S, valid, arg, sent).st)
        /\ Keeps(S, vhost_vring_enable(S, v, valid, sent).st)
    BY ZenonT(30), <1>KeepsFeatures, <1>KeepsLogBase, <1>KeepsCall, <1>KeepsKick, <1>KeepsErrFd, <1>KeepsBase,
       <1>KeepsAddr, <1>KeepsInflight, <1>KeepsEnable
  <2> QED
    BY ZenonT(30), <2>1, <2>2, <2>3, <2>4 DEF vhost_handle_msg
<1>KeepsConnRead.
  ASSUME NEW S, NEW req, NEW v \in Vring, NEW valid, NEW arg, NEW sent
  PROVE  Keeps(S, conn_read(S, req, v, valid, arg, sent))
  <2> USE <1>KeepsConnRead
  <2> DEFINE T == vdev_handle_start(S, req)
             H == vhost_handle_msg(T, req, v, valid, arg, sent)
             Q == H.st
  <2>1. conn_read(S, req, v, valid, arg, sent)
        = IF H.ok THEN Q ELSE vdev_disconnect(vdev_handle_finish(Q))
    BY Zenon DEF conn_read
  <2>2. Keeps(S, T)
    BY ZenonT(30), KeepsFinish
  <2> HIDE DEF T
  <2>3. Keeps(T, Q)
    BY Zenon, <1>KeepsMsg
  <2> HIDE DEF H, Q
  <2>4. Keeps(Q, vdev_disconnect(vdev_handle_finish(Q)))
    BY ZenonT(30), KeepsFinish, KeepsDisconnect, KeepsTrans
  <2> QED
    <3>1. CASE H.ok
      BY Zenon, <2>1, <2>2, <2>3, <3>1, KeepsTrans
    <3>2. CASE ~H.ok
      <4>1. Keeps(S, Q)
        BY Zenon, <2>2, <2>3, KeepsTrans
      <4>2. Keeps(S, vdev_disconnect(vdev_handle_finish(Q)))
        BY Zenon, <2>4, <4>1, KeepsTrans
      <4> QED
        BY Zenon, <2>1, <3>2, <4>2
    <3> QED
      BY Zenon, <3>1, <3>2
(* What a step of the control side may not touch, and what one of a        *)
(* request queue may not touch.                                            *)
<1>ControlKeeps.
  ASSUME IInv, ExternalStep \/ CtlStep \/ CtlEvent
  PROVE  \A v \in Vring : SameRun(vring[v], vring'[v])
  <2> USE <1>ControlKeeps
  <2> DEFINE Same == \A v \in Vring : SameRun(vring[v], vring'[v])
  <2>1. /\ Shape(State) /\ State.vring = vring /\ client \in Client
        /\ ctl.batch \subseteq CtlBhs
    BY SMTT(30) DEF IInv, TypeOK, State, Shape, VringType
  <2>2. ASSUME NEW S, NEW T, "vring" \in DOMAIN S, S.vring = vring, Keeps(S, T), Become(T)
        PROVE  Same
    <3>1. Shape(S)
      BY ZenonT(30), <2>1, <2>2 DEF Shape
    <3>2. CASE T.failed = {}
      BY ZenonT(30), <2>2, <3>1, <3>2 DEF Become, Keeps
    <3>3. CASE T.failed # {}
      BY ZenonT(30), <2>2, <3>3 DEF Become, SameRun
    <3> QED
      BY Zenon, <3>2, <3>3
  <2>3. "vring" \in DOMAIN State
    BY Zenon DEF State
  <2> HIDE DEF Same
  <2>4. ASSUME VhdVdevInitServer \/ VhdVdevStopServer PROVE Same
    <3>1. PICK to, func :
            Become(vhd_run_in_ctl([State EXCEPT !.ext = to], {<<"work_bh", func>>}))
      BY ZenonT(30), <2>4 DEF VhdVdevInitServer, VhdVdevStopServer, SubmitWork
    <3> DEFINE T == vhd_run_in_ctl([State EXCEPT !.ext = to], {<<"work_bh", func>>})
    <3>2. "vring" \in DOMAIN T /\ T.vring = vring
      BY Zenon DEF vhd_run_in_ctl, VHD_ASSERT, State
    <3> HIDE DEF T
    <3>3. Keeps(State, T)
      BY ZenonT(30), <2>1, <3>2, KeepsVring
    <3> QED
      BY ZenonT(30), <2>1, <2>2, <2>3, <3>1, <3>3 DEF T
  <2>5. ASSUME VhdVdevInitFailed PROVE Same
    <3> DEFINE T == vhd_vdev_release(State)
    <3>1. Become(T)
      BY Zenon, <2>5 DEF VhdVdevInitFailed
    <3>2. "vring" \in DOMAIN T /\ T.vring = vring
      BY ZenonT(30) DEF vhd_vdev_release, State
    <3> HIDE DEF T
    <3>3. Keeps(State, T)
      BY Zenon, <2>1, <3>2, KeepsVring
    <3> QED
      BY ZenonT(30), <2>1, <2>2, <2>3, <3>1, <3>3
  <2>6. ASSUME CtlPoll PROVE Same
    BY Zenon, <2>6 DEF CtlPoll, SameRun, Same
  <2>7. ASSUME NEW b \in ctl.batch, NEW ok \in BOOLEAN, CtlBh(b, ok) PROVE Same
    <3> DEFINE S == [State EXCEPT !.ctl.batch = @ \ {b}]
    <3>1. Become(CtlBody(S, b, ok))
      BY <2>7, Zenon DEF CtlBh
    <3>2. "vring" \in DOMAIN S /\ S.vring = vring
      BY Zenon DEF State
    <3> HIDE DEF S
    <3>3. Keeps(S, CtlBody(S, b, ok))
      BY ZenonT(30), <2>1, KeepsCtlBody
    <3> QED
      BY ZenonT(30), <2>2, <3>1, <3>2, <3>3
  <2>8. ASSUME ServerRead PROVE Same
    BY ZenonT(30), <2>1, <2>2, <2>3, <2>8, KeepsServerRead DEF ServerRead
  <2>9. ASSUME ConnHangup PROVE Same
    BY ZenonT(30), <2>1, <2>2, <2>3, <2>9, KeepsDisconnect DEF ConnHangup
  <2>10. ASSUME NEW req \in client.req, NEW v \in client.vrings, NEW valid \in BOOLEAN,
                NEW arg \in ArgOf(req), NEW sent \in BOOLEAN,
                ConnRead(req, v, valid, arg, sent)
         PROVE  Same
    <3>1. v \in Vring
      BY ZenonT(30), <2>1, ConstantsAssumption DEF ClientType
    <3>2. Become(conn_read(State, req, v, valid, arg, sent))
      BY Zenon, <2>10 DEF ConnRead
    <3>3. Keeps(State, conn_read(State, req, v, valid, arg, sent))
      BY Zenon, <3>1, <1>KeepsConnRead
    <3> QED
      BY ZenonT(30), <2>1, <2>2, <2>3, <3>2, <3>3
  <2>11. Same
    BY ZenonT(30), <2>4, <2>5, <2>6, <2>7, <2>8, <2>9, <2>10 DEF ExternalStep, CtlStep, CtlEvent
  <2> QED
    BY ZenonT(30), <2>11 DEF Same
<1>QueueKeeps.
  ASSUME IInv, \/ \E r \in Rq : RqStep(r)
               \/ \E v \in Vring : RqEvent(v)
               \/ \E v \in Vring : ReqComplete(v)
  PROVE  \A w \in Vring : vring'[w].started_in_ctl = vring[w].started_in_ctl
  <2> USE <1>QueueKeeps
  <2> DEFINE Same == \A w \in Vring : vring'[w].started_in_ctl = vring[w].started_in_ctl
  <2>1. /\ DOMAIN vring = Vring /\ \A v \in Vring : vring[v] \in VringType
        /\ rq \in [Rq -> [pending : SUBSET RqBhs, batch : SUBSET RqBhs]]
    BY Zenon DEF IInv, TypeOK
  <2>2. \A v \in Vring : /\ "started_in_ctl" \in DOMAIN vring[v]
                         /\ {"vq", "kick_handler", "started_in_rq", "num_in_flight",
                             "queued"} \subseteq DOMAIN vring[v]
    BY ZenonT(30), <2>1 DEF VringType
  <2>3. ASSUME NEW S, S.vring = vring, NEW v \in Vring, NEW t, NEW B,
               "vring" \in DOMAIN S, t.started_in_ctl = vring[v].started_in_ctl,
               Become(vhd_run_in_ctl([S EXCEPT !.vring[v] = t], B))
        PROVE  Same
    <3> DEFINE T == vhd_run_in_ctl([S EXCEPT !.vring[v] = t], B)
    <3>1. T.vring = [vring EXCEPT ![v] = t]
      BY Zenon, <2>3 DEF vhd_run_in_ctl, VHD_ASSERT
    <3> HIDE DEF T
    <3>2. vring' = vring \/ vring' = T.vring
      BY Zenon, <2>3 DEF Become, T
    <3> QED
      BY Zenon, <2>1, <2>3, <3>1, <3>2
  <2> HIDE DEF Same
  <2>4. ASSUME NEW q \in Rq, RqPoll(q) PROVE Same
    BY Zenon, <2>4 DEF RqPoll, Same
  <2>5. ASSUME NEW q \in Rq, NEW b \in rq[q].batch, NEW ok \in BOOLEAN, RqBh(q, b, ok)
        PROVE  Same
    <3> DEFINE S == [State EXCEPT !.rq[q].batch = @ \ {b}]
    <3>1. Become(RqBody(S, b, ok))
      BY <2>5, Zenon DEF RqBh
    <3>2. "vring" \in DOMAIN S /\ S.vring = vring
      BY Zenon DEF State
    <3> HIDE DEF S
    <3>3. PICK name \in RqBhName, v \in Vring : b = <<name, v>>
      BY SMTT(30), <2>1, <2>5 DEF RqBhs
    <3>4. \/ RqBody(S, b, ok) = vring_start_bh(S, v, ok)
          \/ RqBody(S, b, ok) = vring_sync_to_virtq_bh(S, v)
          \/ RqBody(S, b, ok) = vring_stop_bh(S, v)
      BY SMTT(30), <3>3 DEF RqBody, RqBhName
    <3>5. ASSUME NEW T, T.vring = vring, Become(T) PROVE Same
      BY Zenon, <3>5 DEF Become, Same
    <3>6. ASSUME Become(vring_start_bh(S, v, ok)) PROVE Same
      <4> DEFINE T == VHD_ASSERT(S, ~S.vring[v].started_in_rq, "start")
                 t == [vring_sync_to_virtq(T.vring[v]) EXCEPT
                         !.kick_handler = "attached", !.started_in_rq = TRUE]
                 F == vhd_run_in_ctl(T, {<<"vring_start_failed_bh", v>>})
                 G == vhd_run_in_ctl([T EXCEPT !.vring[v] = t],
                                     {<<"vring_mark_msg_handled_bh", v>>})
      <4>1. vring_start_bh(S, v, ok) = F \/ vring_start_bh(S, v, ok) = G
        BY Zenon DEF vring_start_bh
      <4>2. "vring" \in DOMAIN T /\ T.vring = vring
        BY ZenonT(30), <3>2 DEF VHD_ASSERT
      <4> HIDE DEF T
      <4>3. F.vring = vring
        BY Zenon, <4>2 DEF vhd_run_in_ctl, VHD_ASSERT
      <4>4. t.started_in_ctl = vring[v].started_in_ctl
        BY ZenonT(30), <2>2, <4>2 DEF vring_sync_to_virtq
      <4> HIDE DEF t
      <4>5. Become(G) => Same
        BY ZenonT(30), <2>3, <4>2, <4>4
      <4> QED
        BY ZenonT(30), <3>5, <3>6, <4>1, <4>3, <4>5
    <3>7. ASSUME Become(vring_sync_to_virtq_bh(S, v)) PROVE Same
      <4> DEFINE t == vring_sync_to_virtq(S.vring[v])
      <4>1. Become(vhd_run_in_ctl([S EXCEPT !.vring[v] = t],
                                  {<<"vring_mark_msg_handled_bh", v>>}))
        BY <3>7, ZenonT(30) DEF vring_sync_to_virtq_bh
      <4>2. t.started_in_ctl = vring[v].started_in_ctl
        BY ZenonT(30), <2>2, <3>2 DEF vring_sync_to_virtq
      <4> HIDE DEF t
      <4> QED
        BY ZenonT(30), <2>3, <3>2, <4>1, <4>2
    <3>8. ASSUME Become(vring_stop_bh(S, v)) PROVE Same
      <4> DEFINE r == S.vring[v]
                 c == IF r.disconnecting THEN vhd_cancel_queued_requests(r) ELSE r
                 t == [c EXCEPT !.kick_handler = "none", !.started_in_rq = FALSE]
                 B == {<<"vring_mark_stopped_bh", v>>} \cup
                      (IF c.num_in_flight = 0 THEN {<<"vring_mark_drained_bh", v>>} ELSE {})
                 G == vhd_run_in_ctl([S EXCEPT !.vring[v] = t], B)
      <4>1. vring_stop_bh(S, v) = S \/ vring_stop_bh(S, v) = G
        BY Zenon DEF vring_stop_bh
      <4>2. t.started_in_ctl = vring[v].started_in_ctl
        BY Zenon, <2>2, <3>2 DEF vhd_cancel_queued_requests
      <4> HIDE DEF t, B
      <4>3. Become(G) => Same
        BY ZenonT(30), <2>3, <3>2, <4>2
      <4> QED
        BY ZenonT(30), <3>2, <3>5, <3>8, <4>1, <4>3
    <3> QED
      BY ZenonT(30), <3>1, <3>4, <3>6, <3>7, <3>8
  <2>6. ASSUME NEW v \in Vring, NEW n \in 0 .. client.max_req, NEW ok \in BOOLEAN,
               VringKick(v, n, ok)
        PROVE  Same
    BY ZenonT(30), <2>1, <2>2, <2>6 DEF VringKick, Same
  <2>7. ASSUME NEW v \in Vring, VhdDequeueRequest(v) PROVE Same
    BY ZenonT(30), <2>1, <2>2, <2>7 DEF VhdDequeueRequest, Same
  <2>8. ASSUME NEW v \in Vring, ReqComplete(v) PROVE Same
    <3> DEFINE t == [vring[v] EXCEPT !.num_in_flight = @ - 1]
               g == [vring EXCEPT ![v] = t]
               T == vhd_vring_dec_in_flight(State, v)
    <3>1. Become(T)
      BY Zenon, <2>8 DEF ReqComplete
    <3>2. T.vring = g
      BY Zenon, <2>1 DEF vhd_vring_dec_in_flight, vhd_run_in_ctl, VHD_ASSERT, State
    <3>3. t.started_in_ctl = vring[v].started_in_ctl
      BY Zenon, <2>2
    <3> HIDE DEF T, t
    <3>4. vring' = vring \/ vring' = g
      BY Zenon, <3>1, <3>2 DEF Become
    <3> QED
      BY Zenon, <2>1, <3>3, <3>4 DEF Same
  <2>9. Same
    BY ZenonT(30), <2>4, <2>5, <2>6, <2>7, <2>8 DEF RqStep, RqEvent
  <2> QED
    BY Zenon, <2>9 DEF Same
<1> SUFFICES ASSUME IInv, OffIsQuiet', [Next]_vars, NEW v \in Vring,
                    vring[v].started_in_ctl, ~vring'[v].started_in_ctl
             PROVE  /\ vring[v].num_in_flight = 0 /\ vring[v].queued = 0
                    /\ ~vring[v].started_in_rq /\ vring[v].kick_handler = "none"
  BY Zenon
<1>1. ~UNCHANGED vars
  BY Zenon DEF vars
<1>2. ExternalStep \/ CtlStep \/ CtlEvent
  BY Zenon, <1>1, <1>QueueKeeps DEF Next, Halted
<1>3. SameRun(vring[v], vring'[v])
  BY Zenon, <1>2, <1>ControlKeeps
<1> QED
  BY Zenon, <1>3 DEF SameRun, OffIsQuiet

-----------------------------------------------------------------------------
(* The inductive step. *)
LEMMA InvNext ==
  ASSUME NEW S, State' = S, Inv(S)
  PROVE  Inv(State)'
BY Zenon DEF Inv

LEMMA CurrentState ==
  ASSUME TypeOK
  PROVE  /\ State \in StateType
         /\ State.vdev = vdev /\ State.vring = vring /\ State.ctl = ctl
         /\ State.rq = rq /\ State.ext = ext /\ State.failed = failed
BY Zenon DEF TypeOK, State, StateType, ExtType

LEMMA TypeNext ==
  ASSUME UNCHANGED client, client \in Client, NEW S \in StateType, State' = S
  PROVE  TypeOK'
<1>1. /\ vdev' \in VdevType /\ vring' \in [Vring -> VringType]
      /\ ctl' \in [pending : SUBSET CtlBhs, batch : SUBSET CtlBhs]
      /\ rq' \in [Rq -> [pending : SUBSET RqBhs, batch : SUBSET RqBhs]]
      /\ ext' \in ExtType /\ failed' \in SUBSET Assertion
  BY Zenon DEF State, StateType
<1>2. VdevType' = VdevType /\ VringType' = VringType
  BY Zenon DEF VdevType, VringType
<1> QED
  BY Zenon, <1>1, <1>2 DEF TypeOK, ExtType

(* Nothing in Inv is about the assertions. *)
LEMMA InvFields ==
  ASSUME NEW S, NEW T, Inv(S), T.vdev = S.vdev, T.vring = S.vring, T.ctl = S.ctl,
         T.rq = S.rq, T.ext = S.ext
  PROVE  Inv(T)
<1>1. /\ \A name, v : InR(T, name, v) <=> InR(S, name, v)
      /\ \A name, v : InC(T, name, v) <=> InC(S, name, v)
  BY Zenon DEF InR, InC
<1>2. /\ \A v : Starting(T, v) <=> Starting(S, v)
      /\ \A v : Syncing(T, v) <=> Syncing(S, v)
      /\ \A v : Stopping(T, v) <=> Stopping(S, v)
      /\ \A v : Leaving(T, v) <=> Leaving(S, v)
      /\ \A v : Handled(T, v) <=> Handled(S, v)
      /\ \A v : Stopped(T, v) <=> Stopped(S, v)
      /\ \A v : Drained(T, v) <=> Drained(S, v)
      /\ \A v : StartFailed(T, v) <=> StartFailed(S, v)
      /\ \A f : Working(T, f) <=> Working(S, f)
      /\ \A v : StoppedQueued(T, v) <=> StoppedQueued(S, v)
  BY Zenon, <1>1 DEF Starting, Syncing, Stopping, Leaving, Handled, Stopped, Drained,
              StartFailed, Working, StoppedQueued
<1>3. /\ \A v : InMsg(T, v) <=> InMsg(S, v)
      /\ \A v : Running(T, v) <=> Running(S, v)
  BY Zenon, <1>2 DEF InMsg, Running
<1>4. MsgSet(T) = MsgSet(S) /\ RunSet(T) = RunSet(S) /\ CtlSet(T) = CtlSet(S)
  BY Zenon, <1>3 DEF MsgSet, RunSet, CtlSet
<1>5. BhInv(T)
  BY ZenonT(30) DEF Inv, BhInv
<1>6. CountInv(T) /\ KeptInv(T.vdev) /\ ConnInv(T.vdev)
  BY Zenon, <1>4 DEF Inv, CountInv
<1>7. WorkInv(T)
  BY ZenonT(30), <1>2 DEF Inv, WorkInv
<1>8. ASSUME NEW v \in Vring PROVE Life(T, v) /\ MsgInv(T, v) /\ UseInv(T, v)
  <2>1. Life(S, v) /\ PartInv(S, v) /\ UpInv(S, v) /\ DownInv(S, v) /\ IdleInv(S, v)
        /\ UseInv(S, v)
    BY Zenon DEF Inv, MsgInv
  <2>2. Life(T, v)
    BY Zenon, <1>2, <1>3, <2>1 DEF Life
  <2>3. PartInv(T, v) /\ UpInv(T, v) /\ DownInv(T, v) /\ IdleInv(T, v)
    BY Zenon, <1>2, <1>3, <2>1 DEF PartInv, UpInv, DownInv, IdleInv
  <2>4. UseInv(T, v)
    BY ZenonT(30), <1>2, <2>1 DEF UseInv
  <2> QED
    BY Zenon, <2>2, <2>3, <2>4 DEF MsgInv
<1> QED
  BY ZenonT(30), <1>5, <1>6, <1>7, <1>8 DEF Inv

(* A handler has run. *)
LEMMA Becomes ==
  ASSUME IInv, failed = {}, NEW S, Good(S), Become(S)
  PROVE  IInv'
<1>1. /\ client' = client /\ client \in Client /\ TypeOK /\ Inv(State)
      /\ failed' = S.failed /\ S.failed \subseteq {"cleanup_req"}
  BY Zenon DEF IInv, Become, Good, TypeOK
<1>2. CASE S.failed = {}
  <2>1. /\ S \in StateType /\ Inv(S) /\ vdev' = S.vdev /\ vring' = S.vring
        /\ ctl' = S.ctl /\ rq' = S.rq /\ ext' = S.ext
    BY Zenon, <1>2 DEF Become, Good
  <2>2. State' = S
    BY Zenon, <1>1, <2>1 DEF State, StateType
  <2>3. TypeOK' /\ Inv(State)'
    BY ZenonT(30), <1>1, <2>1, <2>2, TypeNext, InvNext
  <2> QED
    BY Zenon, <1>1, <2>3 DEF IInv
<1>3. CASE S.failed # {}
  <2> DEFINE T == State'
  <2>1. /\ UNCHANGED <<vdev, vring, ctl, rq, ext>> /\ "cleanup_req" \in Assertion
    BY Zenon, <1>3 DEF Become, Assertion
  <2>2. /\ T.vdev = State.vdev /\ T.vring = State.vring /\ T.ctl = State.ctl
        /\ T.rq = State.rq /\ T.ext = State.ext
    BY Zenon, <2>1 DEF State
  <2>3. T \in StateType
    BY ZenonT(30), <1>1, <2>1 DEF State, StateType, TypeOK, ExtType
  <2> HIDE DEF T
  <2>4. Inv(T)
    BY ZenonT(30), <1>1, <2>2, InvFields
  <2>5. State' = T
    BY Zenon DEF T
  <2>6. TypeOK' /\ Inv(State)'
    BY ZenonT(30), <1>1, <2>3, <2>4, <2>5, TypeNext, InvNext
  <2> QED
    BY Zenon, <1>1, <2>6 DEF IInv
<1> QED
  BY Zenon, <1>2, <1>3

(* A step that is no handler: T is the next state. *)
LEMMA Steps ==
  ASSUME IInv, UNCHANGED <<client, failed>>, NEW T \in StateType, Inv(T), State' = T
  PROVE  IInv'
<1>1. client \in Client
  BY Zenon DEF IInv, TypeOK
<1>2. TypeOK' /\ Inv(State)'
  BY Zenon, <1>1, TypeNext, InvNext
<1> QED
  BY Zenon, <1>2 DEF IInv

LEMMA InitIInv ==
  ASSUME Counting,
         Init
  PROVE  IInv
<1> DEFINE S == State
<1>1. /\ S.vdev = VdevInit /\ S.vring = [v \in Vring |-> VringInit] /\ S.ctl = LoopInit
      /\ S.rq = [r \in Rq |-> LoopInit] /\ S.ext = "init" /\ S.failed = {}
  BY Zenon DEF Init, State
<1>2. client \in Client /\ client.max_req \in Nat /\ 0 \in Id
  BY SMTT(30), ConstantsAssumption DEF Init, ClientType, Id
<1>3. VringInit \in VringType
  BY SMTT(30), <1>2 DEF VringType, VringInit, VqType, VqZero, ShadowVqZero, Handler
<1>4. VdevInit \in VdevType
  BY Zenon, <1>2 DEF VdevType, VdevInit, Handler, KeepFd
<1>5. TypeOK
  BY ZenonT(30), <1>2, <1>3, <1>4 DEF TypeOK, Init, LoopInit
<1> HIDE DEF S
<1>6. ASSUME NEW v \in Vring
      PROVE  /\ \A name : ~InR(S, name, v) /\ ~InC(S, name, v)
             /\ S.vring[v] = VringInit
  <2>1. RqOf[v] \in Rq
    BY ZenonT(30), ConstantsAssumption
  <2> QED
    BY SMTT(30), <1>1, <2>1 DEF InR, InC, LoopInit
<1>7. \A f : ~Working(S, f)
  BY SMTT(30), <1>1 DEF Working, InC, LoopInit
<1>8. ASSUME NEW v \in Vring
      PROVE  /\ ~Starting(S, v) /\ ~Syncing(S, v) /\ ~Stopping(S, v) /\ ~Leaving(S, v)
             /\ ~Handled(S, v) /\ ~Stopped(S, v) /\ ~Drained(S, v) /\ ~StartFailed(S, v)
             /\ ~StoppedQueued(S, v) /\ ~InMsg(S, v) /\ ~Running(S, v)
             /\ S.vring[v] = VringInit
  <2>1. /\ ~Starting(S, v) /\ ~Syncing(S, v) /\ ~Stopping(S, v) /\ ~Leaving(S, v)
        /\ ~Handled(S, v) /\ ~Stopped(S, v) /\ ~Drained(S, v) /\ ~StartFailed(S, v)
    BY Zenon, <1>6 DEF Starting, Syncing, Stopping, Leaving, Handled, Stopped, Drained,
                StartFailed
  <2>2. ~StoppedQueued(S, v)
    BY SMTT(30), <1>1 DEF StoppedQueued, LoopInit
  <2>3. ~S.vring[v].started_in_rq
    BY SMTT(30), <1>6 DEF VringInit
  <2> QED
    BY ZenonT(30), <1>6, <2>1, <2>2, <2>3 DEF InMsg, Running
<1>9. BhInv(S)
  BY SMTT(30), <1>1 DEF BhInv, LoopInit
<1>10. CountInv(S)
  <2>1. MsgSet(S) = {} /\ RunSet(S) = {} /\ CtlSet(S) = {}
    BY SMTT(30), <1>8 DEF MsgSet, RunSet, CtlSet, VringInit
  <2> QED
    BY SMTT(30), <1>1, <2>1, CountFew DEF CountInv, VdevInit
<1>11. KeptInv(S.vdev) /\ ConnInv(S.vdev)
  BY SMTT(30), <1>1 DEF KeptInv, KeptFor, ConnInv, VdevInit
<1>12. WorkInv(S)
  <2>1. S.vdev = [VdevInit EXCEPT !.released = S.vdev.released]
    BY ZenonT(30), <1>1 DEF VdevInit
  <2>2. S.vdev.work = "none" /\ ~S.vdev.released
    BY SMTT(30), <1>1 DEF VdevInit
  <2> QED
    BY ZenonT(30), <1>1, <1>7, <1>8, <2>1, <2>2 DEF WorkInv
<1>13. ASSUME NEW v \in Vring PROVE Life(S, v) /\ MsgInv(S, v) /\ UseInv(S, v)
  <2>0. /\ ~S.vring[v].kickfd /\ ~S.vring[v].started_in_ctl /\ ~S.vring[v].disconnecting
        /\ S.vring[v].kick_handler = "none" /\ ~S.vring[v].on_drain_cb
        /\ ~S.vring[v].vq.buffers /\ ~S.vring[v].started_in_rq
        /\ S.vring[v].num_in_flight = 0 /\ S.vring[v].queued = 0
        /\ S.vring[v].shadow_vq.log = 0
        /\ S.vdev.conn_handler = "none" /\ S.vdev.listen_handler = "none"
    BY SMTT(30), <1>1, <1>8 DEF VringInit, VqZero, ShadowVqZero, VdevInit
  <2>1. Life(S, v)
    <3>1. S.vring[v].queued <= S.vring[v].num_in_flight
      BY SMTT(30), <2>0
    <3> QED
      BY ZenonT(30), <1>8, <2>0, <3>1 DEF Life
  <2>2. MsgInv(S, v)
    BY ZenonT(30), <1>8, <2>0 DEF MsgInv, PartInv, UpInv, DownInv, IdleInv
  <2>3. UseInv(S, v)
    BY ZenonT(30), <2>0 DEF UseInv
  <2> QED
    BY ZenonT(30), <2>1, <2>2, <2>3
<1>14. Inv(S)
  BY ZenonT(30), <1>9, <1>10, <1>11, <1>12, <1>13 DEF Inv
<1> QED
  BY ZenonT(30), <1>1, <1>5, <1>14 DEF IInv, S, Init

(* The steps of the thread that owns the device and of the control loop. *)
LEMMA ControlStep ==
  ASSUME Counting,
         IInv, ExternalStep \/ CtlStep \/ CtlEvent
  PROVE  IInv'
<1>1. /\ State \in StateType /\ State.vdev = vdev /\ State.vring = vring
      /\ State.ctl = ctl /\ State.rq = rq /\ State.ext = ext /\ State.failed = failed
      /\ Inv(State) /\ client \in Client
  BY ZenonT(30), CurrentState DEF IInv, TypeOK
<1> DEFINE S == State
<1>2. S = State
  BY Zenon
<1> HIDE DEF S
<1>0. PollGood(S) /\ CallGood(S) /\ QueueGood(S) /\ RequestGood(S)
  BY Zenon, <1>1, <1>2, LoopsGood
<1>3. ASSUME VhdVdevInitServer \/ VhdVdevStopServer PROVE IInv'
  <2>1. PICK to, func :
          /\ \/ S.ext = "init" /\ to = "starting" /\ func = "vdev_start"
             \/ S.ext = "running" /\ to = "stopping" /\ func = "vdev_stop"
          /\ failed = {}
          /\ Become(vhd_run_in_ctl([S EXCEPT !.ext = to], {<<"work_bh", func>>}))
    BY Zenon, <1>1, <1>2, <1>3 DEF VhdVdevInitServer, VhdVdevStopServer, SubmitWork, Live
  <2>2. Good(vhd_run_in_ctl([S EXCEPT !.ext = to], {<<"work_bh", func>>}))
    BY ZenonT(30), <1>1, <1>2, <2>1, <1>0 DEF CallGood
  <2> QED
    BY ZenonT(30), <2>1, <2>2, Becomes
<1>4. ASSUME VhdVdevInitFailed PROVE IInv'
  <2>1. S.ext = "start_failed" /\ failed = {} /\ Become(vhd_vdev_release(S))
    BY Zenon, <1>1, <1>2, <1>4 DEF VhdVdevInitFailed, Live
  <2>2. Good(vhd_vdev_release(S))
    BY ZenonT(30), <1>1, <1>2, <2>1, InitFailedGood
  <2> QED
    BY Zenon, <2>1, <2>2, Becomes
<1>5. ASSUME CtlPoll PROVE IInv'
  <2> DEFINE T == State'
  <2>1. /\ S.ctl.batch = {} /\ T.ctl = Polled(S.ctl) /\ T.rq = S.rq /\ T.vdev = S.vdev
        /\ T.vring = S.vring /\ T.ext = S.ext /\ T.failed = S.failed
        /\ UNCHANGED <<client, failed>>
    BY Zenon, <1>1, <1>2, <1>5 DEF CtlPoll, State
  <2>2. T \in StateType
    <3>1. Polled(S.ctl) \in [pending : SUBSET CtlBhs, batch : SUBSET CtlBhs]
      BY Zenon, <1>1, <1>2 DEF Polled, StateType
    <3>2. T = [vdev |-> T.vdev, vring |-> T.vring, ctl |-> T.ctl, rq |-> T.rq,
               ext |-> T.ext, failed |-> T.failed]
      BY Zenon DEF State
    <3> HIDE DEF T
    <3> QED
      BY ZenonT(30), <1>1, <1>2, <2>1, <3>1, <3>2 DEF StateType
  <2>3. State' = T
    BY Zenon
  <2> HIDE DEF T
  <2>4. Inv(T)
    BY ZenonT(30), <1>1, <1>2, <2>1, <2>2, <1>0 DEF PollGood
  <2> QED
    BY ZenonT(30), <2>1, <2>2, <2>3, <2>4, Steps
<1>6. ASSUME NEW b \in ctl.batch, NEW ok \in BOOLEAN, CtlBh(b, ok) PROVE IInv'
  <2>1. failed = {} /\ Become(CtlBody([S EXCEPT !.ctl.batch = @ \ {b}], b, ok))
    BY <1>2, <1>6, Zenon DEF CtlBh, Live
  <2>2. Good(CtlBody([S EXCEPT !.ctl.batch = @ \ {b}], b, ok))
    BY ZenonT(30), <1>1, <1>2, <2>1, CtlBhGood
  <2> QED
    BY Zenon, <2>1, <2>2, Becomes
<1>7. ASSUME ServerRead PROVE IInv'
  <2>1. S.vdev.listen_handler = "attached" /\ failed = {} /\ Become(server_read(S))
    BY Zenon, <1>1, <1>2, <1>7 DEF ServerRead, Live
  <2>2. Good(server_read(S))
    BY ZenonT(30), <1>1, <1>2, <2>1, ServerReadGood
  <2> QED
    BY Zenon, <2>1, <2>2, Becomes
<1>8. ASSUME ConnHangup PROVE IInv'
  <2>1. S.vdev.conn_handler = "attached" /\ failed = {} /\ Become(vdev_disconnect(S))
    BY ZenonT(30), <1>1, <1>2, <1>8 DEF ConnHangup, Live
  <2>2. Good(vdev_disconnect(S))
    BY ZenonT(30), <1>1, <1>2, <2>1, HangupGood
  <2> QED
    BY ZenonT(30), <2>1, <2>2, Becomes
<1>9. ASSUME NEW req \in client.req, NEW v \in client.vrings, NEW valid \in BOOLEAN,
             NEW arg \in ArgOf(req), NEW sent \in BOOLEAN,
             ConnRead(req, v, valid, arg, sent)
      PROVE  IInv'
  <2>1. /\ S.vdev.conn_handler = "attached" /\ failed = {} /\ S.ctl.batch = {}
        /\ req = "SET_VRING_KICK" => S.vdev.memmap # 0
        /\ Become(conn_read(S, req, v, valid, arg, sent))
    BY ZenonT(30), <1>1, <1>2, <1>9 DEF ConnRead, Live
  <2>2. Good(conn_read(S, req, v, valid, arg, sent))
    BY ZenonT(30), <1>1, <1>2, <2>1, ConnReadGood
  <2> QED
    BY Zenon, <2>1, <2>2, Becomes
<1> QED
  BY ZenonT(30), <1>3, <1>4, <1>5, <1>6, <1>7, <1>8, <1>9 DEF ExternalStep, CtlStep, CtlEvent

(* The steps of a request queue and of the backend. *)
LEMMA QueueStep ==
  ASSUME Counting,
         IInv, \/ \E r \in Rq : RqStep(r)
               \/ \E v \in Vring : RqEvent(v)
               \/ \E v \in Vring : ReqComplete(v)
  PROVE  IInv'
<1>1. /\ State \in StateType /\ State.vdev = vdev /\ State.vring = vring
      /\ State.ctl = ctl /\ State.rq = rq /\ State.ext = ext /\ State.failed = failed
      /\ Inv(State) /\ client \in Client
  BY Zenon, CurrentState DEF IInv, TypeOK
<1> DEFINE S == State
<1>2. S = State
  BY Zenon
<1> HIDE DEF S
<1>0. PollGood(S) /\ CallGood(S) /\ QueueGood(S) /\ RequestGood(S)
  BY Zenon, <1>1, <1>2, LoopsGood
<1>3. ASSUME NEW q \in Rq, RqPoll(q) PROVE IInv'
  <2> DEFINE T == State'
  <2>1. /\ S.rq[q].batch = {} /\ S.rq[q].pending # {}
        /\ T.rq = [S.rq EXCEPT ![q] = Polled(S.rq[q])] /\ T.ctl = S.ctl
        /\ T.vdev = S.vdev /\ T.vring = S.vring /\ T.ext = S.ext /\ T.failed = S.failed
        /\ UNCHANGED <<client, failed>>
    BY ZenonT(30), <1>1, <1>2, <1>3 DEF RqPoll, State
  <2>2. T \in StateType
    <3>1. S.rq \in [Rq -> [pending : SUBSET RqBhs, batch : SUBSET RqBhs]]
      BY Zenon, <1>1, <1>2 DEF StateType
    <3>2. Polled(S.rq[q]) \in [pending : SUBSET RqBhs, batch : SUBSET RqBhs]
      BY Zenon, <3>1 DEF Polled
    <3>3. T.rq \in [Rq -> [pending : SUBSET RqBhs, batch : SUBSET RqBhs]]
      BY ZenonT(30), <2>1, <3>1, <3>2
    <3>4. T = [vdev |-> T.vdev, vring |-> T.vring, ctl |-> T.ctl, rq |-> T.rq,
               ext |-> T.ext, failed |-> T.failed]
      BY Zenon DEF State
    <3> HIDE DEF T
    <3> QED
      BY ZenonT(30), <1>1, <1>2, <2>1, <3>3, <3>4 DEF StateType
  <2>3. State' = T
    BY Zenon
  <2> HIDE DEF T
  <2>4. Inv(T)
    BY ZenonT(30), <1>1, <1>2, <2>1, <2>2, <1>0 DEF PollGood
  <2> QED
    BY ZenonT(30), <2>1, <2>2, <2>3, <2>4, Steps
<1>4. ASSUME NEW q \in Rq, NEW b \in rq[q].batch, NEW ok \in BOOLEAN, RqBh(q, b, ok)
      PROVE  IInv'
  <2>1. failed = {} /\ Become(RqBody([S EXCEPT !.rq[q].batch = @ \ {b}], b, ok))
    BY <1>2, <1>4, Zenon DEF RqBh, Live
  <2>2. Good(RqBody([S EXCEPT !.rq[q].batch = @ \ {b}], b, ok))
    BY ZenonT(30), <1>1, <1>2, <2>1, <1>0 DEF QueueGood
  <2> QED
    BY ZenonT(30), <2>1, <2>2, Becomes
<1>5. ASSUME NEW v \in Vring, NEW n \in 0 .. client.max_req, NEW ok \in BOOLEAN,
             VringKick(v, n, ok)
      PROVE  IInv'
  <2> DEFINE g == [S.vring EXCEPT ![v].num_in_flight = @ + n, ![v].queued = @ + n,
                                  ![v].kick_handler = IF ok THEN @ ELSE "detached"]
             T == [S EXCEPT !.vring = g]
  <2>1. /\ S.vring[v].kick_handler = "attached"
        /\ S.vring[v].num_in_flight + n <= client.max_req
    BY ZenonT(30), <1>1, <1>2, <1>5 DEF VringKick
  <2>2. T \in StateType /\ Inv(T)
    BY ZenonT(30), <1>1, <1>2, <2>1, <1>0 DEF RequestGood, KickGood, KickState
  <2>3. vring' = g /\ UNCHANGED <<client, vdev, ctl, rq, ext, failed>>
    BY <1>1, <1>2, <1>5, Zenon DEF VringKick
  <2> HIDE DEF g
  <2>4. State' = T
    BY SMTT(30), <1>1, <1>2, <2>3 DEF State, StateType
  <2> HIDE DEF T
  <2> QED
    BY ZenonT(30), <2>2, <2>3, <2>4, Steps
<1>6. ASSUME NEW v \in Vring, VhdDequeueRequest(v) PROVE IInv'
  <2> DEFINE g == [S.vring EXCEPT ![v].queued = @ - 1]
             T == [S EXCEPT !.vring = g]
  <2>1. S.vring[v].queued > 0
    BY Zenon, <1>1, <1>2, <1>6 DEF VhdDequeueRequest
  <2>2. T \in StateType /\ Inv(T)
    BY ZenonT(30), <1>1, <1>2, <2>1, <1>0 DEF RequestGood, DequeueGood
  <2>3. vring' = g /\ UNCHANGED <<client, vdev, ctl, rq, ext, failed>>
    BY <1>1, <1>2, <1>6, ZenonT(30) DEF VhdDequeueRequest
  <2> HIDE DEF g
  <2>4. State' = T
    BY SMTT(30), <1>1, <1>2, <2>3 DEF State, StateType
  <2> HIDE DEF T
  <2> QED
    BY ZenonT(30), <2>2, <2>3, <2>4, Steps
<1>7. ASSUME NEW v \in Vring, ReqComplete(v) PROVE IInv'
  <2>1. /\ S.vring[v].num_in_flight > S.vring[v].queued /\ failed = {}
        /\ Become(vhd_vring_dec_in_flight(S, v))
    BY ZenonT(30), <1>1, <1>2, <1>7 DEF ReqComplete, Live
  <2>2. Good(vhd_vring_dec_in_flight(S, v))
    BY ZenonT(30), <1>1, <1>2, <2>1, <1>0 DEF RequestGood, CompleteGood
  <2> QED
    BY Zenon, <2>1, <2>2, Becomes
<1> QED
  BY ZenonT(30), <1>3, <1>4, <1>5, <1>6, <1>7 DEF RqStep, RqEvent

(* Nothing moves. *)
LEMMA Stutter ==
  ASSUME IInv, UNCHANGED vars
  PROVE  IInv'
<1>1. /\ State \in StateType /\ Inv(State) /\ State' = State
      /\ UNCHANGED <<client, failed>>
  BY Zenon, CurrentState DEF IInv, vars, State
<1> QED
  BY Zenon, <1>1, Steps

-----------------------------------------------------------------------------
(* What Inv says in the words of the properties. *)
LEMMA Words ==
  /\ \A name, v : InRq(name, v) <=> InR(State, name, v)
  /\ \A name, v : InCtl(name, v) <=> InC(State, name, v)
  /\ \A v : HandlingMsg(v) <=> InMsg(State, v)
  /\ \A v : NotStopped(v) <=> Running(State, v)
<1>1. /\ \A name, v : InRq(name, v) <=> InR(State, name, v)
      /\ \A name, v : InCtl(name, v) <=> InC(State, name, v)
  BY Zenon DEF InRq, InR, InCtl, InC, State
<1>2. \A v : HandlingMsg(v) <=> InMsg(State, v)
  BY Zenon, <1>1 DEF HandlingMsg, InMsg, Starting, Syncing, Handled, StartFailed, SyncBh
<1>3. \A v : vring[v].started_in_rq <=> State.vring[v].started_in_rq
  BY Zenon DEF State
<1>4. \A v : NotStopped(v) <=> Running(State, v)
  BY Zenon, <1>1, <1>3 DEF NotStopped, Running, Starting, Stopped, StartFailed
<1> QED
  BY Zenon, <1>1, <1>2, <1>4

(* The facts the properties are drawn from. *)
LEMMA Facts ==
  ASSUME IInv
  PROVE  /\ TypeOK /\ failed \subseteq {"cleanup_req"} /\ vdev \in VdevType
         /\ BhInv(State) /\ CountInv(State)
         /\ KeptInv(vdev) /\ ConnInv(vdev) /\ WorkInv(State)
         /\ \A v \in Vring : /\ Life(State, v) /\ PartInv(State, v) /\ UpInv(State, v)
                             /\ DownInv(State, v) /\ IdleInv(State, v)
                             /\ UseInv(State, v) /\ vring[v] \in VringType
         /\ State.vdev = vdev /\ State.vring = vring /\ State.ctl = ctl
         /\ State.rq = rq /\ State.ext = ext
<1>1. TypeOK /\ Inv(State) /\ failed \subseteq {"cleanup_req"}
  BY Zenon DEF IInv
<1>2. State.vdev = vdev /\ State.vring = vring /\ State.ctl = ctl
      /\ State.rq = rq /\ State.ext = ext
  BY Zenon DEF State
<1>3. vdev \in VdevType /\ vring \in [Vring -> VringType]
  BY Zenon, <1>1 DEF TypeOK
<1> QED
  BY ZenonT(30), <1>1, <1>2, <1>3 DEF Inv, MsgInv

(* While the connection is polled no vring has anything to do for a message. *)
LEMMA BetweenMessages ==
  ASSUME Counting,
         IInv, vdev.conn_handler = "attached"
  PROVE  /\ vdev.req = "NONE" /\ vdev.handle_complete = "none"
         /\ vdev.old_memmap = 0 /\ vdev.old_memlog = 0 /\ vdev.keep_fd = <<>>
         /\ \A v \in Vring : ~InMsg(State, v) /\ ~vring[v].on_drain_cb
<1>1. /\ vdev.num_vrings_handling_msg = 0 /\ vdev.req = "NONE"
  BY Zenon, Facts DEF ConnInv
<1>2. vdev.handle_complete = "none"
  BY Zenon, <1>1, Facts DEF KeptInv
<1>3. vdev.old_memmap = 0 /\ vdev.old_memlog = 0 /\ vdev.keep_fd = <<>>
  BY Zenon, <1>2, Facts DEF KeptInv, KeptFor
<1>4. \A v \in Vring : ~InMsg(State, v)
  BY ZenonT(30), <1>1, Facts, NoneCounted
<1>5. \A v \in Vring : ~vring[v].on_drain_cb
  BY Zenon, Facts DEF PartInv
<1> QED
  BY ZenonT(30), <1>1, <1>2, <1>3, <1>4, <1>5

LEMMA CountersFact ==
  ASSUME IInv
  PROVE  CountersExact
<1>1. /\ {v \in Vring : HandlingMsg(v)} = MsgSet(State)
      /\ {v \in Vring : NotStopped(v)} = RunSet(State)
      /\ {v \in Vring : vring[v].started_in_ctl} = CtlSet(State)
  BY Zenon, Words, Facts DEF MsgSet, RunSet, CtlSet
<1> QED
  BY Zenon, <1>1, Facts DEF CountersExact, CountInv

LEMMA ExclusiveFact ==
  ASSUME Counting,
         IInv
  PROVE  MsgExclusive
BY Zenon, BetweenMessages, Words DEF MsgExclusive

LEMMA AppliedFact ==
  ASSUME Counting,
         IInv
  PROVE  ConfigApplied
<1> SUFFICES ASSUME vdev.conn_handler = "attached", NEW v \in Vring,
                    vring[v].started_in_ctl
             PROVE  /\ vring[v].started_in_rq
                    /\ vring[v].vq.mm = vdev.memmap
                    /\ vring[v].vq.log = vring[v].shadow_vq.log
                    /\ vring[v].vq.notify_fd = vring[v].callfd
                    /\ vring[v].vq.enabled = vring[v].shadow_vq.enabled
  BY Zenon DEF ConfigApplied, StartedVrings, State
<1>1. ~InMsg(State, v) /\ ~vring[v].on_drain_cb
  BY Zenon, BetweenMessages
<1>2. ~Starting(State, v) /\ ~Syncing(State, v) /\ ~StartFailed(State, v)
  BY Zenon, <1>1 DEF InMsg
<1>3. vring[v].started_in_rq
  BY Zenon, <1>1, <1>2, Facts DEF UpInv
<1>4. /\ vring[v].vq.mm = vdev.memmap
      /\ vring[v].vq.log = vring[v].shadow_vq.log
      /\ vring[v].vq.notify_fd = vring[v].callfd
      /\ vring[v].vq.enabled <=> vring[v].shadow_vq.enabled
  BY ZenonT(30), <1>2, Facts DEF UseInv
<1>5. vring[v].vq.enabled \in BOOLEAN /\ vring[v].shadow_vq.enabled \in BOOLEAN
  BY Zenon, Facts DEF VringType, VqType
<1>6. vring[v].vq.enabled = vring[v].shadow_vq.enabled
  BY Zenon, <1>4, <1>5
<1> QED
  BY ZenonT(30), <1>3, <1>4, <1>6

LEMMA AliveFact ==
  ASSUME IInv
  PROVE  DataplaneAlive
<1> SUFFICES ASSUME NEW v \in Vring, InUse(v)
             PROVE  /\ vring[v].vq.buffers
                    /\ vring[v].vq.mm # 0
                    /\ vring[v].vq.mm \in {vdev.memmap, vdev.old_memmap}
                    /\ vring[v].vq.log \in {0, vdev.memlog, vdev.old_memlog}
                    /\ \/ vring[v].vq.notify_fd \in {0, vring[v].callfd}
                       \/ vdev.keep_fd = <<"call", v, vring[v].vq.notify_fd>>
  BY Zenon DEF DataplaneAlive
<1>1. Life(State, v) /\ UseInv(State, v) /\ State.vring = vring /\ State.vdev = vdev
  BY Zenon, Facts
<1>2. vring[v].started_in_ctl /\ vring[v].vq.buffers
  <2>1. vring[v].started_in_rq \/ vring[v].num_in_flight # 0
    BY SMTT(30) DEF InUse
  <2> QED
    BY Zenon, <1>1, <2>1 DEF Life
<1> QED
  BY Zenon, <1>1, <1>2 DEF UseInv

LEMMA StoppedFact ==
  ASSUME Counting,
         IInv
  PROVE  StoppedForGood
<1>1. ASSUME ext = "stopped"
      PROVE  vdev.conn_handler = "none" /\ \A v \in Vring : ~NotStopped(v)
  <2>1. vdev.listen_handler = "none" /\ vdev.num_vrings_started = 0
    BY ZenonT(30), <1>1, Facts DEF WorkInv
  <2>2. vdev.conn_handler = "none"
    BY Zenon, <2>1, Facts DEF ConnInv
  <2>3. \A v \in Vring : ~Running(State, v)
    BY ZenonT(30), <2>1, Facts, NoneCounted
  <2> QED
    BY ZenonT(30), <2>2, <2>3, Words
<1>2. vdev.released => ext \in {"stopped", "start_failed"}
  BY Zenon, Facts DEF WorkInv
<1> QED
  BY Zenon, <1>1, <1>2 DEF StoppedForGood

LEMMA FreshFact ==
  ASSUME Counting,
         IInv
  PROVE  FreshWhenListening
<1> SUFFICES ASSUME vdev.listen_handler = "attached"
             PROVE  /\ vdev.conn_handler = "none" /\ ~vdev.connfd
                    /\ vdev.memmap = 0 /\ vdev.memlog = 0
                    /\ \A r \in Rq : rq[r] = LoopInit
                    /\ \A v \in Vring :
                         /\ \A name \in CtlBhName : ~InCtl(name, v)
                         /\ ~InUse(v) /\ ~vring[v].started_in_ctl
                         /\ ~vring[v].disconnecting
                         /\ vring[v].shadow_vq = ShadowVqZero
  BY Zenon DEF FreshWhenListening
<1>1. /\ vdev.conn_handler = "none" /\ ~vdev.connfd /\ vdev.memmap = 0 /\ vdev.memlog = 0
      /\ vdev.num_vrings_handling_msg = 0 /\ vdev.num_vrings_started = 0
      /\ vdev.num_vrings_in_flight = 0
  BY Zenon, Facts DEF ConnInv
<1>2. \A v \in Vring : /\ ~InMsg(State, v) /\ ~Running(State, v)
                       /\ ~vring[v].started_in_ctl
  BY ZenonT(30), <1>1, Facts, NoneCounted
<1>3. ASSUME NEW v \in Vring
      PROVE  /\ ~Starting(State, v) /\ ~Syncing(State, v) /\ ~Stopping(State, v)
             /\ ~Leaving(State, v) /\ ~Handled(State, v) /\ ~Stopped(State, v)
             /\ ~StartFailed(State, v) /\ ~Drained(State, v)
             /\ ~vring[v].started_in_rq
  <2>1. Life(State, v) /\ IdleInv(State, v) /\ State.vring = vring /\ State.vdev = vdev
    BY Zenon, Facts
  <2>2. ~Stopping(State, v) /\ ~Leaving(State, v)
    BY Zenon, <2>1 DEF IdleInv
  <2>3. ~Drained(State, v)
    BY ZenonT(30), <1>2, <2>1 DEF Life
  <2> QED
    BY Zenon, <1>2, <2>1, <2>2, <2>3 DEF InMsg, Running
<1>4. ASSUME NEW v \in Vring
      PROVE  /\ \A name \in RqBhName : ~InR(State, name, v)
             /\ \A name \in CtlBhName : ~InC(State, name, v)
  BY Zenon, <1>3 DEF Starting, Syncing, Stopping, Leaving, Handled, Stopped, StartFailed,
              Drained, RqBhName, CtlBhName
<1>5. ASSUME NEW r \in Rq PROVE rq[r] = LoopInit
  <2>1. rq[r] \in [pending : SUBSET RqBhs, batch : SUBSET RqBhs]
    BY Zenon, Facts DEF TypeOK
  <2>2. ASSUME NEW b \in rq[r].pending \cup rq[r].batch PROVE FALSE
    <3>1. RqOf[b[2]] = r
      BY Zenon, Facts DEF BhInv
    <3>2. b \in RqBhName \X Vring
      BY Zenon, <2>1 DEF RqBhs
    <3>3. PICK name \in RqBhName, v \in Vring : b = <<name, v>>
      BY SMTT(30), <3>2
    <3>4. RqOf[v] = r
      BY Zenon, <3>1, <3>3
    <3>5. InR(State, name, v)
      BY ZenonT(30), <3>3, <3>4, Facts DEF InR
    <3> QED
      BY Zenon, <1>4, <3>5
  <2>3. rq[r].pending = {} /\ rq[r].batch = {}
    BY Zenon, <2>2
  <2> QED
    BY Zenon, <2>1, <2>3 DEF LoopInit
<1>6. ASSUME NEW v \in Vring
      PROVE  /\ \A name \in CtlBhName : ~InCtl(name, v)
             /\ ~InUse(v) /\ ~vring[v].started_in_ctl
             /\ ~vring[v].disconnecting
             /\ vring[v].shadow_vq = ShadowVqZero
  <2>1. Life(State, v) /\ IdleInv(State, v) /\ State.vring = vring /\ State.vdev = vdev
    BY Zenon, Facts
  <2>2. vring[v].num_in_flight = 0
    BY ZenonT(30), <1>2, <2>1 DEF Life
  <2>3. ~InUse(v)
    BY SMTT(30), <1>3, <2>2 DEF InUse
  <2>4. ~vring[v].disconnecting /\ vring[v].shadow_vq = ShadowVqZero
    BY Zenon, <2>1 DEF IdleInv
  <2>5. \A name \in CtlBhName : ~InCtl(name, v)
    BY ZenonT(30), <1>4, Words
  <2> QED
    BY ZenonT(30), <1>2, <2>3, <2>4, <2>5
<1> QED
  BY ZenonT(30), <1>1, <1>5, <1>6

LEMMA OffFact ==
  ASSUME IInv
  PROVE  OffIsQuiet
<1> SUFFICES ASSUME NEW v \in Vring, ~vring[v].started_in_ctl
             PROVE  /\ vring[v].num_in_flight = 0 /\ vring[v].queued = 0
                    /\ ~vring[v].started_in_rq /\ vring[v].kick_handler = "none"
  BY Zenon DEF OffIsQuiet
<1>1. Life(State, v) /\ State.vring = vring /\ vring[v] \in VringType /\ client \in Client
  BY Zenon, Facts DEF TypeOK
<1>2. /\ vring[v].num_in_flight = 0 /\ ~vring[v].started_in_rq
      /\ vring[v].kick_handler = "none" /\ vring[v].queued <= vring[v].num_in_flight
  BY Zenon, <1>1 DEF Life
<1>3. vring[v].queued \in Nat
  BY ZenonT(30), <1>1, Requests
<1> QED
  BY SMTT(30), <1>2, <1>3

(* The facts on Cardinality hold: the vrings are finitely many. *)
INSTANCE FiniteSetTheorems

LEMMA VringsCount == Counting
<1> SUFFICES ASSUME NEW A \in SUBSET Vring
             PROVE  /\ Cardinality(A) \in Nat
                    /\ Cardinality(A) = 0 <=> A = {}
                    /\ \A v \in A : Cardinality(A \ {v}) = Cardinality(A) - 1
                    /\ \A v \in Vring \ A : Cardinality(A \cup {v}) = Cardinality(A) + 1
  BY Zenon DEF Counting
<1>1. IsFiniteSet(A) /\ Cardinality(A) \in Nat
  BY ZenonT(30), FS_Subset, FS_CardinalityType, ConstantsAssumption
<1>2. Cardinality(A) = 0 <=> A = {}
  BY ZenonT(30), <1>1, FS_EmptySet
<1>3. \A v \in A : Cardinality(A \ {v}) = Cardinality(A) - 1
  BY ZenonT(30), <1>1, FS_RemoveElement
<1>4. \A v \in Vring \ A : Cardinality(A \cup {v}) = Cardinality(A) + 1
  BY ZenonT(30), <1>1, FS_AddElement
<1> QED
  BY ZenonT(30), <1>1, <1>2, <1>3, <1>4

(* Inv holds whatever the threads do. *)
THEOREM Inductive == Spec => []IInv
<1>1. Init => IInv
  BY ZenonT(30), InitIInv, VringsCount
<1>2. IInv /\ [Next]_vars => IInv'
  BY ZenonT(30), VringsCount, ControlStep, QueueStep, Stutter DEF Next, Halted
<1> QED
  BY <1>1, <1>2, PTL DEF Spec

-----------------------------------------------------------------------------
(* The three counters of vdev count exactly the vrings that are handling a *)
(* message, that have not stopped and that have not drained, whatever the  *)
(* order in which the loops run the bottom halves.                         *)
THEOREM CountersAreExact == Spec => []CountersExact
BY Inductive, CountersFact, PTL

(* No VHD_ASSERT of vdev.c fails, but the one on vdev->req in vdev_cleanup *)
(* (which a client can make fail).                                         *)
THEOREM AssertionsHold == Spec => []AssertsHold
<1>1. IInv => AssertsHold
  BY ZenonT(30) DEF IInv, AssertsHold
<1> QED
  BY <1>1, Inductive, PTL

(* The connection is read only when the last message is over: change of    *)
(* conn_handler in vdev_handle_start and vdev_handle_finish.               *)
THEOREM MessagesExclusive == Spec => []MsgExclusive
<1>1. IInv => MsgExclusive
  BY ZenonT(30), ExclusiveFact, VringsCount
<1> QED
  BY <1>1, Inductive, PTL

(* A message has been applied by every started vring by the time the next  *)
(* one is read: vring_sync_to_virtq_bh and handle_complete.                *)
THEOREM ConfigurationApplied == Spec => []ConfigApplied
<1>1. IInv => ConfigApplied
  BY ZenonT(30), AppliedFact, VringsCount
<1> QED
  BY <1>1, Inductive, PTL

(* A virtq in use has its buffers, map, log and call fd: what replaces one *)
(* keeps the old one until the vrings have switched.                       *)
THEOREM DataplaneStaysAlive == Spec => []DataplaneAlive
BY Inductive, AliveFact, PTL

(* vdev_drained listens again only with nothing left of the old client. *)
THEOREM FreshForNextClient == Spec => []FreshWhenListening
<1>1. IInv => FreshWhenListening
  BY Zenon, FreshFact, VringsCount
<1> QED
  BY <1>1, Inductive, PTL

(* When vhd_vdev_stop_server returns no vring runs (vdev_vrings_stopped). *)
THEOREM StopIsFinal == Spec => []StoppedForGood
<1>1. IInv => StoppedForGood
  BY Zenon, StoppedFact, VringsCount
<1> QED
  BY <1>1, Inductive, PTL

(* vring_mark_drained releases a virtq, and GET_VRING_BASE is answered,    *)
(* only when the vring has stopped and its last request is completed.      *)
THEOREM ReleaseAfterDrain == Spec => DrainedBeforeRelease
<1>1. IInv => OffIsQuiet
  BY ZenonT(30), OffFact
<1>2. IInv /\ OffIsQuiet' /\ [Next]_vars =>
        [\A v \in Vring :
           vring[v].started_in_ctl /\ ~vring'[v].started_in_ctl =>
             /\ vring[v].num_in_flight = 0 /\ vring[v].queued = 0
             /\ ~vring[v].started_in_rq /\ vring[v].kick_handler = "none"]_vars
  BY Zenon, ReleaseStep
<1> QED
  BY <1>1, <1>2, Inductive, PTL DEF Spec, DrainedBeforeRelease
=============================================================================
