-------------------------------- MODULE Vdev --------------------------------
(***************************************************************************)
(* The device state machine of libvhost-server (vdev.c): its actions, its  *)
(* specification and its properties.  An action applies the operator of a  *)
(* whole handler, of VdevLifecycle or VdevMessages, to the current state.  *)
(***************************************************************************)
EXTENDS VdevMessages

(* Actions.                                                                *)

Init ==
  /\ client \in Client
  /\ vdev = VdevInit
  /\ vring = [v \in Vring |-> VringInit]
  /\ ctl = LoopInit
  /\ rq = [r \in Rq |-> LoopInit]
  /\ ext = "init"
  /\ failed = {}

Live == ~vdev.released /\ failed = {}

(* Outcomes of a call that may fail. *)
Outcome(call) == IF call \in client.fault THEN BOOLEAN ELSE {TRUE}

(* The external thread submits a work and waits for it. *)
SubmitWork(from, to, func) ==
  /\ Live
  /\ ext = from
  /\ Become(vhd_run_in_ctl([State EXCEPT !.ext = to], {<<"work_bh", func>>}))

VhdVdevInitServer == SubmitWork("init", "starting", "vdev_start")
VhdVdevStopServer == SubmitWork("running", "stopping", "vdev_stop")

(* vhd_vdev_init_server failed to start listening. *)
VhdVdevInitFailed ==
  /\ Live
  /\ ext = "start_failed"
  /\ Become(vhd_vdev_release(State))

CtlPoll ==
  /\ Live
  /\ ctl.batch = {} /\ ctl.pending # {}
  /\ ctl' = Polled(ctl)
  /\ UNCHANGED <<client, vdev, vring, rq, ext, failed>>

RqPoll(r) ==
  /\ Live
  /\ rq[r].batch = {} /\ rq[r].pending # {}
  /\ rq' = [rq EXCEPT ![r] = Polled(@)]
  /\ UNCHANGED <<client, vdev, vring, ctl, ext, failed>>

CtlBh(b, ok) ==
  /\ Live
  /\ b \in ctl.batch
  /\ ok \in Outcome(IF b[1] = "work_bh" THEN "listen" ELSE "send")
  /\ Become(CtlBody([State EXCEPT !.ctl.batch = @ \ {b}], b, ok))

RqBh(r, b, ok) ==
  /\ Live
  /\ b \in rq[r].batch
  /\ ok \in Outcome("start")
  /\ Become(RqBody([State EXCEPT !.rq[r].batch = @ \ {b}], b, ok))

(* A client connects. *)
ServerRead ==
  /\ Live
  /\ ctl.batch = {}
  /\ vdev.listen_handler = "attached"
  /\ Become(server_read(State))

(* A message arrives from the client.  The client starts a vring only once *)
(* it has sent its memory table.                                           *)
ConnRead(req, v, valid, arg, sent) ==
  /\ Live
  /\ ctl.batch = {}
  /\ vdev.conn_handler = "attached"
  /\ sent \in Outcome("send")
  /\ req = "SET_VRING_KICK" => vdev.memmap # 0
  /\ Become(conn_read(State, req, v, valid, arg, sent))

(* The client is gone: net_recv_msg fails. *)
ConnHangup ==
  /\ Live
  /\ ctl.batch = {}
  /\ vdev.conn_handler = "attached"
  /\ Become(vdev_disconnect(State))

(* The guest kicks the vring: n new requests are queued; ok is the result  *)
(* of dispatch_requests.                                                   *)
VringKick(v, n, ok) ==
  /\ Live
  /\ rq[RqOf[v]].batch = {}
  /\ vring[v].kick_handler = "attached"
  /\ vring[v].vq.enabled
  /\ vring[v].num_in_flight + n <= client.max_req
  /\ vring' = [vring EXCEPT ![v].num_in_flight = @ + n, ![v].queued = @ + n,
                            ![v].kick_handler = IF ok THEN @ ELSE "detached"]
  /\ UNCHANGED <<client, vdev, ctl, rq, ext, failed>>

(* The backend takes a queued request. *)
VhdDequeueRequest(v) ==
  /\ Live
  /\ rq[RqOf[v]].batch = {}
  /\ vring[v].queued > 0
  /\ vring' = [vring EXCEPT ![v].queued = @ - 1]
  /\ UNCHANGED <<client, vdev, ctl, rq, ext, failed>>

(* A request the backend has is completed: vhd_complete_bio and the        *)
(* completion BH of the request queue.                                     *)
ReqComplete(v) ==
  /\ Live
  /\ vring[v].num_in_flight > vring[v].queued
  /\ Become(vhd_vring_dec_in_flight(State, v))

(* A device that was released, or a process that aborted, does nothing. *)
Halted ==
  /\ ~Live
  /\ UNCHANGED vars

(* The steps of each thread: the one that owns the device, the control     *)
(* loop (its BHs, its file descriptors), and a request queue likewise.     *)
ExternalStep == VhdVdevInitServer \/ VhdVdevStopServer \/ VhdVdevInitFailed

CtlStep == CtlPoll \/ \E b \in ctl.batch, ok \in BOOLEAN : CtlBh(b, ok)

CtlEvent ==
  \/ ServerRead
  \/ ConnHangup
  \/ \E req \in client.req : \E v \in client.vrings, valid \in BOOLEAN,
        arg \in ArgOf(req), sent \in BOOLEAN : ConnRead(req, v, valid, arg, sent)

RqStep(r) == RqPoll(r) \/ \E b \in rq[r].batch, ok \in BOOLEAN : RqBh(r, b, ok)

RqEvent(v) ==
  \/ \E n \in 0 .. client.max_req, ok \in BOOLEAN : VringKick(v, n, ok)
  \/ VhdDequeueRequest(v)

Next ==
  \/ ExternalStep
  \/ CtlStep
  \/ CtlEvent
  \/ \E r \in Rq : RqStep(r)
  \/ \E v \in Vring : RqEvent(v)
  \/ \E v \in Vring : ReqComplete(v)
  \/ Halted

Spec == Init /\ [][Next]_vars

-----------------------------------------------------------------------------
(* Fairness.  A loop whose BH list is not empty is woken up (evloop_notify)*)
(* and runs it; a backend takes the requests queued for it and completes   *)
(* those it has taken.  Nothing is assumed of the client, the guest or the *)
(* external thread.                                                        *)

(* Weak fairness of a loop, its ENABLED condition spelled out. *)
CtlReady == Live /\ ctl.pending \cup ctl.batch # {}

RqReady(r) == Live /\ rq[r].pending \cup rq[r].batch # {}

Fairness ==
  /\ []<>(~CtlReady) \/ []<><<CtlStep>>_vars
  /\ \A r \in Rq : []<>(~RqReady(r)) \/ []<><<RqStep(r)>>_vars
  /\ \A v \in Vring : WF_vars(VhdDequeueRequest(v)) /\ WF_vars(ReqComplete(v))

FairSpec == Spec /\ Fairness

-----------------------------------------------------------------------------
(* Vocabulary of the properties.                                           *)

InRq(name, v) ==
  <<name, v>> \in rq[RqOf[v]].pending \cup rq[RqOf[v]].batch

InCtl(name, v) == <<name, v>> \in ctl.pending \cup ctl.batch

(* The vring has not yet reported the end of a message. *)
HandlingMsg(v) ==
  \/ InRq("vring_start_bh", v)
  \/ InRq(SyncBh, v)
  \/ InCtl("vring_mark_msg_handled_bh", v)
  \/ InCtl("vring_start_failed_bh", v)

(* The vring was started and has not acknowledged being stopped. *)
NotStopped(v) ==
  \/ InRq("vring_start_bh", v)
  \/ vring[v].started_in_rq
  \/ InCtl("vring_mark_stopped_bh", v)
  \/ InCtl("vring_start_failed_bh", v)

(* The dataplane may use the virtq: it is polled, or has requests out. *)
InUse(v) == vring[v].started_in_rq \/ vring[v].num_in_flight > 0

-----------------------------------------------------------------------------
(* Properties.                                                             *)

(* Every field of the C structures, the lists of BHs and the state of the  *)
(* external thread stay in their ranges; the unsigned counters of vrings   *)
(* and of requests never go below zero.                                    *)
TypeOK ==
  /\ client \in Client
  /\ vdev \in VdevType
  /\ vring \in [Vring -> VringType]
  /\ ctl \in [pending : SUBSET CtlBhs, batch : SUBSET CtlBhs]
  /\ rq \in [Rq -> [pending : SUBSET RqBhs, batch : SUBSET RqBhs]]
  /\ ext \in {"init", "starting", "running", "stopping", "stopped",
              "start_failed", "busy"}
  /\ failed \subseteq Assertion

(* The three counters of vdev count what the comment above                 *)
(* vring_handle_msg says: the vrings whose part of the message is not      *)
(* over, those that have not acknowledged being stopped, and those that    *)
(* have not drained.  (With them all other fields keep their types.)       *)
CountersExact ==
  /\ TypeOK
  /\ vdev.num_vrings_handling_msg = Cardinality({v \in Vring : HandlingMsg(v)})
  /\ vdev.num_vrings_started = Cardinality({v \in Vring : NotStopped(v)})
  /\ vdev.num_vrings_in_flight =
       Cardinality({v \in Vring : vring[v].started_in_ctl})

(* No assertion of the code fails, whatever the interleaving: no counter   *)
(* underflows, no vring is started or drained twice, no fd of an old       *)
(* incarnation is still there, nothing is left over when the device is     *)
(* cleaned up, no bottom half is queued twice.  (The check of vdev->req    *)
(* in vdev_cleanup is ReqCleared below.)                                   *)
AssertsHold == failed \subseteq {"cleanup_req"}

(* Messages are never handled concurrently: while the connection is        *)
(* polled no vring has a part of a message outstanding, none is being      *)
(* drained for GET_VRING_BASE, and nothing is kept for an earlier message. *)
MsgExclusive ==
  vdev.conn_handler = "attached" =>
    /\ vdev.req = "NONE" /\ vdev.handle_complete = "none"
    /\ vdev.old_memmap = 0 /\ vdev.old_memlog = 0 /\ vdev.keep_fd = <<>>
    /\ \A v \in Vring : ~HandlingMsg(v) /\ ~vring[v].on_drain_cb

(* Once a message is answered its effect has reached the dataplane: every  *)
(* vring that is started uses the current memory map, log, call fd and     *)
(* enabled state.                                                          *)
ConfigApplied ==
  vdev.conn_handler = "attached" =>
    \A v \in StartedVrings(State) :
      LET r == vring[v] IN
        /\ r.started_in_rq
        /\ r.vq.mm = vdev.memmap
        /\ r.vq.log = r.shadow_vq.log
        /\ r.vq.notify_fd = r.callfd
        /\ r.vq.enabled = r.shadow_vq.enabled

(* What a dataplane may still use is never released: the memory map (the   *)
(* handlers of SET_MEM_TABLE and its kin drop the old one only after every *)
(* vring has switched, and clean-up waits for the last request), the dirty *)
(* log, and the eventfd it signals the guest with.                         *)
DataplaneAlive ==
  \A v \in Vring : InUse(v) =>
    LET vq == vring[v].vq IN
      /\ vq.buffers
      /\ vq.mm # 0 /\ vq.mm \in {vdev.memmap, vdev.old_memmap}
      /\ vq.log \in {0, vdev.memlog, vdev.old_memlog}
      /\ \/ vq.notify_fd \in {0, vring[v].callfd}
         \/ vdev.keep_fd = <<"call", v, vq.notify_fd>>

(* The reply to GET_VRING_BASE goes out, and the virtq is released, only   *)
(* when the vring is stopped and its last request has been completed.      *)
DrainedBeforeRelease ==
  [][\A v \in Vring :
       vring[v].started_in_ctl /\ ~vring'[v].started_in_ctl =>
         /\ vring[v].num_in_flight = 0 /\ vring[v].queued = 0
         /\ ~vring[v].started_in_rq /\ vring[v].kick_handler = "none"]_vars

(* A device that accepts a new client has nothing left of the former one:  *)
(* no bottom half about a vring in any loop, no request, no fd, no map.    *)
FreshWhenListening ==
  vdev.listen_handler = "attached" =>
    /\ vdev.conn_handler = "none" /\ ~vdev.connfd
    /\ vdev.memmap = 0 /\ vdev.memlog = 0
    /\ \A r \in Rq : rq[r] = LoopInit
    /\ \A v \in Vring :
         /\ \A name \in CtlBhName : ~InCtl(name, v)
         /\ ~InUse(v) /\ ~vring[v].started_in_ctl /\ ~vring[v].disconnecting
         /\ vring[v].shadow_vq = ShadowVqZero

(* When vhd_vdev_stop_server has returned no vring is polled for new       *)
(* requests any more, and a released device leaves no caller waiting.      *)
StoppedForGood ==
  /\ ext = "stopped" => /\ vdev.conn_handler = "none"
                        /\ \A v \in Vring : ~NotStopped(v)
  /\ vdev.released => ext \in {"stopped", "start_failed"}

(* vhd_vdev_stop_server returns. *)
StopReturns == ext = "stopping" ~> ext = "stopped"

(* After a client is gone the device listens again, or is being stopped. *)
ListensAgain ==
  vdev.listen_handler = "detached" /\ vdev.conn_handler = "none"
    ~> vdev.listen_handler # "detached"

(* A message that could be answered is: the device never waits for ever    *)
(* for a vring to take part in it.                                         *)
MsgCompletes == vdev.req # "NONE" ~> vdev.req = "NONE"
=============================================================================
