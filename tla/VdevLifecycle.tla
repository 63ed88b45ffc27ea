--------------------------- MODULE VdevLifecycle ----------------------------
(***************************************************************************)
(* The device state machine of libvhost-server (vdev.c): its state, the    *)
(* start and the end of a connection, and the bottom halves by which the   *)
(* life cycle of the device and of its vrings goes on.  VdevMessages has   *)
(* the vhost-user messages, and Vdev composes both.                        *)
(*                                                                         *)
(* One control event loop handles the client's vhost-user messages and the *)
(* device life cycle; every vring is served by one request queue, a        *)
(* dataplane event loop of its own.  The loops talk through bottom halves  *)
(* (BHs): functions queued on a loop and run there later.  A loop swaps    *)
(* its whole BH list out and runs it (bh_poll), and only then handles its  *)
(* file descriptors (handle_events).  Inside a swapped batch the order is  *)
(* left open here, so every result holds for the order event.c produces.   *)
(*                                                                         *)
(* A C function that changes state is an operator from a state S to a      *)
(* state, written in the order of the calls of the C body; an action       *)
(* applies the operator of a whole handler to the current state.           *)
(***************************************************************************)
EXTENDS Integers, FiniteSets

CONSTANTS
  Vring,   \* the vrings of the device
  Rq,      \* the request queues
  RqOf,    \* the request queue that serves each vring
  Client,  \* the clients considered: what each may send, and what may fail
  MaxId    \* bound on the memory maps, logs and call fds told apart

(* The vhost-user requests with a handler (vhost_msg_handlers). *)
KnownReq == {"GET_FEATURES", "SET_FEATURES", "SET_OWNER",
             "GET_PROTOCOL_FEATURES", "SET_PROTOCOL_FEATURES", "GET_CONFIG",
             "SET_MEM_TABLE", "ADD_MEM_REG", "REM_MEM_REG", "GET_QUEUE_NUM",
             "GET_MAX_MEM_SLOTS", "SET_LOG_BASE", "SET_VRING_CALL",
             "SET_VRING_KICK", "SET_VRING_ERR", "SET_VRING_NUM",
             "SET_VRING_BASE", "GET_VRING_BASE", "SET_VRING_ADDR",
             "GET_INFLIGHT_FD", "SET_INFLIGHT_FD", "SET_VRING_ENABLE"}

(* A client: the requests it sends, the vrings they are about, the features *)
(* it negotiates, the calls that fail on the device while it is there, and  *)
(* a bound on the requests its guest has in flight on one vring.            *)
ClientType == [req : SUBSET (KnownReq \cup {"UNKNOWN"}), vrings : SUBSET Vring,
               feature : SUBSET {"LOG_ALL", "PROTOCOL_FEATURES"},
               fault : SUBSET {"send", "start", "listen"}, max_req : Nat]

ASSUME ConstantsAssumption ==
  /\ IsFiniteSet(Vring)
  /\ RqOf \in [Vring -> Rq]
  /\ \A c \in Client : c \in ClientType
  /\ MaxId \in Nat \ {0}

VARIABLES
  client,  \* the client at the other end, chosen once
  vdev,    \* struct vhd_vdev
  vring,   \* its array of struct vhd_vring
  ctl,     \* BHs of the control event loop: queued, and swapped out to run
  rq,      \* BHs of each request queue's event loop
  ext,     \* the call of the library the external thread is in
  failed   \* the assertions of the code that failed; one aborts the process

vars == <<client, vdev, vring, ctl, rq, ext, failed>>

State == [vdev |-> vdev, vring |-> vring, ctl |-> ctl, rq |-> rq,
          ext |-> ext, failed |-> failed]

(* The handler has run; one with a failed assertion aborts the process. *)
Become(S) ==
  /\ failed' = S.failed
  /\ UNCHANGED client
  /\ IF S.failed = {}
     THEN /\ vdev' = S.vdev
          /\ vring' = S.vring
          /\ ctl' = S.ctl
          /\ rq' = S.rq
          /\ ext' = S.ext
     ELSE UNCHANGED <<vdev, vring, ctl, rq, ext>>

-----------------------------------------------------------------------------
(* State of the C structures.  An id of 0 stands for NULL or a closed fd.  *)

Id == 0 .. MaxId

(* A fresh object, different from the one it replaces if ids are told apart. *)
NextId(i) == (i % MaxId) + 1

(* An io handler pointer: NULL, or registered and polled or not. *)
Handler == {"none", "attached", "detached"}

ShadowVqZero == [enabled |-> FALSE, mm |-> 0, log |-> 0]

VqZero == [enabled |-> FALSE, mm |-> 0, log |-> 0, notify_fd |-> 0,
           buffers |-> FALSE, inflight_region |-> 0]

VringInit == [kickfd |-> FALSE, callfd |-> 0, errfd |-> FALSE,
              started_in_ctl |-> FALSE, disconnecting |-> FALSE,
              kick_handler |-> "none", on_drain_cb |-> FALSE,
              shadow_vq |-> ShadowVqZero, vq |-> VqZero,
              started_in_rq |-> FALSE, num_in_flight |-> 0, queued |-> 0]

VdevInit == [listen_handler |-> "none", conn_handler |-> "none",
             timer_handler |-> "none", connfd |-> FALSE, req |-> "NONE",
             handle_complete |-> "none",
             num_vrings_handling_msg |-> 0, num_vrings_started |-> 0,
             num_vrings_in_flight |-> 0,
             memmap |-> 0, old_memmap |-> 0, memlog |-> 0, old_memlog |-> 0,
             keep_fd |-> <<>>, log_all |-> FALSE, vring_enable |-> FALSE,
             inflight_mem |-> 0, work |-> "none", released |-> FALSE]

(* struct vhd_event_loop, as far as its BH list goes. *)
LoopInit == [pending |-> {}, batch |-> {}]

(* bh_poll of a loop takes the whole list of BHs; the list is run before   *)
(* any file descriptor is looked at.                                       *)
Polled(l) == [pending |-> {}, batch |-> l.pending]

-----------------------------------------------------------------------------
(* The types of the structures.                                            *)

RqBhName == {"vring_start_bh", "vring_sync_to_virtq_bh", "vring_stop_bh",
             "vring_stop_bh_disconnect"}

CtlBhName == {"vring_mark_msg_handled_bh", "vring_mark_stopped_bh",
              "vring_mark_drained_bh", "vring_start_failed_bh"}

RqBhs == RqBhName \X Vring

CtlBhs == (CtlBhName \X Vring) \cup ({"work_bh"} \X {"vdev_start", "vdev_stop"})

VqType == [enabled : BOOLEAN, mm : Id, log : Id, notify_fd : Id,
           buffers : BOOLEAN, inflight_region : Id]

VringType == [kickfd : BOOLEAN, callfd : Id, errfd : BOOLEAN,
              started_in_ctl : BOOLEAN, disconnecting : BOOLEAN,
              kick_handler : Handler, on_drain_cb : BOOLEAN,
              shadow_vq : [enabled : BOOLEAN, mm : Id, log : Id], vq : VqType,
              started_in_rq : BOOLEAN, num_in_flight : 0 .. client.max_req,
              queued : 0 .. client.max_req]

KeepFd == {<<>>} \cup ({"call"} \X Vring \X Id) \cup ({"err"} \X Vring)

VdevType == [listen_handler : Handler, conn_handler : Handler,
             timer_handler : Handler, connfd : BOOLEAN,
             req : client.req \cup {"NONE"},
             handle_complete : {"none", "set_mem_table", "set_log_base",
                "set_vring_fd", "set_vring_kick", "set_vring_kick_fail",
                "set_vring_addr", "set_features", "vring_enable"},
             num_vrings_handling_msg : Nat, num_vrings_started : Nat,
             num_vrings_in_flight : Nat, memmap : Id, old_memmap : Id,
             memlog : Id, old_memlog : Id, keep_fd : KeepFd,
             log_all : BOOLEAN, vring_enable : BOOLEAN, inflight_mem : Id,
             work : {"none", "vdev_start", "vdev_stop"}, released : BOOLEAN]

(* The labels of the assertions. *)
Assertion == {"bh_twice", "cleanup_handling_msg", "cleanup_req", "cleanup_old",
              "attach_twice", "handling_msg", "handle_complete", "started",
              "drained", "virtq_release", "in_flight", "start", "keep_fd",
              "kickfd", "server_read"}

-----------------------------------------------------------------------------
(* Assertions, bottom halves and io handlers.                              *)

(* VHD_ASSERT(cond): a false one is recorded under its label. *)
VHD_ASSERT(S, cond, label) ==
  IF cond THEN S ELSE [S EXCEPT !.failed = @ \cup {label}]

(* vhd_run_in_ctl for the BHs B; two live copies of a BH are told apart by *)
(* their names, so queueing one that is still queued is recorded.          *)
vhd_run_in_ctl(S, B) ==
  VHD_ASSERT([S EXCEPT !.ctl.pending = @ \cup B],
         B \cap (S.ctl.pending \cup S.ctl.batch) = {}, "bh_twice")

(* vhd_run_in_rq of the BH called name for every vring of V. *)
vhd_run_in_rq(S, name, V) ==
  LET B(r) == {<<name, v>> : v \in {w \in V : RqOf[w] = r}}
  IN VHD_ASSERT([S EXCEPT !.rq = [r \in Rq |->
                                [S.rq[r] EXCEPT !.pending = @ \cup B(r)]]],
            \A r \in Rq : B(r) \cap (S.rq[r].pending \cup S.rq[r].batch) = {},
            "bh_twice")

-----------------------------------------------------------------------------
(* Finishing: stop acknowledged by all vrings, device drained.             *)

(* The external thread waiting for the work is released with the result. *)
vdev_complete_work(S, ok) ==
  LET result == CASE S.vdev.work = "vdev_start" /\ ok -> "running"
                  [] S.vdev.work = "vdev_start" /\ ~ok -> "start_failed"
                  [] OTHER -> "stopped"
  IN IF S.vdev.work = "none" THEN S
     ELSE [S EXCEPT !.ext = result, !.vdev.work = "none"]

vdev_vrings_stopped(S) ==
  IF S.vdev.listen_handler = "none" THEN vdev_complete_work(S, TRUE) ELSE S

vring_reset(r) ==
  [r EXCEPT !.callfd = 0, !.kickfd = FALSE, !.errfd = FALSE,
            !.shadow_vq = ShadowVqZero, !.disconnecting = FALSE]

vdev_cleanup(S) ==
  LET d == S.vdev
      Checked == VHD_ASSERT(VHD_ASSERT(VHD_ASSERT(S,
        d.num_vrings_handling_msg = 0, "cleanup_handling_msg"),
        d.req = "NONE", "cleanup_req"),
        d.old_memmap = 0 /\ d.old_memlog = 0 /\ d.keep_fd = <<>>,
        "cleanup_old")
  IN [Checked EXCEPT
        !.vring = [v \in Vring |-> vring_reset(S.vring[v])],
        !.vdev.inflight_mem = 0, !.vdev.memmap = 0, !.vdev.memlog = 0,
        !.vdev.timer_handler = "none", !.vdev.connfd = FALSE]

vhd_vdev_release(S) == [S EXCEPT !.vdev.released = TRUE]

vdev_drained(S) ==
  LET T == vdev_cleanup(S)
  IN IF S.vdev.listen_handler = "none" THEN vhd_vdev_release(T)
     ELSE VHD_ASSERT([T EXCEPT !.vdev.listen_handler = "attached"],
                 S.vdev.listen_handler = "detached", "attach_twice")

(* Mutant: vrings that have not acknowledged the stop are forgotten. *)
vdev_in_use_IgnoreStarted(S) ==
  \/ S.vdev.num_vrings_in_flight # 0
  \/ S.vdev.num_vrings_handling_msg # 0
  \/ S.vdev.conn_handler # "none"

vdev_in_use(S) ==
  \/ S.vdev.num_vrings_in_flight # 0
  \/ S.vdev.num_vrings_handling_msg # 0
  \/ S.vdev.num_vrings_started # 0
  \/ S.vdev.conn_handler # "none"

(* Mutant: the stop work is completed without waiting for the vrings. *)
vdev_maybe_finished_NoWait(S) ==
  LET T == vdev_vrings_stopped(S)
  IN IF vdev_in_use(T) THEN T ELSE vdev_drained(T)

vdev_maybe_finished(S) ==
  LET T == IF S.vdev.num_vrings_started = 0 THEN vdev_vrings_stopped(S) ELSE S
  IN IF vdev_in_use(T) THEN T ELSE vdev_drained(T)

(* Every vring started is asked to stop: vring_disconnect. *)
vdev_disconnect(S) ==
  LET V == {v \in Vring : S.vring[v].started_in_ctl}
      T == [S EXCEPT !.vdev.conn_handler = "none",
                     !.vring = [v \in Vring |->
                        [S.vring[v] EXCEPT !.disconnecting = @ \/ v \in V]]]
  IN IF S.vdev.conn_handler = "none" THEN S
     ELSE vdev_maybe_finished(vhd_run_in_rq(T, "vring_stop_bh_disconnect", V))

-----------------------------------------------------------------------------
(* Start and end of the handling of a message.  A handler returns a state  *)
(* and whether it succeeded; sent tells if the client took the reply (a    *)
(* message that needs no ack behaves as one whose ack was sent).           *)

Ok(S) == [st |-> S, ok |-> TRUE]
Err(S) == [st |-> S, ok |-> FALSE]

vdev_handle_start(S, req) ==
  VHD_ASSERT([S EXCEPT !.vdev.conn_handler = "detached", !.vdev.req = req,
                   !.vdev.timer_handler = "attached"],
         S.vdev.timer_handler = "detached", "attach_twice")

vdev_handle_finish(S) ==
  VHD_ASSERT([S EXCEPT !.vdev.timer_handler = "detached", !.vdev.req = "NONE",
                   !.vdev.conn_handler = IF @ = "none" THEN @
                                         ELSE "attached"],
         S.vdev.conn_handler # "attached" /\ S.vdev.timer_handler # "none",
         "attach_twice")

vhost_reply(S, sent) == IF sent THEN Ok(vdev_handle_finish(S)) ELSE Err(S)

vhost_ack(S, sent) == vhost_reply(S, sent)

set_mem_table_complete(S, sent) ==
  vhost_ack([S EXCEPT !.vdev.old_memmap = 0], sent)

set_log_base_complete(S, sent) ==
  vhost_reply([S EXCEPT !.vdev.old_memlog = 0], sent)

set_vring_call_complete(S, sent) ==
  vhost_ack([S EXCEPT !.vdev.keep_fd = <<>>], sent)

(* The call through vdev->handle_complete. *)
handle_complete(S, sent) ==
  CASE S.vdev.handle_complete = "set_mem_table" ->
         set_mem_table_complete(S, sent)
    [] S.vdev.handle_complete = "set_log_base" ->
         set_log_base_complete(S, sent)
    [] S.vdev.handle_complete = "set_vring_fd" ->
         set_vring_call_complete(S, sent)
    [] OTHER -> vhost_ack(S, sent)

(* A started vring of V gets the BH and counts as handling the message. *)
vring_handle_msg(S, V, bh) ==
  LET W == {v \in V : S.vring[v].started_in_ctl}
  IN vhd_run_in_rq([S EXCEPT
       !.vdev.num_vrings_handling_msg = @ + Cardinality(W)], bh, W)

(* Mutant: the first vring that is done completes the message. *)
vring_mark_msg_handled_First(S, sent) ==
  LET C == handle_complete(
             [S EXCEPT !.vdev.num_vrings_handling_msg = @ - 1], sent)
      U == [C.st EXCEPT !.vdev.handle_complete = "none"]
  IN IF C.ok THEN U ELSE vdev_disconnect(U)

vring_mark_msg_handled(S, sent) ==
  LET T == VHD_ASSERT([S EXCEPT !.vdev.num_vrings_handling_msg = @ - 1],
                  S.vdev.num_vrings_handling_msg > 0, "handling_msg")
      C == handle_complete(VHD_ASSERT(T, T.vdev.handle_complete # "none",
                                  "handle_complete"), sent)
      U == [C.st EXCEPT !.vdev.handle_complete = "none"]
  IN IF T.vdev.num_vrings_handling_msg # 0 THEN T
     ELSE IF C.ok THEN U ELSE vdev_disconnect(U)

(* Mutant: the end of the last vring is not noticed. *)
vring_mark_stopped_Silent(S, v) ==
  [S EXCEPT !.vring[v].kickfd = FALSE, !.vdev.num_vrings_started = @ - 1]

vring_mark_stopped(S, v) ==
  vdev_maybe_finished(
    VHD_ASSERT([S EXCEPT !.vring[v].kickfd = FALSE,
                     !.vdev.num_vrings_started = @ - 1],
           S.vdev.num_vrings_started > 0, "started"))

vring_mark_drained(S, v, sent) ==
  LET A == VHD_ASSERT([S EXCEPT !.vring[v].started_in_ctl = FALSE],
                  S.vring[v].started_in_ctl, "drained")
      R == vhost_reply(A, sent)
      B == [R.st EXCEPT !.vring[v].on_drain_cb = FALSE]
      C == IF ~S.vring[v].on_drain_cb THEN A
           ELSE IF R.ok THEN B ELSE vdev_disconnect(B)
      D == VHD_ASSERT([C EXCEPT !.vring[v].vq = VqZero],
                  C.vring[v].vq.buffers, "virtq_release")
  IN vdev_maybe_finished(
       VHD_ASSERT([D EXCEPT !.vdev.num_vrings_in_flight = @ - 1],
              D.vdev.num_vrings_in_flight > 0, "in_flight"))

(* Mutant: a vring that failed to start still counts as started. *)
vring_start_failed_StaysStarted(S, v, sent) ==
  vring_mark_drained(vring_mark_msg_handled(
    [S EXCEPT !.vdev.handle_complete = "set_vring_kick_fail"], sent), v, sent)

vring_start_failed(S, v, sent) ==
  LET T == [S EXCEPT !.vdev.handle_complete = "set_vring_kick_fail"]
  IN vring_mark_drained(
       vring_mark_stopped(vring_mark_msg_handled(T, sent), v), v, sent)

-----------------------------------------------------------------------------
(* The bottom halves that run in a request queue.                          *)

vring_sync_to_virtq(r) ==
  [r EXCEPT !.vq.enabled = r.shadow_vq.enabled, !.vq.mm = r.shadow_vq.mm,
            !.vq.log = r.shadow_vq.log, !.vq.notify_fd = r.callfd]

(* Mutant: the vring reports the message handled and applies nothing. *)
vring_sync_to_virtq_bh_Skip(S, v) ==
  vhd_run_in_ctl(S, {<<"vring_mark_msg_handled_bh", v>>})

vring_sync_to_virtq_bh(S, v) ==
  vhd_run_in_ctl([S EXCEPT !.vring[v] = vring_sync_to_virtq(S.vring[v])],
                 {<<"vring_mark_msg_handled_bh", v>>})

(* Mutant: a vring that is not to be started says nothing. *)
vring_start_bh_FailSilent(S, v, added) ==
  IF S.vring[v].disconnecting \/ ~added THEN S
  ELSE vhd_run_in_ctl([S EXCEPT !.vring[v] = [vring_sync_to_virtq(@) EXCEPT
                         !.kick_handler = "attached", !.started_in_rq = TRUE]],
                      {<<"vring_mark_msg_handled_bh", v>>})

(* added: the kick handler was registered with the request queue. *)
vring_start_bh(S, v, added) ==
  LET T == VHD_ASSERT(S, ~S.vring[v].started_in_rq, "start")
      Started == [vring_sync_to_virtq(T.vring[v]) EXCEPT
                    !.kick_handler = "attached", !.started_in_rq = TRUE]
  IN IF S.vring[v].disconnecting \/ ~added
     THEN vhd_run_in_ctl(T, {<<"vring_start_failed_bh", v>>})
     ELSE vhd_run_in_ctl([T EXCEPT !.vring[v] = Started],
                         {<<"vring_mark_msg_handled_bh", v>>})

vhd_cancel_queued_requests(r) ==
  [r EXCEPT !.num_in_flight = @ - r.queued, !.queued = 0]

(* Mutant: a second vring_stop_bh stops the vring once more. *)
vring_stop_bh_Unguarded(S, v) ==
  LET B == {<<"vring_mark_stopped_bh", v>>} \cup
           (IF S.vring[v].num_in_flight = 0
            THEN {<<"vring_mark_drained_bh", v>>} ELSE {})
  IN vhd_run_in_ctl([S EXCEPT !.vring[v].kick_handler = "none",
                              !.vring[v].started_in_rq = FALSE], B)

(* Mutant: the vring is declared drained with requests in flight. *)
vring_stop_bh_NoDrain(S, v) ==
  LET T == [S EXCEPT !.vring[v].kick_handler = "none",
                     !.vring[v].started_in_rq = FALSE]
  IN IF S.vring[v].started_in_rq
     THEN vhd_run_in_ctl(T, {<<"vring_mark_stopped_bh", v>>,
                             <<"vring_mark_drained_bh", v>>})
     ELSE S

vring_stop_bh(S, v) ==
  LET r == S.vring[v]
      c == IF r.disconnecting THEN vhd_cancel_queued_requests(r) ELSE r
      T == [S EXCEPT !.vring[v] = [c EXCEPT !.kick_handler = "none",
                                            !.started_in_rq = FALSE]]
      B == {<<"vring_mark_stopped_bh", v>>} \cup
           (IF c.num_in_flight = 0 THEN {<<"vring_mark_drained_bh", v>>}
                                   ELSE {})
  IN IF r.started_in_rq THEN vhd_run_in_ctl(T, B) ELSE S

(* Mutant: the last request of a stopped vring is not noticed. *)
vhd_vring_dec_in_flight_Silent(S, v) ==
  [S EXCEPT !.vring[v].num_in_flight = @ - 1]

(* The completion of one request: vhd_vring_dec_in_flight. *)
vhd_vring_dec_in_flight(S, v) ==
  LET T == [S EXCEPT !.vring[v].num_in_flight = @ - 1]
  IN IF T.vring[v].num_in_flight = 0 /\ ~S.vring[v].started_in_rq
     THEN vhd_run_in_ctl(T, {<<"vring_mark_drained_bh", v>>}) ELSE T

SyncBh == "vring_sync_to_virtq_bh"

(* The body of a BH of a request queue. *)
RqBody(S, b, ok) ==
  CASE b[1] = "vring_start_bh" -> vring_start_bh(S, b[2], ok)
    [] b[1] = SyncBh -> vring_sync_to_virtq_bh(S, b[2])
    [] OTHER -> vring_stop_bh(S, b[2])

-----------------------------------------------------------------------------
(* Connections, start and stop of the device.                              *)

server_read(S) ==
  VHD_ASSERT([S EXCEPT !.vdev.listen_handler = "detached", !.vdev.connfd = TRUE,
                   !.vdev.conn_handler = "attached",
                   !.vdev.timer_handler = "detached",
                   !.vdev.log_all = FALSE, !.vdev.vring_enable = FALSE],
         ~S.vdev.connfd, "server_read")

vdev_start(S, listening) ==
  vdev_complete_work([S EXCEPT !.vdev.listen_handler =
                        IF listening THEN "attached" ELSE "none"], listening)

vdev_stop(S) ==
  LET T == [S EXCEPT !.vdev.listen_handler = "none"]
  IN IF S.vdev.conn_handler # "none" THEN vdev_disconnect(T)
     ELSE vdev_maybe_finished(T)

(* A second work would be refused with EBUSY; one thread submits only one. *)
vdev_work_fn(S, func, listening) ==
  LET T == [S EXCEPT !.vdev.work = func]
  IN IF S.vdev.work # "none" THEN [S EXCEPT !.ext = "busy"]
     ELSE IF func = "vdev_start" THEN vdev_start(T, listening) ELSE vdev_stop(T)

(* The body of a BH of the control loop. *)
CtlBody(S, b, ok) ==
  CASE b[1] = "work_bh" -> vdev_work_fn(S, b[2], ok)
    [] b[1] = "vring_mark_msg_handled_bh" -> vring_mark_msg_handled(S, ok)
    [] b[1] = "vring_mark_stopped_bh" -> vring_mark_stopped(S, b[2])
    [] b[1] = "vring_mark_drained_bh" -> vring_mark_drained(S, b[2], ok)
    [] b[1] = "vring_start_failed_bh" -> vring_start_failed(S, b[2], ok)
=============================================================================
