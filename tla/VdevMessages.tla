---------------------------- MODULE VdevMessages ----------------------------
(***************************************************************************)
(* The vhost-user messages of the device state machine (vdev.c): one       *)
(* operator per handler, and the dispatch of a message to its handler.     *)
(***************************************************************************)
EXTENDS VdevLifecycle

(* The vhost-user message handlers.  v is the vring the message is about,  *)
(* valid tells if the payload, its fds and the resources it needs are in   *)
(* order, arg is what else the message says.                               *)

StartedVrings(S) == {v \in Vring : S.vring[v].started_in_ctl}

(* A message without effect on the state of the device. *)
ReplyOnly(S, valid, sent) == IF valid THEN vhost_reply(S, sent) ELSE Err(S)

vhost_get_features(S, valid, sent) == ReplyOnly(S, valid, sent)
vhost_set_owner(S, valid, sent) == ReplyOnly(S, valid, sent)
vhost_get_protocol_features(S, valid, sent) == ReplyOnly(S, valid, sent)
vhost_get_config(S, valid, sent) == ReplyOnly(S, valid, sent)
vhost_get_queue_num(S, valid, sent) == ReplyOnly(S, valid, sent)
vhost_get_max_mem_slots(S, valid, sent) == ReplyOnly(S, valid, sent)

vhost_set_protocol_features(S, valid, sent) ==
  ReplyOnly(S, valid /\ S.vdev.num_vrings_in_flight = 0, sent)

vhost_set_vring_num(S, v, valid, sent) ==
  ReplyOnly(S, valid /\ ~S.vring[v].started_in_ctl, sent)

vhost_set_vring_base(S, v, valid, sent) ==
  ReplyOnly(S, valid /\ ~S.vring[v].started_in_ctl, sent)

(* All the started vrings of V copy their shadow state in their request    *)
(* queues before the message is completed by cb.                           *)
SyncVrings(S, V, cb) ==
  Ok(vring_handle_msg([S EXCEPT !.vdev.handle_complete = cb], V, SyncBh))

update_shadow_vq_memlog(S) ==
  LET log == IF S.vdev.log_all THEN S.vdev.memlog ELSE 0
  IN [S EXCEPT !.vring = [v \in Vring |->
                            [S.vring[v] EXCEPT !.shadow_vq.log = log]]]

(* feats: the feature bits the device tells apart. *)
vhost_set_features(S, valid, feats, sent) ==
  LET vring_enable == "PROTOCOL_FEATURES" \in feats
      T == [S EXCEPT !.vdev.log_all = "LOG_ALL" \in feats,
                     !.vdev.vring_enable = vring_enable]
      Enabled == [v \in Vring |-> [S.vring[v] EXCEPT
                    !.shadow_vq.enabled = ~vring_enable,
                    !.vq.enabled = ~vring_enable]]
  IN IF ~valid THEN Err(S)
     ELSE IF S.vdev.num_vrings_in_flight = 0
     THEN vhost_ack([T EXCEPT !.vring = Enabled], sent)
     ELSE IF vring_enable # S.vdev.vring_enable THEN Err(S)
     ELSE SyncVrings(update_shadow_vq_memlog(T), Vring, "set_features")

(* The new map mm replaces the current one.  When the message fails, the   *)
(* vrings of hit had their addresses resolved in the map before it did.    *)
ReplaceMemmap(S, mm, valid, hit, sent) ==
  LET V == IF valid THEN StartedVrings(S) ELSE hit \cap StartedVrings(S)
      T == [S EXCEPT !.vring = [v \in Vring |->
              [S.vring[v] EXCEPT !.shadow_vq.mm = IF v \in V THEN mm ELSE @]]]
      U == [T EXCEPT !.vdev.old_memmap = S.vdev.memmap, !.vdev.memmap = mm]
  IN IF ~valid THEN Err(T)
     ELSE IF S.vdev.num_vrings_in_flight = 0
     THEN set_mem_table_complete(U, sent)
     ELSE SyncVrings(U, Vring, "set_mem_table")

vhost_set_mem_table(S, valid, hit, sent) ==
  ReplaceMemmap(S, NextId(S.vdev.memmap), valid, hit, sent)

vhost_add_mem_reg(S, valid, hit, sent) ==
  IF S.vdev.memmap # 0 /\ S.vdev.num_vrings_in_flight = 0
  THEN ReplyOnly(S, valid, sent)
  ELSE ReplaceMemmap(S, NextId(S.vdev.memmap), valid, hit, sent)

vhost_rem_mem_reg(S, valid, hit, sent) ==
  IF S.vdev.memmap = 0 THEN Err(S)
  ELSE ReplaceMemmap(S, NextId(S.vdev.memmap), valid, hit, sent)

vhost_set_log_base(S, valid, sent) ==
  LET T == update_shadow_vq_memlog(
             [S EXCEPT !.vdev.old_memlog = S.vdev.memlog,
                       !.vdev.memlog = NextId(S.vdev.memlog)])
  IN IF ~valid THEN Err(S)
     ELSE IF S.vdev.num_vrings_in_flight = 0 THEN set_log_base_complete(T, sent)
     ELSE SyncVrings(T, Vring, "set_log_base")

(* Mutant: the old call fd is closed at once. *)
vhost_set_vring_call_CloseNow(S, v, valid, has_fd, sent) ==
  LET T == [S EXCEPT !.vring[v].callfd =
              IF has_fd THEN NextId(S.vring[v].callfd) ELSE 0]
  IN IF ~valid THEN Err(S)
     ELSE IF S.vring[v].started_in_ctl THEN SyncVrings(T, {v}, "set_vring_fd")
     ELSE set_vring_call_complete(T, sent)

(* has_fd: the message carries an eventfd, rather than clears the old one. *)
vhost_set_vring_call(S, v, valid, has_fd, sent) ==
  LET old == S.vring[v].callfd
      T == VHD_ASSERT([S EXCEPT
             !.vdev.keep_fd = IF old = 0 THEN <<>> ELSE <<"call", v, old>>,
             !.vring[v].callfd = IF has_fd THEN NextId(old) ELSE 0],
             S.vdev.keep_fd = <<>>, "keep_fd")
      C == set_vring_call_complete(T, sent)
  IN IF ~valid THEN Err(S)
     ELSE IF S.vring[v].started_in_ctl THEN SyncVrings(T, {v}, "set_vring_fd")
     ELSE IF C.ok THEN C ELSE Err([C.st EXCEPT !.vring[v].callfd = 0])

vhost_set_vring_err(S, v, valid, has_fd, sent) ==
  LET T == VHD_ASSERT([S EXCEPT
             !.vdev.keep_fd = IF S.vring[v].errfd THEN <<"err", v>> ELSE <<>>,
             !.vring[v].errfd = has_fd], S.vdev.keep_fd = <<>>, "keep_fd")
      C == set_vring_call_complete(T, sent)
  IN IF ~valid THEN Err(S)
     ELSE IF S.vring[v].started_in_ctl THEN SyncVrings(T, {v}, "set_vring_fd")
     ELSE IF C.ok THEN C ELSE Err([C.st EXCEPT !.vring[v].errfd = FALSE])

vhost_set_vring_addr(S, v, valid, sent) ==
  IF ~valid THEN Err(S)
  ELSE IF S.vring[v].started_in_ctl THEN SyncVrings(S, {v}, "set_vring_addr")
  ELSE vhost_ack(S, sent)

vhost_vring_enable(S, v, valid, sent) ==
  LET T == [S EXCEPT !.vring[v].shadow_vq.enabled = ~@]
  IN IF ~valid \/ ~S.vdev.vring_enable THEN Err(S)
     ELSE IF S.vring[v].started_in_ctl THEN SyncVrings(T, {v}, "vring_enable")
     ELSE vhost_ack(T, sent)

vhost_set_vring_kick(S, v, valid) ==
  LET A == [S EXCEPT !.vring[v].shadow_vq.mm = S.vdev.memmap,
                     !.vring[v].kickfd = TRUE]
      B == [A EXCEPT !.vring[v] = [vring_sync_to_virtq(A.vring[v]) EXCEPT
                       !.vq.buffers = TRUE, !.started_in_ctl = TRUE],
                     !.vdev.num_vrings_started = @ + 1,
                     !.vdev.num_vrings_in_flight = @ + 1,
                     !.vdev.handle_complete = "set_vring_kick"]
  IN IF ~valid \/ S.vring[v].started_in_ctl THEN Err(S)
     ELSE Ok(vring_handle_msg(VHD_ASSERT(B, ~S.vring[v].kickfd, "kickfd"),
                              {v}, "vring_start_bh"))

(* The reply is sent at once, or by vring_mark_drained (on_drain_cb). *)
vhost_get_vring_base(S, v, valid, sent) ==
  IF ~valid THEN Err(S)
  ELSE IF ~S.vring[v].started_in_ctl THEN vhost_reply(S, sent)
  ELSE Ok(vhd_run_in_rq([S EXCEPT !.vring[v].on_drain_cb = TRUE],
                        "vring_stop_bh", {v}))

(* mapped: the mmap of the new region succeeded; the old one is gone. *)
inflight_mmap_region(S, mapped) ==
  LET mem == NextId(S.vdev.inflight_mem)
  IN IF mapped
     THEN [S EXCEPT !.vdev.inflight_mem = mem,
                    !.vring = [v \in Vring |->
                       [S.vring[v] EXCEPT !.vq.inflight_region = mem]]]
     ELSE [S EXCEPT !.vdev.inflight_mem = 0]

vhost_get_inflight_fd(S, valid, mapped, sent) ==
  IF ~valid \/ S.vdev.num_vrings_in_flight # 0 THEN Err(S)
  ELSE IF mapped THEN vhost_reply(inflight_mmap_region(S, TRUE), sent)
  ELSE Err(inflight_mmap_region(S, FALSE))

vhost_set_inflight_fd(S, valid, mapped, sent) ==
  IF ~valid \/ S.vdev.num_vrings_in_flight # 0 THEN Err(S)
  ELSE IF mapped THEN vhost_ack(inflight_mmap_region(S, TRUE), sent)
  ELSE Err(inflight_mmap_region(S, FALSE))

-----------------------------------------------------------------------------
(* Dispatch of a message.                                                  *)

(* What a message of each kind says beyond its vring. *)
ArgOf(req) ==
  CASE req = "SET_FEATURES" -> SUBSET client.feature
    [] req \in {"SET_MEM_TABLE", "ADD_MEM_REG", "REM_MEM_REG"} -> SUBSET client.vrings
    [] req \in {"SET_VRING_CALL", "SET_VRING_ERR", "SET_VRING_ENABLE",
                "GET_INFLIGHT_FD", "SET_INFLIGHT_FD"} -> BOOLEAN
    [] OTHER -> {{}}

vhost_handle_msg(S, req, v, valid, arg, sent) ==
  CASE req = "GET_FEATURES" -> vhost_get_features(S, valid, sent)
    [] req = "SET_FEATURES" -> vhost_set_features(S, valid, arg, sent)
    [] req = "SET_OWNER" -> vhost_set_owner(S, valid, sent)
    [] req = "GET_PROTOCOL_FEATURES" ->
         vhost_get_protocol_features(S, valid, sent)
    [] req = "SET_PROTOCOL_FEATURES" ->
         vhost_set_protocol_features(S, valid, sent)
    [] req = "GET_CONFIG" -> vhost_get_config(S, valid, sent)
    [] req = "SET_MEM_TABLE" -> vhost_set_mem_table(S, valid, arg, sent)
    [] req = "ADD_MEM_REG" -> vhost_add_mem_reg(S, valid, arg, sent)
    [] req = "REM_MEM_REG" -> vhost_rem_mem_reg(S, valid, arg, sent)
    [] req = "GET_QUEUE_NUM" -> vhost_get_queue_num(S, valid, sent)
    [] req = "GET_MAX_MEM_SLOTS" -> vhost_get_max_mem_slots(S, valid, sent)
    [] req = "SET_LOG_BASE" -> vhost_set_log_base(S, valid, sent)
    [] req = "SET_VRING_CALL" -> vhost_set_vring_call(S, v, valid, arg, sent)
    [] req = "SET_VRING_KICK" -> vhost_set_vring_kick(S, v, valid)
    [] req = "SET_VRING_ERR" -> vhost_set_vring_err(S, v, valid, arg, sent)
    [] req = "SET_VRING_NUM" -> vhost_set_vring_num(S, v, valid, sent)
    [] req = "SET_VRING_BASE" -> vhost_set_vring_base(S, v, valid, sent)
    [] req = "GET_VRING_BASE" -> vhost_get_vring_base(S, v, valid, sent)
    [] req = "SET_VRING_ADDR" -> vhost_set_vring_addr(S, v, valid, sent)
    [] req = "GET_INFLIGHT_FD" -> vhost_get_inflight_fd(S, valid, arg, sent)
    [] req = "SET_INFLIGHT_FD" -> vhost_set_inflight_fd(S, valid, arg, sent)
    [] req = "SET_VRING_ENABLE" -> vhost_vring_enable(S, v, valid, sent)
    [] OTHER -> Err(S)

conn_read(S, req, v, valid, arg, sent) ==
  LET H == vhost_handle_msg(vdev_handle_start(S, req), req, v, valid, arg, sent)
  IN IF H.ok THEN H.st ELSE vdev_disconnect(vdev_handle_finish(H.st))
=============================================================================
