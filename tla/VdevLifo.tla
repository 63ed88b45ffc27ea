------------------------------ MODULE VdevLifo ------------------------------
(***************************************************************************)
(* The device of Vdev with the order of event.c: bh_enqueue pushes a BH on *)
(* a list and bh_poll runs a swapped list from its head, so the BHs of one *)
(* batch run last queued first.  A file descriptor is looked at only when  *)
(* no BH has been queued since the last poll.  Every behaviour is one of   *)
(* Vdev; what is refuted here is refuted by an order that really happens.  *)
(***************************************************************************)
EXTENDS Vdev, SequencesExt

VARIABLE order   \* the BHs that are queued or swapped out, oldest first

lifoVars == <<vars, order>>

Outstanding ==
  ctl.pending \cup ctl.batch \cup
  UNION {rq[r].pending \cup rq[r].batch : r \in Rq}

(* vring_stop_bh queues vring_mark_stopped_bh before vring_mark_drained_bh. *)
QueuedBefore(a, b) == a[1] = "vring_mark_stopped_bh" /\ b[1] # a[1]

(* A BH that left its batch was the last one queued there. *)
HeadFirst(batch, rest) ==
  \A b \in batch \ rest, c \in batch :
    \A i, j \in DOMAIN order : order[i] = c /\ order[j] = b => i <= j

LifoInit == Init /\ order = <<>>

LifoNext ==
  /\ \/ ExternalStep
     \/ CtlStep
     \/ ctl.pending = {} /\ CtlEvent
     \/ \E r \in Rq : RqStep(r)
     \/ \E v \in Vring : rq[RqOf[v]].pending = {} /\ RqEvent(v)
     \/ \E v \in Vring : ReqComplete(v)
     \/ Halted
  /\ order' = SelectSeq(order, LAMBDA b : b \in Outstanding') \o
              SetToSortSeq(Outstanding' \ Range(order), QueuedBefore)
  /\ HeadFirst(ctl.batch, ctl'.batch)
  /\ \A r \in Rq : HeadFirst(rq[r].batch, rq'[r].batch)

LifoSpec == LifoInit /\ [][LifoNext]_lifoVars

LifoFairSpec == LifoSpec /\ Fairness

-----------------------------------------------------------------------------
(* vdev_cleanup finds no message in progress (its assertion on vdev->req). *)
ReqCleared == "cleanup_req" \notin failed

(* Once vhd_vdev_stop_server has returned no more request reaches the      *)
(* backend.                                                                *)
NoRequestAfterStop ==
  [][ext = "stopped" => \A v \in Vring : vring'[v].queued >= vring[v].queued]_vars

(* A device that is stopped is released in the end, and its user told. *)
StopReleases == ext = "stopping" ~> vdev.released
=============================================================================
