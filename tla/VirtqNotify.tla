---------------------------- MODULE VirtqNotify ----------------------------
(***************************************************************************)
(* Kicks and calls: how the driver of the guest and a running vring wake   *)
(* each other up (virt_queue.c, vring_kick and vring_sync_to_virtq in      *)
(* vdev.c).  Each side goes to sleep after it has told the other, in the   *)
(* event index or in a flag, when it wants to be woken up.  One step is    *)
(* one access to shared memory; the barriers of the code keep their order. *)
(*                                                                         *)
(* Requests are indices of the rings; which head has which index, and the  *)
(* recovery of requests in flight, is in Inflight.  The driver is external *)
(* and does what the virtio specification asks of it.                      *)
(***************************************************************************)
EXTENDS Integers

CONSTANTS
  QSize,         \* vq->qsz
  Width,         \* the indices of the rings are modulo Width: 2^16 in C
  MaxChange      \* bound on reconfigurations and deaths of the server

ASSUME NotifyAssumption ==
  /\ QSize \in Nat \ {0}
  /\ Width \in Nat /\ Width > QSize
  /\ MaxChange \in Nat

VARIABLES
  has_event_idx,          \* VIRTIO_F_RING_EVENT_IDX is negotiated
  avail_idx, avail_event, \* avail->idx, and the device's wish to be kicked
  used_idx, used_event,   \* used->idx, and the driver's wish to be called
  no_interrupt,           \* VIRTQ_AVAIL_F_NO_INTERRUPT in avail->flags
  kickfd, callfd,         \* the eventfds are readable
  notify_fd,              \* "new" if it is the call fd the guest listens to
  enabled,                \* vq->enabled
  last_avail, avail,      \* vq->last_avail, and the local of the dequeue
  pc,                     \* the thread of the request queue
  sub, old,               \* the driver submitting, and the index it kicked for
  recv, last_used,        \* the driver receiving, and its index
  changes

vars == <<has_event_idx, avail_idx, avail_event, used_idx, used_event,
          no_interrupt, kickfd, callfd, notify_fd, enabled, last_avail, avail,
          pc, sub, old, recv, last_used, changes>>

subVars == <<avail_idx, sub, old>>
recvVars == <<used_event, no_interrupt, recv, last_used>>
confVars == <<has_event_idx, notify_fd, enabled, changes>>
queueVars == <<avail_event, used_idx, last_avail, avail>>

Plus(i, n) == (i + n) % Width

Between(from, to) == (to - from) % Width

(* A vring that the client has just started, before anything was kicked.   *)
(* It starts disabled, as it does with VHOST_USER_F_PROTOCOL_FEATURES.     *)
Init ==
  /\ has_event_idx \in BOOLEAN
  /\ avail_idx = 0 /\ avail_event = 0 /\ used_idx = 0 /\ used_event = 0
  /\ no_interrupt = FALSE
  /\ kickfd = FALSE /\ callfd = FALSE /\ notify_fd = "old" /\ enabled = FALSE
  /\ last_avail = 0 /\ avail = 0 /\ pc = "wait"
  /\ sub = "idle" /\ old = 0 /\ recv = "idle" /\ last_used = 0
  /\ changes = 0

-----------------------------------------------------------------------------
(* The driver.                                                             *)

(* It may add several requests, up to a full queue, before it considers a *)
(* kick.                                                                   *)
Publish ==
  /\ Between(last_used, avail_idx) < QSize
  /\ Between(old, avail_idx) < QSize
  /\ avail_idx' = Plus(avail_idx, 1)
  /\ sub' = "check"
  /\ UNCHANGED <<old, recvVars, confVars, queueVars, kickfd, callfd, pc>>

(* vring_need_event of the virtio specification. *)
NeedEvent(event, new, from) == Between(event, new) - 1 \in 0 .. Between(from, new) - 1

Kick ==
  /\ sub = "check"
  /\ kickfd' = (kickfd \/ ~has_event_idx \/ NeedEvent(avail_event, avail_idx, old))
  /\ sub' = "idle" /\ old' = avail_idx
  /\ UNCHANGED <<avail_idx, recvVars, confVars, queueVars, callfd, pc>>

(* The interrupt handler. *)
Interrupt ==
  /\ recv = "idle" /\ callfd
  /\ callfd' = FALSE
  /\ no_interrupt' = ~has_event_idx
  /\ recv' = "reap"
  /\ UNCHANGED <<used_event, last_used, subVars, confVars, queueVars, kickfd, pc>>

Reap ==
  /\ recv = "reap"
  /\ IF last_used # used_idx
     THEN /\ last_used' = Plus(last_used, 1)
          /\ UNCHANGED <<used_event, no_interrupt, recv>>
     ELSE /\ used_event' = last_used /\ no_interrupt' = FALSE
          /\ recv' = "recheck"
          /\ UNCHANGED last_used
  /\ UNCHANGED <<subVars, confVars, queueVars, kickfd, callfd, pc>>

Recheck ==
  /\ recv = "recheck"
  /\ recv' = IF last_used # used_idx THEN "reap" ELSE "idle"
  /\ no_interrupt' = (~has_event_idx /\ last_used # used_idx)
  /\ UNCHANGED <<used_event, last_used, subVars, confVars, queueVars, kickfd,
                 callfd, pc>>

-----------------------------------------------------------------------------
(* The request queue: a kick.                                              *)

(* The event is cleared before the virtq is processed. *)
VringKick ==
  /\ pc = "wait" /\ kickfd
  /\ kickfd' = FALSE
  /\ pc' = IF enabled THEN "read" ELSE "wait"
  /\ UNCHANGED <<subVars, recvVars, confVars, queueVars, callfd>>

VirtqDequeueMany ==
  /\ pc = "read"
  /\ avail' = avail_idx
  /\ pc' = IF has_event_idx THEN "event" ELSE "take"
  /\ UNCHANGED <<avail_event, used_idx, last_avail, subVars, recvVars, confVars,
                 kickfd, callfd>>

VirtqSetAvailEvent ==
  /\ pc = "event"
  /\ avail_event' = avail
  /\ pc' = "reread"
  /\ UNCHANGED <<used_idx, last_avail, avail, subVars, recvVars, confVars,
                 kickfd, callfd>>

(* Mutant: the index is not read again. *)
RereadAvail_Skip ==
  /\ pc = "reread"
  /\ pc' = "take"
  /\ UNCHANGED <<queueVars, subVars, recvVars, confVars, kickfd, callfd>>

RereadAvail ==
  /\ pc = "reread"
  /\ avail' = avail_idx
  /\ pc' = IF avail = avail_idx THEN "take" ELSE "event"
  /\ UNCHANGED <<avail_event, used_idx, last_avail, subVars, recvVars, confVars,
                 kickfd, callfd>>

(* The loop over num_avail, each request given to the backend. *)
VirtqDequeueOne ==
  /\ pc = "take"
  /\ IF Between(last_avail, avail) \in 1 .. QSize
     THEN last_avail' = Plus(last_avail, 1) /\ UNCHANGED pc
     ELSE pc' = "wait" /\ UNCHANGED last_avail
  /\ UNCHANGED <<avail_event, used_idx, avail, subVars, recvVars, confVars,
                 kickfd, callfd>>

-----------------------------------------------------------------------------
(* The request queue: a completion.                                        *)

(* The backend has completed a request: virtq_push up to used->idx. *)
VirtqPush ==
  /\ pc = "wait" /\ used_idx # last_avail
  /\ used_idx' = Plus(used_idx, 1)
  /\ pc' = "notify"
  /\ UNCHANGED <<avail_event, last_avail, avail, subVars, recvVars, confVars,
                 kickfd, callfd>>

(* Mutant: compared with the index after the element that was pushed. *)
virtq_need_notify_Late ==
  IF has_event_idx THEN used_event = used_idx ELSE ~no_interrupt

virtq_need_notify ==
  IF has_event_idx THEN used_event = Plus(used_idx, -1) ELSE ~no_interrupt

VirtqNotify ==
  /\ pc = "notify"
  /\ callfd' = (callfd \/ (virtq_need_notify /\ notify_fd = "new"))
  /\ pc' = "wait"
  /\ UNCHANGED <<queueVars, subVars, recvVars, confVars, kickfd>>

-----------------------------------------------------------------------------
(* Reconfiguration.                                                        *)

(* The client has begun to enable the vring or to give it a call fd.  Any  *)
(* other message that is synced counts as a change.                        *)
Due(on) == on /\ (~enabled \/ notify_fd = "old")

(* Mutant: a vring that becomes enabled is not kicked. *)
VringSyncToVirtq_NoKick(on) ==
  /\ pc = "wait" /\ (Due(on) \/ changes < MaxChange)
  /\ changes' = IF Due(on) THEN changes ELSE changes + 1
  /\ enabled' = on
  /\ notify_fd' = "new" /\ callfd' = TRUE
  /\ UNCHANGED <<has_event_idx, queueVars, subVars, recvVars, kickfd, pc>>

(* vring_sync_to_virtq with shadow_vq.enabled = on: a vring that becomes   *)
(* enabled is kicked, and the call fd signalled in any case.               *)
VringSyncToVirtq(on) ==
  /\ pc = "wait" /\ (Due(on) \/ changes < MaxChange)
  /\ changes' = IF Due(on) THEN changes ELSE changes + 1
  /\ enabled' = on
  /\ kickfd' = (kickfd \/ (on /\ ~enabled))
  /\ notify_fd' = "new" /\ callfd' = TRUE
  /\ UNCHANGED <<has_event_idx, queueVars, subVars, recvVars, pc>>

(* The guest listens to another call fd; SET_VRING_CALL is on its way. *)
ChangeCallFd ==
  /\ changes < MaxChange
  /\ changes' = changes + 1
  /\ notify_fd' = "old" /\ callfd' = FALSE
  /\ UNCHANGED <<has_event_idx, enabled, queueVars, subVars, recvVars, kickfd, pc>>

(* The server dies; the next one gets the vring with new eventfds, and     *)
(* goes on from the used index.                                            *)
Restart ==
  /\ changes < MaxChange
  /\ changes' = changes + 1
  /\ notify_fd' = "old" /\ callfd' = FALSE /\ kickfd' = FALSE
  /\ enabled' = FALSE
  /\ last_avail' = used_idx /\ avail' = 0 /\ pc' = "wait"
  /\ UNCHANGED <<has_event_idx, avail_event, used_idx, subVars, recvVars>>

-----------------------------------------------------------------------------
RqStep ==
  \/ VirtqDequeueMany \/ VirtqSetAvailEvent \/ RereadAvail \/ VirtqDequeueOne
  \/ VirtqNotify

DriverStep == Kick \/ Interrupt \/ Reap \/ Recheck

Next ==
  \/ Publish \/ DriverStep
  \/ RqStep \/ VringKick \/ VirtqPush
  \/ \E on \in BOOLEAN : VringSyncToVirtq(on)
  \/ ChangeCallFd \/ Restart

Spec == Init /\ [][Next]_vars

(* The loop handles a readable kick fd and the completions of a backend    *)
(* that completes its requests, neither at the expense of the other; the   *)
(* client enables the vring again; the driver goes on with what it began.  *)
Fairness ==
  /\ WF_vars(RqStep)
  /\ SF_vars(VringKick) /\ SF_vars(VirtqPush)
  /\ SF_vars(Due(TRUE) /\ VringSyncToVirtq(TRUE))
  /\ WF_vars(Kick) /\ WF_vars(Interrupt \/ Reap \/ Recheck)

FairSpec == Spec /\ Fairness

-----------------------------------------------------------------------------
(* Properties.                                                             *)

Index == 0 .. Width - 1

(* The indices stay in their range, and those of a correct driver and      *)
(* device never overtake each other.                                       *)
TypeOK ==
  /\ {avail_idx, avail_event, used_idx, used_event, last_avail, avail, old,
      last_used} \subseteq Index
  /\ {has_event_idx, no_interrupt, kickfd, callfd, enabled} \subseteq BOOLEAN
  /\ notify_fd \in {"new", "old"}
  /\ pc \in {"wait", "read", "event", "reread", "take", "notify"}
  /\ sub \in {"idle", "check"} /\ recv \in {"idle", "reap", "recheck"}
  /\ changes \in 0 .. MaxChange
  /\ Between(last_used, used_idx) + Between(used_idx, last_avail) +
     Between(last_avail, avail_idx) <= QSize

(* A vring that is enabled and waits has fetched every request the driver  *)
(* is done with, or is about to be kicked; and indices never overtake each *)
(* other.                                                                  *)
NoLostKick ==
  /\ TypeOK
  /\ pc = "wait" /\ enabled /\ ~kickfd /\ sub = "idle" => last_avail = avail_idx

(* A driver that sleeps has seen every used element, or will be called;    *)
(* not so only while its call fd has not reached the request queue.        *)
NoLostCall ==
  pc # "notify" /\ recv = "idle" /\ ~callfd /\ notify_fd = "new" =>
    last_used = used_idx

(* Every request made available is seen by the driver in the used ring,    *)
(* through any reconfiguration.                                            *)
Outstanding(i) == Between(last_used, i) < Between(last_used, avail_idx)

Answered == \A i \in Index : Outstanding(i) ~> ~Outstanding(i)
=============================================================================
