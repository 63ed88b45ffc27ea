------------------------------ MODULE Inflight ------------------------------
(***************************************************************************)
(* A virtqueue and its inflight region (virt_queue.c).  The rings and the  *)
(* region are in memory shared with the client and survive the server; the *)
(* rest of the virtqueue does not.  The server may die after any store to  *)
(* shared memory and is then started again on the same memory.             *)
(*                                                                         *)
(* One step is one store to shared memory, or a call of the backend.  The  *)
(* field desc[].next is left out: batches have one element, so nothing     *)
(* reads a value of it that matters.  Descriptor chains are valid, and the *)
(* guest's driver is well behaved: a head is made available again only     *)
(* after the driver has found it in the used ring.                         *)
(***************************************************************************)
EXTENDS Integers, Sequences, FiniteSetsExt

CONSTANTS
  QSize,      \* vq->qsz
  Width,      \* the indices of the rings are modulo Width: 2^16 in C
  MaxSubmit,  \* bound on the requests the guest makes
  MaxRestart  \* bound on the times the server dies or stops the virtqueue

ASSUME InflightAssumption ==
  /\ QSize \in Nat \ {0}
  /\ Width \in Nat /\ Width % QSize = 0 /\ Width > QSize
  /\ MaxSubmit \in Nat /\ MaxRestart \in Nat

Head_ == 0 .. QSize - 1
Index == 0 .. Width - 1

VARIABLES
  avail, used,      \* the rings: [ring, idx]
  region,           \* struct inflight_split_region
  vq,               \* struct virtio_virtq: [last_avail, req_cnt, inflight_check]
  pc, head, todo,   \* where the server is, with which head, and what is next
  ret,              \* where virtq_push returns to
  held,             \* heads given to the backend
  stopping,         \* "no", or why the vring is being stopped
  base,             \* -1, or the index that GET_VRING_BASE answered
  restarts,
  owner, last_used, \* the driver: who has each head, and its used index
  made, serial,     \* requests made, and the number of the one of each head
  handled           \* history: the requests given to the backend since the start

vars == <<avail, used, region, vq, pc, head, todo, ret, held, stopping, base,
          restarts, owner, last_used, made, serial, handled>>

guestVars == <<owner, last_used, made, serial>>
stopVars == <<stopping, base, restarts>>

VqZero == [last_avail |-> 0, req_cnt |-> 0, inflight_check |-> FALSE]

Init ==
  /\ avail = [ring |-> [i \in Head_ |-> 0], idx |-> 0]
  /\ used = [ring |-> [i \in Head_ |-> 0], idx |-> 0]
  /\ region = [desc |-> [h \in Head_ |-> [inflight |-> 0, counter |-> 0]],
               last_batch_head |-> 0, used_idx |-> 0]
  /\ vq = VqZero
  /\ pc = "down" /\ head = 0 /\ todo = <<>> /\ ret = "idle"
  /\ held = {} /\ stopping = "no" /\ base = -1 /\ restarts = 0
  /\ owner = [h \in Head_ |-> "driver"] /\ last_used = 0
  /\ made = 0 /\ serial = [h \in Head_ |-> 0]
  /\ handled = <<>>

Goto(next) == pc' = next

-----------------------------------------------------------------------------
(* The driver of the guest.                                                *)

Submit(h) ==
  /\ owner[h] = "driver" /\ made < MaxSubmit
  /\ avail' = [ring |-> [avail.ring EXCEPT ![avail.idx % QSize] = h],
               idx |-> (avail.idx + 1) % Width]
  /\ owner' = [owner EXCEPT ![h] = "device"]
  /\ made' = made + 1
  /\ serial' = [serial EXCEPT ![h] = made + 1]
  /\ UNCHANGED <<used, region, vq, pc, head, todo, ret, held, last_used,
                 handled, stopVars>>

Reclaim ==
  /\ last_used # used.idx
  /\ last_used' = (last_used + 1) % Width
  /\ owner' = [owner EXCEPT ![used.ring[last_used % QSize]] = "driver"]
  /\ UNCHANGED <<avail, used, region, vq, pc, head, todo, ret, held, made,
                 serial, handled, stopVars>>

-----------------------------------------------------------------------------
(* Start: virtio_virtq_init and virtq_inflight_reconnect_update.           *)

MaxCounter == Max({region.desc[h].counter : h \in Head_})

BatchSize == (used.idx - region.used_idx) % Width

(* Mutant: the last batch is taken to be complete. *)
VirtioVirtqInit_KeepBatch ==
  /\ pc = "down"
  /\ vq' = [last_avail |-> IF base = -1 THEN used.idx ELSE base,
            req_cnt |-> MaxCounter, inflight_check |-> TRUE]
  /\ handled' = <<>>
  /\ Goto("init")
  /\ UNCHANGED <<avail, used, region, head, todo, ret, held, stopVars,
                 guestVars>>

(* The client gives the index to go on from: what GET_VRING_BASE answered, *)
(* or the index of the used ring if the connection broke.                  *)
VirtioVirtqInit ==
  /\ pc = "down"
  /\ vq' = [last_avail |-> IF base = -1 THEN used.idx ELSE base,
            req_cnt |-> MaxCounter, inflight_check |-> TRUE]
  /\ region' = IF MaxCounter = 0 \/ BatchSize = 0 THEN region
               ELSE [region EXCEPT !.desc[region.last_batch_head].inflight = 0]
  /\ handled' = <<>>
  /\ Goto("init")
  /\ UNCHANGED <<avail, used, head, todo, ret, held, stopVars, guestVars>>

VirtioVirtqInitDone ==
  /\ pc = "init"
  /\ vq' = [vq EXCEPT !.req_cnt = @ + 1]
  /\ region' = [region EXCEPT !.used_idx = used.idx]
  /\ Goto("idle")
  /\ UNCHANGED <<avail, used, head, todo, ret, held, handled, stopVars,
                 guestVars>>

-----------------------------------------------------------------------------
(* virtq_dequeue_many.                                                     *)

InflightHeads == {h \in Head_ : region.desc[h].inflight = 1}

(* Mutant: the heads are resubmitted in the order of the array. *)
ResubmitArray_ByHead ==
  CHOOSE s \in [1 .. Cardinality(InflightHeads) -> InflightHeads] :
    \A i, j \in DOMAIN s : i < j => s[i] < s[j]

(* The heads to resubmit, in the order they were fetched. *)
ResubmitArray ==
  CHOOSE s \in [1 .. Cardinality(InflightHeads) -> InflightHeads] :
    \A i, j \in DOMAIN s :
      i < j => region.desc[s[i]].counter < region.desc[s[j]].counter

NumAvail(from) == (avail.idx - from) % Width

(* The heads the guest has made available from an index on; the call fails *)
(* with -EOVERFLOW if they are more than the queue holds.                  *)
AvailFrom(from) ==
  IF NumAvail(from) > QSize THEN <<>>
  ELSE [i \in 1 .. NumAvail(from) |-> avail.ring[(from + i - 1) % QSize]]

(* A kick: at the first one the inflight requests are resubmitted. *)
VirtqDequeueMany ==
  /\ pc = "idle" /\ stopping = "no"
  /\ todo' = IF vq.inflight_check THEN ResubmitArray
             ELSE AvailFrom(vq.last_avail)
  /\ Goto("loop")
  /\ UNCHANGED <<avail, used, region, vq, head, ret, held, handled, stopVars,
                 guestVars>>

(* virtq_dequeue_one, up to the first store for a request that is new. *)
VirtqDequeueOne ==
  /\ pc = "loop" /\ todo # <<>>
  /\ head' = Head(todo) /\ todo' = Tail(todo)
  /\ IF vq.inflight_check
     THEN /\ Goto("handle")
          /\ UNCHANGED region
     ELSE /\ region' = [region EXCEPT !.desc[Head(todo)].counter = vq.req_cnt]
          /\ Goto("avail_update")
  /\ UNCHANGED <<avail, used, vq, ret, held, handled, stopVars, guestVars>>

(* Mutant: the request is not marked. *)
VirtqInflightAvailUpdate_Unmarked ==
  /\ pc = "avail_update"
  /\ vq' = [vq EXCEPT !.req_cnt = @ + 1]
  /\ Goto("handle")
  /\ UNCHANGED <<avail, used, region, head, todo, ret, held, handled, stopVars,
                 guestVars>>

VirtqInflightAvailUpdate ==
  /\ pc = "avail_update"
  /\ region' = [region EXCEPT !.desc[head].inflight = 1]
  /\ vq' = [vq EXCEPT !.req_cnt = @ + 1]
  /\ Goto("handle")
  /\ UNCHANGED <<avail, used, head, todo, ret, held, handled, stopVars,
                 guestVars>>

(* The callback gives the request to the backend, ... *)
HandleBuffers ==
  /\ pc = "handle"
  /\ held' = held \cup {head}
  /\ handled' = Append(handled, serial[head])
  /\ Goto("handled")
  /\ UNCHANGED <<avail, used, region, vq, head, todo, ret, stopVars, guestVars>>

VirtqDequeueOneDone ==
  /\ pc = "handled"
  /\ vq' = [vq EXCEPT !.last_avail = (@ + 1) % Width]
  /\ Goto("loop")
  /\ UNCHANGED <<avail, used, region, head, todo, ret, held, handled, stopVars,
                 guestVars>>

(* The end of the resubmission, or of the call. *)
VirtqDequeueManyNext ==
  /\ pc = "loop" /\ todo = <<>>
  /\ vq' = [vq EXCEPT !.inflight_check = FALSE]
  /\ IF vq.inflight_check
     THEN todo' = AvailFrom(vq.last_avail) /\ Goto("loop")
     ELSE todo' = <<>> /\ Goto("idle")
  /\ UNCHANGED <<avail, used, region, head, ret, held, handled, stopVars,
                 guestVars>>

-----------------------------------------------------------------------------
(* virtq_push.                                                             *)

PushHead(h) ==
  /\ head' = h
  /\ used' = [used EXCEPT !.ring[used.idx % QSize] = h]
  /\ Goto("used_update")
  /\ UNCHANGED <<avail, region, vq, todo, stopVars, guestVars>>

(* ... or completes it at once: abort_request, a request without i/o. *)
PushAtOnce ==
  /\ pc = "handle"
  /\ ret' = "handled"
  /\ handled' = Append(handled, serial[head])
  /\ PushHead(head)
  /\ UNCHANGED held

(* The completion of a request the backend had. *)
VirtqPush(h) ==
  /\ pc = "idle" /\ h \in held
  /\ ret' = "idle"
  /\ held' = held \ {h}
  /\ PushHead(h)
  /\ UNCHANGED handled

(* Mutant: the batch is not recorded. *)
VirtqInflightUsedUpdate_Skip ==
  /\ pc = "used_update"
  /\ Goto("used_idx")
  /\ UNCHANGED <<avail, used, region, vq, head, todo, ret, held, handled,
                 stopVars, guestVars>>

VirtqInflightUsedUpdate ==
  /\ pc = "used_update"
  /\ region' = [region EXCEPT !.last_batch_head = head]
  /\ Goto("used_idx")
  /\ UNCHANGED <<avail, used, vq, head, todo, ret, held, handled, stopVars,
                 guestVars>>

(* The store of used->idx shows the element to the driver. *)
StoreUsedIdx ==
  /\ pc = "used_idx"
  /\ used' = [used EXCEPT !.idx = (@ + 1) % Width]
  /\ owner' = [owner EXCEPT ![used.ring[used.idx % QSize]] = "used"]
  /\ Goto("used_commit")
  /\ UNCHANGED <<avail, region, vq, head, todo, ret, held, handled, last_used,
                 made, serial, stopVars>>

VirtqInflightUsedCommit ==
  /\ pc = "used_commit"
  /\ region' = [region EXCEPT !.desc[head].inflight = 0]
  /\ Goto("commit_idx")
  /\ UNCHANGED <<avail, used, vq, head, todo, ret, held, handled, stopVars,
                 guestVars>>

StoreRegionUsedIdx ==
  /\ pc = "commit_idx"
  /\ region' = [region EXCEPT !.used_idx = used.idx]
  /\ Goto(ret)
  /\ UNCHANGED <<avail, used, vq, head, todo, ret, held, handled, stopVars,
                 guestVars>>

-----------------------------------------------------------------------------
(* The vring is stopped, or the server dies.                               *)

(* vring_stop_bh.  After a disconnection the requests that the backend has *)
(* not taken are cancelled: they are dropped without virtq_push.           *)
VringStop(why, cancelled) ==
  /\ pc = "idle" /\ stopping = "no" /\ restarts < MaxRestart
  /\ why = "GET_VRING_BASE" => cancelled = {}
  /\ stopping' = why
  /\ restarts' = restarts + 1
  /\ held' = held \ cancelled
  /\ UNCHANGED <<avail, used, region, vq, pc, head, todo, ret, base, handled,
                 guestVars>>

(* The drained vring is released: virtio_virtq_release. *)
VringMarkDrained ==
  /\ pc = "idle" /\ stopping # "no" /\ held = {}
  /\ base' = IF stopping = "GET_VRING_BASE" THEN vq.last_avail ELSE -1
  /\ stopping' = "no"
  /\ vq' = VqZero
  /\ Goto("down")
  /\ UNCHANGED <<avail, used, region, head, todo, ret, held, restarts, handled,
                 guestVars>>

Crash ==
  /\ pc # "down" /\ restarts < MaxRestart
  /\ restarts' = restarts + 1
  /\ vq' = VqZero /\ held' = {} /\ todo' = <<>> /\ head' = 0 /\ ret' = "idle"
  /\ stopping' = "no" /\ base' = -1
  /\ Goto("down")
  /\ UNCHANGED <<avail, used, region, handled, guestVars>>

-----------------------------------------------------------------------------
VirtqStep ==
  \/ VirtioVirtqInit \/ VirtioVirtqInitDone
  \/ VirtqDequeueOne \/ VirtqInflightAvailUpdate \/ HandleBuffers \/ PushAtOnce
  \/ VirtqDequeueOneDone \/ VirtqDequeueManyNext
  \/ VirtqInflightUsedUpdate \/ StoreUsedIdx \/ VirtqInflightUsedCommit
  \/ StoreRegionUsedIdx \/ VringMarkDrained

Next ==
  \/ VirtqStep \/ VirtqDequeueMany
  \/ \E h \in Head_ : Submit(h) \/ VirtqPush(h)
  \/ Reclaim
  \/ \E why \in {"disconnect", "GET_VRING_BASE"}, c \in SUBSET held :
       VringStop(why, c)
  \/ Crash

Spec == Init /\ [][Next]_vars

(* The client starts a vring again and kicks it; the loop goes on with     *)
(* what it does; the backend completes every request it has.               *)
Fairness ==
  /\ WF_vars(VirtqStep)
  /\ SF_vars(VirtqDequeueMany)
  /\ \A h \in Head_ : SF_vars(VirtqPush(h))

FairSpec == Spec /\ Fairness

-----------------------------------------------------------------------------
(* Properties.                                                             *)

(* The rings, the region and the virtqueue stay in their ranges. *)
TypeOK ==
  /\ avail \in [ring : [Head_ -> Head_], idx : Index]
  /\ used \in [ring : [Head_ -> Head_], idx : Index]
  /\ region \in [desc : [Head_ -> [inflight : {0, 1}, counter : Nat]],
                 last_batch_head : Head_, used_idx : Index]
  /\ vq \in [last_avail : Index, req_cnt : Nat, inflight_check : BOOLEAN]
  /\ pc \in {"down", "init", "idle", "loop", "avail_update", "handle", "handled",
             "used_update", "used_idx", "used_commit", "commit_idx"}
  /\ head \in Head_ /\ todo \in Seq(Head_) /\ ret \in {"idle", "handled"}
  /\ held \subseteq Head_
  /\ stopping \in {"no", "disconnect", "GET_VRING_BASE"}
  /\ base \in Index \cup {-1} /\ restarts \in 0 .. MaxRestart
  /\ owner \in [Head_ -> {"driver", "device", "used"}] /\ last_used \in Index
  /\ made \in 0 .. MaxSubmit /\ serial \in [Head_ -> 0 .. MaxSubmit]
  /\ handled \in Seq(1 .. MaxSubmit)
  /\ Len(todo) <= QSize

DeviceHeads == {h \in Head_ : owner[h] = "device"}

(* What the next incarnation would find to be in flight. *)
Recovered ==
  InflightHeads \ (IF MaxCounter # 0 /\ BatchSize = 1
                   THEN {region.last_batch_head} ELSE {})

(* Wherever the server dies, the next one finds every request the guest    *)
(* waits for, once: in flight in the region, or in the available ring      *)
(* after as many entries as there are inflight ones.  The assertion of     *)
(* virtq_inflight_reconnect_update, batches of one, holds there too, and   *)
(* the rings, the region and the virtqueue keep their types.               *)
Recoverable ==
  LET rest == AvailFrom((used.idx + Cardinality(Recovered)) % Width)
  IN /\ TypeOK
     /\ MaxCounter # 0 => BatchSize \in {0, 1}
     /\ Recovered \cap Range(rest) = {}
     /\ Recovered \cup Range(rest) = DeviceHeads
     /\ IsInjective(rest)

(* A request is answered once: whatever store shows a new element of the   *)
(* used ring to the guest, it is one of a head the guest has given away.   *)
UsedOnce ==
  [][used'.idx # used.idx => used.ring[used.idx % QSize] \in DeviceHeads]_vars

(* The backend gets the requests in the order the guest made them, those   *)
(* of the former incarnation first.                                        *)
SubmissionOrder ==
  \A i, j \in DOMAIN handled : i < j => handled[i] < handled[j]

(* A request is answered in the end, however often the server died. *)
Served == \A h \in Head_ : owner[h] = "device" ~> owner[h] # "device"
=============================================================================
