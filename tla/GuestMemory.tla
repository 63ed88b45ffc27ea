----------------------------- MODULE GuestMemory -----------------------------
(***************************************************************************)
(* How a device uses memory maps: the control loop's handlers that build a *)
(* map and replace the current one (vdev.c), the virtqueue that resolves   *)
(* the buffers of requests with the map it was last given and marks the    *)
(* pages it has written in the dirty log (virt_queue.c), and the reference *)
(* counts that keep regions mapped as long as either side needs them.      *)
(*                                                                         *)
(* One device with one virtqueue.  Two threads run: "ctl", the control     *)
(* loop, and "rq", the loop of the virtqueue's request queue.  Both drop   *)
(* references, so both may end up releasing maps and regions, one region   *)
(* at a time; the control loop also looks regions up in the global list.   *)
(***************************************************************************)
EXTENDS Memmap, Memlog

CONSTANTS
    Table,      \* the region tables a client may send, sequences of Desc
    Request,    \* the requests of the guest, sequences of buffers
    DescHead,   \* heads of descriptor chains
    RingUva,    \* where the client put the virtqueue
    UsedGpa,    \* vq->used_gpa_base
    QSize,      \* vq->qsz
    Exclusive   \* a lookup in g_regions excludes the release of a region

ASSUME GuestMemoryAssumption ==
    /\ \A t \in Table : t \in Seq(Desc)
    /\ \A q \in Request : \A i \in DOMAIN q : q[i].gpa \in Nat /\ q[i].len > 0
    /\ {RingUva, UsedGpa} \subseteq Address
    /\ QSize \in Nat \ {0}
    /\ Exclusive \in BOOLEAN

VARIABLES
    heap,       \* the heap of Memmap
    vdev,       \* memmap, old_memmap, and whether the connection is closing
    msg,        \* the memory message in progress, and its local variables
    vring,      \* started_in_rq and vq.mm
    put,        \* regions each thread has yet to unref in memmap_release
    dying,      \* the region each thread is about to release
    iov,        \* virtq_iov_private of the requests in flight
    used_idx,   \* vq->used->idx modulo qsz
    log,        \* bits set in the dirty log
    written     \* pages the device has told the guest it wrote

vars == <<heap, vdev, msg, vring, put, dying, iov, used_idx, log, written>>

Thread == {"ctl", "rq"}

NoMsg == [pc |-> "idle", new |-> Null, todo |-> <<>>, hit |-> Null]

Init ==
    /\ heap = [region |-> [r \in Region |-> Null],
               mm |-> [m \in Map |-> Null], g_regions |-> {}]
    /\ vdev = [memmap |-> Null, old_memmap |-> Null, closing |-> FALSE]
    /\ msg = NoMsg
    /\ vring = [started |-> FALSE, mm |-> Null]
    /\ put = [t \in Thread |-> <<>>]
    /\ dying = [t \in Thread |-> Null]
    /\ iov = [h \in DescHead |-> Null]
    /\ used_idx = 0
    /\ log = {}
    /\ written = {}

----------------------------------------------------------------------------
(* Dropping references. *)

\* Thread t is in memmap_release.
Releasing(t) == put[t] # <<>> \/ dying[t] # Null

\* vhd_memmap_unref: the last reference leaves the regions to be unref'd one
\* by one by the thread that dropped it.
vhd_memmap_unref(t, H, m) ==
    IF H.mm[m].ref = 1
    THEN /\ heap' = [H EXCEPT !.mm[m] = Null]
         /\ put' = [put EXCEPT ![t] = H.mm[m].regions]
    ELSE /\ heap' = memmap_dec(H, m)
         /\ UNCHANGED put

RegionUnref(t) ==
    /\ put[t] # <<>> /\ dying[t] = Null
    /\ Exclusive => msg.pc # "hit"
    /\ LET r == put[t][1]
       IN  /\ heap' = region_dec(heap, r)
           /\ dying' = [dying EXCEPT ![t] = IF heap.region[r].ref = 1 THEN r ELSE Null]
           /\ put' = [put EXCEPT ![t] = Tail(@)]
    /\ UNCHANGED <<vdev, msg, vring, iov, used_idx, log, written>>

RegionRelease(t) ==
    /\ dying[t] # Null
    /\ heap' = region_release(heap, dying[t])
    /\ dying' = [dying EXCEPT ![t] = Null]
    /\ UNCHANGED <<vdev, msg, vring, put, iov, used_idx, log, written>>

\* virtio_free_iov of the requests C, in the loop of the virtqueue.
virtio_free_iov(C) ==
    LET held(m) == Cardinality({h \in C : iov[h].mm = m})
        unused == {m \in Map : held(m) > 0 /\ heap.mm[m].ref = held(m)}
    IN  /\ heap' = [heap EXCEPT !.mm = [m \in Map |->
               IF m \in unused THEN Null
               ELSE IF held(m) > 0 THEN [heap.mm[m] EXCEPT !.ref = @ - held(m)]
               ELSE heap.mm[m]]]
        /\ \E order \in SetToSeqs(unused) :
              put' = [put EXCEPT !["rq"] =
                  FlattenSeq([i \in DOMAIN order |-> heap.mm[order[i]].regions])]
        /\ iov' = [h \in DescHead |-> IF h \in C THEN Null ELSE iov[h]]

----------------------------------------------------------------------------
(* Memory messages, handled by the control loop. *)

\* vdev->num_vrings_in_flight: a vring is in flight until its last request is.
InFlight == vring.started \/ \E h \in DescHead : iov[h] # Null

CtlIdle == msg.pc = "idle" /\ ~Releasing("ctl")

\* The next message is read: none is while GET_VRING_BASE waits for a drain.
Connected == CtlIdle /\ ~vdev.closing /\ (InFlight => vring.started)

FreeMap == {m \in Map : heap.mm[m] = Null}

vhost_set_mem_table(table) ==
    /\ Connected
    /\ \E m \in FreeMap :
          /\ heap' = vhd_memmap_new(heap, m)
          /\ msg' = [NoMsg EXCEPT !.pc = "add", !.new = m, !.todo = table]
    /\ UNCHANGED <<vdev, vring, put, dying, iov, used_idx, log, written>>

\* The map of a vring in flight is not touched: the slot goes into a copy.
vhost_add_mem_reg(d) ==
    /\ Connected
    /\ \/ /\ vdev.memmap # Null /\ ~InFlight
          /\ msg' = [NoMsg EXCEPT !.pc = "add", !.new = vdev.memmap, !.todo = <<d>>]
          /\ UNCHANGED heap
       \/ /\ vdev.memmap = Null \/ InFlight
          /\ \E m \in FreeMap :
                /\ heap' = IF vdev.memmap = Null THEN vhd_memmap_new(heap, m)
                           ELSE vhd_memmap_dup(heap, vdev.memmap, m)
                /\ msg' = [NoMsg EXCEPT !.pc = "add", !.new = m, !.todo = <<d>>]
    /\ UNCHANGED <<vdev, vring, put, dying, iov, used_idx, log, written>>

\* The slot leaves a copy of the map; the map itself still holds the region.
vhost_rem_mem_reg(d) ==
    /\ Connected
    /\ \/ /\ vdev.memmap = Null
          /\ vdev' = [vdev EXCEPT !.closing = TRUE]
          /\ UNCHANGED <<heap, msg>>
       \/ /\ vdev.memmap # Null
          /\ \E m \in FreeMap :
                LET H == vhd_memmap_dup(heap, vdev.memmap, m)
                    i == SlotToDelete(H, m, d)
                IN  /\ heap' = IF i = 0 THEN H
                               ELSE RemoveSlot(region_dec(H, H.mm[m].regions[i]), m, i)
                    /\ msg' = [NoMsg EXCEPT !.new = m,
                                  !.pc = IF i = 0 THEN "fail" ELSE "resolve"]
          /\ UNCHANGED vdev
    /\ UNCHANGED <<vring, put, dying, iov, used_idx, log, written>>

\* vhd_memmap_add_slot for the next region, up to and including the lookup.  A
\* region that is not mapped yet is mapped, which may fail.
AddSlot ==
    /\ msg.pc = "add" /\ msg.todo # <<>>
    /\ Exclusive => dying["rq"] = Null
    /\ LET d == msg.todo[1]
           hits == Cached(heap, d)
       IN  \/ /\ ~SlotAllowed(heap, msg.new, d)
              /\ msg' = [msg EXCEPT !.pc = "fail"]
              /\ UNCHANGED heap
           \/ /\ SlotAllowed(heap, msg.new, d) /\ hits # {}
              /\ msg' = [msg EXCEPT !.pc = "hit", !.hit = CHOOSE r \in hits : TRUE]
              /\ UNCHANGED heap
           \/ /\ SlotAllowed(heap, msg.new, d) /\ hits = {}
              /\ \/ /\ msg' = [msg EXCEPT !.pc = "fail"]
                    /\ UNCHANGED heap
                 \/ \E r \in Region :
                       /\ heap.region[r] = Null
                       /\ heap' = InsertSlot(MapNew(heap, r, d), msg.new, r)
                       /\ msg' = [msg EXCEPT !.todo = Tail(@)]
    /\ UNCHANGED <<vdev, vring, put, dying, iov, used_idx, log, written>>

\* The end of region_get_cached, and the slot of the region it found.
RefCached ==
    /\ msg.pc = "hit"
    /\ heap' = InsertSlot(region_ref(heap, msg.hit), msg.new, msg.hit)
    /\ msg' = [msg EXCEPT !.pc = "add", !.todo = Tail(@), !.hit = Null]
    /\ UNCHANGED <<vdev, vring, put, dying, iov, used_idx, log, written>>

\* The map is complete: it is checked against the address of the virtqueue, if
\* that is started, and becomes the current one.
Resolve ==
    /\ msg.pc = "resolve" \/ (msg.pc = "add" /\ msg.todo = <<>>)
    /\ \/ /\ msg.new = vdev.memmap
          /\ msg' = NoMsg
          /\ UNCHANGED vdev
       \/ /\ msg.new # vdev.memmap
          /\ InFlight /\ uva_to_ptr(heap, msg.new, RingUva) = Null
          /\ msg' = [msg EXCEPT !.pc = "fail"]
          /\ UNCHANGED vdev
       \/ /\ msg.new # vdev.memmap
          /\ InFlight => uva_to_ptr(heap, msg.new, RingUva) # Null
          /\ vdev' = [vdev EXCEPT !.old_memmap = vdev.memmap, !.memmap = msg.new]
          /\ msg' = [NoMsg EXCEPT !.pc = IF InFlight THEN "sync" ELSE "complete"]
    /\ UNCHANGED <<heap, vring, put, dying, iov, used_idx, log, written>>

\* The goto fail of the three handlers.  A map that is current is kept.  The
\* message's failure closes the connection.
Fail ==
    /\ msg.pc = "fail"
    /\ IF msg.new = vdev.memmap THEN UNCHANGED <<heap, put>>
       ELSE vhd_memmap_unref("ctl", heap, msg.new)
    /\ vdev' = [vdev EXCEPT !.closing = TRUE]
    /\ msg' = NoMsg
    /\ UNCHANGED <<vring, dying, iov, used_idx, log, written>>

\* Mutant: the bottom half answers before the virtqueue has the new map.
vring_sync_to_virtq_bh_Early ==
    /\ msg.pc = "sync" /\ ~Releasing("rq")
    /\ msg' = [msg EXCEPT !.pc = "complete"]
    /\ UNCHANGED <<heap, vdev, vring, put, dying, iov, used_idx, log, written>>

\* vring_sync_to_virtq_bh, in the loop of the virtqueue, also if the vring has
\* been stopped meanwhile.
vring_sync_to_virtq_bh ==
    /\ msg.pc = "sync" /\ ~Releasing("rq")
    /\ vring' = [vring EXCEPT !.mm = vdev.memmap]
    /\ msg' = [msg EXCEPT !.pc = "complete"]
    /\ UNCHANGED <<heap, vdev, put, dying, iov, used_idx, log, written>>

set_mem_table_complete ==
    /\ msg.pc = "complete"
    /\ IF vdev.old_memmap = Null THEN UNCHANGED <<heap, put>>
       ELSE vhd_memmap_unref("ctl", heap, vdev.old_memmap)
    /\ vdev' = [vdev EXCEPT !.old_memmap = Null]
    /\ msg' = NoMsg
    /\ UNCHANGED <<vring, dying, iov, used_idx, log, written>>

----------------------------------------------------------------------------
(* The life of the vring, as far as its map depends on it. *)

\* SET_VRING_KICK: the address of the virtqueue is resolved, and the vring
\* started in its loop.
VringStart ==
    /\ Connected /\ ~InFlight
    /\ vdev.memmap # Null
    /\ IF uva_to_ptr(heap, vdev.memmap, RingUva) = Null
       THEN vdev' = [vdev EXCEPT !.closing = TRUE] /\ UNCHANGED vring
       ELSE vring' = [started |-> TRUE, mm |-> vdev.memmap] /\ UNCHANGED vdev
    /\ UNCHANGED <<heap, msg, put, dying, iov, used_idx, log, written>>

\* vdev_disconnect.  A message that waits for the virtqueue goes on.
Disconnect ==
    /\ ~Releasing("ctl") /\ ~vdev.closing
    /\ msg.pc = "idle" \/ (msg.pc \in {"sync", "complete"} /\ InFlight)
    /\ vdev' = [vdev EXCEPT !.closing = TRUE]
    /\ UNCHANGED <<heap, msg, vring, put, dying, iov, used_idx, log, written>>

\* vring_stop_bh, for GET_VRING_BASE or for a connection that closes; in the
\* latter case the requests that the backend does not have are cancelled, and
\* the guest gets no answer to them.
vring_stop_bh ==
    /\ vring.started /\ ~Releasing("rq")
    /\ \/ msg.pc = "idle" /\ UNCHANGED <<heap, put, iov>>
       \/ vdev.closing /\ \E C \in SUBSET {h \in DescHead : iov[h] # Null} :
                             virtio_free_iov(C)
    /\ vring' = [vring EXCEPT !.started = FALSE]
    /\ UNCHANGED <<vdev, msg, dying, used_idx, log, written>>

\* vdev_cleanup, once every vring has drained and no message is waited for.
vdev_cleanup ==
    /\ CtlIdle /\ vdev.closing /\ ~InFlight
    /\ IF vdev.memmap = Null THEN UNCHANGED <<heap, put>>
       ELSE vhd_memmap_unref("ctl", heap, vdev.memmap)
    /\ vdev' = [vdev EXCEPT !.memmap = Null, !.closing = FALSE]
    /\ vring' = [vring EXCEPT !.mm = Null]
    /\ UNCHANGED <<msg, dying, iov, used_idx, log, written>>

----------------------------------------------------------------------------
(* Requests, in the loop of the virtqueue. *)

\* virtq_dequeue_one: the buffers are resolved with the virtqueue's map, and
\* the request takes a reference of it.  A request with a buffer outside of
\* the map does not come into being.
virtq_dequeue_one(h, q) ==
    /\ vring.started /\ iov[h] = Null /\ ~Releasing("rq")
    /\ \A i \in DOMAIN q : gpa_range_to_ptr(heap, vring.mm, q[i].gpa, q[i].len) # Null
    /\ heap' = vhd_memmap_ref(heap, vring.mm)
    /\ iov' = [iov EXCEPT ![h] =
           [mm |-> vring.mm, guest |-> q,
            base |-> [i \in DOMAIN q |->
                gpa_range_to_ptr(heap, vring.mm, q[i].gpa, q[i].len)]]]
    /\ UNCHANGED <<vdev, msg, vring, put, dying, used_idx, log, written>>

\* vhd_log_modified: the buffers the device may have written, by the map the
\* request was started with, and the element and index of the used ring.
vhd_log_modified(m, h) ==
    LET q == iov[h].guest
        gpa == [i \in DOMAIN q |-> ptr_to_gpa(heap, m, iov[h].base[i])]
    IN  UNION {vhd_mark_gpa_range_dirty(gpa[i], q[i].len) :
                  i \in {j \in DOMAIN q : q[j].in /\ gpa[j] # Null}}
        \cup vhd_mark_gpa_range_dirty(UsedGpa, 1)
        \cup vhd_mark_gpa_range_dirty(UsedGpa + 1 + used_idx, 1)

\* What really changed, in pages that the log has a bit for.
PagesWritten(h) ==
    LET q == iov[h].guest
        bytes == {UsedGpa, UsedGpa + 1 + used_idx} \cup
                 UNION {q[i].gpa .. q[i].gpa + q[i].len - 1 :
                           i \in {j \in DOMAIN q : q[j].in}}
    IN  {a \div LogPage : a \in bytes} \cap 0 .. LogBits - 1

\* Mutant: pages are looked up in the map that the device has now.
virtq_push_Current(h) ==
    /\ iov[h] # Null /\ ~Releasing("rq")
    /\ log' = log \cup vhd_log_modified(vdev.memmap, h)
    /\ written' = written \cup PagesWritten(h)
    /\ used_idx' = (used_idx + 1) % QSize
    /\ virtio_free_iov({h})
    /\ UNCHANGED <<vdev, msg, vring, dying>>

\* virtq_push, and virtio_free_iov after it.
virtq_push(h) ==
    /\ iov[h] # Null /\ ~Releasing("rq")
    /\ log' = log \cup vhd_log_modified(iov[h].mm, h)
    /\ written' = written \cup PagesWritten(h)
    /\ used_idx' = (used_idx + 1) % QSize
    /\ virtio_free_iov({h})
    /\ UNCHANGED <<vdev, msg, vring, dying>>

\* The client reads the log and clears it.
HarvestLog ==
    /\ written # {}
    /\ log' = {} /\ written' = {}
    /\ UNCHANGED <<heap, vdev, msg, vring, put, dying, iov, used_idx>>

----------------------------------------------------------------------------
Next ==
    \/ \E t \in Thread : RegionUnref(t) \/ RegionRelease(t)
    \/ \E table \in Table : vhost_set_mem_table(table)
    \/ \E table \in Table : \E i \in DOMAIN table :
          vhost_add_mem_reg(table[i]) \/ vhost_rem_mem_reg(table[i])
    \/ AddSlot \/ RefCached \/ Resolve \/ Fail
    \/ vring_sync_to_virtq_bh \/ set_mem_table_complete
    \/ VringStart \/ Disconnect \/ vring_stop_bh \/ vdev_cleanup
    \/ \E h \in DescHead, q \in Request : virtq_dequeue_one(h, q)
    \/ \E h \in DescHead : virtq_push(h)
    \/ HarvestLog

Spec == Init /\ [][Next]_vars

----------------------------------------------------------------------------
(* Properties. *)

LiveMaps == {m \in Map : heap.mm[m] # Null}

\* Nothing that can still be reached has been unmapped: the regions of a map
\* that is not freed, the region a lookup in the list has found, the map a started
\* virtqueue resolves buffers with (which it does not hold a reference of), and
\* the buffers of every request in flight, whatever memory messages have been
\* handled since it was dequeued.
MapsAlive ==
    /\ \A m \in LiveMaps : \A r \in Range(heap.mm[m].regions) : heap.region[r] # Null
    /\ {vdev.memmap, vdev.old_memmap, msg.new} \subseteq LiveMaps \cup {Null}
    /\ msg.hit # Null => heap.region[msg.hit] # Null
    /\ vring.started => vring.mm \in LiveMaps
    /\ \A h \in DescHead : iov[h] # Null =>
          /\ iov[h].mm \in LiveMaps
          /\ \A i \in DOMAIN iov[h].base :
                iov[h].base[i][1] \in Range(heap.mm[iov[h].mm].regions)

\* A reference is only added to a region that something else holds: the one
\* that region_get_cached has found, and is about to take a reference of, has
\* not been released, nor has its last reference been dropped.
RefOnHeld ==
    msg.hit # Null => heap.region[msg.hit] # Null /\ heap.region[msg.hit].ref > 0

\* The reference counts are the numbers of holders: of a region, the maps it is
\* a slot of and the releases that have yet to reach it; of a map, the device,
\* the message that builds it and the requests that started with it.  The list
\* of regions is the regions that are mapped.  So what nobody holds is freed,
\* and no count reaches zero while there is a holder.
RegionsExact ==
    /\ heap.g_regions = {r \in Region : heap.region[r] # Null}
    /\ \A r \in heap.g_regions :
          heap.region[r].ref =
              Cardinality({m \in LiveMaps : r \in Range(heap.mm[m].regions)})
              + Len(SelectSeq(put["ctl"] \o put["rq"], LAMBDA x : x = r))
    /\ \A m \in LiveMaps :
          heap.mm[m].ref =
              Cardinality({h \in DescHead : iov[h] # Null /\ iov[h].mm = m})
              + (IF m \in {vdev.memmap, vdev.old_memmap, msg.new} THEN 1 ELSE 0)

\* Addresses next to the edges of the regions of map m.
Edges(m, Start(_)) ==
    UNION {{Start(d) - 1, Start(d), Start(d) + 1,
            Start(d) + d.size - 1, Start(d) + d.size} :
              d \in {DescAt(heap, m, i) : i \in DOMAIN heap.mm[m].regions}}
    \cap Address

\* In the current map a range of guest memory resolves exactly if one region
\* contains all of it, in integers that do not wrap, and to the place at the
\* same distance from that region's start; going back gives the address one
\* started from.  The same for the client's addresses.
TranslationExact ==
    vdev.memmap # Null =>
        LET m == vdev.memmap
            D(i) == DescAt(heap, m, i)
            slots == DOMAIN heap.mm[m].regions
            lens == UNION {{1, D(i).size - 1, D(i).size, D(i).size + 1} : i \in slots}
                    \cup {2 ^ AddrBits - 1}
        IN  /\ \A gpa \in Edges(m, LAMBDA d : d.gpa), len \in lens :
                  LET p == gpa_range_to_ptr(heap, m, gpa, len)
                      fit == {i \in slots : D(i).gpa <= gpa
                                            /\ gpa + len <= D(i).gpa + D(i).size}
                  IN  /\ (p = Null) <=> (fit = {})
                      /\ p # Null =>
                            /\ p \in {<<heap.mm[m].regions[i], gpa - D(i).gpa>> : i \in fit}
                            /\ len > 0 => ptr_to_gpa(heap, m, p) = gpa
            /\ \A uva \in Edges(m, LAMBDA d : d.uva) :
                  LET in == {i \in slots : uva \in D(i).uva .. D(i).uva + D(i).size - 1}
                  IN  uva_to_ptr(heap, m, uva) \in
                          IF in = {} THEN {Null}
                          ELSE {<<heap.mm[m].regions[i], uva - D(i).uva>> : i \in in}

\* The log has a bit for every page that was written on behalf of a request
\* the guest got an answer to, and for no other page, also if the region has
\* been removed from the current map while the request was in flight.
DirtyExact == log = written
=============================================================================
