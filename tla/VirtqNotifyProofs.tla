------------------------- MODULE VirtqNotifyProofs -------------------------
(***************************************************************************)
(* No kick and no call is lost, for every queue size and every width of    *)
(* the indices.                                                            *)
(***************************************************************************)
EXTENDS VirtqNotify, TLAPS

(* What is behind what on the ring. *)
InOrder(a, b, c) == Between(a, b) + Between(b, c) = Between(a, c)

(* The indices follow each other, the one the dequeue works with and the   *)
(* one the driver kicked for included.                                     *)
OrderInv ==
  /\ TypeOK
  /\ pc \in {"event", "reread", "take"} => InOrder(last_avail, avail, avail_idx)
  /\ pc \notin {"wait", "notify"} => enabled
  /\ Between(old, avail_idx) <= QSize
  /\ sub = "idle" => old = avail_idx

(* How far the device has seen, or is going to see without being kicked. *)
Seen == IF pc = "take" THEN avail ELSE last_avail

(* An enabled vring that is not kicked and will not read the index again   *)
(* has seen all that the driver kicked for, and asks to be kicked for the  *)
(* next.                                                                   *)
KickInv ==
  /\ pc \in {"reread", "take"} /\ has_event_idx => avail_event = avail
  /\ enabled /\ ~kickfd /\ pc \in {"wait", "notify", "take"} =>
       /\ has_event_idx => avail_event = Seen
       /\ InOrder(old, Seen, avail_idx)

(* A driver that sleeps, or is about to, has asked for the next call, and  *)
(* unless it is called has all but the element that is being notified.     *)
CallInv ==
  recv # "reap" =>
    /\ used_event = last_used /\ ~no_interrupt
    /\ notify_fd = "new" /\ ~callfd =>
         \/ last_used = used_idx
         \/ pc = "notify" /\ used_idx = Plus(last_used, 1)

IInv == OrderInv /\ KickInv /\ CallInv

-----------------------------------------------------------------------------
(* Indices.                                                                *)

(* One turn of the ring. *)
LEMMA ModFacts ==
  ASSUME NEW x \in Int
  PROVE  /\ x \in 0 .. Width - 1 => x % Width = x
         /\ x \in -Width .. -1 => x % Width = x + Width
         /\ x = Width => x % Width = 0
BY NotifyAssumption

LEMMA IndexFacts ==
  ASSUME NEW a \in Index, NEW b \in Index
  PROVE  /\ Between(a, b) = IF a <= b THEN b - a ELSE (b - a) + Width
         /\ Plus(a, 1) = IF a = Width - 1 THEN 0 ELSE a + 1
         /\ Plus(a, -1) = IF a = 0 THEN Width - 1 ELSE a - 1
<1>1. Width \in Nat /\ Width > 1 /\ a \in Int /\ b \in Int /\ 0 <= a /\ a < Width
      /\ 0 <= b /\ b < Width
  BY NotifyAssumption DEF Index
<1>2. Between(a, b) = IF a <= b THEN b - a ELSE (b - a) + Width
  <2>1. b - a \in Int /\ (a <= b => b - a \in 0 .. Width - 1)
        /\ (~(a <= b) => b - a \in -Width .. -1)
    BY <1>1
  <2>2. QED
    BY <2>1, ModFacts DEF Between
<1>3. Plus(a, 1) = IF a = Width - 1 THEN 0 ELSE a + 1
  <2>1. a + 1 \in Int /\ (a = Width - 1 => a + 1 = Width)
        /\ (a # Width - 1 => a + 1 \in 0 .. Width - 1)
    BY <1>1
  <2>2. QED
    BY <2>1, ModFacts DEF Plus
<1>4. Plus(a, -1) = IF a = 0 THEN Width - 1 ELSE a - 1
  <2>1. a + (-1) = a - 1 /\ a - 1 \in Int /\ (a = 0 => a - 1 \in -Width .. -1)
        /\ (a = 0 => (a - 1) + Width = Width - 1)
        /\ (a # 0 => a - 1 \in 0 .. Width - 1)
    BY <1>1
  <2>2. QED
    BY <2>1, ModFacts DEF Plus
<1>5. QED
  BY <1>2, <1>3, <1>4

(* How far it is from one index to another, and to the next. *)
LEMMA DistanceFacts ==
  ASSUME NEW a \in Index, NEW b \in Index
  PROVE  /\ Between(a, b) \in Nat /\ Between(a, b) < Width
         /\ Between(a, b) = 0 <=> a = b
         /\ Plus(a, 1) \in Index /\ Plus(a, 1) # a /\ Plus(Plus(a, 1), -1) = a
         /\ Between(a, b) < Width - 1 => Between(a, Plus(b, 1)) = Between(a, b) + 1
         /\ a # b => Between(Plus(a, 1), b) = Between(a, b) - 1
<1>1. Width \in Nat /\ Width > 1 /\ a \in Int /\ b \in Int /\ 0 <= a /\ a < Width
      /\ 0 <= b /\ b < Width
  BY NotifyAssumption DEF Index
<1>2. Between(a, b) \in Nat /\ Between(a, b) < Width /\ (Between(a, b) = 0 <=> a = b)
  BY <1>1, IndexFacts
<1>3. Plus(a, 1) \in Index /\ Plus(b, 1) \in Index /\ Plus(a, 1) # a
  <2>1. /\ Plus(a, 1) = IF a = Width - 1 THEN 0 ELSE a + 1
        /\ Plus(b, 1) = IF b = Width - 1 THEN 0 ELSE b + 1
    BY IndexFacts
  <2>2. QED
    BY <1>1, <2>1 DEF Index
<1>4. Plus(Plus(a, 1), -1) = a
  BY <1>1, <1>3, IndexFacts
<1>5. Between(a, b) < Width - 1 => Between(a, Plus(b, 1)) = Between(a, b) + 1
  BY <1>1, <1>3, IndexFacts
<1>6. a # b => Between(Plus(a, 1), b) = Between(a, b) - 1
  BY <1>1, <1>3, IndexFacts
<1>7. QED
  BY <1>2, <1>3, <1>4, <1>5, <1>6

(* Two distances that add up to less than a turn. *)
LEMMA OrderFacts ==
  ASSUME NEW a \in Index, NEW b \in Index, NEW c \in Index
  PROVE  /\ Between(a, b) + Between(b, c) < Width => InOrder(a, b, c)
         /\ InOrder(a, a, b) /\ InOrder(a, b, b)
<1>1. Width \in Nat /\ a \in Int /\ b \in Int /\ c \in Int
      /\ 0 <= a /\ a < Width /\ 0 <= b /\ b < Width /\ 0 <= c /\ c < Width
  BY NotifyAssumption DEF Index
<1>2. QED
  BY <1>1, IndexFacts DEF InOrder

(* The requests on the ring: used and not seen by the driver, with the     *)
(* backend, and not fetched.                                               *)
LEMMA RingFacts ==
  ASSUME OrderInv
  PROVE  /\ QSize \in Nat /\ Width \in Nat /\ QSize < Width
         /\ avail_idx \in Index /\ avail_event \in Index /\ used_idx \in Index
         /\ used_event \in Index /\ last_avail \in Index /\ avail \in Index
         /\ old \in Index /\ last_used \in Index
         /\ Between(last_used, used_idx) \in Nat /\ Between(used_idx, last_avail) \in Nat
         /\ Between(last_avail, avail_idx) \in Nat /\ Between(old, avail_idx) \in Nat
         /\ Between(last_used, avail_idx) =
              Between(last_used, used_idx) + Between(used_idx, last_avail)
              + Between(last_avail, avail_idx)
         /\ Between(last_used, avail_idx) <= QSize
         /\ Between(used_idx, avail_idx) =
              Between(used_idx, last_avail) + Between(last_avail, avail_idx)
<1>1. /\ QSize \in Nat /\ Width \in Nat /\ QSize < Width
      /\ avail_idx \in Index /\ avail_event \in Index /\ used_idx \in Index
      /\ used_event \in Index /\ last_avail \in Index /\ avail \in Index
      /\ old \in Index /\ last_used \in Index
  BY NotifyAssumption DEF OrderInv, TypeOK
<1>2. /\ Between(last_used, used_idx) \in Nat /\ Between(used_idx, last_avail) \in Nat
      /\ Between(last_avail, avail_idx) \in Nat /\ Between(old, avail_idx) \in Nat
      /\ Between(last_used, last_avail) \in Nat
  BY <1>1, DistanceFacts
<1>3. Between(last_used, used_idx) + Between(used_idx, last_avail) +
      Between(last_avail, avail_idx) <= QSize
  BY DEF OrderInv, TypeOK
<1>4. InOrder(last_used, used_idx, last_avail)
  BY <1>1, <1>2, <1>3, OrderFacts
<1>5. InOrder(last_used, last_avail, avail_idx) /\ InOrder(used_idx, last_avail, avail_idx)
  BY <1>1, <1>2, <1>3, <1>4, OrderFacts DEF InOrder
<1>6. QED
  BY <1>1, <1>2, <1>3, <1>4, <1>5 DEF InOrder

LEMMA InitIInv == Init => IInv
<1> SUFFICES ASSUME Init PROVE IInv
  OBVIOUS
<1>1. 0 \in Index /\ QSize \in Nat /\ 0 \in 0 .. MaxChange
  BY NotifyAssumption DEF Index
<1>2. Between(0, 0) = 0 /\ InOrder(0, 0, 0)
  BY <1>1, DistanceFacts, OrderFacts
<1>3. TypeOK
  <2>1. /\ Between(last_used, used_idx) = 0 /\ Between(used_idx, last_avail) = 0
        /\ Between(last_avail, avail_idx) = 0
    BY <1>2 DEF Init
  <2>2. Between(last_used, used_idx) + Between(used_idx, last_avail)
        + Between(last_avail, avail_idx) <= QSize
    BY <1>1, <2>1
  <2>3. QED
    BY <1>1, <2>2 DEF Init, TypeOK
<1>4. OrderInv
  BY <1>1, <1>2, <1>3 DEF Init, OrderInv
<1>5. QED
  BY <1>1, <1>2, <1>4 DEF Init, IInv, KickInv, CallInv, Seen

-----------------------------------------------------------------------------
(* The order of the indices.                                               *)

LEMMA PublishOrder == OrderInv /\ Publish => OrderInv'
<1> SUFFICES ASSUME OrderInv, Publish PROVE OrderInv'
  OBVIOUS
<1> USE DEF recvVars, confVars, queueVars
<1>1. UNCHANGED <<has_event_idx, avail_event, used_idx, used_event, no_interrupt,
                  kickfd, callfd, notify_fd, enabled, last_avail, avail, pc, old,
                  recv, last_used, changes>>
  BY DEF Publish
<1>2. avail_idx' = Plus(avail_idx, 1) /\ avail_idx' \in Index /\ sub' = "check"
  BY RingFacts, DistanceFacts DEF Publish
<1>3. Between(last_avail, avail_idx) < QSize /\ Between(old, avail_idx) < QSize
      /\ Between(last_used, avail_idx) < QSize
  BY RingFacts DEF Publish
<1>4. Between(last_avail, avail_idx)' = Between(last_avail, avail_idx) + 1
  BY <1>1, <1>2, <1>3, RingFacts, DistanceFacts
<1>5. Between(old, avail_idx)' = Between(old, avail_idx) + 1
  BY <1>1, <1>2, <1>3, RingFacts, DistanceFacts
<1>6. TypeOK'
  <2>1. Between(last_used', used_idx') + Between(used_idx', last_avail')
        + Between(last_avail', avail_idx') <= QSize
    BY <1>1, <1>3, <1>4, RingFacts
  <2>2. QED
    BY <1>1, <1>2, <2>1 DEF OrderInv, TypeOK
<1>7. ASSUME pc \in {"event", "reread", "take"} PROVE InOrder(last_avail', avail', avail_idx')
  <2>1. /\ Between(last_avail, avail) + Between(avail, avail_idx) = Between(last_avail, avail_idx)
        /\ Between(last_avail, avail) \in Nat /\ Between(avail, avail_idx) \in Nat
    BY <1>7, RingFacts, DistanceFacts DEF OrderInv, InOrder
  <2>2. Between(avail, avail_idx') = Between(avail, avail_idx) + 1
    <3>1. Between(avail, avail_idx) < Width - 1
      BY <1>3, <2>1, RingFacts
    <3>2. avail \in Index /\ avail_idx \in Index
      BY RingFacts
    <3>3. Between(avail, Plus(avail_idx, 1)) = Between(avail, avail_idx) + 1
      BY <3>1, <3>2, DistanceFacts
    <3>4. QED
      BY <1>2, <3>3
  <2>3. QED
    BY <1>1, <1>4, <2>1, <2>2 DEF InOrder
<1>8. Between(old', avail_idx') <= QSize
  BY <1>1, <1>3, <1>5, RingFacts
<1>9. QED
  BY <1>1, <1>2, <1>6, <1>7, <1>8 DEF OrderInv

LEMMA KickOrder == OrderInv /\ Kick => OrderInv'
<1> SUFFICES ASSUME OrderInv, Kick PROVE OrderInv'
  OBVIOUS
<1>1. Between(avail_idx, avail_idx) <= QSize
  <2>1. Between(avail_idx, avail_idx) = 0
    BY RingFacts, DistanceFacts
  <2>2. QED
    BY <2>1, RingFacts
<1>2. kickfd' \in BOOLEAN
  BY DEF Kick
<1>3. QED
  BY <1>1, <1>2 DEF Kick, OrderInv, TypeOK, recvVars, confVars, queueVars, InOrder

LEMMA DriverOrder == OrderInv /\ (Interrupt \/ Reap \/ Recheck) => OrderInv'
<1> SUFFICES ASSUME OrderInv, Interrupt \/ Reap \/ Recheck PROVE OrderInv'
  OBVIOUS
<1> USE DEF subVars, confVars, queueVars
<1>1. UNCHANGED <<has_event_idx, avail_idx, avail_event, used_idx, kickfd, notify_fd,
                  enabled, last_avail, avail, pc, sub, old, changes>>
  BY DEF Interrupt, Reap, Recheck
<1>2. /\ used_event' \in Index /\ no_interrupt' \in BOOLEAN /\ callfd' \in BOOLEAN
      /\ recv' \in {"idle", "reap", "recheck"}
  BY DEF Interrupt, Reap, Recheck, OrderInv, TypeOK
<1>3. last_used' \in Index /\ Between(last_used', used_idx) <= Between(last_used, used_idx)
      /\ Between(last_used', used_idx) \in Nat
  <2>1. CASE last_used' = last_used
    BY <2>1, RingFacts
  <2>2. CASE last_used # used_idx /\ last_used' = Plus(last_used, 1)
    BY <2>2, RingFacts, DistanceFacts
  <2>3. QED
    BY <2>1, <2>2 DEF Interrupt, Reap, Recheck
<1>4. Between(last_used', used_idx') + Between(used_idx', last_avail')
      + Between(last_avail', avail_idx') <= QSize
  BY <1>1, <1>3, RingFacts DEF OrderInv, TypeOK
<1>5. TypeOK'
  BY <1>1, <1>2, <1>3, <1>4 DEF OrderInv, TypeOK
<1>6. QED
  BY <1>1, <1>5 DEF OrderInv, InOrder

LEMMA DequeueOrder ==
  OrderInv /\ (VirtqDequeueMany \/ VirtqSetAvailEvent \/ RereadAvail) => OrderInv'
<1> SUFFICES ASSUME OrderInv, VirtqDequeueMany \/ VirtqSetAvailEvent \/ RereadAvail
             PROVE  OrderInv'
  OBVIOUS
<1> USE DEF subVars, recvVars, confVars
<1>1. UNCHANGED <<has_event_idx, avail_idx, used_idx, used_event, no_interrupt, kickfd,
                  callfd, notify_fd, enabled, last_avail, sub, old, recv, last_used,
                  changes>>
  BY DEF VirtqDequeueMany, VirtqSetAvailEvent, RereadAvail
<1>2. /\ avail' \in Index /\ avail_event' \in Index
      /\ pc \notin {"wait", "notify"} /\ pc' \in {"event", "reread", "take"}
  BY DEF VirtqDequeueMany, VirtqSetAvailEvent, RereadAvail, OrderInv, TypeOK
<1>3. InOrder(last_avail, avail', avail_idx)
  <2>1. InOrder(last_avail, avail_idx, avail_idx)
    BY RingFacts, OrderFacts
  <2>2. QED
    BY <2>1 DEF VirtqDequeueMany, VirtqSetAvailEvent, RereadAvail, OrderInv
<1>4. TypeOK'
  BY <1>1, <1>2 DEF OrderInv, TypeOK
<1>5. QED
  BY <1>1, <1>2, <1>3, <1>4 DEF OrderInv

LEMMA TakeOrder ==
  ASSUME OrderInv, VirtqDequeueOne
  PROVE  /\ OrderInv'
         /\ pc' = "wait" => last_avail = avail
<1> USE DEF subVars, recvVars, confVars
<1>1. UNCHANGED <<has_event_idx, avail_idx, avail_event, used_idx, used_event, avail,
                  no_interrupt, kickfd, callfd, notify_fd, enabled, sub, old, recv,
                  last_used, changes>>
  BY DEF VirtqDequeueOne
<1>2. pc = "take" /\ enabled
  BY DEF VirtqDequeueOne, OrderInv
<1>3. /\ Between(last_avail, avail) + Between(avail, avail_idx) = Between(last_avail, avail_idx)
      /\ Between(last_avail, avail) \in Nat /\ Between(avail, avail_idx) \in Nat
  BY <1>2, RingFacts, DistanceFacts DEF OrderInv, InOrder
<1>4. CASE Between(last_avail, avail) \in 1 .. QSize
  <2>1. last_avail' = Plus(last_avail, 1) /\ last_avail' \in Index /\ pc' = pc
    BY <1>4, RingFacts, DistanceFacts DEF VirtqDequeueOne
  <2>2. Between(last_avail, avail) # 0 /\ Between(last_avail, avail_idx) # 0
    BY <1>3, <1>4, RingFacts
  <2>3. last_avail # avail /\ last_avail # avail_idx
    BY <2>2, RingFacts, DistanceFacts
  <2>4. /\ Between(last_avail', avail) = Between(last_avail, avail) - 1
        /\ Between(last_avail', avail_idx) = Between(last_avail, avail_idx) - 1
    BY <2>1, <2>3, RingFacts, DistanceFacts
  <2>5. Between(used_idx, last_avail') = Between(used_idx, last_avail) + 1
    <3>1. Between(used_idx, last_avail) < Width - 1
      BY <2>2, RingFacts
    <3>2. used_idx \in Index /\ last_avail \in Index
      BY RingFacts
    <3>3. Between(used_idx, Plus(last_avail, 1)) = Between(used_idx, last_avail) + 1
      BY <3>1, <3>2, DistanceFacts
    <3>4. QED
      BY <2>1, <3>3
  <2>6. Between(last_used', used_idx') + Between(used_idx', last_avail')
        + Between(last_avail', avail_idx') <= QSize
    BY <1>1, <2>4, <2>5, RingFacts
  <2>7. TypeOK'
    BY <1>1, <2>1, <2>6 DEF OrderInv, TypeOK
  <2>8. InOrder(last_avail', avail', avail_idx')
    BY <1>1, <1>3, <2>4 DEF InOrder
  <2>9. QED
    BY <1>1, <1>2, <2>1, <2>7, <2>8 DEF OrderInv
<1>5. CASE Between(last_avail, avail) \notin 1 .. QSize
  <2>1. pc' = "wait" /\ last_avail' = last_avail
    BY <1>5 DEF VirtqDequeueOne
  <2>2. Between(last_avail, avail) = 0
    BY <1>3, <1>5, RingFacts
  <2>3. last_avail = avail
    BY <2>2, RingFacts, DistanceFacts
  <2>4. QED
    BY <1>1, <2>1, <2>3 DEF OrderInv, TypeOK
<1>6. QED
  BY <1>4, <1>5

LEMMA PushOrder == OrderInv /\ VirtqPush => OrderInv'
<1> SUFFICES ASSUME OrderInv, VirtqPush PROVE OrderInv'
  OBVIOUS
<1> USE DEF subVars, recvVars, confVars
<1>1. UNCHANGED <<has_event_idx, avail_idx, avail_event, used_event, avail, last_avail,
                  no_interrupt, kickfd, callfd, notify_fd, enabled, sub, old, recv,
                  last_used, changes>>
  BY DEF VirtqPush
<1>2. /\ used_idx # last_avail /\ pc' = "notify"
      /\ used_idx' = Plus(used_idx, 1) /\ used_idx' \in Index
  BY RingFacts, DistanceFacts DEF VirtqPush
<1>3. Between(used_idx, last_avail) # 0 /\ Between(used_idx', last_avail) = Between(used_idx, last_avail) - 1
  <2>1. used_idx \in Index /\ last_avail \in Index
    BY Zenon, RingFacts
  <2>2. /\ Between(used_idx, last_avail) # 0
        /\ Between(Plus(used_idx, 1), last_avail) = Between(used_idx, last_avail) - 1
    BY Zenon, <1>2, <2>1, DistanceFacts
  <2>3. QED
    BY Zenon, <1>2, <2>2
<1>4. Between(last_used, used_idx') = Between(last_used, used_idx) + 1
  <2>1. Between(last_used, used_idx) < Width - 1
    BY <1>3, RingFacts
  <2>2. last_used \in Index /\ used_idx \in Index
    BY Zenon, RingFacts
  <2>3. Between(last_used, Plus(used_idx, 1)) = Between(last_used, used_idx) + 1
    BY Zenon, <2>1, <2>2, DistanceFacts
  <2>4. QED
    BY Zenon, <1>2, <2>3
<1>5. Between(last_used', used_idx') + Between(used_idx', last_avail')
      + Between(last_avail', avail_idx') <= QSize
  BY <1>1, <1>3, <1>4, RingFacts
<1>6. TypeOK'
  BY <1>1, <1>2, <1>5 DEF OrderInv, TypeOK
<1>7. QED
  BY <1>1, <1>2, <1>6 DEF OrderInv

LEMMA RestartOrder == OrderInv /\ Restart => OrderInv'
<1> SUFFICES ASSUME OrderInv, Restart PROVE OrderInv'
  OBVIOUS
<1> USE DEF subVars, recvVars
<1>1. /\ UNCHANGED <<has_event_idx, avail_idx, avail_event, used_idx, used_event,
                     no_interrupt, sub, old, recv, last_used>>
      /\ notify_fd' = "old" /\ callfd' = FALSE /\ kickfd' = FALSE /\ enabled' = FALSE
      /\ last_avail' = used_idx /\ avail' = 0 /\ pc' = "wait"
  BY DEF Restart
<1>2. changes' \in 0 .. MaxChange
  BY NotifyAssumption DEF Restart, OrderInv, TypeOK
<1>3. 0 \in Index
  BY NotifyAssumption DEF Index
<1>4. Between(used_idx, used_idx) = 0
  BY RingFacts, DistanceFacts
<1>5. Between(last_used', used_idx') + Between(used_idx', last_avail')
      + Between(last_avail', avail_idx') <= QSize
  BY <1>1, <1>4, RingFacts
<1>6. TypeOK'
  BY <1>1, <1>2, <1>3, <1>5 DEF OrderInv, TypeOK
<1>7. QED
  BY <1>1, <1>6 DEF OrderInv

LEMMA OtherOrder ==
  ASSUME OrderInv, VringKick \/ VirtqNotify \/ ChangeCallFd
                   \/ \E on \in BOOLEAN : VringSyncToVirtq(on)
  PROVE  OrderInv'
<1> USE DEF subVars, recvVars, confVars, queueVars
<1>1. UNCHANGED <<has_event_idx, avail_idx, avail_event, used_idx, used_event, avail,
                  last_avail, no_interrupt, sub, old, recv, last_used>>
  BY DEF VringKick, VirtqNotify, ChangeCallFd, VringSyncToVirtq
<1>2. /\ pc' = pc \/ pc' \in {"wait", "read"}
      /\ pc' \notin {"wait", "notify"} => enabled'
      /\ notify_fd' \in {"new", "old"}
  BY DEF VringKick, VirtqNotify, ChangeCallFd, VringSyncToVirtq, OrderInv, TypeOK
<1>3. changes' \in 0 .. MaxChange
  BY NotifyAssumption DEF VringKick, VirtqNotify, ChangeCallFd, VringSyncToVirtq, OrderInv, TypeOK
<1>4. kickfd' \in BOOLEAN /\ callfd' \in BOOLEAN /\ enabled' \in BOOLEAN
  BY DEF VringKick, VirtqNotify, ChangeCallFd, VringSyncToVirtq, OrderInv, TypeOK
<1>5. TypeOK'
  BY <1>1, <1>2, <1>3, <1>4 DEF OrderInv, TypeOK
<1>6. QED
  BY <1>1, <1>2, <1>5 DEF OrderInv

LEMMA StepOrder == OrderInv /\ [Next]_vars => OrderInv'
<1> SUFFICES ASSUME OrderInv, [Next]_vars PROVE OrderInv'
  OBVIOUS
<1>1. CASE UNCHANGED vars
  BY <1>1 DEF vars, OrderInv, TypeOK, InOrder
<1>2. QED
  BY <1>1, PublishOrder, KickOrder, DriverOrder, DequeueOrder, TakeOrder, PushOrder,
     RestartOrder, OtherOrder DEF Next, DriverStep, RqStep

-----------------------------------------------------------------------------
(* Kicks.                                                                  *)

(* Whatever is published after the last kick has yet to be kicked for. *)
LEMMA PublishKick == OrderInv /\ KickInv /\ Publish => KickInv'
<1> SUFFICES ASSUME OrderInv, KickInv, Publish PROVE KickInv'
  OBVIOUS
<1> USE DEF recvVars, confVars, queueVars
<1>1. UNCHANGED <<has_event_idx, avail_event, kickfd, enabled, last_avail, avail, pc, old>>
  BY DEF Publish
<1>2. avail_idx' = Plus(avail_idx, 1) /\ Between(old, avail_idx) < QSize
  BY DEF Publish
<1>3. Seen' = Seen
  BY <1>1 DEF Seen
<1>4. ASSUME InOrder(old, Seen, avail_idx) PROVE InOrder(old, Seen, avail_idx')
  <2>1. Seen \in Index /\ old \in Index /\ avail_idx \in Index
    BY RingFacts DEF Seen
  <2>2. /\ Between(old, Seen) \in Nat /\ Between(Seen, avail_idx) \in Nat
        /\ Between(old, avail_idx) \in Nat
    BY <2>1, DistanceFacts
  <2>3. Between(old, avail_idx) < Width - 1 /\ Between(Seen, avail_idx) < Width - 1
    BY <1>2, <1>4, <2>2, RingFacts DEF InOrder
  <2>4. /\ Between(old, Plus(avail_idx, 1)) = Between(old, avail_idx) + 1
        /\ Between(Seen, Plus(avail_idx, 1)) = Between(Seen, avail_idx) + 1
    BY <2>1, <2>3, DistanceFacts
  <2>5. QED
    BY <1>2, <1>4, <2>2, <2>4 DEF InOrder
<1>5. QED
  BY <1>1, <1>3, <1>4 DEF KickInv

(* The driver kicks if the device has not seen all that it published: the  *)
(* event index is then between what it kicked for before and now.          *)
LEMMA KickKick == OrderInv /\ KickInv /\ Kick => KickInv'
<1> SUFFICES ASSUME OrderInv, KickInv, Kick PROVE KickInv'
  OBVIOUS
<1> USE DEF recvVars, confVars, queueVars
<1>1. /\ UNCHANGED <<has_event_idx, avail_event, avail_idx, enabled, last_avail, avail, pc>>
      /\ old' = avail_idx
      /\ kickfd' = (kickfd \/ ~has_event_idx \/ NeedEvent(avail_event, avail_idx, old))
  BY DEF Kick
<1>2. Seen' = Seen
  BY <1>1 DEF Seen
<1>3. ASSUME enabled, ~kickfd', pc \in {"wait", "notify", "take"}
      PROVE  Seen = avail_idx /\ has_event_idx /\ avail_event = Seen
  <2>1. ~kickfd /\ has_event_idx /\ ~NeedEvent(avail_event, avail_idx, old)
    BY <1>1, <1>3
  <2>2. avail_event = Seen /\ InOrder(old, Seen, avail_idx)
    BY <1>3, <2>1 DEF KickInv
  <2>3. Seen \in Index /\ old \in Index /\ avail_idx \in Index
    BY RingFacts DEF Seen
  <2>4. /\ Between(old, Seen) \in Nat /\ Between(Seen, avail_idx) \in Nat
        /\ Between(old, avail_idx) \in Nat
    BY <2>3, DistanceFacts
  <2>5. Between(Seen, avail_idx) - 1 \notin 0 .. Between(old, avail_idx) - 1
    BY <2>1, <2>2 DEF NeedEvent
  <2>6. Between(Seen, avail_idx) = 0
    BY <2>2, <2>4, <2>5 DEF InOrder
  <2>7. QED
    BY <2>1, <2>2, <2>3, <2>6, DistanceFacts
<1>4. InOrder(avail_idx, avail_idx, avail_idx)
  BY RingFacts, OrderFacts
<1>5. QED
  BY <1>1, <1>2, <1>3, <1>4 DEF KickInv

LEMMA DequeueKick ==
  ASSUME OrderInv, KickInv, VirtqDequeueMany \/ VirtqSetAvailEvent \/ RereadAvail
  PROVE  KickInv'
<1> USE DEF subVars, recvVars, confVars
<1>1. UNCHANGED <<has_event_idx, avail_idx, kickfd, enabled, last_avail, old>>
  BY DEF VirtqDequeueMany, VirtqSetAvailEvent, RereadAvail
<1>2. CASE VirtqSetAvailEvent
  BY <1>2 DEF VirtqSetAvailEvent, KickInv
<1>3. CASE VirtqDequeueMany \/ RereadAvail
  <2>1. /\ avail' = avail_idx /\ avail_event' = avail_event
        /\ pc' \in {"event", "take"}
        /\ pc' = "take" /\ has_event_idx => avail_event = avail'
    BY <1>3 DEF VirtqDequeueMany, RereadAvail, KickInv
  <2>2. pc' = "take" => Seen' = avail_idx
    BY <2>1 DEF Seen
  <2>3. InOrder(old, avail_idx, avail_idx)
    BY RingFacts, OrderFacts
  <2>4. QED
    BY <1>1, <2>1, <2>2, <2>3 DEF KickInv
<1>4. QED
  BY <1>2, <1>3

LEMMA TakeKick == OrderInv /\ KickInv /\ VirtqDequeueOne => KickInv'
<1> SUFFICES ASSUME OrderInv, KickInv, VirtqDequeueOne PROVE KickInv'
  OBVIOUS
<1>1. UNCHANGED <<has_event_idx, avail_idx, avail_event, kickfd, enabled, avail, old>>
  BY DEF VirtqDequeueOne, subVars, confVars
<1>2. pc = "take" /\ pc' \in {"take", "wait"} /\ (pc' = "wait" => last_avail' = last_avail)
  BY DEF VirtqDequeueOne
<1>3. Seen = avail /\ Seen' = avail
  BY <1>1, <1>2, TakeOrder DEF Seen
<1>4. QED
  BY <1>1, <1>2, <1>3 DEF KickInv

LEMMA OtherKick ==
  ASSUME OrderInv, KickInv,
         \/ VringKick \/ VirtqNotify \/ VirtqPush \/ ChangeCallFd \/ Restart
         \/ Interrupt \/ Reap \/ Recheck \/ \E on \in BOOLEAN : VringSyncToVirtq(on)
  PROVE  KickInv'
<1> USE DEF subVars, recvVars, confVars, queueVars
<1>1. UNCHANGED <<has_event_idx, avail_idx, avail_event, old>>
  BY DEF VringKick, VirtqNotify, VirtqPush, ChangeCallFd, Restart, Interrupt, Reap,
         Recheck, VringSyncToVirtq
<1>2. \/ UNCHANGED <<kickfd, enabled, last_avail, avail, pc>>
      \/ /\ UNCHANGED <<kickfd, enabled, last_avail, avail>>
         /\ pc \in {"wait", "notify"} /\ pc' \in {"wait", "notify"}
      \/ pc' = "wait" /\ (kickfd' \/ ~enabled')
      \/ pc' = "read"
      \/ UNCHANGED <<last_avail, avail, pc>> /\ pc = "wait"
         /\ (kickfd => kickfd') /\ (enabled' => enabled)
  BY DEF VringKick, VirtqNotify, VirtqPush, ChangeCallFd, Restart, Interrupt, Reap,
         Recheck, VringSyncToVirtq
<1>3. CASE /\ UNCHANGED <<kickfd, enabled, last_avail, avail>>
           /\ \/ pc' = pc
              \/ pc \in {"wait", "notify"} /\ pc' \in {"wait", "notify"}
  <2>1. Seen' = Seen
    BY <1>3 DEF Seen
  <2>2. QED
    BY <1>1, <1>3, <2>1 DEF KickInv
<1>4. CASE /\ UNCHANGED <<last_avail, avail, pc>> /\ pc = "wait"
           /\ (kickfd => kickfd') /\ (enabled' => enabled)
  <2>1. Seen' = Seen
    BY <1>4 DEF Seen
  <2>2. QED
    BY <1>1, <1>4, <2>1 DEF KickInv
<1>5. CASE (pc' = "wait" /\ (kickfd' \/ ~enabled')) \/ pc' = "read"
  BY <1>5 DEF KickInv
<1>6. QED
  BY <1>2, <1>3, <1>4, <1>5

-----------------------------------------------------------------------------
(* Calls.                                                                  *)

LEMMA StepCall == OrderInv /\ CallInv /\ [Next]_vars => CallInv'
<1> SUFFICES ASSUME OrderInv, CallInv, [Next]_vars PROVE CallInv'
  OBVIOUS
<1> USE DEF subVars, recvVars, confVars, queueVars
<1>1. CASE UNCHANGED <<used_event, no_interrupt, notify_fd, recv, last_used, used_idx>>
           /\ (callfd => callfd') /\ (pc = "notify" => pc' = "notify")
  BY <1>1 DEF CallInv
<1>2. CASE Interrupt \/ ChangeCallFd \/ Restart \/ \E on \in BOOLEAN : VringSyncToVirtq(on)
  BY <1>2 DEF Interrupt, ChangeCallFd, Restart, VringSyncToVirtq, CallInv
<1>3. CASE Reap
  BY <1>3 DEF Reap, CallInv
<1>4. CASE Recheck
  BY <1>4 DEF Recheck, CallInv
<1>5. CASE VirtqPush
  BY <1>5 DEF VirtqPush, CallInv
<1>6. CASE VirtqNotify
  <2>1. used_idx = Plus(last_used, 1) => Plus(used_idx, -1) = last_used
    BY RingFacts, DistanceFacts
  <2>2. QED
    BY <1>6, <2>1 DEF VirtqNotify, virtq_need_notify, CallInv
<1>7. CASE UNCHANGED vars
  BY <1>1, <1>7 DEF vars
<1>8. CASE Publish \/ Kick \/ VringKick \/ VirtqDequeueMany \/ VirtqSetAvailEvent
           \/ RereadAvail \/ VirtqDequeueOne
  BY <1>1, <1>8 DEF Publish, Kick, VringKick, VirtqDequeueMany, VirtqSetAvailEvent,
                    RereadAvail, VirtqDequeueOne
<1>9. QED
  BY <1>2, <1>3, <1>4, <1>5, <1>6, <1>7, <1>8 DEF Next, DriverStep, RqStep

-----------------------------------------------------------------------------
LEMMA StepIInv == IInv /\ [Next]_vars => IInv'
<1> SUFFICES ASSUME IInv, [Next]_vars PROVE IInv'
  OBVIOUS
<1>1. OrderInv /\ KickInv /\ CallInv
  BY DEF IInv
<1>2. CASE UNCHANGED vars
  <2>1. KickInv'
    BY <1>1, <1>2 DEF vars, KickInv, Seen, InOrder
  <2>2. QED
    BY <1>1, <2>1, StepOrder, StepCall DEF IInv
<1>3. KickInv'
  BY <1>1, <1>2, PublishKick, KickKick, DequeueKick, TakeKick, OtherKick
     DEF Next, DriverStep, RqStep, IInv
<1>4. QED
  BY <1>1, <1>3, StepOrder, StepCall DEF IInv

(* An enabled vring that waits, with its kick fd not readable, has fetched *)
(* every request that the driver is done with, for every queue size and    *)
(* through any reconfiguration or death of the server (vring_kick,         *)
(* virtq_dequeue_many and vring_sync_to_virtq).                            *)
THEOREM NoKickLost == Spec => []NoLostKick
<1>1. IInv => NoLostKick
  <2> SUFFICES ASSUME IInv PROVE NoLostKick
    OBVIOUS
  <2>1. OrderInv /\ KickInv
    BY DEF IInv
  <2>2. ASSUME pc = "wait", enabled, ~kickfd, sub = "idle" PROVE last_avail = avail_idx
    <3>1. old = avail_idx /\ InOrder(old, last_avail, avail_idx)
      BY <2>1, <2>2 DEF OrderInv, KickInv, Seen
    <3>2. Between(avail_idx, avail_idx) = 0 /\ Between(avail_idx, last_avail) \in Nat
          /\ Between(last_avail, avail_idx) \in Nat
      BY <2>1, RingFacts, DistanceFacts
    <3>3. Between(last_avail, avail_idx) = 0
      BY <3>1, <3>2 DEF InOrder
    <3>4. QED
      BY <2>1, <3>3, RingFacts, DistanceFacts
  <2>3. QED
    BY <2>1, <2>2 DEF NoLostKick, OrderInv
<1>2. QED
  BY <1>1, InitIInv, StepIInv, PTL DEF Spec

(* A driver that sleeps has seen every used element or is called, once its *)
(* call fd is known to the request queue (virtq_push, virtq_need_notify    *)
(* and vring_sync_to_virtq).                                               *)
THEOREM NoCallLost == Spec => []NoLostCall
<1>1. IInv => NoLostCall
  BY DEF IInv, CallInv, NoLostCall
<1>2. QED
  BY <1>1, InitIInv, StepIInv, PTL DEF Spec
=============================================================================
