-------------------------- MODULE EventLoopProofs --------------------------
(***************************************************************************)
(* Proofs about the bottom halves of an event loop, for any number of      *)
(* threads and BHs.                                                        *)
(***************************************************************************)
EXTENDS EventLoop, ListProofs

-----------------------------------------------------------------------------
(* The inductive invariant.                                                *)

(* A list that is not empty is about to be taken, or announced; a loop     *)
(* that is announced to be woken up is woken up.                           *)
WakeInv ==
  /\ bh_list # <<>> =>
       notified \/ loop \in {"swap", "done", "freed"}
       \/ \E t \in Thread : pc[t] = "notify"
  /\ notified => notifyfd \/ loop = "accepted" \/ \E t \in Thread : pc[t] = "set"

(* PENDING marks the BHs the loop holds or a thread is about to link. *)
LinkInv ==
  /\ Distinct(bh_list) /\ Distinct(taken)
  /\ Range(bh_list) \cap Range(taken) = {}
  /\ loop = "flags" => bh \notin Range(bh_list) \cup Range(taken)
  /\ \A b \in Held : "PENDING" \in flags[b]
  /\ \A t \in Thread : pc[t] = "insert" =>
       /\ "PENDING" \in flags[arg[t]] /\ arg[t] \notin Held
       /\ \A u \in Thread : pc[u] = "insert" /\ arg[u] = arg[t] => u = t
  /\ loop \notin {"dequeue", "flags", "call", "free"} => taken = <<>>

Mortal == {"DELETED", "ONESHOT"}

(* A BH that is freed, or will be once its callback is over, is marked so  *)
(* that nobody queues it any more.                                         *)
FreeInv ==
  /\ loop # "freed" => \A b \in freed :
       "PENDING" \notin flags[b] /\ flags[b] \cap Mortal # {}
  /\ loop \in {"call", "free"} =>
       /\ bh \notin freed
       /\ got \cap Mortal \subseteq flags[bh]
       /\ got \cap Mortal # {} => "PENDING" \notin flags[bh]
  /\ loop = "freed" => bh_list = <<>> /\ \A t \in Thread : pc[t] = "idle"

IInv == TypeOK /\ WakeInv /\ LinkInv /\ FreeInv

(* The loop starts with empty lists and no flag set. *)
LEMMA InitIInv == Init => IInv
BY EmptyFacts, LoopAssumption
   DEF Init, IInv, TypeOK, WakeInv, LinkInv, FreeInv, Held, Flag, Mortal

(* What the first step of bh_enqueue keeps, for a BH that nobody is to     *)
(* free: the thread will link it only if no list has it.                   *)
LEMMA EnqueueIInv ==
  ASSUME IInv, NEW t \in Thread, NEW b \in Bh, NEW new \in SUBSET Flag,
         MayCall(t), flags[b] \cap Mortal = {},
         "PENDING" \notin new, "ONESHOT" \in new => b \in Oneshot,
         bh_enqueue(t, b, new), due' \subseteq Bh
  PROVE  IInv'
<1> USE DEF IInv, Mortal
<1>1. Held' = Held
  BY DEF bh_enqueue, Held, notifyVars, pollVars
<1>2. TypeOK'
  BY DEF bh_enqueue, TypeOK, notifyVars, pollVars, Flag
<1>3. WakeInv'
  BY DEF bh_enqueue, WakeInv, MayCall, TypeOK, notifyVars, pollVars
<1>4. LinkInv'
  <2>1. CASE "PENDING" \in flags[b]
    BY <1>1, <2>1 DEF bh_enqueue, LinkInv, TypeOK, MayCall, Held, notifyVars,
                      pollVars
  <2>2. CASE "PENDING" \notin flags[b]
    <3>1. b \notin Held /\ \A u \in Thread : pc[u] = "insert" => arg[u] # b
      BY <2>2 DEF LinkInv
    <3> QED
      BY <1>1, <2>2, <3>1 DEF bh_enqueue, LinkInv, TypeOK, MayCall, Held,
                              notifyVars, pollVars
  <2> QED BY <2>1, <2>2
<1>5. FreeInv'
  BY DEF bh_enqueue, FreeInv, TypeOK, MayCall, notifyVars, pollVars
<1> QED BY <1>2, <1>3, <1>4, <1>5

(* A call of the interface of the loop keeps the invariant. *)
LEMMA CallIInv ==
  ASSUME IInv, NEW t \in Thread, Call(t)
  PROVE  IInv'
<1> USE LoopAssumption
<1>1. CASE VhdTerminateEventLoop(t)
  <2>1. Held \subseteq Bh
    BY DEF IInv, TypeOK, Held, Range
  <2> QED
    BY <1>1, <2>1, EnqueueIInv DEF VhdTerminateEventLoop, Flag
<1>2. ASSUME NEW b \in Bh, VhdBhSchedule(t, b) PROVE IInv'
  <2>1. flags[b] \cap Mortal = {}
    BY <1>2 DEF VhdBhSchedule, Usable, Mortal, IInv, TypeOK
  <2>2. due' \subseteq Bh
    BY <1>2 DEF VhdBhSchedule, IInv, TypeOK
  <2> QED
    BY <1>2, <2>1, <2>2, EnqueueIInv DEF VhdBhSchedule, Flag
<1>3. ASSUME NEW b \in Bh, VhdBhScheduleOneshot(t, b) PROVE IInv'
  BY <1>3, EnqueueIInv DEF VhdBhScheduleOneshot, Flag, IInv, TypeOK
<1>4. ASSUME NEW b \in Bh, VhdBhDelete(t, b) PROVE IInv'
  BY <1>4, EnqueueIInv DEF VhdBhDelete, Flag, Mortal, IInv, FreeInv, TypeOK
<1>5. ASSUME NEW b \in Bh, VhdBhCancel(t, b) PROVE IInv'
  <2> USE <1>5 DEF VhdBhCancel, IInv, enqVars, notifyVars, pollVars
  <2>1. Held' = Held
    BY DEF Held
  <2>2. TypeOK'
    BY DEF TypeOK
  <2>3. WakeInv'
    BY DEF WakeInv
  <2>4. LinkInv'
    <3>1. Held \subseteq Bh
      BY DEF TypeOK, Held, Range
    <3>2. \A c \in Bh : "PENDING" \in flags[c] => "PENDING" \in flags'[c]
      BY DEF TypeOK
    <3> QED
      BY <2>1, <3>1, <3>2 DEF LinkInv, TypeOK
  <2>5. FreeInv'
    BY DEF FreeInv, TypeOK, Mortal
  <2> QED BY <2>2, <2>3, <2>4, <2>5
<1> QED BY <1>1, <1>2, <1>3, <1>4, <1>5 DEF Call

(* The rest of bh_enqueue: the BH is linked and the loop notified. *)
LEMMA EnqueueStepIInv ==
  ASSUME IInv, NEW t \in Thread, BhEnqueueStep(t)
  PROVE  IInv'
<1> USE DEF IInv, notifyVars, pollVars, listVars
<1>1. CASE BhInsert(t)
  <2>1. /\ bh_list' \in Seq(Bh)
        /\ Range(bh_list') = {arg[t]} \cup Range(bh_list)
        /\ Distinct(bh_list')
    <3>1. arg[t] \in Bh /\ arg[t] \notin Range(bh_list)
      BY <1>1 DEF BhInsert, TypeOK, LinkInv, Held
    <3> QED
      BY <1>1, <3>1, ConsFacts DEF BhInsert, TypeOK, LinkInv
  <2>2. Held' = {arg[t]} \cup Held
    BY <1>1, <2>1 DEF BhInsert, Held
  <2>3. TypeOK'
    BY <1>1, <2>1 DEF BhInsert, TypeOK
  <2>4. WakeInv'
    BY <1>1 DEF BhInsert, WakeInv, TypeOK
  <2>5. LinkInv'
    <3>1. arg[t] \notin Held /\ "PENDING" \in flags[arg[t]]
      BY <1>1 DEF BhInsert, LinkInv
    <3>2. /\ Range(bh_list') \cap Range(taken') = {}
          /\ loop' = "flags" => bh' \notin Range(bh_list') \cup Range(taken')
      BY <1>1, <2>1, <3>1 DEF BhInsert, LinkInv, Held
    <3>3. \A b \in Held' : "PENDING" \in flags'[b]
      BY <1>1, <2>2, <3>1 DEF BhInsert, LinkInv
    <3>4. \A u \in Thread : pc'[u] = "insert" =>
            pc[u] = "insert" /\ u # t /\ arg'[u] = arg[u]
      BY <1>1 DEF BhInsert, TypeOK
    <3>5. \A u \in Thread : pc'[u] = "insert" => arg'[u] \notin Held'
      BY <1>1, <2>2, <3>4 DEF BhInsert, LinkInv
    <3> QED
      BY <1>1, <2>1, <3>2, <3>3, <3>4, <3>5 DEF BhInsert, LinkInv
  <2>6. FreeInv'
    BY <1>1 DEF BhInsert, FreeInv, TypeOK
  <2> QED BY <2>3, <2>4, <2>5, <2>6
<1>2. CASE EvloopNotify(t)
  <2>1. Held' = Held
    BY <1>2 DEF EvloopNotify, Held
  <2>2. TypeOK'
    BY <1>2 DEF EvloopNotify, TypeOK
  <2>3. WakeInv'
    BY <1>2 DEF EvloopNotify, WakeInv, TypeOK
  <2>4. LinkInv'
    BY <1>2, <2>1 DEF EvloopNotify, LinkInv, TypeOK
  <2>5. FreeInv'
    BY <1>2 DEF EvloopNotify, FreeInv, TypeOK
  <2> QED BY <2>2, <2>3, <2>4, <2>5
<1>3. CASE VhdSetEventfd(t)
  <2>1. Held' = Held
    BY <1>3 DEF VhdSetEventfd, Held
  <2>2. TypeOK'
    BY <1>3 DEF VhdSetEventfd, TypeOK
  <2>3. WakeInv'
    BY <1>3 DEF VhdSetEventfd, WakeInv, TypeOK
  <2>4. LinkInv'
    BY <1>3, <2>1 DEF VhdSetEventfd, LinkInv, TypeOK
  <2>5. FreeInv'
    BY <1>3 DEF VhdSetEventfd, FreeInv, TypeOK
  <2> QED BY <2>2, <2>3, <2>4, <2>5
<1> QED BY <1>1, <1>2, <1>3 DEF BhEnqueueStep

(* The steps of the loop that touch neither the flags nor the lists. *)
LEMMA QuietStepIInv ==
  ASSUME IInv,
         VhdRunEventLoop \/ EpollWaitNotify \/ EpollWaitEvent
         \/ EpollWaitTimeout \/ NotifyAccept \/ VhdClearEventfd \/ NotifyAccepted \/ BhCall \/ BhPollDone
         \/ HandleEvents
  PROVE  IInv'
<1> USE DEF IInv, VhdRunEventLoop, EpollWaitNotify, EpollWaitEvent,
            EpollWaitTimeout, NotifyAccept,
            VhdClearEventfd, NotifyAccepted, BhCall, BhPollDone, HandleEvents,
            Goto, listVars, notifyVars, enqVars
<1>1. /\ UNCHANGED <<flags, freed, bh_list, taken, bh, got, pc, arg, due>>
      /\ loop # "flags" /\ loop' # "flags"
      /\ loop \notin {"dequeue", "call"} => loop' \notin {"call", "free", "dequeue"}
      /\ loop = "dequeue" => taken = <<>> /\ loop' = "events"
      /\ loop = "call" => loop' = "free"
      /\ loop \notin {"free", "freed"} /\ loop' # "freed"
  OBVIOUS
<1>2. Held' = Held
  BY <1>1 DEF Held
<1>3. TypeOK'
  BY <1>1 DEF TypeOK
<1>4. WakeInv'
  BY DEF WakeInv
<1>5. LinkInv'
  BY <1>1, <1>2 DEF LinkInv
<1>6. FreeInv'
  BY <1>1 DEF FreeInv
<1> QED BY <1>3, <1>4, <1>5, <1>6

(* The steps of bh_poll and bh_cleanup. *)
LEMMA PollStepIInv ==
  ASSUME IInv, BhPoll \/ BhDequeue \/ BhDequeueFlags \/ BhFree \/ VhdFreeEventLoop
  PROVE  IInv'
<1> USE EmptyFacts DEF IInv, Goto, listVars, notifyVars, enqVars
<1>1. CASE BhPoll
  <2>1. taken = <<>>
    BY <1>1 DEF BhPoll, LinkInv
  <2>2. Held' = Held
    BY <1>1, <2>1 DEF BhPoll, Held
  <2>3. TypeOK'
    BY <1>1 DEF BhPoll, TypeOK
  <2>4. WakeInv'
    BY <1>1 DEF BhPoll, WakeInv
  <2>5. LinkInv'
    BY <1>1, <2>1, <2>2 DEF BhPoll, LinkInv
  <2>6. FreeInv'
    BY <1>1 DEF BhPoll, FreeInv
  <2> QED BY <2>3, <2>4, <2>5, <2>6
<1>2. CASE BhDequeue
  <2>1. /\ bh' \in Bh /\ taken' \in Seq(Bh) /\ Distinct(taken')
        /\ Range(taken) = {bh'} \cup Range(taken') /\ bh' \notin Range(taken')
    BY <1>2, TailFacts DEF BhDequeue, TypeOK, LinkInv
  <2>2. Held' = Held
    BY <1>2, <2>1 DEF BhDequeue, Held
  <2>3. TypeOK'
    BY <1>2, <2>1 DEF BhDequeue, TypeOK
  <2>4. WakeInv'
    BY <1>2 DEF BhDequeue, WakeInv
  <2>5. LinkInv'
    BY <1>2, <2>1, <2>2 DEF BhDequeue, LinkInv
  <2>6. FreeInv'
    BY <1>2 DEF BhDequeue, FreeInv
  <2> QED BY <2>3, <2>4, <2>5, <2>6
<1>3. CASE BhDequeueFlags
  <2>1. Held' = Range(bh_list) \cup Range(taken) /\ bh \notin Held' /\ bh \in Held
    BY <1>3 DEF BhDequeueFlags, Held, LinkInv
  <2>2. TypeOK'
    BY <1>3 DEF BhDequeueFlags, TypeOK
  <2>3. WakeInv'
    BY <1>3 DEF BhDequeueFlags, WakeInv
  <2>4. LinkInv'
    <3>1. Held' \subseteq Held
      BY <1>3, <2>1 DEF Held
    <3>2. \A b \in Bh \ {bh} : flags'[b] = flags[b]
      BY <1>3 DEF BhDequeueFlags, TypeOK
    <3>3. Held \subseteq Bh
      BY DEF TypeOK, Held, Range
    <3>4. \A t \in Thread : pc[t] = "insert" => arg[t] \in Bh \ {bh}
      BY <2>1 DEF TypeOK, LinkInv
    <3>5. \A b \in Held' : "PENDING" \in flags'[b]
      BY <2>1, <3>1, <3>2, <3>3 DEF LinkInv
    <3> QED
      BY <1>3, <3>1, <3>2, <3>4, <3>5 DEF BhDequeueFlags, LinkInv
  <2>5. FreeInv'
    <3>1. bh \notin freed
      BY <1>3, <2>1 DEF BhDequeueFlags, FreeInv, LinkInv
    <3> QED
      BY <1>3, <3>1 DEF BhDequeueFlags, FreeInv, TypeOK, Mortal
  <2> QED BY <2>2, <2>3, <2>4, <2>5
<1>4. CASE BhFree
  <2>1. Held' = Held
    BY <1>4 DEF BhFree, Held
  <2>2. TypeOK'
    BY <1>4 DEF BhFree, TypeOK
  <2>3. WakeInv'
    BY <1>4 DEF BhFree, WakeInv
  <2>4. LinkInv'
    BY <1>4, <2>1 DEF BhFree, LinkInv
  <2>5. FreeInv'
    BY <1>4 DEF BhFree, FreeInv, Mortal
  <2> QED BY <2>2, <2>3, <2>4, <2>5
<1>5. CASE VhdFreeEventLoop
  <2>1. Held' = {}
    BY <1>5 DEF VhdFreeEventLoop, Held, LinkInv
  <2>2. TypeOK'
    BY <1>5 DEF VhdFreeEventLoop, TypeOK, Range
  <2>3. WakeInv'
    BY <1>5 DEF VhdFreeEventLoop, WakeInv
  <2>4. LinkInv'
    BY <1>5, <2>1 DEF VhdFreeEventLoop, LinkInv
  <2>5. FreeInv'
    BY <1>5 DEF VhdFreeEventLoop, FreeInv
  <2> QED BY <2>2, <2>3, <2>4, <2>5
<1> QED BY <1>1, <1>2, <1>3, <1>4, <1>5

(* Every step keeps the invariant. *)
LEMMA NextIInv == IInv /\ [Next]_vars => IInv'
<1> SUFFICES ASSUME IInv, [Next]_vars PROVE IInv'
  OBVIOUS
<1>1. CASE UNCHANGED vars
  BY <1>1 DEF vars, IInv, TypeOK, WakeInv, LinkInv, FreeInv, Held
<1>2. CASE LoopStep
  BY <1>2, QuietStepIInv, PollStepIInv DEF LoopStep
<1>3. CASE EpollWaitEvent \/ EpollWaitTimeout \/ VhdFreeEventLoop
  BY <1>3, QuietStepIInv, PollStepIInv
<1>4. ASSUME NEW t \in Thread, Call(t) \/ BhEnqueueStep(t) PROVE IInv'
  BY <1>4, CallIInv, EnqueueStepIInv
<1> QED BY <1>1, <1>2, <1>3, <1>4 DEF Next, Gone

(* The invariant holds in every state of the loop. *)
THEOREM Invariance == Spec => []IInv
BY InitIInv, NextIInv, PTL DEF Spec

(* The flags, lists and program counters of the loop keep their types. *)
THEOREM TypeCorrect == Spec => []TypeOK
BY Invariance, PTL DEF IInv

(* The loop never sleeps on a BH that is queued, for any number of threads *)
(* calling bh_enqueue while the loop is in notify_accept and bh_poll.      *)
THEOREM LostWakeupFree == Spec => []NoLostWakeup
<1>1. IInv => NoLostWakeup
  BY DEF IInv, WakeInv, NoLostWakeup
<1> QED BY <1>1, Invariance, PTL

(* The single link of a BH is never used twice, whoever calls bh_enqueue.  *)
THEOREM LinksSound == Spec => []LinkedOnce
<1>1. IInv => LinkedOnce
  BY DEF IInv, LinkInv, LinkedOnce, Distinct
<1> QED BY <1>1, Invariance, PTL

(* No BH is used after bh_poll or bh_cleanup has freed it. *)
THEOREM FreeSound == Spec => []NoUseAfterFree
<1>1. IInv => NoUseAfterFree
  <2> SUFFICES ASSUME IInv PROVE NoUseAfterFree
    OBVIOUS
  <2>1. CASE loop # "freed"
    <3>1. freed \cap Held = {}
      BY <2>1 DEF IInv, FreeInv, LinkInv
    <3>2. \A t \in Thread : pc[t] = "insert" => arg[t] \notin freed
      BY <2>1 DEF IInv, FreeInv, LinkInv
    <3> QED BY <3>1, <3>2 DEF NoUseAfterFree, IInv, FreeInv
  <2>2. CASE loop = "freed"
    <3>1. Held = {}
      BY <2>2, EmptyFacts DEF IInv, FreeInv, LinkInv, Held
    <3> QED BY <2>2, <3>1 DEF NoUseAfterFree, IInv, FreeInv
  <2> QED BY <2>1, <2>2
<1> QED BY <1>1, Invariance, PTL

-----------------------------------------------------------------------------
(* The refinement.                                                         *)

Closed == loop \in {"done", "freed"}

(* A new loop has nothing queued. *)
LEMMA InitQueue == Init => Queue!Init
BY EmptyFacts DEF Init, Queue!Init

(* A step that leaves the lists alone is invisible to the users of the     *)
(* loop; linking, swapping, dequeueing, ending and freeing are the steps   *)
(* of BhQueue.                                                             *)
LEMMA StepQueue ==
  ASSUME IInv, [Next]_vars
  PROVE  [Queue!Next]_(Queue!bhVars)
<1> USE EmptyFacts DEF Queue!bhVars, Goto
<1>1. CASE UNCHANGED <<bh_list, taken, loop, bh>>
  BY <1>1 DEF Range
<1>2. ASSUME NEW t \in Thread, Call(t) PROVE UNCHANGED <<bh_list, taken, loop, bh>>
  BY <1>2 DEF Call, VhdTerminateEventLoop, VhdBhSchedule, VhdBhScheduleOneshot,
              VhdBhDelete, VhdBhCancel, bh_enqueue, pollVars
<1>3. ASSUME NEW t \in Thread, EvloopNotify(t) \/ VhdSetEventfd(t)
      PROVE  UNCHANGED <<bh_list, taken, loop, bh>>
  BY <1>3 DEF EvloopNotify, VhdSetEventfd, pollVars, listVars
<1>4. ASSUME NEW t \in Thread, BhInsert(t) PROVE Queue!Queue(arg[t]) /\ arg[t] \in Bh
  <2>1. arg[t] \in Bh /\ arg[t] \notin Held
    BY <1>4 DEF BhInsert, IInv, TypeOK, LinkInv
  <2>2. Range(bh_list') = {arg[t]} \cup Range(bh_list)
    BY <1>4, <2>1, ConsFacts DEF BhInsert, IInv, TypeOK
  <2> QED
    BY <1>4, <2>1, <2>2 DEF BhInsert, Queue!Queue, Held, pollVars
<1>5. CASE /\ UNCHANGED <<bh_list, taken>> /\ loop # "flags" /\ loop' # "flags"
           /\ ~Closed /\ ~Closed'
  BY <1>5 DEF Closed
<1>6. CASE EpollWaitNotify \/ EpollWaitEvent \/ EpollWaitTimeout
           \/ NotifyAccept \/ VhdClearEventfd \/ NotifyAccepted \/ BhCall \/ BhFree \/ BhPollDone \/ HandleEvents
  BY <1>5, <1>6 DEF EpollWaitNotify, EpollWaitEvent, EpollWaitTimeout, NotifyAccept,
       VhdClearEventfd, NotifyAccepted, BhCall, BhFree, BhPollDone,
       HandleEvents, listVars, Closed
<1>7. CASE VhdRunEventLoop
  <2>1. CASE ~is_terminated
    BY <1>5, <1>7, <2>1 DEF VhdRunEventLoop, listVars, Closed
  <2>2. CASE is_terminated
    <3>1. taken = <<>>
      BY <1>7 DEF VhdRunEventLoop, IInv, LinkInv
    <3>2. Queue!Close
      BY <1>7, <2>2, <3>1 DEF VhdRunEventLoop, listVars, Queue!Close
    <3> QED BY <3>2 DEF Queue!Next
  <2> QED BY <2>1, <2>2
<1>8. CASE BhPoll
  <2>1. taken = <<>>
    BY <1>8 DEF BhPoll, IInv, LinkInv
  <2>2. CASE Range(bh_list) = {}
    BY <1>8, <2>1, <2>2 DEF BhPoll
  <2>3. CASE Range(bh_list) # {}
    <3>1. Queue!Poll
      BY <1>8, <2>1, <2>3 DEF BhPoll, Queue!Poll
    <3> QED BY <3>1 DEF Queue!Next
  <2> QED BY <2>2, <2>3
<1>9. CASE BhDequeue
  <2>1. Range(taken) = {bh'} \cup Range(taken')
    BY <1>9, TailFacts DEF BhDequeue, IInv, TypeOK
  <2> QED
    BY <1>9, <2>1 DEF BhDequeue, listVars
<1>10. CASE BhDequeueFlags
  <2>1. bh \in Bh /\ bh \notin Range(taken)
    BY <1>10 DEF BhDequeueFlags, IInv, TypeOK, LinkInv
  <2>2. Queue!Run(bh)
    BY <1>10, <2>1 DEF BhDequeueFlags, Queue!Run
  <2> QED BY <2>1, <2>2 DEF Queue!Next
<1>11. CASE VhdFreeEventLoop
  <2>1. Queue!Discard
    BY <1>11 DEF VhdFreeEventLoop, Queue!Discard
  <2> QED BY <2>1 DEF Queue!Next
<1> QED
  BY <1>1, <1>2, <1>3, <1>4, <1>6, <1>7, <1>8, <1>9, <1>10, <1>11
     DEF Next, LoopStep, BhEnqueueStep, Gone, vars, Queue!Next

(* Every behaviour of the loop is one that BhQueue allows: what Vdev takes *)
(* the loops of event.c to be.                                             *)
THEOREM Refinement == Spec => ImplementsBhQueue
<1>1. Spec => [][Queue!Next]_(Queue!bhVars)
  BY StepQueue, Invariance, PTL DEF Spec
<1>2. Spec => Queue!Init
  BY InitQueue DEF Spec
<1> QED BY <1>1, <1>2 DEF ImplementsBhQueue, Queue!Spec

-----------------------------------------------------------------------------
(* Termination, and what becomes of the BHs in the end.                    *)

(* The loop has taken the BH that stops it. *)
Stopping ==
  \/ StopBh \in Range(taken)
  \/ loop \in {"flags", "call"} /\ bh = StopBh
  \/ is_terminated

(* Once StopBh is in the loop's hands so is all that was listed before it, *)
(* and what is queued after it was made are only deletions.                *)
StopInv ==
  /\ flags[StopBh] = {} =>
       ~is_terminated /\ ~(loop = "call" /\ bh = StopBh) /\ due = {}
  /\ due \subseteq Held
  /\ Stopping => due \cap Range(bh_list) = {}
  /\ loop \in {"done", "freed"} => is_terminated
  /\ is_terminated \/ (loop = "call" /\ bh = StopBh) => "PENDING" \notin flags[StopBh]
  /\ flags[StopBh] # {} => \A b \in Bh :
       "PENDING" \in flags[b] => b \in due \/ b = StopBh \/ "DELETED" \in flags[b]

(* A BH that is marked to be freed is queued for that, about to be freed   *)
(* or freed.                                                               *)
LeakInv ==
  /\ \A b \in Oneshot : flags[b] # {} => "ONESHOT" \in flags[b]
  /\ loop # "freed" => \A b \in Bh :
       /\ "PENDING" \in flags[b] =>
            b \in Held \/ \E t \in Thread : pc[t] = "insert" /\ arg[t] = b
       /\ flags[b] \cap Mortal # {} /\ "PENDING" \notin flags[b] =>
            \/ b \in freed
            \/ loop \in {"call", "free"} /\ b = bh /\ got \cap Mortal # {}
  /\ loop = "freed" => freed = {b \in Bh : flags[b] # {}}

EndInv == StopInv /\ LeakInv

LEMMA InitEnd == Init => EndInv
BY EmptyFacts, LoopAssumption
   DEF Init, EndInv, StopInv, LeakInv, Stopping, Held, Mortal

(* Setting flags of a BH: it is pending from now on. *)
LEMMA EnqueueEnd ==
  ASSUME IInv, EndInv, NEW t \in Thread, NEW b \in Bh, NEW new \in SUBSET Flag,
         MayCall(t), bh_enqueue(t, b, new),
         b \in Oneshot => "ONESHOT" \in new,
         \/ b # StopBh /\ due' = due /\ ("DELETED" \in new \/ flags[StopBh] = {})
         \/ /\ b = StopBh /\ flags[StopBh] = {} /\ due' = Held
            /\ \A u \in Thread : pc[u] # "insert"
  PROVE  EndInv'
<1> USE LoopAssumption DEF IInv, EndInv
<1>1. /\ UNCHANGED <<freed, bh_list, loop, taken, bh, got, is_terminated>>
      /\ Held' = Held /\ loop # "freed"
  BY DEF bh_enqueue, Held, notifyVars, pollVars, MayCall
<1>2. /\ \A c \in Bh \ {b} : flags'[c] = flags[c]
      /\ flags'[b] = flags[b] \cup {"PENDING"} \cup new
  BY DEF bh_enqueue, TypeOK
<1>3. \A u \in Thread : pc[u] = "insert" => pc'[u] = "insert" /\ arg'[u] = arg[u]
  BY DEF bh_enqueue, TypeOK, MayCall
<1>4. "PENDING" \notin flags[b] => pc'[t] = "insert" /\ arg'[t] = b
  BY DEF bh_enqueue, TypeOK
<1>5. LeakInv'
  <2>1. \A c \in Oneshot : flags'[c] # {} => "ONESHOT" \in flags'[c]
    BY <1>2 DEF LeakInv
  <2>2. ASSUME NEW c \in Bh, "PENDING" \in flags'[c]
        PROVE  c \in Held \/ \E u \in Thread : pc'[u] = "insert" /\ arg'[u] = c
    BY <1>1, <1>2, <1>3, <1>4, <2>2 DEF LeakInv
  <2>3. ASSUME NEW c \in Bh, flags'[c] \cap Mortal # {}, "PENDING" \notin flags'[c]
        PROVE  c \in freed \/ (loop \in {"call", "free"} /\ c = bh /\ got \cap Mortal # {})
    BY <1>1, <1>2, <2>3 DEF LeakInv
  <2>4. QED
    BY <1>1, <2>1, <2>2, <2>3 DEF LeakInv
<1>6. StopInv'
  <2>1. CASE b # StopBh /\ due' = due /\ ("DELETED" \in new \/ flags[StopBh] = {})
    <3>1. flags'[StopBh] = flags[StopBh] /\ Stopping' = Stopping
      BY <1>1, <1>2, <2>1 DEF Stopping
    <3>2. QED
      BY <1>1, <1>2, <2>1, <3>1 DEF StopInv
  <2>2. CASE /\ b = StopBh /\ flags[StopBh] = {} /\ due' = Held
             /\ \A u \in Thread : pc[u] # "insert"
    <3>1. StopBh \notin Held /\ flags'[StopBh] # {}
      BY <1>2, <2>2 DEF LinkInv
    <3>2. ~Stopping /\ Stopping' = Stopping
      BY <1>1, <2>2, <3>1 DEF Stopping, StopInv, Held
    <3>3. \A c \in Bh : "PENDING" \in flags[c] => c \in Held
      BY <1>1, <2>2 DEF LeakInv
    <3>4. QED
      BY <1>1, <1>2, <2>2, <3>1, <3>2, <3>3 DEF StopInv
  <2>3. QED
    BY <2>1, <2>2
<1>7. QED
  BY <1>5, <1>6

LEMMA CallEnd ==
  ASSUME IInv, EndInv, NEW t \in Thread, Call(t)
  PROVE  EndInv'
<1> USE LoopAssumption
<1>1. CASE VhdTerminateEventLoop(t)
  BY <1>1, EnqueueEnd DEF VhdTerminateEventLoop, Flag
<1>2. ASSUME NEW b \in Bh, VhdBhSchedule(t, b) PROVE EndInv'
  BY <1>2, EnqueueEnd DEF VhdBhSchedule, Usable, Flag
<1>3. ASSUME NEW b \in Bh, VhdBhScheduleOneshot(t, b) PROVE EndInv'
  BY <1>3, EnqueueEnd DEF VhdBhScheduleOneshot, Usable, Flag
<1>4. ASSUME NEW b \in Bh, VhdBhDelete(t, b) PROVE EndInv'
  BY <1>4, EnqueueEnd DEF VhdBhDelete, Flag
<1>5. ASSUME NEW b \in Bh, VhdBhCancel(t, b) PROVE EndInv'
  <2>1. UNCHANGED <<freed, bh_list, pc, arg, loop, taken, bh, got, is_terminated, due>>
    BY <1>5 DEF VhdBhCancel, enqVars, notifyVars, pollVars
  <2>2. Held' = Held /\ Stopping' = Stopping
    BY <2>1 DEF Held, Stopping
  <2>3. b \notin Oneshot /\ flags[StopBh] = {}
    BY <1>5 DEF VhdBhCancel, Usable
  <2>4. /\ \A c \in Bh \ {b} : flags'[c] = flags[c]
        /\ flags'[b] = flags[b] \ {"SCHEDULED"}
    BY <1>5 DEF VhdBhCancel, IInv, TypeOK
  <2>5. StopInv'
    BY <2>1, <2>2, <2>3, <2>4 DEF EndInv, StopInv
  <2>6. LeakInv'
    <3>1. \A c \in Bh : /\ "PENDING" \in flags'[c] <=> "PENDING" \in flags[c]
                        /\ flags'[c] \cap Mortal = flags[c] \cap Mortal
      BY <2>4 DEF Mortal
    <3>2. \A c \in Oneshot : flags'[c] # {} => "ONESHOT" \in flags'[c]
      BY <2>3, <2>4 DEF EndInv, LeakInv
    <3>3. loop # "freed"
      BY <1>5 DEF VhdBhCancel, MayCall
    <3>4. QED
      BY <2>1, <2>2, <3>1, <3>2, <3>3 DEF EndInv, LeakInv
  <2>7. QED
    BY <2>5, <2>6 DEF EndInv
<1>6. QED
  BY <1>1, <1>2, <1>3, <1>4, <1>5 DEF Call

LEMMA EnqueueStepEnd ==
  ASSUME IInv, EndInv, NEW t \in Thread, BhEnqueueStep(t)
  PROVE  EndInv'
<1> USE DEF notifyVars, pollVars, listVars
<1>1. CASE BhInsert(t)
  <2>1. UNCHANGED <<flags, freed, arg, loop, taken, bh, got, is_terminated, due>>
    BY <1>1 DEF BhInsert
  <2>2. arg[t] \in Bh /\ arg[t] \notin Held /\ loop # "freed"
    BY <1>1 DEF BhInsert, IInv, TypeOK, LinkInv, FreeInv
  <2>3. Range(bh_list') = {arg[t]} \cup Range(bh_list)
    BY <1>1, <2>2, ConsFacts DEF BhInsert, IInv, TypeOK
  <2>4. Held' = Held \cup {arg[t]} /\ Stopping' = Stopping
    BY <2>1, <2>3 DEF Held, Stopping
  <2>5. \A u \in Thread : u # t => pc'[u] = pc[u]
    BY <1>1 DEF BhInsert, IInv, TypeOK
  <2>6. StopInv'
    BY <2>1, <2>2, <2>3, <2>4 DEF EndInv, StopInv
  <2>7. LeakInv'
    BY <2>1, <2>2, <2>4, <2>5 DEF EndInv, LeakInv
  <2>8. QED
    BY <2>6, <2>7 DEF EndInv
<1>2. CASE EvloopNotify(t) \/ VhdSetEventfd(t)
  <2>1. UNCHANGED <<flags, freed, bh_list, arg, loop, taken, bh, got, is_terminated, due>>
    BY <1>2 DEF EvloopNotify, VhdSetEventfd
  <2>2. \A u \in Thread : pc[u] = "insert" => pc'[u] = "insert"
    BY <1>2 DEF EvloopNotify, VhdSetEventfd, IInv, TypeOK
  <2>3. Held' = Held /\ Stopping' = Stopping
    BY <2>1 DEF Held, Stopping
  <2>4. QED
    BY <2>1, <2>2, <2>3 DEF EndInv, StopInv, LeakInv
<1>3. QED
  BY <1>1, <1>2 DEF BhEnqueueStep

LEMMA QuietEnd ==
  ASSUME IInv, EndInv,
         VhdRunEventLoop \/ EpollWaitNotify \/ EpollWaitEvent
         \/ EpollWaitTimeout \/ NotifyAccept \/ VhdClearEventfd \/ NotifyAccepted
         \/ BhCall \/ BhPollDone \/ HandleEvents
  PROVE  EndInv'
<1>1. /\ UNCHANGED <<flags, freed, bh_list, taken, bh, got, pc, arg, due>>
      /\ loop # "flags" /\ loop' # "flags"
      /\ loop \in {"call", "free"} <=> loop' \in {"call", "free"}
      /\ loop' # "call" /\ loop # "freed" /\ loop' # "freed"
      /\ loop' = "done" => is_terminated'
      /\ is_terminated' = (is_terminated \/ (loop = "call" /\ bh = StopBh))
  BY DEF VhdRunEventLoop, EpollWaitNotify, EpollWaitEvent, EpollWaitTimeout,
         NotifyAccept, VhdClearEventfd, NotifyAccepted, BhCall, BhPollDone,
         HandleEvents, Goto, listVars, notifyVars, enqVars, IInv, TypeOK
<1>2. Held' = Held /\ (Stopping' => Stopping)
  BY <1>1 DEF Held, Stopping
<1>3. StopInv'
  BY <1>1, <1>2 DEF EndInv, StopInv
<1>4. LeakInv'
  BY <1>1, <1>2 DEF EndInv, LeakInv
<1>5. QED
  BY <1>3, <1>4 DEF EndInv

LEMMA PollEnd ==
  ASSUME IInv, EndInv,
         BhPoll \/ BhDequeue \/ BhDequeueFlags \/ BhFree \/ VhdFreeEventLoop
  PROVE  EndInv'
<1> USE DEF Goto, listVars, notifyVars, enqVars
<1>1. CASE BhPoll
  <2>1. /\ UNCHANGED <<flags, freed, bh, got, is_terminated, due, pc, arg>>
        /\ loop = "swap" /\ loop' = "dequeue" /\ Range(bh_list') = {}
        /\ Range(taken') = Range(bh_list) /\ Range(taken) = {}
    BY <1>1, EmptyFacts DEF BhPoll, IInv, LinkInv
  <2>2. Held' = Held
    BY <2>1 DEF Held
  <2>3. StopInv'
    BY <2>1, <2>2 DEF EndInv, StopInv
  <2>4. LeakInv'
    BY <2>1, <2>2 DEF EndInv, LeakInv
  <2>5. QED
    BY <2>3, <2>4 DEF EndInv
<1>2. CASE BhDequeue
  <2>1. /\ UNCHANGED <<flags, freed, bh_list, got, is_terminated, due, pc, arg>>
        /\ loop = "dequeue" /\ loop' = "flags"
        /\ Range(taken) = {bh'} \cup Range(taken')
    BY <1>2, TailFacts DEF BhDequeue, IInv, TypeOK
  <2>2. Held' = Held /\ Stopping' = Stopping
    BY <2>1 DEF Held, Stopping
  <2>3. StopInv'
    BY <2>1, <2>2 DEF EndInv, StopInv
  <2>4. LeakInv'
    BY <2>1, <2>2 DEF EndInv, LeakInv
  <2>5. QED
    BY <2>3, <2>4 DEF EndInv
<1>3. CASE BhDequeueFlags
  <2>1. /\ UNCHANGED <<freed, bh_list, taken, bh, is_terminated, pc, arg>>
        /\ loop = "flags" /\ loop' \in {"call", "free"}
        /\ got' = flags[bh] /\ due' = due \ {bh} /\ bh \in Bh
    BY <1>3 DEF BhDequeueFlags, IInv, TypeOK
  <2>2. /\ \A c \in Bh \ {bh} : flags'[c] = flags[c]
        /\ flags'[bh] = flags[bh] \ {"PENDING", "SCHEDULED"}
    BY <1>3, <2>1 DEF BhDequeueFlags, IInv, TypeOK
  <2>3. Held' = Held \ {bh} /\ bh \in Held
    BY <2>1 DEF Held, IInv, LinkInv
  <2>4. /\ Stopping' => Stopping
        /\ "PENDING" \in flags[bh]
    BY <2>1, <2>3 DEF Stopping, IInv, LinkInv
  <2>5. StopInv'
    <3>1. flags'[StopBh] = {} => flags[StopBh] = {} /\ bh # StopBh
      <4>1. bh = StopBh => "ONESHOT" \in flags'[StopBh]
        BY <2>2, <2>4, LoopAssumption DEF EndInv, LeakInv
      <4>2. QED
        BY <2>2, <4>1, LoopAssumption
    <3>2. is_terminated \/ bh = StopBh => "PENDING" \notin flags'[StopBh]
      BY <2>2, LoopAssumption DEF EndInv, StopInv
    <3>3. ASSUME flags'[StopBh] # {}, NEW b \in Bh, "PENDING" \in flags'[b]
          PROVE  b \in due' \/ b = StopBh \/ "DELETED" \in flags'[b]
      <4>1. b # bh /\ "PENDING" \in flags[b] /\ flags[StopBh] # {}
        BY <2>2, <2>4, <3>3, LoopAssumption
      <4>2. QED
        BY <2>1, <2>2, <4>1 DEF EndInv, StopInv
    <3>4. QED
      BY <2>1, <2>3, <2>4, <3>1, <3>2, <3>3 DEF EndInv, StopInv
  <2>6. LeakInv'
    <3>1. \A b \in Oneshot : flags'[b] # {} => "ONESHOT" \in flags'[b]
      BY <2>2, <2>4, LoopAssumption DEF EndInv, LeakInv
    <3>2. ASSUME NEW b \in Bh, "PENDING" \in flags'[b]
          PROVE  b \in Held' \/ \E t \in Thread : pc'[t] = "insert" /\ arg'[t] = b
      BY <2>1, <2>2, <2>3, <3>2 DEF EndInv, LeakInv
    <3>3. ASSUME NEW b \in Bh, flags'[b] \cap Mortal # {}, "PENDING" \notin flags'[b]
          PROVE  b \in freed \/ (b = bh /\ got' \cap Mortal # {})
      BY <2>1, <2>2, <3>3 DEF EndInv, LeakInv, Mortal
    <3>4. QED
      BY <2>1, <3>1, <3>2, <3>3 DEF EndInv, LeakInv
  <2>7. QED
    BY <2>5, <2>6 DEF EndInv
<1>4. CASE BhFree
  <2>1. /\ UNCHANGED <<flags, bh_list, taken, bh, got, is_terminated, due, pc, arg>>
        /\ loop = "free" /\ loop' = "dequeue" /\ freed \subseteq freed'
        /\ got \cap Mortal # {} => bh \in freed'
    BY <1>4 DEF BhFree, Mortal
  <2>2. Held' = Held /\ Stopping' = Stopping
    BY <2>1 DEF Held, Stopping
  <2>3. StopInv'
    BY <2>1, <2>2 DEF EndInv, StopInv
  <2>4. LeakInv'
    BY <2>1, <2>2 DEF EndInv, LeakInv
  <2>5. QED
    BY <2>3, <2>4 DEF EndInv
<1>5. CASE VhdFreeEventLoop
  <2>1. /\ UNCHANGED <<flags, taken, bh, got, is_terminated, due, pc, arg>>
        /\ loop = "done" /\ loop' = "freed" /\ Range(bh_list') = {}
        /\ freed' = freed \cup Range(bh_list) /\ Range(taken) = {}
        /\ \A t \in Thread : pc[t] = "idle"
        /\ \A b \in Bh \ Oneshot : flags[b] # {} => "DELETED" \in flags[b]
    BY <1>5, EmptyFacts DEF VhdFreeEventLoop, IInv, LinkInv
  <2>2. Held = Range(bh_list) /\ Stopping /\ due = {}
    BY <2>1 DEF Held, Stopping, EndInv, StopInv
  <2>3. StopInv'
    BY <2>1, <2>2 DEF EndInv, StopInv
  <2>4. ASSUME NEW b \in Bh, flags[b] # {} PROVE b \in freed'
    <3>1. flags[b] \cap Mortal # {}
      BY <2>1, <2>4 DEF Mortal, EndInv, LeakInv
    <3>2. QED
      BY <2>1, <2>2, <3>1 DEF EndInv, LeakInv
  <2>5. \A b \in freed' : b \in Bh /\ flags[b] # {}
    <3>1. freed \subseteq Bh /\ Range(bh_list) \subseteq Bh
      BY DEF IInv, TypeOK, Range
    <3>2. \A b \in freed : flags[b] # {}
      BY <2>1 DEF IInv, FreeInv
    <3>3. \A b \in Range(bh_list) : flags[b] # {}
      BY <2>2 DEF IInv, LinkInv
    <3>4. QED
      BY <2>1, <3>1, <3>2, <3>3
  <2>6. LeakInv'
    BY <2>1, <2>4, <2>5 DEF EndInv, LeakInv
  <2>7. QED
    BY <2>3, <2>6 DEF EndInv
<1>6. QED
  BY <1>1, <1>2, <1>3, <1>4, <1>5

LEMMA NextEnd == IInv /\ EndInv /\ [Next]_vars => EndInv'
<1> SUFFICES ASSUME IInv, EndInv, [Next]_vars PROVE EndInv'
  OBVIOUS
<1>1. CASE UNCHANGED vars
  BY <1>1 DEF vars, EndInv, StopInv, LeakInv, Stopping, Held
<1>2. CASE LoopStep
  BY <1>2, QuietEnd, PollEnd DEF LoopStep
<1>3. CASE EpollWaitEvent \/ EpollWaitTimeout \/ VhdFreeEventLoop
  BY <1>3, QuietEnd, PollEnd
<1>4. ASSUME NEW t \in Thread, Call(t) \/ BhEnqueueStep(t) PROVE EndInv'
  BY <1>4, CallEnd, EnqueueStepEnd
<1>5. QED
  BY <1>1, <1>2, <1>3, <1>4 DEF Next, Gone

LEMMA EndInvariance == Spec => [](IInv /\ EndInv)
BY InitIInv, InitEnd, NextIInv, NextEnd, PTL DEF Spec

(* vhd_run_event_loop returns after it has run every BH that was in the    *)
(* loop when vhd_terminate_event_loop was called, although the BH that     *)
(* stops it may run first.                                                 *)
THEOREM TerminationRunsQueued == Spec => []TerminateRunsQueued
<1>1. IInv /\ EndInv => TerminateRunsQueued
  <2> SUFFICES ASSUME IInv, EndInv, loop \in {"done", "freed"} PROVE due = {}
    BY DEF TerminateRunsQueued
  <2>1. Held = Range(bh_list) /\ Stopping
    BY EmptyFacts DEF Held, Stopping, IInv, LinkInv, EndInv, StopInv
  <2>2. QED
    BY <2>1 DEF EndInv, StopInv
<1>2. QED
  BY <1>1, EndInvariance, PTL

(* The assertion of bh_cleanup, that only deleted BHs remain, holds, and   *)
(* freeing the loop leaves no BH behind.                                   *)
THEOREM NoBhLeaked == Spec => []NothingLeaked
<1>1. IInv /\ EndInv => NothingLeaked
  <2> SUFFICES ASSUME IInv, EndInv PROVE NothingLeaked
    OBVIOUS
  <2>1. ASSUME loop = "done", NEW b \in Range(bh_list) PROVE "DELETED" \in flags[b]
    <3>1. is_terminated /\ "PENDING" \notin flags[StopBh] /\ flags[StopBh] # {}
      BY <2>1 DEF EndInv, StopInv
    <3>2. b \in Bh /\ b \in Held /\ "PENDING" \in flags[b]
      BY <2>1 DEF IInv, TypeOK, LinkInv, Held, Range
    <3>3. b \notin due
      BY <2>1, <3>1 DEF EndInv, StopInv, Stopping
    <3>4. QED
      BY <3>1, <3>2, <3>3 DEF EndInv, StopInv
  <2>2. QED
    BY <2>1 DEF NothingLeaked, EndInv, LeakInv
<1>2. QED
  BY <1>1, EndInvariance, PTL
=============================================================================
