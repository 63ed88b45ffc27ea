----------------------------- MODULE EventLoop -----------------------------
(***************************************************************************)
(* The bottom halves of an event loop (event.c), one atomic access to      *)
(* shared memory per step.  Any thread queues BHs with bh_enqueue and      *)
(* wakes the loop up through an eventfd; the thread of the loop sleeps in  *)
(* epoll_wait, swaps the list of BHs and runs them.  A callback and a file *)
(* descriptor's handler run in the thread of the loop and may themselves   *)
(* queue BHs, so that thread is one of Thread.                             *)
(***************************************************************************)
EXTENDS Naturals, Sequences, Functions

CONSTANTS
  Thread,   \* the threads that queue BHs
  Home,     \* the one that runs the loop (home_evloop)
  Bh,       \* the BHs: struct vhd_bh
  Oneshot,  \* those made by vhd_bh_schedule_oneshot
  StopBh,   \* the one that vhd_terminate_event_loop makes
  Cancels   \* the BHs that vhd_bh_cancel is called for

ASSUME LoopAssumption ==
  /\ Home \in Thread
  /\ Oneshot \subseteq Bh
  /\ StopBh \in Oneshot
  /\ Cancels \subseteq Bh

Flag == {"PENDING", "SCHEDULED", "DELETED", "ONESHOT"}

VARIABLES
  flags,          \* of every BH; {} until it is first queued
  freed,          \* the BHs given back to the allocator
  bh_list,        \* the list of the loop, last inserted first
  notified, notifyfd, is_terminated,
  pc, arg,        \* where each thread is in bh_enqueue, and with which BH
  loop,           \* where the loop's thread is in vhd_run_event_loop
  taken, bh, got, \* the locals of bh_poll: bh_list, bh, flags
  due             \* history: BHs in the loop when it was told to terminate

vars == <<flags, freed, bh_list, notified, notifyfd, is_terminated, pc, arg,
          loop, taken, bh, got, due>>

enqVars == <<pc, arg>>
listVars == <<flags, freed, bh_list>>
notifyVars == <<notified, notifyfd>>
pollVars == <<loop, taken, bh, got, is_terminated>>

Init ==
  /\ flags = [b \in Bh |-> {}]
  /\ freed = {}
  /\ bh_list = <<>> /\ taken = <<>>
  /\ notified = FALSE /\ notifyfd = FALSE /\ is_terminated = FALSE
  /\ pc = [t \in Thread |-> "idle"]
  /\ arg = [t \in Thread |-> StopBh]
  /\ loop = "check"
  /\ bh = StopBh /\ got = {}
  /\ due = {}

(* The BHs the loop holds: listed, taken, or unlinked and not yet run. *)
Held == Range(bh_list) \cup Range(taken) \cup
        (IF loop = "flags" THEN {bh} ELSE {})

-----------------------------------------------------------------------------
(* bh_enqueue and its callers.                                             *)

(* The thread may call: the loop's own one only in a callback or handler. *)
MayCall(t) ==
  /\ pc[t] = "idle"
  /\ loop # "freed"
  /\ t = Home => loop \in {"call", "events", "done"}

(* Mutant: a BH is linked although it is pending already. *)
bh_enqueue_Always(t, b, new_flags) ==
  /\ flags' = [flags EXCEPT ![b] = @ \cup {"PENDING"} \cup new_flags]
  /\ arg' = [arg EXCEPT ![t] = b]
  /\ pc' = [pc EXCEPT ![t] = "insert"]
  /\ UNCHANGED <<freed, bh_list, notifyVars, pollVars>>

bh_enqueue(t, b, new_flags) ==
  /\ flags' = [flags EXCEPT ![b] = @ \cup {"PENDING"} \cup new_flags]
  /\ arg' = [arg EXCEPT ![t] = b]
  /\ pc' = [pc EXCEPT ![t] = IF "PENDING" \in flags[b] THEN "notify"
                                                       ELSE "insert"]
  /\ UNCHANGED <<freed, bh_list, notifyVars, pollVars>>

(* The callers' side: nobody uses a BH after vhd_bh_delete, nor queues one *)
(* once the loop is told to terminate, or is queueing one at that moment.  *)
Usable(b) == "DELETED" \notin flags[b] /\ flags[StopBh] = {}

(* Mutant: the BH is scheduled as one that is freed after its callback. *)
VhdBhSchedule_Oneshot(t, b) ==
  /\ MayCall(t)
  /\ b \notin Oneshot /\ Usable(b)
  /\ bh_enqueue(t, b, {"SCHEDULED", "ONESHOT"})
  /\ UNCHANGED due

VhdBhSchedule(t, b) ==
  /\ MayCall(t)
  /\ b \notin Oneshot /\ Usable(b)
  /\ bh_enqueue(t, b, {"SCHEDULED"})
  /\ UNCHANGED due

VhdBhScheduleOneshot(t, b) ==
  /\ MayCall(t)
  /\ b \in Oneshot \ {StopBh} /\ Usable(b) /\ flags[b] = {}
  /\ bh_enqueue(t, b, {"SCHEDULED", "ONESHOT"})
  /\ UNCHANGED due

VhdBhDelete(t, b) ==
  /\ MayCall(t)
  /\ b \notin Oneshot /\ "DELETED" \notin flags[b]
  /\ bh_enqueue(t, b, {"DELETED"})
  /\ UNCHANGED due

VhdTerminateEventLoop(t) ==
  /\ MayCall(t)
  /\ flags[StopBh] = {}
  /\ \A u \in Thread : pc[u] # "insert"
  /\ bh_enqueue(t, StopBh, {"SCHEDULED", "ONESHOT"})
  /\ due' = Held

VhdBhCancel(t, b) ==
  /\ MayCall(t)
  /\ b \in Cancels \ Oneshot /\ Usable(b)
  /\ flags' = [flags EXCEPT ![b] = @ \ {"SCHEDULED"}]
  /\ UNCHANGED <<freed, bh_list, enqVars, notifyVars, pollVars, due>>

(* SLIST_INSERT_HEAD_ATOMIC *)
BhInsert(t) ==
  /\ pc[t] = "insert"
  /\ bh_list' = <<arg[t]>> \o bh_list
  /\ pc' = [pc EXCEPT ![t] = "notify"]
  /\ UNCHANGED <<flags, freed, arg, notifyVars, pollVars, due>>

(* evloop_notify: the thread that sets the flag writes the eventfd. *)
EvloopNotify(t) ==
  /\ pc[t] = "notify"
  /\ notified' = TRUE
  /\ pc' = [pc EXCEPT ![t] = IF notified THEN "idle" ELSE "set"]
  /\ UNCHANGED <<listVars, notifyfd, arg, pollVars, due>>

VhdSetEventfd(t) ==
  /\ pc[t] = "set"
  /\ notifyfd' = TRUE
  /\ pc' = [pc EXCEPT ![t] = "idle"]
  /\ UNCHANGED <<listVars, notified, arg, pollVars, due>>

-----------------------------------------------------------------------------
(* vhd_run_event_loop.                                                     *)

Goto(next) == loop' = next

(* The loop returns 0 when it was terminated, or sleeps. *)
VhdRunEventLoop ==
  /\ loop = "check"
  /\ Goto(IF is_terminated THEN "done" ELSE "wait")
  /\ UNCHANGED <<listVars, notifyVars, enqVars, taken, bh, got, is_terminated,
                 due>>

(* The eventfd is readable; it is level-triggered. *)
EpollWaitNotify ==
  /\ loop = "wait" /\ notifyfd
  /\ Goto("accept")
  /\ UNCHANGED <<listVars, notifyVars, enqVars, taken, bh, got, is_terminated,
                 due>>

(* A file descriptor of some io handler is ready. *)
EpollWaitEvent ==
  /\ loop = "wait"
  /\ Goto("accept")
  /\ UNCHANGED <<listVars, notifyVars, enqVars, taken, bh, got, is_terminated,
                 due>>

(* epoll_wait times out, or is interrupted: no event is ready. *)
EpollWaitTimeout ==
  /\ loop = "wait" /\ ~notifyfd
  /\ Goto("check")
  /\ UNCHANGED <<listVars, notifyVars, enqVars, taken, bh, got, is_terminated,
                 due>>

NotifyAccept ==
  /\ loop = "accept"
  /\ Goto(IF notified THEN "clear" ELSE "swap")
  /\ UNCHANGED <<listVars, notifyVars, enqVars, taken, bh, got, is_terminated,
                 due>>

VhdClearEventfd ==
  /\ loop = "clear"
  /\ notifyfd' = FALSE
  /\ Goto("accepted")
  /\ UNCHANGED <<listVars, notified, enqVars, taken, bh, got, is_terminated,
                 due>>

(* Mutant: the flag that tells the loop to be notified is not reset. *)
NotifyAccepted_KeepNotified ==
  /\ loop = "accepted"
  /\ Goto("swap")
  /\ UNCHANGED <<listVars, notifyVars, enqVars, taken, bh, got, is_terminated,
                 due>>

NotifyAccepted ==
  /\ loop = "accepted"
  /\ notified' = FALSE
  /\ Goto("swap")
  /\ UNCHANGED <<listVars, notifyfd, enqVars, taken, bh, got, is_terminated,
                 due>>

(* bh_poll: SLIST_MOVE_ATOMIC *)
BhPoll ==
  /\ loop = "swap"
  /\ taken' = bh_list /\ bh_list' = <<>>
  /\ Goto("dequeue")
  /\ UNCHANGED <<flags, freed, notifyVars, enqVars, bh, got, is_terminated, due>>

(* bh_dequeue unlinks the head of the list, and then reads its flags. *)
BhDequeue ==
  /\ loop = "dequeue" /\ taken # <<>>
  /\ bh' = Head(taken) /\ taken' = Tail(taken)
  /\ Goto("flags")
  /\ UNCHANGED <<listVars, notifyVars, enqVars, got, is_terminated, due>>

BhDequeueFlags ==
  /\ loop = "flags"
  /\ got' = flags[bh]
  /\ flags' = [flags EXCEPT ![bh] = @ \ {"PENDING", "SCHEDULED"}]
  /\ Goto(IF "SCHEDULED" \in flags[bh] /\ "DELETED" \notin flags[bh]
          THEN "call" ELSE "free")
  /\ due' = due \ {bh}
  /\ UNCHANGED <<freed, bh_list, notifyVars, enqVars, taken, bh, is_terminated>>

(* Mutant: the loop that is told to stop leaves the rest of its list. *)
BhCall_StopAtOnce ==
  /\ loop = "call" /\ pc[Home] = "idle"
  /\ is_terminated' = (is_terminated \/ bh = StopBh)
  /\ Goto(IF bh = StopBh THEN "check" ELSE "free")
  /\ UNCHANGED <<listVars, notifyVars, enqVars, taken, bh, got, due>>

(* The callback returns; that of StopBh is evloop_stop_bh. *)
BhCall ==
  /\ loop = "call" /\ pc[Home] = "idle"
  /\ is_terminated' = (is_terminated \/ bh = StopBh)
  /\ Goto("free")
  /\ UNCHANGED <<listVars, notifyVars, enqVars, taken, bh, got, due>>

(* Mutant: the flags are read again after the callback. *)
BhFree_Reread ==
  /\ loop = "free"
  /\ freed' = IF flags[bh] \cap {"DELETED", "ONESHOT"} # {} THEN freed \cup {bh}
              ELSE freed
  /\ Goto("dequeue")
  /\ UNCHANGED <<flags, bh_list, notifyVars, enqVars, taken, bh, got,
                 is_terminated, due>>

(* Mutant: only vhd_bh_delete frees a BH. *)
BhFree_Deleted ==
  /\ loop = "free"
  /\ freed' = IF "DELETED" \in got THEN freed \cup {bh} ELSE freed
  /\ Goto("dequeue")
  /\ UNCHANGED <<flags, bh_list, notifyVars, enqVars, taken, bh, got,
                 is_terminated, due>>

BhFree ==
  /\ loop = "free"
  /\ freed' = IF got \cap {"DELETED", "ONESHOT"} # {} THEN freed \cup {bh}
              ELSE freed
  /\ Goto("dequeue")
  /\ UNCHANGED <<flags, bh_list, notifyVars, enqVars, taken, bh, got,
                 is_terminated, due>>

(* The batch is done and handle_events calls the handlers. *)
BhPollDone ==
  /\ loop = "dequeue" /\ taken = <<>>
  /\ Goto("events")
  /\ UNCHANGED <<listVars, notifyVars, enqVars, taken, bh, got, is_terminated,
                 due>>

HandleEvents ==
  /\ loop = "events" /\ pc[Home] = "idle"
  /\ Goto("check")
  /\ UNCHANGED <<listVars, notifyVars, enqVars, taken, bh, got, is_terminated,
                 due>>

(* bh_cleanup.  The user frees the loop when nobody accesses it any more   *)
(* and has deleted the BHs it made with vhd_bh_new.                        *)
VhdFreeEventLoop ==
  /\ loop = "done"
  /\ \A t \in Thread : pc[t] = "idle"
  /\ \A b \in Bh \ Oneshot : flags[b] # {} => "DELETED" \in flags[b]
  /\ freed' = freed \cup Range(bh_list) /\ bh_list' = <<>>
  /\ Goto("freed")
  /\ UNCHANGED <<flags, notifyVars, enqVars, taken, bh, got, is_terminated, due>>

(* The loop is gone. *)
Gone == loop = "freed" /\ UNCHANGED vars

-----------------------------------------------------------------------------
BhEnqueueStep(t) == BhInsert(t) \/ EvloopNotify(t) \/ VhdSetEventfd(t)

Call(t) ==
  \/ VhdTerminateEventLoop(t)
  \/ \E b \in Bh : \/ VhdBhSchedule(t, b) \/ VhdBhScheduleOneshot(t, b)
                   \/ VhdBhDelete(t, b) \/ VhdBhCancel(t, b)

LoopStep ==
  \/ VhdRunEventLoop \/ EpollWaitNotify \/ NotifyAccept \/ VhdClearEventfd
  \/ NotifyAccepted \/ BhPoll \/ BhDequeue \/ BhDequeueFlags \/ BhCall
  \/ BhFree \/ BhPollDone \/ HandleEvents

Next ==
  \/ LoopStep
  \/ EpollWaitEvent \/ EpollWaitTimeout
  \/ VhdFreeEventLoop \/ Gone
  \/ \E t \in Thread : Call(t) \/ BhEnqueueStep(t)

Spec == Init /\ [][Next]_vars

(* Every thread that is in bh_enqueue goes on, and so does the loop unless *)
(* it sleeps; no file descriptor is assumed to become ready.  A callback   *)
(* and a handler return: they do not queue BHs for ever.                   *)
Fairness ==
  /\ WF_vars(LoopStep)
  /\ SF_vars(BhCall) /\ SF_vars(HandleEvents)
  /\ \A t \in Thread : WF_vars(BhEnqueueStep(t))

FairSpec == Spec /\ Fairness

-----------------------------------------------------------------------------
(* Properties.                                                             *)

(* The flags, lists and program counters stay in their ranges; only a BH  *)
(* made by vhd_bh_schedule_oneshot is deleted after its callback.         *)
TypeOK ==
  /\ flags \in [Bh -> SUBSET Flag]
  /\ \A b \in Bh : "ONESHOT" \in flags[b] => b \in Oneshot
  /\ freed \subseteq Bh
  /\ bh_list \in Seq(Bh) /\ taken \in Seq(Bh)
  /\ notified \in BOOLEAN /\ notifyfd \in BOOLEAN /\ is_terminated \in BOOLEAN
  /\ pc \in [Thread -> {"idle", "insert", "notify", "set"}]
  /\ arg \in [Thread -> Bh]
  /\ loop \in {"check", "wait", "accept", "clear", "accepted", "swap", "dequeue",
               "flags", "call", "free", "events", "done", "freed"}
  /\ bh \in Bh /\ got \subseteq Flag
  /\ due \subseteq Bh

(* The loop never sleeps on a BH that is queued: while it is in epoll_wait *)
(* and its list is not empty, the eventfd is readable or some thread is    *)
(* about to notify the loop.                                               *)
NoLostWakeup ==
  loop = "wait" /\ bh_list # <<>> =>
    notifyfd \/ \E t \in Thread : pc[t] \in {"notify", "set"}

(* A BH has one link: it is at most once in a list, and never about to be  *)
(* inserted while it is in one, or by two threads.                         *)
LinkedOnce ==
  /\ \A i, j \in DOMAIN bh_list : bh_list[i] = bh_list[j] => i = j
  /\ \A i, j \in DOMAIN taken : taken[i] = taken[j] => i = j
  /\ Range(bh_list) \cap Range(taken) = {}
  /\ loop = "flags" => bh \notin Range(bh_list) \cup Range(taken)
  /\ \A t \in Thread : pc[t] = "insert" =>
       /\ arg[t] \notin Held
       /\ \A u \in Thread \ {t} : pc[u] = "insert" => arg[u] # arg[t]

(* A BH that was freed is not in a list, not run and not freed again, and  *)
(* no thread still has to link it.                                         *)
NoUseAfterFree ==
  /\ freed \cap Held = {}
  /\ loop \in {"call", "free"} => bh \notin freed
  /\ \A t \in Thread : pc[t] = "insert" => arg[t] \notin freed

(* A loop that is terminated has run every BH that was queued before       *)
(* vhd_terminate_event_loop was called.                                    *)
TerminateRunsQueued == loop \in {"done", "freed"} => due = {}

(* What bh_cleanup asserts of the BHs it finds, "only deleted bhs may      *)
(* remain", and once the loop is freed no BH that was ever queued is       *)
(* leaked.                                                                 *)
NothingLeaked ==
  /\ loop = "done" /\ (\A t \in Thread : pc[t] = "idle") =>
       \A b \in Range(bh_list) : "DELETED" \in flags[b]
  /\ loop = "freed" => freed = {b \in Bh : flags[b] # {}}

(* The state of BhQueue that a state of the loop stands for. *)
Queue == INSTANCE BhQueue WITH
  pending <- Range(bh_list),
  batch <- Range(taken) \cup (IF loop = "flags" THEN {bh} ELSE {}),
  closed <- loop \in {"done", "freed"}

(* The loop of event.c does what BhQueue promises, ... *)
ImplementsBhQueue == Queue!Spec

(* ... and what is queued on it is taken and run. *)
ImplementsFairBhQueue == Queue!FairSpec
=============================================================================
