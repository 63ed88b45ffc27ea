---------------------------- MODULE RequestQueue ----------------------------
(***************************************************************************)
(* A request queue (server.c).  Its own thread puts the requests of the    *)
(* vrings it serves in the submission list, hands them to the backend and  *)
(* reports completed ones; the backend completes them in any thread.       *)
(* Completions go through a lock-free list that the completion BH steals;  *)
(* only the thread that finds the list empty schedules that BH.  The BH is *)
(* queued and run as BhQueue says.                                         *)
(***************************************************************************)
EXTENDS Naturals, SequencesExt, Lists

CONSTANTS
  Io,       \* the requests: struct vhd_io
  Vring,    \* the vrings served by the queue
  VringOf,  \* io->vring
  Thread,   \* the threads of the backend
  MaxTime   \* bound on the clock

ASSUME QueueAssumption ==
  /\ VringOf \in [Io -> Vring]
  /\ MaxTime \in Nat

VARIABLES
  submission, inflight,  \* the lists of the queue, oldest first
  completion,            \* the lock-free list, last inserted first
  ts,                    \* io->ts
  oldest_inflight_ts,    \* of rq->metrics
  num_in_flight,         \* of each vring
  bh,                    \* completion_bh: "idle" or "queued" on the loop
  pc, io_list,           \* rq_complete_bh: where it is, and its local list
  backend,               \* where each thread of the backend is
  new,                   \* the requests the guest has not made yet
  received, reported,    \* history: requests completed by the backend, and
  cancelled,             \*   reported to the guest, in order; cancelled ones
  now                    \* time(NULL)

vars == <<submission, inflight, completion, ts, oldest_inflight_ts,
          num_in_flight, bh, pc, io_list, backend, new, received, reported,
          cancelled, now>>

listVars == <<submission, inflight, completion>>
timeVars == <<ts, oldest_inflight_ts, now>>
bhVars == <<bh, pc, io_list>>
histVars == <<received, reported, cancelled>>

Init ==
  /\ submission = <<>> /\ inflight = <<>> /\ completion = <<>>
  /\ ts = [io \in Io |-> 0]
  /\ oldest_inflight_ts = 0
  /\ num_in_flight = [v \in Vring |-> 0]
  /\ bh = "idle" /\ pc = "idle" /\ io_list = <<>>
  /\ backend = [t \in Thread |-> "idle"]
  /\ new = Io
  /\ received = <<>> /\ reported = <<>> /\ cancelled = {}
  /\ now = 1

-----------------------------------------------------------------------------
(* The thread of the queue.  The lists below are only its own, so each     *)
(* call is one step; rq_complete_bh is one step per request.               *)

(* vhd_enqueue_request, called when a vring is kicked. *)
VhdEnqueueRequest(io) ==
  /\ pc = "idle"
  /\ io \in new
  /\ new' = new \ {io}
  /\ num_in_flight' = [num_in_flight EXCEPT ![VringOf[io]] = @ + 1]
  /\ submission' = Append(submission, io)
  /\ UNCHANGED <<inflight, completion, backend, timeVars, bhVars, histVars>>

VhdDequeueRequest ==
  /\ pc = "idle"
  /\ submission # <<>>
  /\ submission' = Tail(submission)
  /\ ts' = [ts EXCEPT ![Head(submission)] = now]
  /\ inflight' = Append(inflight, Head(submission))
  /\ oldest_inflight_ts' = IF oldest_inflight_ts = 0 THEN now
                           ELSE oldest_inflight_ts
  /\ UNCHANGED <<completion, num_in_flight, backend, new, now, bhVars,
                 histVars>>

(* Mutant: the requests of all vrings are dropped. *)
VhdCancelQueuedRequests_All(v) ==
  LET mine == {io \in Range(submission) : VringOf[io] = v}
  IN /\ pc = "idle"
     /\ submission' = <<>>
     /\ num_in_flight' = [num_in_flight EXCEPT ![v] = @ - Cardinality(mine)]
     /\ cancelled' = cancelled \cup mine
     /\ UNCHANGED <<inflight, completion, backend, new, received, reported,
                    timeVars, bhVars>>

(* Mutant: the requests are cancelled and left in the list. *)
VhdCancelQueuedRequests_Keep(v) ==
  LET mine == {io \in Range(submission) : VringOf[io] = v}
  IN /\ pc = "idle"
     /\ num_in_flight' = [num_in_flight EXCEPT ![v] = @ - Cardinality(mine)]
     /\ cancelled' = cancelled \cup mine
     /\ UNCHANGED <<submission, inflight, completion, backend, new, received,
                    reported, timeVars, bhVars>>

(* vhd_cancel_queued_requests, called when the vring is stopped. *)
VhdCancelQueuedRequests(v) ==
  LET mine == {io \in Range(submission) : VringOf[io] = v}
  IN /\ pc = "idle"
     /\ submission' = Keep(submission, {io \in Io : VringOf[io] # v})
     /\ num_in_flight' = [num_in_flight EXCEPT ![v] = @ - Cardinality(mine)]
     /\ cancelled' = cancelled \cup mine
     /\ UNCHANGED <<inflight, completion, backend, new, received, reported,
                    timeVars, bhVars>>

(* The loop takes completion_bh: from now on it can be scheduled again. *)
RqCompleteBh ==
  /\ pc = "idle" /\ bh = "queued"
  /\ bh' = "idle" /\ pc' = "steal"
  /\ UNCHANGED <<num_in_flight, io_list, backend, new, listVars, timeVars,
                 histVars>>

(* Mutant: the list is reported in the order of the list. *)
StealCompletions_Lifo ==
  /\ pc = "steal"
  /\ io_list' = completion /\ completion' = <<>>
  /\ pc' = "complete"
  /\ UNCHANGED <<submission, inflight, num_in_flight, bh, backend, new,
                 timeVars, histVars>>

StealCompletions ==
  /\ pc = "steal"
  /\ io_list' = Reverse(completion) /\ completion' = <<>>
  /\ pc' = "complete"
  /\ UNCHANGED <<submission, inflight, num_in_flight, bh, backend, new,
                 timeVars, histVars>>

(* One request of the stolen list: req_complete. *)
ReqComplete ==
  /\ pc = "complete" /\ io_list # <<>>
  /\ io_list' = Tail(io_list)
  /\ inflight' = Keep(inflight, Io \ {Head(io_list)})
  /\ num_in_flight' = [num_in_flight EXCEPT ![VringOf[Head(io_list)]] = @ - 1]
  /\ reported' = Append(reported, Head(io_list))
  /\ UNCHANGED <<submission, completion, bh, pc, backend, new, received,
                 cancelled, timeVars>>

RqCompleteBhDone ==
  /\ pc = "complete" /\ io_list = <<>>
  /\ oldest_inflight_ts' = IF inflight = <<>> THEN 0 ELSE ts[Head(inflight)]
  /\ pc' = "idle"
  /\ UNCHANGED <<ts, num_in_flight, bh, io_list, backend, new, now, listVars,
                 histVars>>

-----------------------------------------------------------------------------
(* The backend's threads.                                                  *)

(* The requests the backend has: dequeued and not completed by it. *)
Held == Range(inflight) \ (Range(completion) \cup Range(io_list))

(* Mutant: the BH is scheduled only by a thread that finds others. *)
VhdCompleteBio_Inverted(t, io) ==
  /\ backend[t] = "idle"
  /\ io \in Held
  /\ completion' = <<io>> \o completion
  /\ backend' = [backend EXCEPT ![t] = IF completion # <<>> THEN "schedule"
                                       ELSE "idle"]
  /\ received' = Append(received, io)
  /\ UNCHANGED <<submission, inflight, num_in_flight, new, reported,
                 cancelled, timeVars, bhVars>>

(* vhd_complete_bio: the request is inserted, ... *)
VhdCompleteBio(t, io) ==
  /\ backend[t] = "idle"
  /\ io \in Held
  /\ completion' = <<io>> \o completion
  /\ backend' = [backend EXCEPT ![t] = IF completion = <<>> THEN "schedule"
                                       ELSE "idle"]
  /\ received' = Append(received, io)
  /\ UNCHANGED <<submission, inflight, num_in_flight, new, reported,
                 cancelled, timeVars, bhVars>>

(* ... and the BH scheduled by the thread that found the list empty. *)
VhdBhSchedule(t) ==
  /\ backend[t] = "schedule"
  /\ backend' = [backend EXCEPT ![t] = "idle"]
  /\ bh' = "queued"
  /\ UNCHANGED <<num_in_flight, pc, io_list, new, listVars, timeVars,
                 histVars>>

Tick ==
  /\ now < MaxTime
  /\ now' = now + 1
  /\ UNCHANGED <<ts, oldest_inflight_ts, num_in_flight, backend, new,
                 listVars, bhVars, histVars>>

(* Nothing is left to do for a queue whose requests are all over. *)
Quiet ==
  /\ Range(reported) \cup cancelled = Io
  /\ UNCHANGED vars

-----------------------------------------------------------------------------
RqStep == RqCompleteBh \/ StealCompletions \/ ReqComplete \/ RqCompleteBhDone

Next ==
  \/ \E io \in Io : VhdEnqueueRequest(io)
  \/ VhdDequeueRequest
  \/ \E v \in Vring : VhdCancelQueuedRequests(v)
  \/ RqStep
  \/ \E t \in Thread, io \in Io : VhdCompleteBio(t, io)
  \/ \E t \in Thread : VhdBhSchedule(t)
  \/ Tick
  \/ Quiet

Spec == Init /\ [][Next]_vars

(* The loop runs its BHs, and a thread in vhd_complete_bio goes on. *)
Fairness == WF_vars(RqStep) /\ \A t \in Thread : WF_vars(VhdBhSchedule(t))

FairSpec == Spec /\ Fairness

-----------------------------------------------------------------------------
(* Properties.                                                             *)

(* The lists, counters and program counters stay in their ranges. *)
TypeOK ==
  /\ submission \in Seq(Io) /\ inflight \in Seq(Io)
  /\ completion \in Seq(Io) /\ io_list \in Seq(Io)
  /\ ts \in [Io -> Nat] /\ oldest_inflight_ts \in Nat
  /\ num_in_flight \in [Vring -> Nat]
  /\ bh \in {"idle", "queued"} /\ pc \in {"idle", "steal", "complete"}
  /\ backend \in [Thread -> {"idle", "schedule"}]
  /\ new \subseteq Io /\ cancelled \subseteq Io
  /\ received \in Seq(Io) /\ reported \in Seq(Io)
  /\ now \in Nat

(* The scheduling of the completion BH that vhd_complete_bio skips is       *)
(* never missing, and never done twice: exactly one of the BH being queued, *)
(* the BH about to steal the list and one thread about to schedule it       *)
(* holds while the list is not empty, and none when it is empty.            *)
CompletionAnnounced ==
  LET scheduling == {t \in Thread : backend[t] = "schedule"}
  IN IF completion = <<>>
     THEN scheduling = {} /\ bh = "idle" /\ pc # "steal"
     ELSE \/ /\ bh = "queued" /\ pc # "steal" /\ scheduling = {}
          \/ /\ bh = "idle" /\ pc = "steal" /\ scheduling = {}
          \/ /\ bh = "idle" /\ pc # "steal"
             /\ \E t \in Thread : scheduling = {t}

(* A vring counts exactly the requests of its own that wait in the         *)
(* submission list or are with the backend or in a completion list, and    *)
(* every request that is not reported or cancelled is one of those.        *)
InFlightExact ==
  LET there == Range(submission) \cup Range(inflight)
  IN /\ there = Io \ (new \cup Range(reported) \cup cancelled)
     /\ \A v \in Vring :
          num_in_flight[v] = Cardinality({io \in there : VringOf[io] = v})

(* What vhd_release_request_queue asserts: once every vring is drained the *)
(* lists are empty.  Nor is the completion BH queued, or about to be by a  *)
(* thread of the backend, so it can be deleted.                            *)
EmptyWhenDrained ==
  pc = "idle" /\ (\A v \in Vring : num_in_flight[v] = 0) =>
    /\ submission = <<>> /\ inflight = <<>> /\ completion = <<>>
    /\ bh = "idle" /\ \A t \in Thread : backend[t] = "idle"

(* Completions are reported in the order the backend made them. *)
ReportedInOrder == IsPrefix(reported, received)

(* A request the backend has completed is reported in the end. *)
CompletionReported ==
  \A io \in Io : io \in Range(received) ~> io \in Range(reported)
=============================================================================
