----------------------------- MODULE IoHandler -----------------------------
(***************************************************************************)
(* The io handlers of an event loop (event.c): which file descriptors the  *)
(* loop watches and whom it calls.  An iteration gets a list of handler    *)
(* pointers from epoll_wait, runs the BHs, then calls the handlers of the  *)
(* list.  BHs and handlers run in the thread of the loop and add, attach,  *)
(* detach and delete handlers, those still on the list included, so the    *)
(* pointers of the list outlive what they were reported for.               *)
(***************************************************************************)
EXTENDS Integers, FiniteSets, Functions, Lists

CONSTANTS
  Handler,    \* addresses vhd_alloc may return for a struct vhd_io_handler
  Fd,         \* file descriptors they watch
  Notify,     \* notifyfd of the loop, which has no handler
  MaxEvents,  \* the argument of vhd_create_event_loop
  Null

ASSUME IoAssumption ==
  /\ MaxEvents \in Nat \ {0}
  /\ Notify \notin Fd /\ Null \notin Handler \cup Fd

VARIABLES
  mem,        \* each address: free, owned by the caller, or waiting for free
  handler,    \* the struct at each address
  num_events_attached, deleted_handlers, is_terminated,
  events,     \* what is left of the list epoll_wait returned
  loop,       \* where the loop is in vhd_run_event_loop
  current,    \* the handler whose read callback is running
  epoll,      \* kernel: data.ptr of each watched fd
  readable,   \* kernel: the fds with something to read
  ready       \* kernel: the ready list of epoll, an fd at most once

vars == <<mem, handler, num_events_attached, deleted_handlers, is_terminated,
          events, loop, current, epoll, readable, ready>>

loopVars == <<events, loop, current, is_terminated>>

Source == Fd \cup {Notify}

Owned == {h \in Handler : mem[h] = "owned"}

(* vhd_create_event_loop: notifyfd is watched with a null data.ptr. *)
Init ==
  /\ mem = [h \in Handler |-> "free"]
  /\ handler = [h \in Handler |-> [fd |-> Null, attached |-> FALSE]]
  /\ num_events_attached = 0 /\ deleted_handlers = {} /\ is_terminated = FALSE
  /\ events = <<>> /\ loop = "wait" /\ current = Null
  /\ epoll = {<<Notify, Null>>}
  /\ readable = {} /\ ready = <<>>

-----------------------------------------------------------------------------
(* epoll and the file descriptors, level triggered.                        *)

Watched == {e[1] : e \in epoll}

(* Data arrives on an fd; a thread that queues a BH writes to notifyfd. *)
Arrive(f) ==
  /\ loop # "freed"
  /\ f \notin readable
  /\ readable' = readable \cup {f}
  /\ ready' = IF f \in Watched \ Range(ready) THEN Append(ready, f) ELSE ready
  /\ UNCHANGED <<mem, handler, num_events_attached, deleted_handlers, epoll,
                 loopVars>>

(* EPOLL_CTL_ADD refuses an fd that is watched already (EEXIST). *)
EpollAdd(f, h) ==
  /\ f \notin Watched
  /\ epoll' = epoll \cup {<<f, h>>}
  /\ ready' = IF f \in readable THEN Append(ready, f) ELSE ready

EpollDel(f) ==
  /\ epoll' = {e \in epoll : e[1] # f}
  /\ ready' = Keep(ready, Source \ {f})

(* epoll_wait: up to max_events + 1 readable fds from the head of the ready *)
(* list; those reported go to its tail.  notify_accept reads notifyfd.      *)
EpollWait ==
  /\ loop = "wait" /\ ~is_terminated
  /\ LET all == Keep(ready, readable)
         n == IF Len(all) <= MaxEvents + 1 THEN Len(all) ELSE MaxEvents + 1
         got == SubSeq(all, 1, n)
     IN /\ n > 0
        /\ events' = [i \in 1 .. n |->
                        CHOOSE h \in Handler \cup {Null} : <<got[i], h>> \in epoll]
        /\ ready' = SubSeq(all, n + 1, Len(all)) \o got
        /\ readable' = readable \ (IF Notify \in Range(got) THEN {Notify} ELSE {})
  /\ loop' = "bh"
  /\ UNCHANGED <<mem, handler, num_events_attached, deleted_handlers, epoll,
                 current, is_terminated>>

-----------------------------------------------------------------------------
(* The calls a BH or a handler makes, in the thread of the loop.           *)

InCallback == loop \in {"bh", "call"}

(* Mutant: the count is of the attached handlers, as its comment says. *)
VhdDetachIoHandler_Count(h) ==
  /\ InCallback
  /\ h \in Owned /\ handler[h].attached
  /\ EpollDel(handler[h].fd)
  /\ handler' = [handler EXCEPT ![h].attached = FALSE]
  /\ num_events_attached' = num_events_attached - 1
  /\ UNCHANGED <<mem, deleted_handlers, readable, loopVars>>

(* Detaching a handler that is not attached, and any call whose epoll_ctl   *)
(* fails, leave everything as it was.                                       *)
VhdDetachIoHandler(h) ==
  /\ InCallback
  /\ h \in Owned /\ handler[h].attached
  /\ EpollDel(handler[h].fd)
  /\ handler' = [handler EXCEPT ![h].attached = FALSE]
  /\ UNCHANGED <<mem, num_events_attached, deleted_handlers, readable, loopVars>>

(* Attaching an attached handler is an error of the caller. *)
VhdAttachIoHandler(h) ==
  /\ InCallback
  /\ h \in Owned /\ ~handler[h].attached
  /\ EpollAdd(handler[h].fd, h)
  /\ handler' = [handler EXCEPT ![h].attached = TRUE]
  /\ UNCHANGED <<mem, num_events_attached, deleted_handlers, readable, loopVars>>

(* Nobody adds a handler to a loop that is told to terminate. *)
VhdAddIoHandler(h, f) ==
  /\ InCallback /\ ~is_terminated
  /\ mem[h] = "free"
  /\ EpollAdd(f, h)
  /\ handler' = [handler EXCEPT ![h] = [fd |-> f, attached |-> TRUE]]
  /\ mem' = [mem EXCEPT ![h] = "owned"]
  /\ num_events_attached' = num_events_attached + 1
  /\ UNCHANGED <<deleted_handlers, readable, loopVars>>

(* Mutant: the handler is freed at once. *)
VhdDelIoHandler_Now(h) ==
  /\ InCallback
  /\ h \in Owned
  /\ IF handler[h].attached THEN EpollDel(handler[h].fd)
                            ELSE UNCHANGED <<epoll, ready>>
  /\ handler' = [handler EXCEPT ![h].attached = FALSE]
  /\ mem' = [mem EXCEPT ![h] = "free"]
  /\ num_events_attached' = num_events_attached - 1
  /\ UNCHANGED <<deleted_handlers, readable, loopVars>>

(* The handler is detached, and freed at the end of the iteration. *)
VhdDelIoHandler(h) ==
  /\ InCallback
  /\ h \in Owned
  /\ IF handler[h].attached THEN EpollDel(handler[h].fd)
                            ELSE UNCHANGED <<epoll, ready>>
  /\ handler' = [handler EXCEPT ![h].attached = FALSE]
  /\ mem' = [mem EXCEPT ![h] = "deleted"]
  /\ deleted_handlers' = deleted_handlers \cup {h}
  /\ num_events_attached' = num_events_attached - 1
  /\ UNCHANGED <<readable, loopVars>>

-----------------------------------------------------------------------------
(* The loop.                                                               *)

(* evloop_stop_bh; the users of the loop have deleted their handlers. *)
EvloopStopBh ==
  /\ loop = "bh" /\ ~is_terminated
  /\ Owned = {}
  /\ is_terminated' = TRUE
  /\ UNCHANGED <<mem, handler, num_events_attached, deleted_handlers, events,
                 loop, current, epoll, readable, ready>>

(* bh_poll returns. *)
BhPolled ==
  /\ loop = "bh"
  /\ loop' = "events"
  /\ UNCHANGED <<mem, handler, num_events_attached, deleted_handlers, events,
                 is_terminated, current, epoll, readable, ready>>

(* Mutant: the list is left at the first entry without a handler to call. *)
HandleEvent_Break ==
  /\ loop = "events" /\ events # <<>>
  /\ LET h == Head(events)
         call == h # Null /\ handler[h].attached
     IN /\ loop' = IF call THEN "call" ELSE loop
        /\ current' = IF call THEN h ELSE Null
        /\ events' = IF call THEN Tail(events) ELSE <<>>
  /\ UNCHANGED <<mem, handler, num_events_attached, deleted_handlers,
                 is_terminated, epoll, readable, ready>>

(* The next entry of the list: the notifier has no handler, and one that is *)
(* detached by now is not called.                                           *)
HandleEvent ==
  /\ loop = "events" /\ events # <<>>
  /\ LET h == Head(events)
         call == h # Null /\ handler[h].attached
     IN /\ loop' = IF call THEN "call" ELSE loop
        /\ current' = IF call THEN h ELSE Null
  /\ events' = Tail(events)
  /\ UNCHANGED <<mem, handler, num_events_attached, deleted_handlers,
                 is_terminated, epoll, readable, ready>>

(* The read callback returns; it may have read all that was there. *)
HandlerReturns(drained) ==
  /\ loop = "call"
  /\ loop' = "events" /\ current' = Null
  /\ readable' = IF drained THEN readable \ {handler[current].fd} ELSE readable
  /\ UNCHANGED <<mem, handler, num_events_attached, deleted_handlers, events,
                 is_terminated, epoll, ready>>

(* The end of handle_events: the deleted handlers are freed. *)
FreeDeleted ==
  /\ loop = "events" /\ events = <<>>
  /\ mem' = [h \in Handler |-> IF h \in deleted_handlers THEN "free" ELSE mem[h]]
  /\ deleted_handlers' = {}
  /\ loop' = "wait"
  /\ UNCHANGED <<handler, num_events_attached, events, is_terminated, current,
                 epoll, readable, ready>>

(* vhd_free_event_loop, once vhd_run_event_loop has returned 0. *)
VhdFreeEventLoop ==
  /\ loop = "wait" /\ is_terminated
  /\ loop' = "freed"
  /\ epoll' = {} /\ ready' = <<>>
  /\ UNCHANGED <<mem, handler, num_events_attached, deleted_handlers, events,
                 is_terminated, current, readable>>

(* The steps of an iteration itself, and the calls made in it. *)
Iteration ==
  \/ EpollWait
  \/ BhPolled
  \/ HandleEvent
  \/ \E drained \in BOOLEAN : HandlerReturns(drained)
  \/ FreeDeleted

Call ==
  \/ \E h \in Handler : \/ VhdDetachIoHandler(h)
                        \/ VhdAttachIoHandler(h)
                        \/ VhdDelIoHandler(h)
                        \/ \E f \in Fd : VhdAddIoHandler(h, f)
  \/ EvloopStopBh

Next ==
  \/ Iteration
  \/ Call
  \/ VhdFreeEventLoop
  \/ \E f \in Source : Arrive(f)

Spec == Init /\ [][Next]_vars

(* The thread of the loop goes on, and a callback makes finitely many calls. *)
FairSpec == Spec /\ WF_vars(Iteration)

-----------------------------------------------------------------------------
(* Properties.                                                             *)

(* No pointer is left to a handler that was freed: neither on the list that *)
(* handle_events walks, nor in the callback that runs, nor in the kernel,   *)
(* which holds exactly the attached handlers.                               *)
PointersAlive ==
  /\ \A h \in Range(events) \cup {current} : h # Null => mem[h] # "free"
  /\ loop # "freed" =>
       epoll = {<<Notify, Null>>} \cup
               {<<handler[h].fd, h>> : h \in {g \in Owned : handler[g].attached}}

(* The assertion of vhd_free_event_loop on num_events_attached is about the *)
(* handlers not yet deleted, detached ones included, and a loop that is     *)
(* freed leaves no handler behind.                                          *)
HandlersCounted ==
  /\ num_events_attached = Cardinality(Owned)
  /\ loop = "freed" => \A h \in Handler : mem[h] = "free"

(* The handler has something to read, and is not being called. *)
Waiting(h) ==
  handler[h].attached /\ handler[h].fd \in readable /\ current # h

(* A busy descriptor starves no other one, although the list holds fewer    *)
(* entries than there are descriptors: a handler does not wait for ever.    *)
NoStarvation == \A h \in Handler : Waiting(h) ~> ~Waiting(h)
=============================================================================
