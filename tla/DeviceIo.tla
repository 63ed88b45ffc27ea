------------------------------ MODULE DeviceIo ------------------------------
(***************************************************************************)
(* The path of a request through a device: a descriptor chain of a vring   *)
(* is walked (VirtqChain), the device decides what it asks for (VirtioBlk, *)
(* VirtioFs) and answers at once or submits it to the request queue        *)
(* (RequestQueue), and the answer goes to the used ring when the queue's   *)
(* thread reports the completion.  Meanwhile the control loop may change   *)
(* the capacity of a block device.                                         *)
(*                                                                         *)
(* A member of Io is one request of the guest: the struct vhd_io that it   *)
(* is submitted with, and also the head of its chain.                      *)
(***************************************************************************)
EXTENDS RequestQueue, VirtqChain, VirtioBlk, VirtioFs

CONSTANTS
  Bdev,         \* what the application may pass to vhd_register_blockdev
  TotalBlocks,  \* what it may pass to vhd_blockdev_set_total_blocks
  Chain,        \* the descriptor tables of the guest's requests, from index 0
  None

VARIABLES
  dev,     \* struct virtio_blk_dev, or a virtio-fs device
  bio,     \* what each submitted request asks of the backend
  result,  \* io->status
  used,    \* the used ring: the heads pushed and their status, in order
  broken   \* the vrings whose queue is marked broken

devVars == <<dev, bio, result, used, broken>>

allVars == <<vars, devVars>>

FsDev == [kind |-> "fs"]

DevInit ==
  /\ Init
  /\ dev \in {virtio_blk_init_dev(b) : b \in {c \in Bdev : Registrable(c)}} \cup {FsDev}
  /\ bio = <<>>
  /\ result = [io \in Io |-> None]
  /\ used = <<>>
  /\ broken = {}

Pushed == {used[i].head : i \in DOMAIN used}

\* clone_iov: readable and writable buffers apart.
Iov(bufs) ==
  LET part(in) == SelectSeq(bufs, LAMBDA b : b.in = in)
      plain(s) == [i \in DOMAIN s |-> s[i].buf]
  IN  [out |-> plain(part(FALSE)), in |-> plain(part(TRUE))]

HandleBuffers(iov) ==
  IF dev.kind = "blk" THEN blk_handle_buffers(dev, iov) ELSE fs_handle_buffers(iov)

\* virtq_push and virtio_free_iov
Push(io, status) == used' = Append(used, [head |-> io, status |-> status])

(* virtq_dequeue_many for the next chain of a vring: a chain that cannot be *)
(* walked breaks the queue, and the guest gets no answer to it.             *)
Dispatch(io, table) ==
  LET chain == walk_chain(table, 0)
      res == HandleBuffers(Iov(chain.bufs))
  IN /\ pc = "idle" /\ io \in new \ Pushed /\ VringOf[io] \notin broken
     /\ \/ /\ ~chain.ok
           /\ broken' = broken \cup {VringOf[io]}
           /\ UNCHANGED <<dev, bio, result, used, vars>>
        \/ /\ chain.ok /\ res.kind # "submit"
           /\ Push(io, res.status)
           /\ UNCHANGED <<dev, bio, result, broken, vars>>
        \/ /\ chain.ok /\ res.kind = "submit"
           /\ VhdEnqueueRequest(io)
           /\ bio' = [x \in DOMAIN bio \cup {io} |-> IF x = io THEN res.io ELSE bio[x]]
           /\ UNCHANGED <<dev, result, used, broken>>

(* complete_io and complete_request, for a completion the queue reports. *)
CompleteIo ==
  /\ ReqComplete
  /\ LET io == Head(io_list)
     IN /\ Push(io, IF dev.kind = "blk" THEN translate_status(result[io])
                    ELSE result[io])
        /\ bio' = Restrict(bio, DOMAIN bio \ {io})
  /\ UNCHANGED <<dev, result, broken>>

(* Mutant: cancelled requests are pushed like others. *)
CancelIo_Push(v) ==
  /\ VhdCancelQueuedRequests(v)
  /\ used' = used \o SetToSeq({[head |-> io, status |-> "IOERR"] :
                                  io \in cancelled' \ cancelled})
  /\ bio' = Restrict(bio, DOMAIN bio \ cancelled')
  /\ UNCHANGED <<dev, result, broken>>

(* The same two for cancelled requests: freed, and not pushed, so that they *)
(* are found in the inflight region and submitted again after a reconnect.  *)
CancelIo(v) ==
  /\ VhdCancelQueuedRequests(v)
  /\ bio' = Restrict(bio, DOMAIN bio \ cancelled')
  /\ UNCHANGED <<dev, result, used, broken>>

(* vhd_complete_bio with the backend's verdict. *)
BackendCompletes(t, io, status) ==
  /\ VhdCompleteBio(t, io)
  /\ result' = [result EXCEPT ![io] = status]
  /\ UNCHANGED <<dev, bio, used, broken>>

(* set_total_blocks_entry, in the control loop. *)
SetTotalBlocks(n) ==
  /\ dev.kind = "blk"
  /\ dev' = virtio_blk_set_total_blocks(dev, n)
  /\ UNCHANGED <<vars, bio, result, used, broken>>

(* Nothing more comes from the guest. *)
DevQuiet ==
  /\ \A io \in Io : \/ io \in Pushed \cup cancelled
                    \/ io \in new /\ VringOf[io] \in broken
  /\ UNCHANGED allVars

QueueStep ==
  /\ \/ VhdDequeueRequest
     \/ RqCompleteBh \/ StealCompletions \/ RqCompleteBhDone
     \/ \E t \in Thread : VhdBhSchedule(t)
     \/ Tick
  /\ UNCHANGED devVars

DevNext ==
  \/ \E io \in Io, table \in Chain : Dispatch(io, table)
  \/ CompleteIo
  \/ \E v \in Vring : CancelIo(v)
  \/ \E t \in Thread, io \in Io, status \in {"SUCCESS", "IO_ERROR"} :
        BackendCompletes(t, io, status)
  \/ \E n \in TotalBlocks : SetTotalBlocks(n)
  \/ QueueStep
  \/ DevQuiet

DevSpec ==
  /\ DevInit /\ [][DevNext]_allVars
  /\ WF_allVars((RqCompleteBh \/ StealCompletions \/ RqCompleteBhDone)
                /\ UNCHANGED devVars)
  /\ WF_allVars(CompleteIo)
  /\ \A t \in Thread : WF_allVars(VhdBhSchedule(t) /\ UNCHANGED devVars)

-----------------------------------------------------------------------------
(* Properties.                                                             *)

(* The guest gets every head back once at most: a request is with the      *)
(* backend or the queue, and then asks something of it, or it has been     *)
(* answered, or cancelled, and never two of these.  One that the queue has *)
(* reported was answered with the backend's verdict, in that order, and    *)
(* one that was cancelled not at all.                                      *)
AnsweredOnce ==
  LET held == Range(submission) \cup Range(inflight)
      heads == [i \in DOMAIN used |-> used[i].head]
  IN /\ IsInjective(heads)
     /\ DOMAIN bio = held
     /\ held \cap (Pushed \cup cancelled) = {}
     /\ Pushed \cap cancelled = {}
     /\ Keep(heads, Io \ new) = reported
     /\ dev.kind = "blk" =>
          \A i \in DOMAIN used : used[i].head \in Range(reported) =>
             (used[i].status = "OK" <=> result[used[i].head] = "SUCCESS")
=============================================================================
