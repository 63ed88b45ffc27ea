------------------------------ MODULE BhQueue ------------------------------
(***************************************************************************)
(* What an event loop promises to those who queue bottom halves (BHs) on   *)
(* it.  A BH that is queued runs later in the loop, once however often it  *)
(* was queued before that; the loop takes everything queued so far as one  *)
(* batch and takes nothing more before the batch has run.  A loop that was *)
(* closed has run what it took, and drops what is queued later.  The       *)
(* device of Vdev uses the loops of event.c as described here.             *)
(***************************************************************************)
CONSTANT Bh

VARIABLES pending,  \* the BHs queued on the loop
          batch,    \* those it has taken and not run yet
          closed    \* the loop was terminated

bhVars == <<pending, batch, closed>>

Init == pending = {} /\ batch = {} /\ closed = FALSE

Queue(b) ==
  /\ b \notin pending \cup batch
  /\ pending' = pending \cup {b}
  /\ UNCHANGED <<batch, closed>>

Poll ==
  /\ ~closed
  /\ pending # {} /\ batch = {}
  /\ pending' = {} /\ batch' = pending
  /\ UNCHANGED closed

Run(b) ==
  /\ b \in batch
  /\ batch' = batch \ {b}
  /\ UNCHANGED <<pending, closed>>

Close ==
  /\ batch = {}
  /\ closed' = TRUE
  /\ UNCHANGED <<pending, batch>>

Discard ==
  /\ closed
  /\ pending' = {}
  /\ UNCHANGED <<batch, closed>>

Next == Poll \/ Close \/ Discard \/ \E b \in Bh : Queue(b) \/ Run(b)

Spec == Init /\ [][Next]_bhVars

FairSpec ==
  Spec /\ WF_bhVars(Poll) /\ WF_bhVars(\E b \in Bh : Run(b))
=============================================================================
