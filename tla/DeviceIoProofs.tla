--------------------------- MODULE DeviceIoProofs ---------------------------
(***************************************************************************)
(* Proofs about a request queue and about the devices that use it, for any *)
(* number of requests, vrings and threads of the backend.  What is proved  *)
(* of the queue alone holds in any device, since a device is a user of its *)
(* request queue and does nothing to it that RequestQueue does not allow.  *)
(* The last part is about the answers that a device puts in the used ring. *)
(***************************************************************************)
EXTENDS DeviceIo, ListProofs, FiniteSetTheorems

(* The request queue.                                                      *)

(* The part of the state that announces completions. *)
AnnounceType ==
  /\ completion \in Seq(Io)
  /\ bh \in {"idle", "queued"} /\ pc \in {"idle", "steal", "complete"}
  /\ backend \in [Thread -> {"idle", "schedule"}]

AnnounceInv == AnnounceType /\ CompletionAnnounced

(* Each step of vhd_complete_bio and rq_complete_bh hands the duty to      *)
(* announce the completions over to the next one.                          *)
LEMMA AnnounceStep == AnnounceInv /\ [Next]_vars => AnnounceInv'
<1> SUFFICES ASSUME AnnounceInv, [Next]_vars PROVE AnnounceInv'
  BY ZenonT(30)
<1> USE DEF AnnounceInv, AnnounceType, CompletionAnnounced, listVars, timeVars,
            bhVars, histVars
<1>1. CASE UNCHANGED <<completion, bh, pc, backend>>
  BY ZenonT(30), <1>1
<1>2. ASSUME NEW io \in Io, VhdEnqueueRequest(io)
      PROVE  UNCHANGED <<completion, bh, pc, backend>>
  BY ZenonT(30), <1>2 DEF VhdEnqueueRequest
<1>3. CASE VhdDequeueRequest
  BY ZenonT(30), <1>1, <1>3 DEF VhdDequeueRequest
<1>4. ASSUME NEW v \in Vring, VhdCancelQueuedRequests(v)
      PROVE  UNCHANGED <<completion, bh, pc, backend>>
  BY ZenonT(30), <1>4 DEF VhdCancelQueuedRequests
<1>5. CASE RqCompleteBh
  BY ZenonT(30), <1>5 DEF RqCompleteBh
<1>6. CASE StealCompletions
  BY SMTT(30), <1>6 DEF StealCompletions
<1>7. CASE ReqComplete
  BY Zenon, <1>1, <1>7 DEF ReqComplete
<1>8. CASE RqCompleteBhDone
  BY ZenonT(30), <1>8 DEF RqCompleteBhDone
<1>9. ASSUME NEW t \in Thread, NEW io \in Io, VhdCompleteBio(t, io)
      PROVE  AnnounceInv'
  <2>1. completion' \in Seq(Io) /\ completion' # <<>>
    BY SMTT(30), <1>9 DEF VhdCompleteBio
  <2>2. CASE completion = <<>>
    <3>1. {u \in Thread : backend'[u] = "schedule"} = {t}
      BY ZenonT(30), <1>9, <2>2 DEF VhdCompleteBio
    <3> QED BY Zenon, <1>9, <2>1, <2>2, <3>1 DEF VhdCompleteBio
  <2>3. CASE completion # <<>>
    <3>1. backend' = backend
      BY Zenon, <1>9, <2>3 DEF VhdCompleteBio
    <3>2. UNCHANGED <<bh, pc, backend>> /\ completion' # <<>>
      BY Zenon, <1>9, <2>1, <3>1 DEF VhdCompleteBio
    <3>3. CompletionAnnounced'
      BY ZenonT(30), <2>3, <3>2
    <3>4. AnnounceType'
      BY ZenonT(30), <2>1, <3>2
    <3> QED BY Zenon, <3>3, <3>4
  <2> QED BY ZenonT(30), <2>2, <2>3
<1>10. ASSUME NEW t \in Thread, VhdBhSchedule(t) PROVE AnnounceInv'
  <2>1. {u \in Thread : backend[u] = "schedule"} = {t} /\ completion # <<>>
    BY ZenonT(30), <1>10 DEF VhdBhSchedule
  <2>2. {u \in Thread : backend'[u] = "schedule"} = {}
    BY ZenonT(30), <1>10, <2>1 DEF VhdBhSchedule
  <2> QED BY ZenonT(30), <1>10, <2>1, <2>2 DEF VhdBhSchedule
<1>11. CASE Tick \/ Quiet
  BY ZenonT(30), <1>1, <1>11 DEF Tick, Quiet, vars
<1> QED
  BY ZenonT(30), <1>1, <1>2, <1>3, <1>4, <1>5, <1>6, <1>7, <1>8, <1>9, <1>10, <1>11
     DEF Next, RqStep, vars

(* No completion is lost although vhd_complete_bio schedules the BH only   *)
(* when it finds the list empty, however many threads complete requests.   *)
THEOREM CompletionsAnnounced == Spec => []CompletionAnnounced
<1>1. Init => AnnounceInv
  BY SMTT(30) DEF Init, AnnounceInv, AnnounceType, CompletionAnnounced
<1>2. AnnounceInv => CompletionAnnounced
  BY Zenon DEF AnnounceInv
<1> QED BY <1>1, <1>2, AnnounceStep, PTL DEF Spec

-----------------------------------------------------------------------------
(* The order of the completions.                                           *)

(* What the backend has completed is what was reported, followed by what   *)
(* rq_complete_bh has stolen, followed by the list it will steal next.     *)
OrderInv ==
  /\ completion \in Seq(Io) /\ io_list \in Seq(Io)
  /\ received \in Seq(Io) /\ reported \in Seq(Io)
  /\ pc # "complete" => io_list = <<>>
  /\ received = (reported \o io_list) \o Reverse(completion)

(* Reversing a list whose head is io leaves io last. *)
LEMMA ReverseCons ==
  ASSUME NEW s \in Seq(Io), NEW io \in Io
  PROVE  /\ Reverse(s) \in Seq(Io)
         /\ Reverse(<<io>> \o s) = Append(Reverse(s), io)
<1> DEFINE c == <<io>> \o s
           l == Reverse(c)
           r == Append(Reverse(s), io)
<1>1. /\ Reverse(s) \in Seq(Io) /\ Len(Reverse(s)) = Len(s)
      /\ \A i \in 1 .. Len(s) : Reverse(s)[i] = s[(Len(s) - i) + 1]
  BY SMTT(30) DEF Reverse
<1>2. /\ c \in Seq(Io) /\ Len(c) = Len(s) + 1
      /\ c[1] = io /\ \A i \in 1 .. Len(s) : c[i + 1] = s[i]
  BY SMTT(30)
<1> HIDE DEF c
<1>3. /\ l \in Seq(Io) /\ Len(l) = Len(s) + 1
      /\ \A i \in 1 .. Len(s) + 1 : l[i] = c[((Len(s) + 1) - i) + 1]
  BY SMTT(30), <1>2 DEF Reverse
<1>4. /\ r \in Seq(Io) /\ Len(r) = Len(s) + 1
      /\ r[Len(s) + 1] = io
      /\ \A i \in 1 .. Len(s) : r[i] = Reverse(s)[i]
  BY SMTT(30), <1>1, AppendProperties
<1> HIDE DEF l, r
<1>5. ASSUME NEW i \in 1 .. Len(s) + 1 PROVE l[i] = r[i]
  <2>1. CASE i = Len(s) + 1
    BY SMTT(30), <1>2, <1>3, <1>4, <2>1
  <2>2. CASE i \in 1 .. Len(s)
    <3>1. (Len(s) - i) + 1 \in 1 .. Len(s)
      BY SMTT(30), <2>2
    <3>2. l[i] = c[((Len(s) - i) + 1) + 1]
      <4>1. ((Len(s) + 1) - i) + 1 = ((Len(s) - i) + 1) + 1
        BY SMTT(30), <2>2
      <4> QED BY ZenonT(30), <1>3, <4>1
    <3> QED BY ZenonT(30), <1>1, <1>2, <1>4, <2>2, <3>1, <3>2
  <2>3. i = Len(s) + 1 \/ i \in 1 .. Len(s)
    BY SMTT(30)
  <2> QED BY Zenon, <2>1, <2>2, <2>3
<1>6. l = r
  BY ZenonT(30), <1>3, <1>4, <1>5, SeqEqual
<1> QED BY Zenon, <1>1, <1>6 DEF c, l, r

(* Nothing is left of an empty list. *)
LEMMA ReverseEmpty == Reverse(<<>>) = <<>>
BY SMTT(30) DEF Reverse

(* Each step moves a completion along these lists, in order. *)
LEMMA OrderStep == OrderInv /\ [Next]_vars => OrderInv'
<1> SUFFICES ASSUME OrderInv, [Next]_vars PROVE OrderInv'
  BY Zenon
<1> USE DEF OrderInv, listVars, timeVars, bhVars, histVars
<1>1. ASSUME /\ UNCHANGED <<completion, io_list, received, reported>>
             /\ pc = "complete" => pc' = "complete"
      PROVE  OrderInv'
  BY ZenonT(30), <1>1
<1>2. ASSUME NEW io \in Io, VhdEnqueueRequest(io) PROVE OrderInv'
  BY ZenonT(30), <1>1, <1>2 DEF VhdEnqueueRequest
<1>3. CASE VhdDequeueRequest
  BY ZenonT(30), <1>1, <1>3 DEF VhdDequeueRequest
<1>4. ASSUME NEW v \in Vring, VhdCancelQueuedRequests(v) PROVE OrderInv'
  BY ZenonT(30), <1>1, <1>4 DEF VhdCancelQueuedRequests
<1>5. CASE RqCompleteBh
  BY ZenonT(30), <1>5 DEF RqCompleteBh
<1>6. CASE StealCompletions
  <2>1. /\ io_list = <<>> /\ io_list' = Reverse(completion) /\ completion' = <<>>
        /\ UNCHANGED <<received, reported>> /\ pc' = "complete"
    BY ZenonT(30), <1>6 DEF StealCompletions
  <2>2. Reverse(completion) \in Seq(Io)
    BY SMTT(30) DEF Reverse
  <2>3. received = reported \o Reverse(completion)
    BY SMTT(30), <2>1, <2>2
  <2>4. received' = (reported' \o io_list') \o Reverse(completion')
    <3>1. received \o <<>> = received
      BY ZenonT(30), ConcatEmptySeq
    <3> QED BY ZenonT(30), <2>1, <2>3, <3>1, ReverseEmpty
  <2> QED BY ZenonT(30), <2>1, <2>2, <2>4
<1>7. CASE ReqComplete
  <2>1. /\ io_list # <<>> /\ io_list' = Tail(io_list)
        /\ reported' = Append(reported, Head(io_list))
        /\ UNCHANGED <<completion, received>> /\ pc = "complete" /\ pc' = pc
    BY ZenonT(30), <1>7 DEF ReqComplete
  <2>2. reported' \in Seq(Io) /\ io_list' \in Seq(Io)
    BY SMTT(30), <2>1
  <2>3. reported' \o io_list' = reported \o io_list
    BY SMTT(30), <2>1
  <2> QED BY ZenonT(30), <2>1, <2>2, <2>3
<1>8. CASE RqCompleteBhDone
  BY ZenonT(30), <1>8 DEF RqCompleteBhDone
<1>9. ASSUME NEW t \in Thread, NEW io \in Io, VhdCompleteBio(t, io)
      PROVE  OrderInv'
  <2>1. /\ completion' = <<io>> \o completion /\ received' = Append(received, io)
        /\ UNCHANGED <<io_list, reported, pc>>
    BY ZenonT(30), <1>9 DEF VhdCompleteBio
  <2>2. Reverse(completion') = Append(Reverse(completion), io)
    BY ZenonT(30), <2>1, ReverseCons
  <2>3. Reverse(completion) \in Seq(Io)
    BY SMTT(30) DEF Reverse
  <2>4. received' = (reported \o io_list) \o Append(Reverse(completion), io)
    <3>1. reported \o io_list \in Seq(Io)
      BY SMTT(30)
    <3>2. received' = ((reported \o io_list) \o Reverse(completion)) \o <<io>>
      BY ZenonT(30), <2>1, AppendIsConcat
    <3>3. ASSUME NEW x \in Seq(Io), NEW y \in Seq(Io)
          PROVE  (x \o y) \o <<io>> = x \o (y \o <<io>>)
      BY SMTT(30)
    <3>4. received' = (reported \o io_list) \o (Reverse(completion) \o <<io>>)
      BY ZenonT(30), <2>3, <3>1, <3>2, <3>3
    <3> QED BY ZenonT(30), <2>3, <3>4, AppendIsConcat
  <2>5. completion' \in Seq(Io) /\ received' \in Seq(Io)
    BY SMTT(30), <2>1
  <2> QED BY ZenonT(30), <2>1, <2>2, <2>4, <2>5
<1>10. ASSUME NEW t \in Thread, VhdBhSchedule(t) PROVE OrderInv'
  BY ZenonT(30), <1>1, <1>10 DEF VhdBhSchedule
<1>11. CASE Tick \/ Quiet
  BY ZenonT(30), <1>1, <1>11 DEF Tick, Quiet, vars
<1> QED
  BY ZenonT(30), <1>1, <1>2, <1>3, <1>4, <1>5, <1>6, <1>7, <1>8, <1>9, <1>10, <1>11
     DEF Next, RqStep, vars

(* Completions are reported to the guest in the order in which the backend *)
(* made them, although the list they go through is a stack.                *)
THEOREM CompletionsInOrder == Spec => []ReportedInOrder
<1>1. Init => OrderInv
  BY SMTT(30), ReverseEmpty DEF Init, OrderInv
<1>2. OrderInv => ReportedInOrder
  <2> SUFFICES ASSUME OrderInv PROVE ReportedInOrder
    BY Zenon
  <2> USE DEF OrderInv
  <2>1. io_list \o Reverse(completion) \in Seq(Io)
    <3>1. Reverse(completion) \in Seq(Io)
      BY SMTT(30) DEF Reverse
    <3> QED BY SMTT(30), <3>1
  <2>2. received = reported \o (io_list \o Reverse(completion))
    <3>1. Reverse(completion) \in Seq(Io)
      BY SMTT(30) DEF Reverse
    <3> QED BY SMTT(30), <3>1
  <2>3. Len(reported) <= Len(received)
    BY SMTT(30), <2>1, <2>2
  <2>4. \A i \in 1 .. Len(reported) : received[i] = reported[i]
    BY SMTT(30), <2>1, <2>2
  <2>5. SubSeq(reported, 1, Len(reported)) = SubSeq(received, 1, Len(reported))
    BY SMTT(30), <2>3, <2>4
  <2> QED BY Zenon, <2>3, <2>5 DEF ReportedInOrder, IsPrefix
<1> QED BY <1>1, <1>2, OrderStep, PTL DEF Spec

-----------------------------------------------------------------------------
(* The requests in flight.                                                 *)

There == Range(submission) \cup Range(inflight)

Mine(v) == {io \in There : VringOf[io] = v}

QueueType ==
  /\ submission \in Seq(Io) /\ inflight \in Seq(Io)
  /\ completion \in Seq(Io) /\ io_list \in Seq(Io) /\ reported \in Seq(Io)
  /\ num_in_flight \in [Vring -> Nat]
  /\ pc \in {"idle", "steal", "complete"}
  /\ new \subseteq Io /\ cancelled \subseteq Io

(* Every request is at one place: not made yet, to be submitted, with the  *)
(* backend or on the way back from it, reported or cancelled.  It is in a  *)
(* list once, and the completed ones stay in the inflight list until they  *)
(* are reported.                                                           *)
PlaceInv ==
  /\ Distinct(submission) /\ Distinct(inflight)
  /\ Distinct(completion) /\ Distinct(io_list)
  /\ Range(submission) \cap Range(inflight) = {}
  /\ Range(completion) \cap Range(io_list) = {}
  /\ Range(completion) \cup Range(io_list) \subseteq Range(inflight)
  /\ There = Io \ (new \cup Range(reported) \cup cancelled)
  /\ new \cap (Range(reported) \cup cancelled) = {}
  /\ Range(reported) \cap cancelled = {}
  /\ pc # "complete" => io_list = <<>>

CountInv ==
  /\ IsFiniteSet(There)
  /\ \A v \in Vring : num_in_flight[v] = Cardinality(Mine(v))

QueueInv == QueueType /\ PlaceInv /\ CountInv

(* Reversing a list keeps its elements. *)
LEMMA ReverseFacts ==
  ASSUME NEW s \in Seq(Io)
  PROVE  /\ Reverse(s) \in Seq(Io)
         /\ Range(Reverse(s)) = Range(s)
         /\ Distinct(s) => Distinct(Reverse(s))
<1> DEFINE r == Reverse(s)
<1>1. /\ r \in Seq(Io) /\ Len(r) = Len(s) /\ DOMAIN r = 1 .. Len(s)
      /\ \A i \in 1 .. Len(s) : r[i] = s[(Len(s) - i) + 1]
      /\ Len(s) \in Nat /\ DOMAIN s = 1 .. Len(s)
  BY SMTT(30) DEF Reverse
<1> HIDE DEF r
<1>2. \A i \in 1 .. Len(s) :
        (Len(s) - i) + 1 \in 1 .. Len(s) /\ (Len(s) - ((Len(s) - i) + 1)) + 1 = i
  BY SMTT(30), <1>1
<1>3. \A i \in 1 .. Len(s) : r[(Len(s) - i) + 1] = s[i]
  BY ZenonT(30), <1>1, <1>2
<1>4. Range(r) = Range(s)
  <2>1. ASSUME NEW i \in DOMAIN r PROVE r[i] \in Range(s)
    BY ZenonT(30), <1>1, <1>2 DEF Range
  <2>2. ASSUME NEW i \in DOMAIN s PROVE s[i] \in Range(r)
    BY ZenonT(30), <1>1, <1>2, <1>3 DEF Range
  <2> QED BY ZenonT(30), <2>1, <2>2 DEF Range
<1>5. ASSUME Distinct(s), NEW i \in DOMAIN r, NEW j \in DOMAIN r, r[i] = r[j]
      PROVE  i = j
  <2>1. (Len(s) - i) + 1 = (Len(s) - j) + 1
    <3> DEFINE m == (Len(s) - i) + 1
               n == (Len(s) - j) + 1
    <3>1. i \in 1 .. Len(s) /\ j \in 1 .. Len(s)
      BY Zenon, <1>1
    <3>2. m \in DOMAIN s /\ n \in DOMAIN s /\ r[i] = s[m] /\ r[j] = s[n]
      BY ZenonT(30), <1>1, <1>2, <3>1
    <3> HIDE DEF m, n
    <3>3. m = n
      BY ZenonT(30), <1>5, <3>2 DEF Distinct
    <3> QED BY Zenon, <3>3 DEF m, n
  <2> QED BY SMTT(30), <1>1, <2>1
<1> QED BY ZenonT(30), <1>1, <1>4, <1>5 DEF r, Distinct

(* The queue starts empty. *)
LEMMA QueueInit == Init => QueueInv
<1> SUFFICES ASSUME Init PROVE QueueInv
  BY ZenonT(30)
<1>1. There = {} /\ \A v \in Vring : Mine(v) = {}
  BY ZenonT(30), EmptyFacts DEF Init, There, Mine
<1>2. QueueType
  BY SMTT(30) DEF Init, QueueType
<1>3. PlaceInv
  BY ZenonT(30), <1>1, EmptyFacts DEF Init, PlaceInv
<1>4. CountInv
  BY ZenonT(30), <1>1, FS_EmptySet DEF Init, CountInv
<1> QED BY ZenonT(30), <1>2, <1>3, <1>4 DEF QueueInv

(* The count of a vring that has one request more, or one less. *)
LEMMA CountMore ==
  ASSUME QueueInv, NEW io \in Io \ There, There' = There \cup {io},
         num_in_flight' = [num_in_flight EXCEPT ![VringOf[io]] = @ + 1]
  PROVE  CountInv' /\ num_in_flight' \in [Vring -> Nat]
<1> USE QueueAssumption DEF QueueInv, CountInv, QueueType
<1>1. IsFiniteSet(There')
  BY Zenon, FS_AddElement
<1>2. ASSUME NEW v \in Vring PROVE num_in_flight'[v] = Cardinality(Mine(v)')
  <2>1. IsFiniteSet(Mine(v)) /\ io \notin Mine(v)
    BY ZenonT(30), FS_Subset DEF Mine
  <2>2. CASE VringOf[io] = v
    <3>1. Mine(v)' = Mine(v) \cup {io}
      BY ZenonT(30), <2>2 DEF Mine
    <3>2. num_in_flight'[v] = num_in_flight[v] + 1
      BY ZenonT(30), <2>2
    <3>3. Cardinality(Mine(v) \cup {io}) = Cardinality(Mine(v)) + 1
      BY ZenonT(30), <2>1, FS_AddElement
    <3>4. num_in_flight[v] = Cardinality(Mine(v))
      BY ZenonT(30)
    <3> QED BY ONLY ZenonT(30), <3>1, <3>2, <3>3, <3>4
  <2>3. CASE VringOf[io] # v
    <3>1. Mine(v)' = Mine(v)
      BY ZenonT(30), <2>3 DEF Mine
    <3> QED BY ZenonT(30), <2>3, <3>1
  <2> QED BY Zenon, <2>2, <2>3
<1> QED BY SMTT(30), <1>1, <1>2

LEMMA CountLess ==
  ASSUME QueueInv, NEW io \in There, There' = There \ {io},
         num_in_flight' = [num_in_flight EXCEPT ![VringOf[io]] = @ - 1]
  PROVE  CountInv' /\ num_in_flight' \in [Vring -> Nat]
<1> USE QueueAssumption DEF QueueInv, CountInv, QueueType
<1>0. io \in Io
  BY ZenonT(30) DEF PlaceInv
<1>1. IsFiniteSet(There')
  BY ZenonT(30), FS_RemoveElement
<1>2. ASSUME NEW v \in Vring
      PROVE  num_in_flight'[v] = Cardinality(Mine(v)') /\ num_in_flight'[v] \in Nat
  <2>1. IsFiniteSet(Mine(v))
    BY ZenonT(30), FS_Subset DEF Mine
  <2>2. CASE VringOf[io] = v
    <3>1. Mine(v)' = Mine(v) \ {io} /\ io \in Mine(v)
      BY ZenonT(30), <2>2 DEF Mine
    <3>2. num_in_flight'[v] = num_in_flight[v] - 1
      BY ZenonT(30), <2>2
    <3>3. /\ IsFiniteSet(Mine(v) \ {io})
          /\ Cardinality(Mine(v) \ {io}) = Cardinality(Mine(v)) - 1
      BY ZenonT(30), <2>1, <3>1, FS_RemoveElement
    <3>4. Cardinality(Mine(v) \ {io}) \in Nat
      BY ZenonT(30), <3>3, FS_CardinalityType
    <3>5. num_in_flight[v] = Cardinality(Mine(v))
      BY ZenonT(30)
    <3> QED BY ONLY ZenonT(30), <3>1, <3>2, <3>3, <3>4, <3>5
  <2>3. CASE VringOf[io] # v
    <3>1. Mine(v)' = Mine(v)
      BY ZenonT(30), <2>3 DEF Mine
    <3> QED BY ZenonT(30), <1>0, <2>3, <3>1
  <2> QED BY ZenonT(30), <2>2, <2>3
<1>3. num_in_flight' \in [Vring -> Nat]
  BY ZenonT(30), <1>0, <1>2
<1> QED BY ZenonT(30), <1>1, <1>2, <1>3

(* The requests of a stopped vring that wait are taken out of the list and *)
(* of its count, and nothing else is.                                      *)
LEMMA QueueCancel ==
  ASSUME QueueInv, NEW v \in Vring, VhdCancelQueuedRequests(v)
  PROVE  QueueInv'
<1> DEFINE mine == {io \in Range(submission) : VringOf[io] = v}
           others == {io \in Io : VringOf[io] # v}
<1>1. /\ submission' = Keep(submission, others)
      /\ num_in_flight' = [num_in_flight EXCEPT ![v] = @ - Cardinality(mine)]
      /\ cancelled' = cancelled \cup mine
      /\ UNCHANGED <<inflight, completion, io_list, reported, pc, new>>
  BY ZenonT(30) DEF VhdCancelQueuedRequests, bhVars
<1>2. /\ submission' \in Seq(Io) /\ Range(submission') = Range(submission) \ mine
      /\ Distinct(submission')
  <2>1. submission \in Seq(Io) /\ Distinct(submission) /\ Range(submission) \subseteq Io
    BY SMTT(30) DEF QueueInv, QueueType, PlaceInv, Range
  <2>2. Range(submission) \cap others = Range(submission) \ mine
    BY Zenon, <2>1
  <2> QED BY ZenonT(30), <1>1, <2>1, <2>2, KeepFacts
<1>3. There' = There \ mine /\ mine \subseteq There /\ There \subseteq Io
  BY Zenon, <1>1, <1>2 DEF There, QueueInv, PlaceInv
<1>4. IsFiniteSet(mine) /\ IsFiniteSet(There')
  BY ZenonT(30), <1>3, FS_Subset DEF QueueInv, CountInv
<1> HIDE DEF mine
<1>5. ASSUME NEW w \in Vring
      PROVE  num_in_flight'[w] = Cardinality(Mine(w)') /\ num_in_flight'[w] \in Nat
  <2>1. /\ IsFiniteSet(Mine(w)) /\ num_in_flight[w] = Cardinality(Mine(w))
        /\ num_in_flight \in [Vring -> Nat]
    BY ZenonT(30), FS_Subset DEF QueueInv, QueueType, CountInv, Mine
  <2>2. CASE w = v
    <3>1. Mine(v)' = Mine(v) \ mine /\ Mine(v) \cap mine = mine
      BY ZenonT(30), <1>3 DEF Mine, mine
    <3>2. /\ IsFiniteSet(Mine(v) \ mine)
          /\ Cardinality(Mine(v) \ mine) = Cardinality(Mine(v)) - Cardinality(mine)
      BY SMTT(30), <2>1, <2>2, <3>1, FS_Difference
    <3>3. num_in_flight'[v] = num_in_flight[v] - Cardinality(mine)
      BY Zenon, <1>1, <2>1
    <3> QED BY ZenonT(30), <2>1, <2>2, <3>1, <3>2, <3>3, FS_CardinalityType
  <2>3. CASE w # v
    <3>1. Mine(w)' = Mine(w)
      BY ZenonT(30), <1>3, <2>3 DEF Mine, mine
    <3> QED BY ZenonT(30), <1>1, <2>1, <2>3, <3>1
  <2> QED BY ZenonT(30), <2>2, <2>3
<1>6. QueueType'
  <2>1. num_in_flight' \in [Vring -> Nat]
    BY ZenonT(30), <1>1, <1>5 DEF QueueInv, QueueType
  <2> QED BY ZenonT(30), <1>1, <1>2, <1>3, <2>1 DEF QueueInv, QueueType
<1>7. PlaceInv'
  <2>1. mine \cap Range(reported) = {} /\ mine \cap new = {}
    BY ZenonT(30), <1>3 DEF QueueInv, PlaceInv
  <2> QED BY ZenonT(30), <1>1, <1>2, <1>3, <2>1 DEF QueueInv, PlaceInv
<1>8. CountInv'
  BY ZenonT(30), <1>4, <1>5 DEF CountInv
<1> QED BY ZenonT(30), <1>6, <1>7, <1>8 DEF QueueInv

(* Each step moves a request to its next place. *)
LEMMA QueueStepInv == QueueInv /\ [Next]_vars => QueueInv'
<1> SUFFICES ASSUME QueueInv, [Next]_vars PROVE QueueInv'
  BY Zenon
<1> USE DEF listVars, timeVars, bhVars, histVars
<1>1. ASSUME UNCHANGED <<submission, inflight, completion, io_list, reported,
                         num_in_flight, new, cancelled>>,
             pc' \in {"idle", "steal", "complete"},
             pc' = "complete" \/ io_list = <<>>
      PROVE  QueueInv'
  BY ZenonT(30), <1>1 DEF QueueInv, QueueType, PlaceInv, CountInv, There, Mine
<1>2. ASSUME NEW io \in Io, VhdEnqueueRequest(io) PROVE QueueInv'
  <2>1. /\ io \in new /\ new' = new \ {io} /\ submission' = Append(submission, io)
        /\ num_in_flight' = [num_in_flight EXCEPT ![VringOf[io]] = @ + 1]
        /\ UNCHANGED <<inflight, completion, io_list, reported, cancelled, pc>>
    BY ZenonT(30), <1>2 DEF VhdEnqueueRequest
  <2>2. io \notin There
    BY ZenonT(30), <2>1 DEF QueueInv, PlaceInv
  <2>3. /\ submission' \in Seq(Io) /\ Range(submission') = Range(submission) \cup {io}
        /\ Distinct(submission')
    BY SMTT(30), <2>1, <2>2, AppendFacts DEF QueueInv, QueueType, PlaceInv, There
  <2>4. There' = There \cup {io}
    BY Zenon, <2>1, <2>3 DEF There
  <2>5. CountInv' /\ num_in_flight' \in [Vring -> Nat]
    BY ZenonT(30), <2>1, <2>2, <2>4, CountMore
  <2>6. QueueType'
    BY ZenonT(30), <2>1, <2>3, <2>5 DEF QueueInv, QueueType
  <2>7. PlaceInv'
    BY SMTT(30), <2>1, <2>2, <2>3, <2>4 DEF QueueInv, PlaceInv, There
  <2> QED BY ZenonT(30), <2>5, <2>6, <2>7 DEF QueueInv
<1>3. CASE VhdDequeueRequest
  <2> DEFINE io == Head(submission)
  <2>1. /\ submission # <<>> /\ submission' = Tail(submission)
        /\ inflight' = Append(inflight, io)
        /\ UNCHANGED <<completion, io_list, reported, num_in_flight, new, cancelled, pc>>
    BY ZenonT(30), <1>3 DEF VhdDequeueRequest
  <2>2. /\ io \in Io /\ submission' \in Seq(Io)
        /\ Range(submission) = {io} \cup Range(submission')
        /\ Distinct(submission') /\ io \notin Range(submission')
    BY ZenonT(30), <2>1, TailFacts DEF QueueInv, QueueType, PlaceInv
  <2> HIDE DEF io
  <2>3. io \notin Range(inflight)
    BY ZenonT(30), <2>2 DEF QueueInv, PlaceInv
  <2>4. /\ inflight' \in Seq(Io) /\ Range(inflight') = Range(inflight) \cup {io}
        /\ Distinct(inflight')
    BY SMTT(30), <2>1, <2>2, <2>3, AppendFacts DEF QueueInv, QueueType, PlaceInv
  <2>5. There' = There
    BY ZenonT(30), <2>2, <2>4 DEF There
  <2>6. QueueType'
    BY ZenonT(30), <2>1, <2>2, <2>4 DEF QueueInv, QueueType
  <2>7. PlaceInv'
    BY ZenonT(30), <2>1, <2>2, <2>3, <2>4, <2>5 DEF QueueInv, PlaceInv
  <2>8. CountInv'
    BY ZenonT(30), <2>1, <2>5 DEF QueueInv, CountInv, Mine
  <2> QED BY Zenon, <2>6, <2>7, <2>8 DEF QueueInv
<1>4. ASSUME NEW v \in Vring, VhdCancelQueuedRequests(v) PROVE QueueInv'
  BY ZenonT(30), <1>4, QueueCancel
<1>5. CASE RqCompleteBh
  BY ZenonT(30), <1>1, <1>5 DEF RqCompleteBh, QueueInv, PlaceInv
<1>6. CASE StealCompletions
  <2>1. /\ io_list = <<>> /\ io_list' = Reverse(completion) /\ completion' = <<>>
        /\ pc' = "complete"
        /\ UNCHANGED <<submission, inflight, reported, num_in_flight, new, cancelled>>
    BY ZenonT(30), <1>6 DEF StealCompletions, QueueInv, PlaceInv
  <2>2. /\ io_list' \in Seq(Io) /\ Range(io_list') = Range(completion)
        /\ Distinct(io_list')
    BY ZenonT(30), <2>1, ReverseFacts DEF QueueInv, QueueType, PlaceInv
  <2>3. completion' \in Seq(Io) /\ Range(completion') = {} /\ Distinct(completion')
    BY ZenonT(30), <2>1, EmptyFacts
  <2>4. There' = There
    BY ZenonT(30), <2>1 DEF There
  <2>5. QueueType'
    BY ZenonT(30), <2>1, <2>2, <2>3 DEF QueueInv, QueueType
  <2>6. PlaceInv'
    BY ZenonT(30), <2>1, <2>2, <2>3, <2>4 DEF QueueInv, PlaceInv
  <2>7. CountInv'
    BY ZenonT(30), <2>1, <2>4 DEF QueueInv, CountInv, Mine
  <2> QED BY Zenon, <2>5, <2>6, <2>7 DEF QueueInv
<1>7. CASE ReqComplete
  <2> DEFINE io == Head(io_list)
  <2>1. /\ pc = "complete" /\ io_list # <<>> /\ io_list' = Tail(io_list)
        /\ inflight' = Keep(inflight, Io \ {io})
        /\ num_in_flight' = [num_in_flight EXCEPT ![VringOf[io]] = @ - 1]
        /\ reported' = Append(reported, io)
        /\ UNCHANGED <<submission, completion, pc, new, cancelled>>
    BY ZenonT(30), <1>7 DEF ReqComplete
  <2>2. /\ io \in Io /\ io_list' \in Seq(Io) /\ Range(io_list) = {io} \cup Range(io_list')
        /\ Distinct(io_list') /\ io \notin Range(io_list')
    BY ZenonT(30), <2>1, TailFacts DEF QueueInv, QueueType, PlaceInv
  <2> HIDE DEF io
  <2>3. io \in Range(inflight) /\ io \in There /\ io \notin Range(completion)
    BY ZenonT(30), <2>2 DEF QueueInv, PlaceInv, There
  <2>4. /\ inflight' \in Seq(Io) /\ Range(inflight') = Range(inflight) \ {io}
        /\ Distinct(inflight')
    <3>1. Range(inflight) \cap (Io \ {io}) = Range(inflight) \ {io}
      BY SMTT(30) DEF QueueInv, QueueType, Range
    <3> QED BY SMTT(30), <2>1, <3>1, KeepFacts DEF QueueInv, QueueType, PlaceInv
  <2>5. There' = There \ {io}
    BY Zenon, <2>1, <2>2, <2>3, <2>4 DEF There, QueueInv, PlaceInv
  <2>6. reported' \in Seq(Io) /\ Range(reported') = Range(reported) \cup {io}
    BY SMTT(30), <2>1, <2>2, AppendFacts DEF QueueInv, QueueType
  <2>7. CountInv' /\ num_in_flight' \in [Vring -> Nat]
    BY Zenon, <2>1, <2>3, <2>5, CountLess
  <2>8. QueueType'
    BY ZenonT(30), <2>1, <2>2, <2>4, <2>6, <2>7 DEF QueueInv, QueueType
  <2>9. PlaceInv'
    <3>1. io \notin new /\ io \notin cancelled /\ io \notin Range(submission)
      BY ZenonT(30), <2>3 DEF QueueInv, PlaceInv
    <3>2. /\ There' = Io \ (new' \cup Range(reported') \cup cancelled')
          /\ new' \cap (Range(reported') \cup cancelled') = {}
          /\ Range(reported') \cap cancelled' = {}
      BY ZenonT(30), <2>1, <2>5, <2>6, <3>1 DEF QueueInv, PlaceInv
    <3>3. /\ Range(submission') \cap Range(inflight') = {}
          /\ Range(completion') \cap Range(io_list') = {}
          /\ Range(completion') \cup Range(io_list') \subseteq Range(inflight')
      BY ZenonT(30), <2>1, <2>2, <2>3, <2>4 DEF QueueInv, PlaceInv
    <3> QED BY ZenonT(30), <2>1, <2>2, <2>4, <3>2, <3>3 DEF QueueInv, PlaceInv
  <2> QED BY ZenonT(30), <2>7, <2>8, <2>9 DEF QueueInv
<1>8. CASE RqCompleteBhDone
  BY ZenonT(30), <1>1, <1>8 DEF RqCompleteBhDone
<1>9. ASSUME NEW t \in Thread, NEW io \in Io, VhdCompleteBio(t, io) PROVE QueueInv'
  <2>1. /\ io \in Held /\ completion' = <<io>> \o completion
        /\ UNCHANGED <<submission, inflight, io_list, reported, num_in_flight, new,
                       cancelled, pc>>
    BY ZenonT(30), <1>9 DEF VhdCompleteBio
  <2>2. /\ io \in Range(inflight) /\ io \notin Range(completion)
        /\ io \notin Range(io_list)
    BY ZenonT(30), <2>1 DEF Held
  <2>3. /\ completion' \in Seq(Io) /\ Range(completion') = {io} \cup Range(completion)
        /\ Distinct(completion')
    BY ZenonT(30), <2>1, <2>2, ConsFacts DEF QueueInv, QueueType, PlaceInv
  <2>4. There' = There
    BY ZenonT(30), <2>1 DEF There
  <2>5. QueueType'
    BY ZenonT(30), <2>1, <2>3 DEF QueueInv, QueueType
  <2>6. PlaceInv'
    BY ZenonT(30), <2>1, <2>2, <2>3, <2>4 DEF QueueInv, PlaceInv
  <2>7. CountInv'
    BY ZenonT(30), <2>1, <2>4 DEF QueueInv, CountInv, Mine
  <2> QED BY ZenonT(30), <2>5, <2>6, <2>7 DEF QueueInv
<1>10. ASSUME NEW t \in Thread, VhdBhSchedule(t) PROVE QueueInv'
  BY ZenonT(30), <1>1, <1>10 DEF VhdBhSchedule, QueueInv, QueueType, PlaceInv
<1>11. CASE Tick \/ UNCHANGED vars
  BY ZenonT(30), <1>1, <1>11 DEF Tick, vars, QueueInv, QueueType, PlaceInv
<1> QED
  BY ZenonT(30), <1>2, <1>3, <1>4, <1>5, <1>6, <1>7, <1>8, <1>9, <1>10, <1>11
     DEF Next, RqStep, Quiet

(* num_in_flight of a vring counts exactly its requests between            *)
(* vhd_enqueue_request and req_complete or their cancellation, and no      *)
(* request is lost on the way.                                             *)
THEOREM InFlightCounted == Spec => []InFlightExact
<1>1. QueueInv => InFlightExact
  BY ZenonT(30) DEF QueueInv, PlaceInv, CountInv, InFlightExact, There, Mine
<1> QED BY <1>1, QueueInit, QueueStepInv, PTL DEF Spec

(* What vhd_release_request_queue asserts: the lists of a queue whose      *)
(* vrings are drained are empty, and its completion BH is neither queued   *)
(* nor about to be, so it can be deleted.                                  *)
THEOREM DrainedEmpty == Spec => []EmptyWhenDrained
<1>1. QueueInv /\ AnnounceInv => EmptyWhenDrained
  <2> SUFFICES ASSUME QueueInv, AnnounceInv, pc = "idle",
                      \A v \in Vring : num_in_flight[v] = 0
               PROVE  /\ submission = <<>> /\ inflight = <<>> /\ completion = <<>>
                      /\ bh = "idle" /\ \A t \in Thread : backend[t] = "idle"
    BY ZenonT(30) DEF EmptyWhenDrained
  <2>1. There = {}
    <3>1. \A v \in Vring : Mine(v) = {}
      <4>1. \A v \in Vring : IsFiniteSet(Mine(v)) /\ Cardinality(Mine(v)) = 0
        BY ZenonT(30), FS_Subset DEF QueueInv, CountInv, Mine
      <4> QED BY ZenonT(30), <4>1, FS_EmptySet
    <3>2. There \subseteq Io
      BY ZenonT(30) DEF QueueInv, PlaceInv
    <3> QED BY ZenonT(30), <3>1, <3>2, QueueAssumption DEF Mine
  <2>2. Range(submission) = {} /\ Range(inflight) = {} /\ Range(completion) = {}
    BY ZenonT(30), <2>1 DEF There, QueueInv, PlaceInv
  <2>3. submission = <<>> /\ inflight = <<>> /\ completion = <<>>
    BY ZenonT(30), <2>2, NoElement DEF QueueInv, QueueType
  <2>4. bh = "idle" /\ {t \in Thread : backend[t] = "schedule"} = {}
    BY ZenonT(30), <2>3 DEF AnnounceInv, CompletionAnnounced
  <2>5. \A t \in Thread : backend[t] = "idle"
    BY ZenonT(30), <2>4 DEF AnnounceInv, AnnounceType
  <2> QED BY ZenonT(30), <2>3, <2>4, <2>5
<1>2. Init => AnnounceInv
  BY SMTT(30) DEF Init, AnnounceInv, AnnounceType, CompletionAnnounced
<1> QED BY <1>1, <1>2, AnnounceStep, QueueInit, QueueStepInv, PTL DEF Spec

-----------------------------------------------------------------------------
(* The device and its queue.                                               *)

(* Every step of a device is a step of its queue, or leaves the queue as it *)
(* is: dispatching enqueues with vhd_enqueue_request, an answer is given    *)
(* when req_complete runs, and a request that is answered at once never     *)
(* touches the queue.                                                       *)
LEMMA StepsOfQueue == DevNext => [Next]_vars
<1> SUFFICES ASSUME DevNext PROVE [Next]_vars
  BY ZenonT(30)
<1>1. ASSUME NEW io \in Io, NEW table \in Chain, Dispatch(io, table)
      PROVE  [Next]_vars
  BY ZenonT(30), <1>1 DEF Dispatch, Next
<1>2. CASE CompleteIo
  BY ZenonT(30), <1>2 DEF CompleteIo, Next, RqStep
<1>3. ASSUME NEW v \in Vring, CancelIo(v)
      PROVE  [Next]_vars
  BY ZenonT(30), <1>3 DEF CancelIo, Next
<1>4. ASSUME NEW t \in Thread, NEW io \in Io, NEW status, BackendCompletes(t, io, status)
      PROVE  [Next]_vars
  BY ZenonT(30), <1>4 DEF BackendCompletes, Next
<1>5. ASSUME NEW n \in TotalBlocks, SetTotalBlocks(n)
      PROVE  [Next]_vars
  BY ZenonT(30), <1>5 DEF SetTotalBlocks
<1>6. CASE QueueStep
  BY ZenonT(30), <1>6 DEF QueueStep, Next, RqStep
<1>7. CASE DevQuiet
  BY ZenonT(30), <1>7 DEF DevQuiet, allVars
<1>8. QED
  BY ZenonT(30), <1>1, <1>2, <1>3, <1>4, <1>5, <1>6, <1>7 DEF DevNext

(* A device with its request queue implements the specification of the     *)
(* request queue (server.c), which the theorems above are about.           *)
THEOREM DeviceUsesQueue == DevSpec => Spec
<1>1. DevInit => Init
  BY ZenonT(30) DEF DevInit
<1>2. [DevNext]_allVars => [Next]_vars
  BY ZenonT(30), StepsOfQueue DEF allVars
<1>3. QED
  BY <1>1, <1>2, PTL DEF DevSpec, Spec

(* In any device whatever is completed is announced to the queue's thread  *)
(* exactly once (vhd_complete_bio, rq_complete_bh), and reported in the    *)
(* order of completion.                                                    *)
THEOREM DeviceCompletions == DevSpec => [](CompletionAnnounced /\ ReportedInOrder)
BY DeviceUsesQueue, CompletionsAnnounced, CompletionsInOrder, PTL

(* So do the counts of the queue: they are exact in any device, and the    *)
(* queue of a device whose vrings are drained can be released.             *)
THEOREM DeviceCounts == DevSpec => [](InFlightExact /\ EmptyWhenDrained)
BY DeviceUsesQueue, InFlightCounted, DrainedEmpty, PTL

-----------------------------------------------------------------------------
(* The answers of a device.                                                *)

Heads == [i \in DOMAIN used |-> used[i].head]

Result == {"SUCCESS", "IO_ERROR", None}

Status == {"none", "OK", "IOERR", "UNSUPP"} \cup Result

Elem == [head : Io, status : Status]

(* A head in the used ring is of a request that the queue never saw, or of *)
(* one that it has reported; the latter are there in order.                *)
AnswerInv ==
  /\ used \in Seq(Elem)
  /\ result \in [Io -> Result]
  /\ Distinct(Heads)
  /\ Range(Heads) \subseteq new \cup Range(reported)
  /\ Keep(Heads, Io \ new) = reported
  /\ DOMAIN bio = There
  /\ dev.kind = "blk" =>
       \A i \in DOMAIN used : used[i].head \in Range(reported) =>
          (used[i].status = "OK" <=> result[used[i].head] = "SUCCESS")

DevInv == QueueInv /\ AnswerInv

(* A device answers with a status of its protocol (handle_buffers). *)
LEMMA HandledStatus == ASSUME NEW iov PROVE HandleBuffers(iov).status \in Status
<1>1. CASE dev.kind = "blk"
  <2> DEFINE type == iov.out[1].data.type
  <2>1. handle_inout(dev, iov).status \in Status
    BY ZenonT(30) DEF handle_inout, Answer, Submit, Status
  <2>2. handle_discard_or_write_zeroes(dev, type, iov).status \in Status
    BY ZenonT(30) DEF handle_discard_or_write_zeroes, Answer, Submit, Status
  <2>3. Answer(handle_getid(iov)).status \in Status
    BY ZenonT(30) DEF handle_getid, Answer, Status
  <2>4. Answer("UNSUPP").status \in Status /\ Abort.status \in Status
    BY ZenonT(30) DEF Answer, Abort, Status
  <2>5. dev_supports_req(dev, type) =>
          type \in {"IN", "OUT", "GET_ID", "DISCARD", "WRITE_ZEROES"}
    BY ZenonT(30) DEF dev_supports_req
  <2>6. blk_handle_buffers(dev, iov).status \in Status
    BY ZenonT(30), <2>1, <2>2, <2>3, <2>4, <2>5 DEF blk_handle_buffers
  <2>7. QED
    BY ZenonT(30), <1>1, <2>6 DEF HandleBuffers
<1>2. CASE dev.kind # "blk"
  BY ZenonT(30), <1>2 DEF HandleBuffers, fs_handle_buffers, Status
<1>3. QED
  BY ZenonT(30), <1>1, <1>2

(* Pushing a head to the used ring (virtq_push). *)
LEMMA PushFacts ==
  ASSUME AnswerInv, NEW io \in Io, NEW status \in Status, Push(io, status)
  PROVE  /\ used' \in Seq(Elem)
         /\ Heads \in Seq(Io) /\ Heads' = Append(Heads, io)
         /\ \A i \in DOMAIN used' :
               \/ i \in DOMAIN used /\ used'[i] = used[i]
               \/ used'[i] = [head |-> io, status |-> status]
<1> DEFINE e == [head |-> io, status |-> status]
<1>1. e \in Elem /\ e.head = io
  BY Zenon DEF Elem
<1>2. used \in Seq(Elem) /\ used' = Append(used, e)
  BY Zenon DEF AnswerInv, Push
<1> HIDE DEF e
<1>3. /\ used' \in Seq(Elem) /\ Len(used) \in Nat /\ Len(used') = Len(used) + 1
      /\ DOMAIN used = 1 .. Len(used) /\ DOMAIN used' = 1 .. Len(used')
      /\ used'[Len(used) + 1] = e
      /\ \A i \in 1 .. Len(used) : used'[i] = used[i] /\ used[i].head \in Io
  <2>1. \A x \in Elem : x.head \in Io
    BY Zenon DEF Elem
  <2>2. QED
    BY SMTT(30), <1>1, <1>2, <2>1
<1>4. Heads \in Seq(Io) /\ Len(Heads) = Len(used)
  BY SMTT(30), <1>3 DEF Heads
<1>5. \A i \in DOMAIN used' : i \in DOMAIN used \/ i = Len(used) + 1
  BY SMTT(30), <1>3
<1>6. Heads' \in Seq(Io) /\ Len(Heads') = Len(used) + 1
  <2>1. \A i \in DOMAIN used' : used'[i].head \in Io
    BY ZenonT(30), <1>1, <1>3, <1>5
  <2>2. QED
    BY SMTT(30), <1>3, <2>1 DEF Heads
<1>7. \A i \in 1 .. Len(used) + 1 : Heads'[i] = Append(Heads, io)[i]
  BY SMTT(30), <1>1, <1>3, <1>4, <1>5 DEF Heads
<1>8. Heads' = Append(Heads, io)
  BY SMTT(30), <1>3, <1>4, <1>6, <1>7
<1>9. QED
  BY ZenonT(30), <1>3, <1>4, <1>5, <1>8 DEF e

(* A step that pushes nothing, reports nothing and gives no verdict on a   *)
(* reported request.                                                       *)
LEMMA SilentAnswer ==
  ASSUME DevInv, QueueInv', UNCHANGED <<used, reported>>,
         new' \subseteq new, (new \ new') \cap Pushed = {},
         result' \in [Io -> Result],
         \A io \in Range(reported) : result'[io] = result[io],
         dev'.kind = "blk" => dev.kind = "blk",
         DOMAIN bio' = There'
  PROVE  AnswerInv'
<1>1. Heads' = Heads /\ Heads \in Seq(Io) /\ Range(Heads) = Pushed /\ new \subseteq Io
  <2>1. \A x \in Elem : x.head \in Io
    BY ZenonT(30) DEF Elem
  <2>2. Heads' = Heads /\ Heads \in Seq(Io)
    BY SMTT(30), <2>1 DEF Heads, DevInv, AnswerInv
  <2>3. Range(Heads) = Pushed
    BY Zenon DEF Range, Heads, Pushed
  <2>4. QED
    BY ZenonT(30), <2>2, <2>3 DEF DevInv, QueueInv, QueueType
<1>2. Range(Heads) \cap (Io \ new') = Range(Heads) \cap (Io \ new)
  BY Zenon, <1>1
<1>3. Keep(Heads, Io \ new') = Keep(Heads, Io \ new)
  BY Zenon, <1>1, <1>2, KeepSame
<1>4. Range(Heads') \subseteq new' \cup Range(reported')
  BY ZenonT(30), <1>1 DEF DevInv, AnswerInv
<1>5. QED
  BY ZenonT(30), <1>1, <1>3, <1>4 DEF DevInv, AnswerInv

(* What a step on the queue leaves in its lists. *)
LEMMA Elsewhere ==
  ASSUME QueueInv, QueueInv', UNCHANGED <<new, reported, cancelled>>
  PROVE  There' = There
<1>1. There = Io \ (new \cup Range(reported) \cup cancelled)
  BY Zenon DEF QueueInv, PlaceInv
<1>2. There' = Io \ (new' \cup Range(reported)' \cup cancelled')
  BY Zenon DEF QueueInv, PlaceInv
<1>3. QED
  BY ZenonT(30), <1>1, <1>2

LEMMA DispatchAnswer ==
  ASSUME DevInv, QueueInv', NEW io \in Io, NEW table, Dispatch(io, table)
  PROVE  AnswerInv'
<1> DEFINE chain == walk_chain(table, 0)
           res == HandleBuffers(Iov(chain.bufs))
<1>1. io \in new \ Pushed
  BY ZenonT(30) DEF Dispatch
<1>2. Range(Heads) = Pushed
  BY Zenon DEF Range, Heads, Pushed
<1>3. CASE UNCHANGED <<dev, bio, result, used, vars>>
  <2>1. There' = There
    BY ZenonT(30), <1>3, Elsewhere DEF vars, DevInv
  <2>2. QED
    BY ZenonT(30), <1>3, <2>1, SilentAnswer DEF vars, DevInv, AnswerInv
<1>4. CASE Push(io, res.status) /\ UNCHANGED <<dev, bio, result, vars>>
  <2>1. res.status \in Status
    BY ZenonT(30), HandledStatus
  <2> HIDE DEF res
  <2>2. /\ used' \in Seq(Elem) /\ Heads \in Seq(Io) /\ Heads' = Append(Heads, io)
        /\ \A i \in DOMAIN used' :
              \/ i \in DOMAIN used /\ used'[i] = used[i]
              \/ used'[i].head = io
    BY SMTT(30), <1>4, <2>1, PushFacts DEF DevInv
  <2>3. Distinct(Heads') /\ Range(Heads') = Range(Heads) \cup {io}
    BY SMTT(30), <1>1, <1>2, <2>2, AppendFacts DEF DevInv, AnswerInv
  <2>4. Keep(Heads', Io \ new) = Keep(Heads, Io \ new)
    BY ZenonT(30), <1>1, <2>2, KeepAppend
  <2>5. There' = There
    BY ZenonT(30), <1>4, Elsewhere DEF vars, DevInv
  <2>6. io \notin Range(reported)
    BY ZenonT(30), <1>1 DEF DevInv, QueueInv, PlaceInv
  <2>7. dev'.kind = "blk" =>
         \A i \in DOMAIN used' : used'[i].head \in Range(reported)' =>
           (used'[i].status = "OK" <=> result'[used'[i].head] = "SUCCESS")
    BY ZenonT(30), <1>4, <2>2, <2>6 DEF vars, DevInv, AnswerInv
  <2>8. QED
    BY ZenonT(30), <1>1, <1>4, <2>2, <2>3, <2>4, <2>5, <2>7 DEF vars, DevInv, AnswerInv
<1>5. CASE /\ VhdEnqueueRequest(io)
           /\ bio' = [x \in DOMAIN bio \cup {io} |-> IF x = io THEN res.io ELSE bio[x]]
           /\ UNCHANGED <<dev, result, used>>
  <2>1. DOMAIN bio' = DOMAIN bio \cup {io}
    BY ZenonT(30), <1>5
  <2>2. new' = new \ {io} /\ UNCHANGED <<reported, cancelled>>
    BY ZenonT(30), <1>5 DEF VhdEnqueueRequest, histVars
  <2>3. There' = There \cup {io}
    <3>1. There = Io \ (new \cup Range(reported) \cup cancelled)
      BY ZenonT(30) DEF DevInv, QueueInv, PlaceInv
    <3>2. There' = Io \ (new' \cup Range(reported) \cup cancelled)
      BY ZenonT(30), <2>2 DEF QueueInv, PlaceInv
    <3>3. io \notin Range(reported) \cup cancelled
      BY ZenonT(30), <1>1 DEF DevInv, QueueInv, PlaceInv
    <3>4. QED
      BY ZenonT(30), <1>1, <2>2, <3>1, <3>2, <3>3
  <2>4. DOMAIN bio' = There'
    BY ZenonT(30), <2>1, <2>3 DEF DevInv, AnswerInv
  <2>5. QED
    BY ZenonT(30), <1>1, <1>5, <2>2, <2>4, SilentAnswer DEF DevInv, AnswerInv
<1>6. QED
  BY ZenonT(30), <1>3, <1>4, <1>5 DEF Dispatch

LEMMA CompleteAnswer == ASSUME DevInv, QueueInv', CompleteIo PROVE AnswerInv'
<1> DEFINE io == Head(io_list)
           status == IF dev.kind = "blk" THEN translate_status(result[io]) ELSE result[io]
<1>1. /\ io \in Range(inflight) /\ io \in Io
  <2>1. io_list \in Seq(Io) /\ io_list # <<>>
    BY ZenonT(30) DEF CompleteIo, ReqComplete, DevInv, QueueInv, QueueType
  <2>2. io \in Range(io_list) /\ io \in Io
    BY SMTT(30), <2>1, TailFacts
  <2>3. QED
    BY ZenonT(30), <2>2 DEF DevInv, QueueInv, PlaceInv
<1>2. io \in There /\ io \notin new /\ io \notin Range(reported)
  BY Zenon, <1>1 DEF There, DevInv, QueueInv, PlaceInv
<1>3. status \in Status /\ (dev.kind = "blk" => (status = "OK" <=> result[io] = "SUCCESS"))
  <2>1. result[io] \in Result
    BY ZenonT(30), <1>1 DEF DevInv, AnswerInv
  <2>2. QED
    BY Zenon, <2>1 DEF translate_status, Status
<1>4. /\ Push(io, status) /\ UNCHANGED <<dev, result, new, cancelled>>
      /\ reported' = Append(reported, io)
      /\ bio' = Restrict(bio, DOMAIN bio \ {io})
  BY ZenonT(30) DEF CompleteIo, ReqComplete
<1> HIDE DEF io, status
<1>5. /\ used' \in Seq(Elem) /\ Heads \in Seq(Io) /\ Heads' = Append(Heads, io)
      /\ \A i \in DOMAIN used' :
            \/ i \in DOMAIN used /\ used'[i] = used[i]
            \/ used'[i] = [head |-> io, status |-> status]
  BY ZenonT(30), <1>1, <1>3, <1>4, PushFacts DEF DevInv
<1>6. io \notin Range(Heads)
  BY ZenonT(30), <1>2 DEF DevInv, AnswerInv
<1>7. Distinct(Heads') /\ Range(Heads') = Range(Heads) \cup {io}
  BY SMTT(30), <1>1, <1>5, <1>6, AppendFacts DEF DevInv, AnswerInv
<1>8. Keep(Heads', Io \ new') = reported'
  <2>1. Keep(Append(Heads, io), Io \ new) = Append(Keep(Heads, Io \ new), io)
    BY SMTT(30), <1>1, <1>2, <1>5, KeepAppend
  <2>2. Keep(Heads, Io \ new) = reported
    BY Zenon DEF DevInv, AnswerInv
  <2>3. QED
    BY ZenonT(30), <1>4, <1>5, <2>1, <2>2
<1>9. Range(reported)' = Range(reported) \cup {io}
  BY SMTT(30), <1>1, <1>4, AppendFacts DEF DevInv, QueueInv, QueueType
<1>10. DOMAIN bio' = There'
  <2>1. There = Io \ (new \cup Range(reported) \cup cancelled)
    BY ZenonT(30) DEF DevInv, QueueInv, PlaceInv
  <2>2. There' = Io \ (new' \cup Range(reported)' \cup cancelled')
    BY ZenonT(30) DEF QueueInv, PlaceInv
  <2>3. DOMAIN bio' = DOMAIN bio \ {io}
    BY ZenonT(30), <1>4 DEF Restrict
  <2>4. QED
    BY ZenonT(30), <1>4, <1>9, <2>1, <2>2, <2>3 DEF DevInv, AnswerInv
<1>11. dev'.kind = "blk" =>
        \A i \in DOMAIN used' : used'[i].head \in Range(reported)' =>
          (used'[i].status = "OK" <=> result'[used'[i].head] = "SUCCESS")
  <2> SUFFICES ASSUME dev.kind = "blk", NEW i \in DOMAIN used',
                      used'[i].head \in Range(reported)'
               PROVE  used'[i].status = "OK" <=> result[used'[i].head] = "SUCCESS"
    BY ZenonT(30), <1>4
  <2>1. CASE used'[i] = [head |-> io, status |-> status]
    BY SMTT(30), <2>1, <1>3
  <2>2. CASE i \in DOMAIN used /\ used'[i] = used[i]
    <3>1. used[i].head \in Range(Heads)
      BY ZenonT(30), <2>2 DEF Heads, Range
    <3>2. used[i].head \in Range(reported)
      BY ZenonT(30), <2>2, <3>1, <1>6, <1>9
    <3>3. QED
      BY ZenonT(30), <2>2, <3>2 DEF DevInv, AnswerInv
  <2>3. QED
    BY ZenonT(30), <2>1, <2>2, <1>5
<1>12. QED
  BY ZenonT(30), <1>4, <1>5, <1>7, <1>8, <1>9, <1>10, <1>11 DEF DevInv, AnswerInv

LEMMA CancelAnswer ==
  ASSUME DevInv, QueueInv', NEW v, CancelIo(v)
  PROVE  AnswerInv'
<1>1. /\ UNCHANGED <<new, reported, dev, result, used>> /\ cancelled \subseteq cancelled'
      /\ bio' = Restrict(bio, DOMAIN bio \ cancelled')
  BY ZenonT(30) DEF CancelIo, VhdCancelQueuedRequests
<1>2. There = Io \ (new \cup Range(reported) \cup cancelled)
  BY ZenonT(30) DEF DevInv, QueueInv, PlaceInv
<1>3. There' = Io \ (new \cup Range(reported) \cup cancelled')
  BY ZenonT(30), <1>1 DEF QueueInv, PlaceInv
<1>4. DOMAIN bio' = There'
  BY ZenonT(30), <1>1, <1>2, <1>3 DEF Restrict, DevInv, AnswerInv
<1>5. QED
  BY ZenonT(30), <1>1, <1>4, SilentAnswer DEF DevInv, AnswerInv

(* A verdict is given on a request that the queue has not reported. *)
LEMMA VerdictAnswer ==
  ASSUME DevInv, QueueInv', NEW t, NEW io \in Io, NEW status \in {"SUCCESS", "IO_ERROR"},
         BackendCompletes(t, io, status)
  PROVE  AnswerInv'
<1>1. /\ io \in Range(inflight) /\ UNCHANGED <<new, reported, cancelled, dev, bio, used>>
      /\ result' = [result EXCEPT ![io] = status]
  BY ZenonT(30) DEF BackendCompletes, VhdCompleteBio, Held
<1>2. There' = There
  BY ZenonT(30), <1>1, Elsewhere DEF DevInv
<1>3. io \notin Range(reported)
  BY ZenonT(30), <1>1 DEF DevInv, QueueInv, PlaceInv, There
<1>4. /\ result' \in [Io -> Result]
      /\ \A x \in Range(reported) : result'[x] = result[x]
  <2>1. Range(reported) \subseteq Io
    BY SMTT(30) DEF DevInv, QueueInv, QueueType, Range
  <2>2. QED
    BY ZenonT(30), <1>1, <1>3, <2>1 DEF DevInv, AnswerInv, Result
<1>5. QED
  BY ZenonT(30), <1>1, <1>2, <1>4, SilentAnswer DEF DevInv, AnswerInv

LEMMA DevStepInv == DevInv /\ [DevNext]_allVars => DevInv'
<1> SUFFICES ASSUME DevInv, [DevNext]_allVars PROVE DevInv'
  BY Zenon
<1>1. QueueInv'
  BY Zenon, StepsOfQueue, QueueStepInv DEF allVars, DevInv
<1>2. ASSUME UNCHANGED <<new, reported, cancelled, bio, result, used>>,
             dev'.kind = "blk" => dev.kind = "blk"
      PROVE  AnswerInv'
  <2>1. There' = There
    BY ZenonT(30), <1>1, <1>2, Elsewhere DEF DevInv
  <2>2. QED
    BY ZenonT(30), <1>1, <1>2, <2>1, SilentAnswer DEF DevInv, AnswerInv
<1>3. CASE QueueStep
  <2>1. UNCHANGED <<new, reported, cancelled>>
    BY ZenonT(30), <1>3 DEF QueueStep, VhdDequeueRequest, RqCompleteBh, StealCompletions,
                RqCompleteBhDone, VhdBhSchedule, Tick, histVars
  <2>2. QED
    BY ZenonT(30), <1>1, <1>2, <1>3, <2>1 DEF QueueStep, devVars, DevInv
<1>4. ASSUME NEW n, SetTotalBlocks(n) PROVE AnswerInv'
  BY ZenonT(30), <1>2, <1>4 DEF SetTotalBlocks, vars
<1>5. CASE DevQuiet \/ UNCHANGED allVars
  BY ZenonT(30), <1>1, <1>2, <1>5 DEF DevQuiet, allVars, devVars, vars, DevInv
<1>6. AnswerInv'
  BY ZenonT(30), <1>1, <1>3, <1>4, <1>5, DispatchAnswer, CompleteAnswer, CancelAnswer,
     VerdictAnswer DEF DevNext, DevInv
<1>7. QED
  BY Zenon, <1>1, <1>6 DEF DevInv

(* The guest gets every head back once at most, and a request that the     *)
(* queue reported is answered with the backend's verdict, in the order of  *)
(* the reports, while the control loop changes the capacity, vrings stop   *)
(* and backend threads complete (complete_io of virtio_blk.c and           *)
(* complete_request of virtio_fs.c).                                       *)
THEOREM AnswersOnce == DevSpec => []AnsweredOnce
<1>1. DevInit => DevInv
  <2> SUFFICES ASSUME DevInit PROVE DevInv
    BY Zenon
  <2>1. QueueInv /\ There = {} /\ new = Io /\ reported = <<>>
    BY ZenonT(30), QueueInit, EmptyFacts DEF DevInit, Init, There
  <2>2. used = <<>> /\ bio = <<>> /\ result = [io \in Io |-> None]
    BY ZenonT(30) DEF DevInit
  <2>3. used \in Seq(Elem) /\ Heads = <<>>
    BY SMTT(30), <2>2 DEF Heads
  <2>4. Distinct(Heads) /\ Range(Heads) = {}
    BY ZenonT(30), <2>3, EmptyFacts
  <2>5. Range(Keep(Heads, Io \ new)) = {} /\ Keep(Heads, Io \ new) \in Seq(Io)
    BY ZenonT(30), <2>3, <2>4, KeepFacts, EmptyFacts
  <2>6. Keep(Heads, Io \ new) = <<>>
    BY ZenonT(30), <2>5, NoElement
  <2>7. QED
    BY SMTT(30), <2>1, <2>2, <2>3, <2>4, <2>6 DEF DevInv, AnswerInv, Result
<1>2. DevInv => AnsweredOnce
  <2> SUFFICES ASSUME DevInv PROVE AnsweredOnce
    BY Zenon
  <2>1. Range(Heads) = Pushed
    BY ZenonT(30) DEF Range, Heads, Pushed
  <2>2. IsInjective(Heads)
    BY ZenonT(30) DEF IsInjective, Distinct, DevInv, AnswerInv
  <2>3. There \cap (Pushed \cup cancelled) = {} /\ Pushed \cap cancelled = {}
    BY ZenonT(30), <2>1 DEF DevInv, AnswerInv, QueueInv, PlaceInv
  <2>4. DOMAIN bio = There
    BY ZenonT(30) DEF DevInv, AnswerInv
  <2>5. Keep(Heads, Io \ new) = reported
    BY ZenonT(30) DEF DevInv, AnswerInv
  <2>6. dev.kind = "blk" =>
          \A i \in DOMAIN used : used[i].head \in Range(reported) =>
             (used[i].status = "OK" <=> result[used[i].head] = "SUCCESS")
    BY ZenonT(30) DEF DevInv, AnswerInv
  <2>7. QED
    BY ZenonT(30), <2>2, <2>3, <2>4, <2>5, <2>6 DEF AnsweredOnce, There, Heads
<1>3. QED
  BY <1>1, <1>2, DevStepInv, PTL DEF DevSpec
=============================================================================
