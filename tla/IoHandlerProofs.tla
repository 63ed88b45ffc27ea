-------------------------- MODULE IoHandlerProofs --------------------------
(***************************************************************************)
(* Proofs about the io handlers of an event loop, for any number of        *)
(* handlers and descriptors and any length of the list of events.          *)
(***************************************************************************)
EXTENDS IoHandler, ListProofs, FiniteSetTheorems

(* The ranges of the variables. *)
TypeInv ==
  /\ mem \in [Handler -> {"free", "owned", "deleted"}]
  /\ handler \in [Handler -> [fd : Fd \cup {Null}, attached : BOOLEAN]]
  /\ is_terminated \in BOOLEAN
  /\ events \in Seq(Handler \cup {Null})
  /\ loop \in {"wait", "bh", "events", "call", "freed"}
  /\ current \in Handler \cup {Null}
  /\ readable \subseteq Source /\ ready \in Seq(Source)

Alive(h) == h = Null \/ mem[h] # "free"

(* A deleted handler is detached and stays until the list is handled, and  *)
(* nothing is freed while the list has entries or a callback runs.         *)
MemInv ==
  /\ deleted_handlers = {h \in Handler : mem[h] = "deleted"}
  /\ \A h \in Handler : mem[h] # "owned" => ~handler[h].attached
  /\ \A h \in Owned : handler[h].fd \in Fd
  /\ \A h \in Range(events) : Alive(h)
  /\ Alive(current)
  /\ loop # "call" => current = Null
  /\ loop \in {"wait", "freed"} => events = <<>> /\ deleted_handlers = {}
  /\ is_terminated => Owned = {}
  /\ loop = "freed" => is_terminated

CountInv == IsFiniteSet(Owned) /\ num_events_attached = Cardinality(Owned)

Attached == {h \in Owned : handler[h].attached}

(* The kernel has the attached handlers, each under an fd of its own, and  *)
(* nothing is ready that is not watched.                                   *)
EpollInv ==
  /\ loop # "freed" =>
       epoll = {<<Notify, Null>>} \cup {<<handler[h].fd, h>> : h \in Attached}
  /\ \A g, h \in Attached : handler[g].fd = handler[h].fd => g = h
  /\ Range(ready) \subseteq Watched

IInv == TypeInv /\ MemInv /\ CountInv /\ EpollInv

(* A loop that was just created has no handler. *)
LEMMA InitIInv == Init => IInv
<1> SUFFICES ASSUME Init PROVE IInv
  OBVIOUS
<1>1. Owned = {} /\ Attached = {}
  BY DEF Init, Owned, Attached
<1>2. TypeInv
  <2>1. handler \in [Handler -> [fd : Fd \cup {Null}, attached : BOOLEAN]]
    BY DEF Init
  <2>2. events \in Seq(Handler \cup {Null}) /\ ready \in Seq(Source)
    BY EmptyFacts DEF Init
  <2>3. mem \in [Handler -> {"free", "owned", "deleted"}] /\ is_terminated \in BOOLEAN
    BY DEF Init
  <2> QED BY <2>1, <2>2, <2>3 DEF Init, TypeInv
<1>3. MemInv
  BY <1>1, EmptyFacts DEF Init, MemInv, Alive
<1>4. CountInv
  BY <1>1, FS_EmptySet DEF Init, CountInv
<1>5. EpollInv
  BY <1>1, EmptyFacts DEF Init, EpollInv
<1> QED BY <1>2, <1>3, <1>4, <1>5 DEF IInv

(* EPOLL_CTL_DEL of the fd of an attached handler takes that handler away  *)
(* and no other.                                                           *)
LEMMA EpollDelFacts ==
  ASSUME IInv, NEW h \in Owned, handler[h].attached, EpollDel(handler[h].fd),
         loop # "freed"
  PROVE  /\ epoll' = {<<Notify, Null>>} \cup
                     {<<handler[g].fd, g>> : g \in Attached \ {h}}
         /\ ready' \in Seq(Source)
         /\ Range(ready') \subseteq Watched'
<1>1. h \in Attached /\ handler[h].fd \in Fd
  BY DEF Attached, IInv, MemInv
<1>2. epoll = {<<Notify, Null>>} \cup {<<handler[g].fd, g>> : g \in Attached}
  BY DEF IInv, EpollInv
<1>3. \A g \in Attached : handler[g].fd = handler[h].fd => g = h
  BY <1>1 DEF IInv, EpollInv
<1>4. epoll' = {<<Notify, Null>>} \cup {<<handler[g].fd, g>> : g \in Attached \ {h}}
  <2>1. epoll' = {e \in epoll : e[1] # handler[h].fd}
    BY DEF EpollDel
  <2>2. Notify # handler[h].fd
    BY <1>1, IoAssumption
  <2> QED BY <1>2, <1>3, <2>1, <2>2
<1>5. ready' = Keep(ready, Source \ {handler[h].fd}) /\ ready \in Seq(Source)
  BY DEF EpollDel, IInv, TypeInv
<1>6. ready' \in Seq(Source) /\ Range(ready') = Range(ready) \cap (Source \ {handler[h].fd})
  BY <1>5, KeepFacts
<1>7. ASSUME NEW f \in Range(ready') PROVE f \in Watched'
  <2>1. f \in Watched /\ f # handler[h].fd
    BY <1>6 DEF IInv, EpollInv
  <2> QED BY <2>1 DEF Watched, EpollDel
<1> QED BY <1>4, <1>6, <1>7

(* An attached handler's fd is watched. *)
LEMMA WatchedAttached ==
  ASSUME NEW g \in Attached,
         epoll = {<<Notify, Null>>} \cup {<<handler[h].fd, h>> : h \in Attached}
  PROVE  handler[g].fd \in Watched
<1>1. <<handler[g].fd, g>> \in epoll /\ <<handler[g].fd, g>>[1] = handler[g].fd
  OBVIOUS
<1> QED BY <1>1 DEF Watched

(* EPOLL_CTL_ADD keeps the ready list among the watched fds. *)
LEMMA EpollAddFacts ==
  ASSUME IInv, NEW f \in Fd, NEW h \in Handler, EpollAdd(f, h)
  PROVE  ready' \in Seq(Source) /\ Range(ready') \subseteq Watched'
<1>1. Watched' = Watched \cup {f}
  <2>1. epoll' = epoll \cup {<<f, h>>} /\ <<f, h>>[1] = f
    BY DEF EpollAdd
  <2>2. {e[1] : e \in epoll'} = {e[1] : e \in epoll} \cup {<<f, h>>[1]}
    BY <2>1
  <2> QED BY <2>1, <2>2 DEF Watched
<1>2. ready \in Seq(Source) /\ Range(ready) \subseteq Watched /\ f \in Source
  BY DEF IInv, TypeInv, EpollInv, Source
<1>3. CASE f \in readable
  <2>1. Range(ready') = Range(ready) \cup {f} /\ ready' \in Seq(Source)
    BY <1>2, <1>3, AppendFacts DEF EpollAdd
  <2> QED BY <1>1, <1>2, <2>1
<1>4. CASE f \notin readable
  BY <1>1, <1>2, <1>4 DEF EpollAdd
<1> QED BY <1>3, <1>4

(* Detaching takes the handler out of the kernel. *)
LEMMA DetachIInv ==
  ASSUME IInv, NEW h \in Handler, VhdDetachIoHandler(h)
  PROVE  IInv'
<1> USE DEF IInv, VhdDetachIoHandler, loopVars, InCallback
<1>1. Owned' = Owned
  BY DEF Owned
<1>2. /\ handler' \in [Handler -> [fd : Fd \cup {Null}, attached : BOOLEAN]]
      /\ \A g \in Handler : handler'[g].fd = handler[g].fd
      /\ \A g \in Handler : handler'[g].attached <=> handler[g].attached /\ g # h
  BY DEF TypeInv
<1>3. Attached' = Attached \ {h} /\ Owned \subseteq Handler
  BY <1>1, <1>2 DEF Attached, Owned
<1>4. /\ epoll' = {<<Notify, Null>>} \cup {<<handler[g].fd, g>> : g \in Attached \ {h}}
      /\ ready' \in Seq(Source) /\ Range(ready') \subseteq Watched'
  BY EpollDelFacts
<1>5. TypeInv'
  BY <1>2, <1>4 DEF TypeInv
<1>6. MemInv'
  BY <1>1, <1>2, <1>3 DEF MemInv, Alive
<1>7. CountInv'
  BY <1>1 DEF CountInv
<1>8. EpollInv'
  <2>1. Attached \subseteq Handler
    BY DEF Attached, Owned
  <2>2. {<<handler[g].fd, g>> : g \in Attached \ {h}} = {<<handler'[g].fd, g>> : g \in Attached'}
    BY <1>2, <1>3, <2>1
  <2> QED BY <1>2, <1>3, <1>4, <2>1, <2>2 DEF EpollInv
<1> QED BY <1>5, <1>6, <1>7, <1>8

(* Attaching puts it back under an fd that nobody watches. *)
LEMMA AttachIInv ==
  ASSUME IInv, NEW h \in Handler, VhdAttachIoHandler(h)
  PROVE  IInv'
<1> USE DEF IInv, VhdAttachIoHandler, loopVars, InCallback
<1>1. Owned' = Owned /\ Owned \subseteq Handler /\ handler[h].fd \in Fd
  BY DEF Owned, MemInv
<1>2. /\ handler' \in [Handler -> [fd : Fd \cup {Null}, attached : BOOLEAN]]
      /\ \A g \in Handler : handler'[g].fd = handler[g].fd
      /\ \A g \in Handler : handler'[g].attached <=> handler[g].attached \/ g = h
  BY DEF TypeInv
<1>3. Attached' = Attached \cup {h} /\ Attached \subseteq Handler
  BY <1>1, <1>2 DEF Attached
<1>4. ready' \in Seq(Source) /\ Range(ready') \subseteq Watched'
  BY <1>1, EpollAddFacts
<1>5. TypeInv'
  BY <1>2, <1>4 DEF TypeInv
<1>6. MemInv'
  BY <1>1, <1>2 DEF MemInv, Alive, Owned
<1>7. CountInv'
  BY <1>1 DEF CountInv
<1>8. EpollInv'
  <2>1. epoll = {<<Notify, Null>>} \cup {<<handler[g].fd, g>> : g \in Attached}
    BY DEF EpollInv
  <2>2. \A g \in Attached : handler[g].fd # handler[h].fd
    BY <2>1, WatchedAttached DEF EpollAdd
  <2>3. epoll' = {<<Notify, Null>>} \cup {<<handler'[g].fd, g>> : g \in Attached'}
    BY <1>2, <1>3, <2>1 DEF EpollAdd
  <2> QED BY <1>2, <1>3, <1>4, <2>2, <2>3 DEF EpollInv
<1> QED BY <1>5, <1>6, <1>7, <1>8

(* A handler is added at an address that is free. *)
LEMMA AddIInv ==
  ASSUME IInv, NEW h \in Handler, NEW f \in Fd, VhdAddIoHandler(h, f)
  PROVE  IInv'
<1> USE DEF IInv, VhdAddIoHandler, loopVars, InCallback
<1>1. h \notin Owned /\ Owned' = Owned \cup {h} /\ Owned \subseteq Handler
  BY DEF Owned, TypeInv
<1>2. /\ handler' \in [Handler -> [fd : Fd \cup {Null}, attached : BOOLEAN]]
      /\ \A g \in Handler \ {h} : handler'[g] = handler[g]
      /\ handler'[h].fd = f /\ handler'[h].attached
      /\ mem' \in [Handler -> {"free", "owned", "deleted"}]
      /\ mem'[h] = "owned" /\ mem[h] = "free"
      /\ \A g \in Handler \ {h} : mem'[g] = mem[g]
  BY DEF TypeInv
<1>3. Attached' = Attached \cup {h} /\ Attached \subseteq Handler \ {h}
  BY <1>1, <1>2 DEF Attached
<1>4. ready' \in Seq(Source) /\ Range(ready') \subseteq Watched'
  BY EpollAddFacts
<1>5. TypeInv'
  BY <1>2, <1>4 DEF TypeInv
<1>6. MemInv'
  <2>1. \A g \in Handler \cup {Null} : Alive(g) => Alive(g)'
    BY <1>2, IoAssumption DEF Alive
  <2>2. Range(events) \subseteq Handler \cup {Null}
    BY DEF TypeInv, Range
  <2>3. /\ \A g \in Range(events') : Alive(g)'
        /\ Alive(current)'
    BY <2>1, <2>2 DEF MemInv, TypeInv, Alive
  <2>4. \A g \in Handler : mem'[g] # "owned" => ~handler'[g].attached
    BY <1>2 DEF MemInv
  <2>5. \A g \in Owned' : handler'[g].fd \in Fd
    BY <1>1, <1>2 DEF MemInv
  <2>6. deleted_handlers' = {g \in Handler : mem'[g] = "deleted"}
    BY <1>2 DEF MemInv
  <2> QED BY <2>3, <2>4, <2>5, <2>6 DEF MemInv
<1>7. CountInv'
  BY <1>1, FS_AddElement DEF CountInv
<1>8. EpollInv'
  <2>1. epoll = {<<Notify, Null>>} \cup {<<handler[g].fd, g>> : g \in Attached}
    BY DEF EpollInv
  <2>2. \A g \in Attached : handler[g].fd # f
    BY <2>1, WatchedAttached DEF EpollAdd
  <2>3. epoll' = {<<Notify, Null>>} \cup {<<handler'[g].fd, g>> : g \in Attached'}
    BY <1>2, <1>3, <2>1 DEF EpollAdd
  <2> QED BY <1>2, <1>3, <1>4, <2>2, <2>3 DEF EpollInv
<1> QED BY <1>5, <1>6, <1>7, <1>8

(* A deleted handler is detached, not counted any more, and still there. *)
LEMMA DelIInv ==
  ASSUME IInv, NEW h \in Handler, VhdDelIoHandler(h)
  PROVE  IInv'
<1> USE DEF IInv, VhdDelIoHandler, loopVars, InCallback
<1>1. h \in Owned /\ Owned' = Owned \ {h} /\ Owned \subseteq Handler
  BY DEF Owned, TypeInv
<1>2. /\ handler' \in [Handler -> [fd : Fd \cup {Null}, attached : BOOLEAN]]
      /\ \A g \in Handler \ {h} : handler'[g] = handler[g]
      /\ ~handler'[h].attached
      /\ mem' \in [Handler -> {"free", "owned", "deleted"}]
      /\ mem'[h] = "deleted" /\ mem[h] = "owned"
      /\ \A g \in Handler \ {h} : mem'[g] = mem[g]
  BY <1>1 DEF TypeInv, Owned
<1>3. Attached' = Attached \ {h} /\ Attached \subseteq Handler
  BY <1>1, <1>2 DEF Attached
<1>4. /\ epoll' = {<<Notify, Null>>} \cup {<<handler[g].fd, g>> : g \in Attached \ {h}}
      /\ ready' \in Seq(Source) /\ Range(ready') \subseteq Watched'
  <2>1. CASE handler[h].attached
    BY <1>1, <2>1, EpollDelFacts
  <2>2. CASE ~handler[h].attached
    <3>1. Attached \ {h} = Attached
      BY <2>2 DEF Attached
    <3> QED BY <2>2, <3>1 DEF EpollInv, TypeInv, Watched
  <2> QED BY <2>1, <2>2
<1>5. TypeInv'
  BY <1>2, <1>4 DEF TypeInv
<1>6. MemInv'
  <2>1. \A g \in Handler \cup {Null} : Alive(g) => Alive(g)'
    BY <1>2, IoAssumption DEF Alive
  <2>2. Range(events) \subseteq Handler \cup {Null}
    BY DEF TypeInv, Range
  <2>3. /\ \A g \in Range(events') : Alive(g)'
        /\ Alive(current)'
    BY <2>1, <2>2 DEF MemInv, TypeInv, Alive
  <2>4. \A g \in Handler : mem'[g] # "owned" => ~handler'[g].attached
    BY <1>2 DEF MemInv
  <2>5. \A g \in Owned' : handler'[g].fd \in Fd
    BY <1>1, <1>2 DEF MemInv
  <2>6. deleted_handlers' = {g \in Handler : mem'[g] = "deleted"}
    BY <1>2 DEF MemInv
  <2> QED BY <1>1, <2>3, <2>4, <2>5, <2>6 DEF MemInv
<1>7. CountInv'
  BY <1>1, FS_RemoveElement DEF CountInv
<1>8. EpollInv'
  <2>1. {<<handler[g].fd, g>> : g \in Attached \ {h}} = {<<handler'[g].fd, g>> : g \in Attached'}
    BY <1>2, <1>3
  <2> QED BY <1>2, <1>3, <1>4, <2>1 DEF EpollInv
<1> QED BY <1>5, <1>6, <1>7, <1>8

(* Data that arrives makes only a watched fd ready. *)
LEMMA ArriveIInv ==
  ASSUME IInv, NEW f \in Source, Arrive(f)
  PROVE  IInv'
<1> USE DEF IInv, Arrive, loopVars
<1>1. Owned' = Owned /\ Attached' = Attached /\ Watched' = Watched
  BY DEF Owned, Attached, Watched
<1>2. ready' \in Seq(Source) /\ Range(ready') \subseteq Watched
  <2>1. CASE f \in Watched \ Range(ready)
    BY <2>1, AppendFacts DEF TypeInv, EpollInv
  <2>2. CASE f \notin Watched \ Range(ready)
    BY <2>2 DEF TypeInv, EpollInv
  <2> QED BY <2>1, <2>2
<1>3. TypeInv'
  BY <1>2 DEF TypeInv
<1>4. MemInv'
  BY <1>1 DEF MemInv, Alive
<1>5. CountInv'
  BY <1>1 DEF CountInv
<1>6. EpollInv'
  BY <1>1, <1>2 DEF EpollInv
<1> QED BY <1>3, <1>4, <1>5, <1>6

(* The pointers epoll_wait returns are those of handlers that are attached *)
(* at that moment, or null.                                                *)
LEMMA EpollWaitIInv ==
  ASSUME IInv, EpollWait
  PROVE  IInv'
<1> DEFINE all == Keep(ready, readable)
           n == IF Len(all) <= MaxEvents + 1 THEN Len(all) ELSE MaxEvents + 1
           first == SubSeq(all, 1, n)
           rest == SubSeq(all, n + 1, Len(all))
           ptr(i) == CHOOSE h \in Handler \cup {Null} : <<first[i], h>> \in epoll
<1>1. /\ events' = [i \in 1 .. n |-> ptr(i)]
      /\ ready' = rest \o first /\ readable' \subseteq readable
      /\ loop = "wait" /\ loop' = "bh"
      /\ UNCHANGED <<mem, handler, num_events_attached, deleted_handlers, epoll,
                     current, is_terminated>>
  BY DEF EpollWait
<1>2. all \in Seq(Source) /\ Range(all) \subseteq Watched
  BY KeepFacts DEF IInv, TypeInv, EpollInv
<1> HIDE DEF all
<1>3. /\ n \in 0 .. Len(all) /\ Len(all) \in Nat /\ DOMAIN all = 1 .. Len(all)
  BY <1>2, IoAssumption
<1> HIDE DEF n
<1>4. /\ first \in Seq(Source) /\ Len(first) = n
      /\ \A i \in 1 .. n : first[i] = all[i]
  BY <1>2, <1>3
<1>5. /\ rest \in Seq(Source) /\ Len(rest) = Len(all) - n
      /\ \A i \in 1 .. Len(rest) : rest[i] = all[n + i]
  <2>1. n + 1 \in Int /\ Len(all) \in Int /\ \A i \in n + 1 .. Len(all) : all[i] \in Source
    BY <1>2, <1>3
  <2>2. /\ rest \in Seq(Source)
        /\ Len(rest) = IF n + 1 <= Len(all) THEN Len(all) - (n + 1) + 1 ELSE 0
        /\ \A i \in 1 .. Len(all) - (n + 1) + 1 : rest[i] = all[(n + 1) + i - 1]
    BY <2>1, SubSeqProperties
  <2> HIDE DEF rest
  <2>3. Len(rest) = Len(all) - n
    <3>1. Len(rest) = IF n + 1 <= Len(all) THEN Len(all) - (n + 1) + 1 ELSE 0
      BY <2>2
    <3>2. n \in Nat /\ Len(all) \in Nat /\ n <= Len(all)
      BY <1>3
    <3> QED BY <3>1, <3>2
  <2>4. ASSUME NEW i \in 1 .. Len(rest) PROVE rest[i] = all[n + i]
    <3>1. i \in 1 .. Len(all) - (n + 1) + 1 /\ (n + 1) + i - 1 = n + i
      BY <1>3, <2>3
    <3> QED BY <2>2, <3>1
  <2> QED BY <2>2, <2>3, <2>4
<1> HIDE DEF first, rest
<1>6. /\ \A i \in 1 .. Len(first) : first[i] \in Watched
      /\ \A i \in 1 .. Len(rest) : rest[i] \in Watched
  <2>1. \A i \in 1 .. Len(all) : all[i] \in Watched
    BY <1>2, <1>3 DEF Range
  <2>2. \A i \in 1 .. Len(rest) : n + i \in 1 .. Len(all)
    BY <1>3, <1>5
  <2>3. \A i \in 1 .. n : i \in 1 .. Len(all)
    BY <1>3
  <2> QED BY <1>4, <1>5, <2>1, <2>2, <2>3
<1>7. ready' \in Seq(Source) /\ Range(ready') \subseteq Watched
  <2>1. ready' \in Seq(Source) /\ Len(ready') = Len(rest) + Len(first)
    BY <1>1, <1>4, <1>5, ConcatProperties
  <2>2. ASSUME NEW i \in 1 .. Len(ready') PROVE ready'[i] \in Watched
    <3>1. CASE i \in 1 .. Len(rest)
      BY <1>1, <1>4, <1>5, <1>6, <3>1
    <3>2. CASE i - Len(rest) \in 1 .. Len(first)
      BY <1>1, <1>4, <1>5, <1>6, <3>2
    <3> QED BY <2>1, <3>1, <3>2, <1>4, <1>5
  <2> QED BY <2>1, <2>2 DEF Range
<1>8. ASSUME NEW i \in 1 .. n
      PROVE  /\ ptr(i) \in Handler \cup {Null}
             /\ ptr(i) # Null => ptr(i) \in Owned
  <2>1. epoll = {<<Notify, Null>>} \cup {<<handler[h].fd, h>> : h \in Attached}
    BY <1>1 DEF IInv, EpollInv
  <2>2. PICK e \in epoll : e[1] = first[i]
    BY <1>4, <1>6 DEF Watched
  <2>3. PICK h \in Attached \cup {Null} : e = <<first[i], h>>
    <3>1. CASE e = <<Notify, Null>>
      BY <2>2, <3>1
    <3>2. CASE \E h \in Attached : e = <<handler[h].fd, h>>
      BY <2>2, <3>2
    <3> QED BY <2>1, <3>1, <3>2
  <2>4. Attached \subseteq Owned /\ Owned \subseteq Handler
    BY DEF Attached, Owned
  <2>5. \E g \in Handler \cup {Null} : <<first[i], g>> \in epoll
    BY <2>2, <2>3, <2>4
  <2>6. ptr(i) \in Handler \cup {Null} /\ <<first[i], ptr(i)>> \in epoll
    BY <2>5
  <2>7. ptr(i) = Null \/ ptr(i) \in Attached
    <3> HIDE DEF ptr
    <3> QED BY <2>1, <2>6
  <2> QED BY <2>4, <2>6, <2>7
<1> HIDE DEF ptr
<1>9. events' \in Seq(Handler \cup {Null}) /\ Range(events') = {ptr(i) : i \in 1 .. n}
  <2>1. n \in Nat
    BY <1>3
  <2> QED BY <1>1, <1>8, <2>1 DEF Range
<1>10. Owned' = Owned /\ Attached' = Attached /\ Watched' = Watched
  BY <1>1 DEF Owned, Attached, Watched
<1>11. TypeInv'
  BY <1>1, <1>7, <1>9 DEF IInv, TypeInv
<1>12. MemInv'
  <2>1. \A h \in Range(events') : Alive(h)'
    BY <1>1, <1>8, <1>9 DEF Alive, Owned
  <2> QED BY <1>1, <1>10, <2>1 DEF IInv, MemInv, Alive
<1>13. CountInv'
  BY <1>1, <1>10 DEF IInv, CountInv
<1>14. EpollInv'
  BY <1>1, <1>7, <1>10 DEF IInv, EpollInv
<1> QED BY <1>11, <1>12, <1>13, <1>14 DEF IInv

(* The rest of an iteration, up to the freeing of the deleted handlers     *)
(* when the list is empty, and the end of the loop.                        *)
LEMMA LoopIInv ==
  ASSUME IInv,
         \/ BhPolled \/ HandleEvent \/ \E drained \in BOOLEAN : HandlerReturns(drained)
         \/ FreeDeleted \/ EvloopStopBh \/ VhdFreeEventLoop
  PROVE  IInv'
<1> USE DEF IInv
<1>1. CASE BhPolled
  BY <1>1 DEF BhPolled, TypeInv, MemInv, CountInv, EpollInv, Alive, Owned, Attached,
              Watched
<1>2. CASE HandleEvent
  <2>1. /\ Head(events) \in Handler \cup {Null} /\ Tail(events) \in Seq(Handler \cup {Null})
        /\ Range(events) = {Head(events)} \cup Range(Tail(events))
    BY <1>2, TailFacts DEF HandleEvent, TypeInv
  <2>2. /\ events' = Tail(events) /\ current' \in {Null, Head(events)}
        /\ loop = "events" /\ loop' \in {"events", "call"}
        /\ loop' # "call" => current' = Null
        /\ UNCHANGED <<mem, handler, num_events_attached, deleted_handlers,
                       is_terminated, epoll, readable, ready>>
    BY <1>2 DEF HandleEvent, MemInv
  <2>3. Owned' = Owned /\ Attached' = Attached /\ Watched' = Watched
    BY <2>2 DEF Owned, Attached, Watched
  <2>4. TypeInv'
    BY <2>1, <2>2 DEF TypeInv
  <2>5. MemInv'
    BY <2>1, <2>2, <2>3 DEF MemInv, Alive
  <2> QED BY <2>2, <2>3, <2>4, <2>5 DEF CountInv, EpollInv
<1>3. ASSUME NEW drained \in BOOLEAN, HandlerReturns(drained) PROVE IInv'
  <2>1. Owned' = Owned /\ Attached' = Attached /\ Watched' = Watched
    BY <1>3 DEF HandlerReturns, Owned, Attached, Watched
  <2>2. TypeInv'
    BY <1>3 DEF HandlerReturns, TypeInv
  <2>3. MemInv'
    BY <1>3, <2>1 DEF HandlerReturns, MemInv, Alive
  <2> QED BY <1>3, <2>1, <2>2, <2>3 DEF HandlerReturns, CountInv, EpollInv
<1>4. CASE FreeDeleted
  <2>1. \A h \in Handler : mem'[h] = IF mem[h] = "deleted" THEN "free" ELSE mem[h]
    BY <1>4 DEF FreeDeleted, MemInv
  <2>2. Owned' = Owned
    BY <2>1 DEF Owned
  <2>3. Attached' = Attached /\ Watched' = Watched
    BY <1>4, <2>2 DEF FreeDeleted, Attached, Watched
  <2>4. TypeInv'
    BY <1>4, <2>1 DEF FreeDeleted, TypeInv
  <2>5. MemInv'
    <3>1. Range(events') = {} /\ current' = Null
      BY <1>4, EmptyFacts DEF FreeDeleted, MemInv
    <3>2. deleted_handlers' = {h \in Handler : mem'[h] = "deleted"}
      BY <1>4, <2>1 DEF FreeDeleted
    <3>3. \A h \in Handler : mem'[h] # "owned" => ~handler'[h].attached
      BY <1>4, <2>1 DEF FreeDeleted, MemInv
    <3> QED BY <1>4, <2>2, <3>1, <3>2, <3>3 DEF FreeDeleted, MemInv, Alive
  <2> QED BY <1>4, <2>2, <2>3, <2>4, <2>5 DEF FreeDeleted, CountInv, EpollInv
<1>5. CASE EvloopStopBh
  BY <1>5 DEF EvloopStopBh, TypeInv, MemInv, CountInv, EpollInv, Alive, Owned, Attached,
              Watched
<1>6. CASE VhdFreeEventLoop
  <2>1. Owned' = Owned /\ Attached' = Attached
    BY <1>6 DEF VhdFreeEventLoop, Owned, Attached
  <2>2. ready' \in Seq(Source) /\ Range(ready') = {}
    BY <1>6, EmptyFacts DEF VhdFreeEventLoop
  <2>3. TypeInv'
    BY <1>6, <2>2 DEF VhdFreeEventLoop, TypeInv
  <2>4. MemInv'
    BY <1>6, <2>1 DEF VhdFreeEventLoop, MemInv, Alive
  <2> QED BY <1>6, <2>1, <2>2, <2>3, <2>4 DEF VhdFreeEventLoop, CountInv, EpollInv
<1> QED BY <1>1, <1>2, <1>3, <1>4, <1>5, <1>6

(* Every step keeps the invariant. *)
LEMMA NextIInv == IInv /\ [Next]_vars => IInv'
<1> SUFFICES ASSUME IInv, [Next]_vars PROVE IInv'
  OBVIOUS
<1>1. CASE UNCHANGED vars
  BY <1>1 DEF vars, IInv, TypeInv, MemInv, CountInv, EpollInv, Alive, Owned, Attached,
              Watched
<1>2. CASE Next
  BY <1>2, DetachIInv, AttachIInv, AddIInv, DelIInv, ArriveIInv, EpollWaitIInv, LoopIInv
     DEF Next, Iteration, Call
<1> QED BY <1>1, <1>2

(* No pointer to a handler that vhd_free was called for is left on the     *)
(* list that handle_events walks, in the callback that runs or in epoll,   *)
(* whatever BHs and handlers add, attach, detach and delete meanwhile.     *)
THEOREM HandlerPointersAlive == Spec => []PointersAlive
<1>1. IInv => PointersAlive
  BY DEF IInv, MemInv, EpollInv, Alive, PointersAlive, Attached
<1> QED BY <1>1, InitIInv, NextIInv, PTL DEF Spec

(* num_events_attached is the number of handlers not yet deleted, which    *)
(* vhd_free_event_loop asserts to be 0, and no handler outlives the loop.  *)
THEOREM HandlersAllCounted == Spec => []HandlersCounted
<1>1. IInv => HandlersCounted
  <2> SUFFICES ASSUME IInv PROVE HandlersCounted
    OBVIOUS
  <2> USE DEF IInv
  <2>1. ASSUME loop = "freed", NEW h \in Handler PROVE mem[h] = "free"
    <3>1. Owned = {} /\ deleted_handlers = {}
      BY <2>1 DEF MemInv
    <3> QED BY <3>1 DEF MemInv, TypeInv, Owned
  <2> QED BY <2>1 DEF CountInv, HandlersCounted
<1> QED BY <1>1, InitIInv, NextIInv, PTL DEF Spec
=============================================================================
