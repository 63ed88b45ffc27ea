--------------------------- MODULE InflightProofs ---------------------------
(***************************************************************************)
(* Whenever the server dies, the next one finds every request the guest    *)
(* waits for, and gives it to the backend in the order of the guest, for   *)
(* every size of the queue and every number of requests and deaths.        *)
(***************************************************************************)
EXTENDS Inflight, TLAPS

(* The requests that were fetched and are not answered. *)
Open == InflightHeads \ (IF BatchSize = 0 THEN {} ELSE {region.last_batch_head})

(* The index in the available ring of the first one that is not fetched,   *)
(* how many there are, and the head of one of them.                        *)
Frontier == (used.idx + Cardinality(Open)) % Width

Left == NumAvail(Frontier)

Entry(ring, from, i) == ring[(from + i) % QSize]

Waiting(i) == Entry(avail.ring, Frontier, i)

(* n entries of a ring from an index on are the heads of S, each once. *)
Holds(ring, from, n, S) ==
  /\ n <= QSize
  /\ \A i, j \in 0 .. n - 1 :
       Entry(ring, from, i) = Entry(ring, from, j) => i = j
  /\ S = {Entry(ring, from, i) : i \in 0 .. n - 1}

NumUsed == (used.idx - last_used) % Width

UsedHeads == {h \in Head_ : owner[h] = "used"}

(* The guest waits for what is fetched and for what it made available      *)
(* after that; what was answered is in the used ring until it is reclaimed. *)
RingInv ==
  /\ Open \subseteq DeviceHeads
  /\ Holds(avail.ring, Frontier, Left, DeviceHeads \ Open)
  /\ Holds(used.ring, last_used, NumUsed, UsedHeads)

Pushing == {"used_update", "used_idx", "used_commit", "commit_idx"}

(* A batch of one is under way while used.idx is ahead of the region. *)
BatchInv ==
  /\ BatchSize \in {0, 1}
  /\ pc \notin {"down", "init", "used_commit", "commit_idx"} => BatchSize = 0
  /\ pc \in {"used_commit", "commit_idx"} => BatchSize = 1
  /\ pc = "init" /\ BatchSize = 1 => region.last_batch_head \notin InflightHeads
  /\ pc = "commit_idx" => head \notin InflightHeads
  /\ pc \in {"used_idx", "used_commit", "commit_idx"} => region.last_batch_head = head
  /\ pc \in {"used_update", "used_idx"} => used.ring[used.idx % QSize] = head

(* Counters grow, and one that is zero says that the region is not in use. *)
CounterInv ==
  /\ BatchSize = 1 \/ InflightHeads # {} =>
       \E h \in Head_ : region.desc[h].counter # 0
  /\ pc = "init" => \A h \in Head_ : region.desc[h].counter <= vq.req_cnt
  /\ pc = "avail_update" =>
       /\ region.desc[head].counter = vq.req_cnt
       /\ \A h \in Head_ \ {head} : region.desc[h].counter < vq.req_cnt
  /\ pc \notin {"down", "init", "avail_update"} =>
       \A h \in Head_ : region.desc[h].counter < vq.req_cnt
  /\ pc \notin {"down", "init"} => vq.req_cnt > 0

(* The request the server is at, marked in flight. *)
Current ==
  IF pc \in {"handle", "used_update", "used_idx", "used_commit"} THEN {head} ELSE {}

Resubmitted == IF vq.inflight_check THEN Range(todo) ELSE {}

Marked == held \cup Current \cup Resubmitted

(* What is marked in flight is with the backend, at hand, or to be         *)
(* resubmitted, unless it was cancelled.                                   *)
HeldInv ==
  /\ pc \in {"down", "init"} => held = {} /\ stopping = "no"
  /\ pc \in {"down", "init", "idle"} => todo = <<>>
  /\ pc = "init" => vq.inflight_check
  /\ pc = "idle" /\ vq.inflight_check => held = {}
  /\ pc = "avail_update" => ~vq.inflight_check
  /\ stopping # "no" => pc = "idle" \/ (pc \in Pushing /\ ret = "idle")
  /\ pc \in Pushing /\ ret = "idle" => ~vq.inflight_check /\ todo = <<>>
  /\ pc \notin {"down", "init"} /\ ~(pc = "idle" /\ vq.inflight_check) =>
       /\ Marked \subseteq InflightHeads
       /\ stopping # "disconnect" => Marked = InflightHeads
  /\ Current \cap held = {}
  /\ (held \cup Current) \cap Resubmitted = {}
  /\ vq.inflight_check => \A i, j \in DOMAIN todo : todo[i] = todo[j] => i = j

(* The request at hand is not counted in last_avail yet. *)
AtHand ==
  IF pc \in {"handle", "handled"} \/ (pc \in Pushing /\ ret = "handled") THEN 1 ELSE 0

(* last_avail is behind the frontier by what is at hand and resubmitted;   *)
(* todo is what was available when the call looked.                        *)
PlaceInv ==
  /\ pc = "down" => base \in {-1, used.idx}
  /\ pc \in {"init", "idle"} /\ vq.inflight_check => vq.last_avail = used.idx
  /\ pc \notin {"down", "init"} /\ ~(pc = "idle" /\ vq.inflight_check) =>
       Frontier =
         (vq.last_avail + AtHand + (IF vq.inflight_check THEN Len(todo) ELSE 0)) % Width
  /\ ~vq.inflight_check =>
       LET k == IF pc = "avail_update" THEN 1 ELSE 0
       IN /\ Len(todo) + k <= Left
          /\ \A i \in 1 .. Len(todo) : todo[i] = Waiting((i - 1) + k)
  /\ pc = "avail_update" => head = Waiting(0)

(* The order of the guest is that of the counters, then that of the ring,  *)
(* and the backend has what comes before.                                  *)
OrderInv ==
  /\ \A h \in Head_ : serial[h] <= made
  /\ \A h \in DeviceHeads : serial[h] > 0
  /\ \A a, b \in Open : region.desc[a].counter = region.desc[b].counter => a = b
  /\ \A a, b \in Open :
       region.desc[a].counter < region.desc[b].counter => serial[a] < serial[b]
  /\ \A i \in 0 .. Left - 1 : \A a \in Open : serial[a] < serial[Waiting(i)]
  /\ \A i, j \in 0 .. Left - 1 : i < j => serial[Waiting(i)] < serial[Waiting(j)]

HandledInv ==
  /\ SubmissionOrder
  /\ \A e \in DOMAIN handled : handled[e] <= made
  /\ \A e \in DOMAIN handled, i \in 0 .. Left - 1 : handled[e] < serial[Waiting(i)]
  /\ pc = "handle" => \A e \in DOMAIN handled : handled[e] < serial[head]
  /\ pc = "init" \/ (pc = "idle" /\ vq.inflight_check) => handled = <<>>
  /\ vq.inflight_check =>
       /\ \A e \in DOMAIN handled, i \in DOMAIN todo : handled[e] < serial[todo[i]]
       /\ \A i, j \in DOMAIN todo : i < j => serial[todo[i]] < serial[todo[j]]
       /\ pc = "handle" => \A i \in DOMAIN todo : serial[head] < serial[todo[i]]

IInv ==
  /\ TypeOK /\ RingInv /\ BatchInv /\ CounterInv /\ HeldInv /\ PlaceInv
  /\ OrderInv /\ HandledInv

-----------------------------------------------------------------------------
(* Arithmetic.                                                             *)

(* Division with remainder. *)
LEMMA Quotient ==
  ASSUME NEW x \in Int, NEW n \in Nat \ {0}
  PROVE  \E k \in Int : x = n * k + (x % n)
<1>1. x = n * (x \div n) + (x % n) /\ x \div n \in Int
  BY SMTT(30)
<1> QED
  BY Zenon, <1>1

LEMMA Remainder ==
  ASSUME NEW n \in Nat \ {0}, NEW k \in Int, NEW r \in 0 .. n - 1
  PROVE  (n * k + r) % n = r
BY SMTT(30)

(* Full turns of a ring lead to the same slot. *)
LEMMA FullTurn ==
  ASSUME NEW n \in Nat \ {0}, NEW w \in Int, w % n = 0, NEW x \in Int
  PROVE  (w + x) % n = x % n
<1>1. PICK k \in Int : w = n * k + (w % n)
  BY Zenon, Quotient
<1>2. PICK l \in Int : x = n * l + (x % n)
  BY Zenon, Quotient
<1>3. x % n \in 0 .. n - 1
  BY SMTT(30)
<1>4. w + x = n * (k + l) + (x % n)
  <2>1. n * (k + l) = n * k + n * l /\ n * k \in Int /\ n * l \in Int
    BY SMTT(30)
  <2>2. w = n * k
    BY SMTT(30), <1>1, <2>1
  <2>3. ASSUME NEW a \in Int, NEW b \in Int, NEW c \in Int, w = a, x = b + c
        PROVE  w + x = (a + b) + c
    BY SMTT(30), <2>3
  <2> QED
    BY SMTT(30), <1>2, <1>3, <2>1, <2>2, <2>3
<1>5. (n * (k + l) + (x % n)) % n = x % n
  BY SMTT(30), <1>3, Remainder
<1> QED
  BY Zenon, <1>4, <1>5

(* Less than a full turn leads to another slot. *)
LEMMA OtherSlot ==
  ASSUME NEW x \in Int, NEW n \in Nat \ {0}, NEW i \in 0 .. n - 1, NEW j \in 0 .. n - 1,
         (x + i) % n = (x + j) % n
  PROVE  i = j
<1>1. /\ x + i \in Int /\ x + j \in Int /\ (x + i) % n \in Int
      /\ i \in Int /\ j \in Int
  BY SMTT(30)
<1>2. PICK k \in Int : x + i = n * k + ((x + i) % n)
  BY Zenon, <1>1, Quotient
<1>3. PICK l \in Int : x + j = n * l + ((x + j) % n)
  BY Zenon, <1>1, Quotient
<1>4. n * (k - l) = i - j /\ k - l \in Int
  BY SMTT(30), <1>1, <1>2, <1>3
<1>5. k - l = 0
  BY SMTT(30), <1>4
<1> QED
  BY SMTT(30), <1>1, <1>4, <1>5

(* The arithmetic of the indices: one turn at most is taken off. *)
LEMMA Turn ==
  ASSUME NEW x \in Int
  PROVE  /\ x \in 0 .. Width - 1 => x % Width = x
         /\ x \in Width .. 2 * Width - 1 => x % Width = x - Width
         /\ x \in (0 - Width) .. (0 - 1) => x % Width = x + Width
         /\ x % Width \in Index
BY SMTT(30), InflightAssumption DEF Index

LEMMA IndexDiff ==
  ASSUME NEW a \in Index, NEW b \in Index
  PROVE  (b - a) % Width = IF a <= b THEN b - a ELSE (b - a) + Width
<1>1. Width \in Nat /\ a \in 0 .. Width - 1 /\ b \in 0 .. Width - 1 /\ b - a \in Int
  BY SMTT(30), InflightAssumption DEF Index
<1>2. a <= b => b - a \in 0 .. Width - 1
  BY SMTT(30), <1>1
<1>3. ~(a <= b) => b - a \in (0 - Width) .. (0 - 1)
  BY SMTT(30), <1>1
<1> QED
  BY Zenon, <1>1, <1>2, <1>3, Turn

LEMMA IndexSum ==
  ASSUME NEW a \in Index, NEW n \in 0 .. Width
  PROVE  (a + n) % Width = IF a + n < Width THEN a + n ELSE (a + n) - Width
<1>1. Width \in Nat /\ a \in 0 .. Width - 1 /\ n \in 0 .. Width /\ a + n \in Int
  BY SMTT(30), InflightAssumption DEF Index
<1>2. a + n < Width => a + n \in 0 .. Width - 1
  BY SMTT(30), <1>1
<1>3. ~(a + n < Width) => a + n \in Width .. 2 * Width - 1
  BY SMTT(30), <1>1
<1> QED
  BY Zenon, <1>1, <1>2, <1>3, Turn

LEMMA IndexType ==
  /\ Width \in Nat /\ QSize \in Nat /\ 0 < QSize /\ QSize < Width
  /\ Index = 0 .. Width - 1
  /\ \A n \in 0 .. QSize : n \in 0 .. Width /\ n + 1 \in 0 .. Width
BY SMTT(30), InflightAssumption DEF Index

(* How far one index is ahead of another. *)
LEMMA Distance ==
  ASSUME NEW a \in Index, NEW b \in Index
  PROVE  /\ (b - a) % Width \in 0 .. Width - 1
         /\ (a + ((b - a) % Width)) % Width = b
         /\ a = b <=> (b - a) % Width = 0
<1> DEFINE d == (b - a) % Width
<1>1. d = IF a <= b THEN b - a ELSE (b - a) + Width
  BY Zenon, IndexDiff
<1> HIDE DEF d
<1>2. d \in 0 .. Width - 1 /\ (a = b <=> d = 0)
  BY SMTT(30), <1>1, IndexType
<1>3. (a + d) % Width = IF a + d < Width THEN a + d ELSE (a + d) - Width
  BY SMTT(30), <1>2, IndexSum, IndexType
<1>4. (a + d) % Width = b
  BY SMTT(30), <1>1, <1>2, <1>3, IndexType
<1> QED
  BY Zenon, <1>2, <1>4 DEF d

LEMMA FartherOne ==
  ASSUME NEW a \in Index, NEW b \in Index, (b - a) % Width < Width - 1
  PROVE  (((b + 1) % Width) - a) % Width = ((b - a) % Width) + 1
<1> DEFINE c == (b + 1) % Width
<1>1. (b - a) % Width = IF a <= b THEN b - a ELSE (b - a) + Width
  BY Zenon, IndexDiff
<1>2. c = IF b + 1 < Width THEN b + 1 ELSE (b + 1) - Width
  BY SMTT(30), IndexSum, IndexType
<1> HIDE DEF c
<1>3. c \in Index
  BY SMTT(30), <1>2, IndexType
<1>4. (c - a) % Width = IF a <= c THEN c - a ELSE (c - a) + Width
  BY Zenon, <1>3, IndexDiff
<1>5. (c - a) % Width = ((b - a) % Width) + 1
  BY SMTT(30), <1>1, <1>2, <1>4, IndexType
<1> QED
  BY Zenon, <1>5 DEF c

LEMMA NearerOne ==
  ASSUME NEW a \in Index, NEW b \in Index, a # b
  PROVE  (b - ((a + 1) % Width)) % Width = ((b - a) % Width) - 1
<1> DEFINE c == (a + 1) % Width
<1>1. (b - a) % Width = IF a <= b THEN b - a ELSE (b - a) + Width
  BY Zenon, IndexDiff
<1>2. c = IF a + 1 < Width THEN a + 1 ELSE (a + 1) - Width
  BY SMTT(30), IndexSum, IndexType
<1> HIDE DEF c
<1>3. c \in Index
  BY SMTT(30), <1>2, IndexType
<1>4. (b - c) % Width = IF c <= b THEN b - c ELSE (b - c) + Width
  BY Zenon, <1>3, IndexDiff
<1>5. (b - c) % Width = ((b - a) % Width) - 1
  BY SMTT(30), <1>1, <1>2, <1>4, IndexType
<1> QED
  BY Zenon, <1>5 DEF c

LEMMA NextIndex ==
  ASSUME NEW a \in Index, NEW n \in 0 .. QSize
  PROVE  /\ (((a + 1) % Width) + n) % Width = (a + (n + 1)) % Width
         /\ (((a + n) % Width) + 1) % Width = (a + (n + 1)) % Width
         /\ (a + 0) % Width = a
<1> DEFINE b == (a + 1) % Width
           c == (a + n) % Width
<1>1. b = IF a + 1 < Width THEN a + 1 ELSE (a + 1) - Width
  BY SMTT(30), IndexSum, IndexType
<1>2. c = IF a + n < Width THEN a + n ELSE (a + n) - Width
  BY Zenon, IndexSum, IndexType
<1>3. (a + (n + 1)) % Width =
        IF a + (n + 1) < Width THEN a + (n + 1) ELSE (a + (n + 1)) - Width
  BY Zenon, IndexSum, IndexType
<1> HIDE DEF b, c
<1>4. b \in Index /\ c \in Index
  BY SMTT(30), <1>1, <1>2, IndexType
<1>5. (b + n) % Width = IF b + n < Width THEN b + n ELSE (b + n) - Width
  BY Zenon, <1>4, IndexSum, IndexType
<1>6. (c + 1) % Width = IF c + 1 < Width THEN c + 1 ELSE (c + 1) - Width
  BY SMTT(30), <1>4, IndexSum, IndexType
<1>7. (b + n) % Width = (a + (n + 1)) % Width /\ (c + 1) % Width = (a + (n + 1)) % Width
  BY SMTT(30), <1>1, <1>2, <1>3, <1>5, <1>6, IndexType
<1>8. (a + 0) % Width = a
  <2>1. a \in Int /\ a \in 0 .. Width - 1 /\ a + 0 = a
    BY SMTT(30), IndexType
  <2> QED
    BY Zenon, <2>1, Turn
<1> QED
  BY Zenon, <1>7, <1>8 DEF b, c

(* The slot of an index is that of the number before it was cut to width. *)
LEMMA SlotOfIndex ==
  ASSUME NEW x \in 0 .. 2 * Width - 1, NEW i \in Nat
  PROVE  ((x % Width) + i) % QSize = (x + i) % QSize
<1>1. QSize \in Nat \ {0} /\ Width \in Int /\ Width % QSize = 0
  BY SMTT(30), InflightAssumption
<1>2. CASE x < Width
  BY SMTT(30), <1>1, <1>2, Turn
<1>3. CASE x >= Width
  <2>1. x % Width = x - Width
    BY SMTT(30), <1>1, <1>3, Turn
  <2>2. (x - Width) + i \in Int
    BY SMTT(30), <1>1
  <2>3. (Width + ((x - Width) + i)) % QSize = ((x - Width) + i) % QSize
    BY Zenon, <1>1, <2>2, FullTurn
  <2>4. Width + ((x - Width) + i) = x + i
    BY SMTT(30), <1>1
  <2> QED
    BY Zenon, <2>1, <2>3, <2>4
<1> QED
  BY SMTT(30), <1>1, <1>2, <1>3

LEMMA SlotType ==
  ASSUME NEW x \in Int
  PROVE  x % QSize \in Head_
BY SMTT(30), InflightAssumption DEF Head_

(* The entry after the last of a window is at the index the window ends at. *)
LEMMA SlotOfEnd ==
  ASSUME NEW a \in Index, NEW b \in Index
  PROVE  (a + ((b - a) % Width)) % QSize = b % QSize
<1> DEFINE d == (b - a) % Width
<1>1. d \in 0 .. Width - 1 /\ (a + d) % Width = b
  BY Zenon, Distance
<1> HIDE DEF d
<1>2. a + d \in 0 .. 2 * Width - 1
  BY SMTT(30), <1>1, InflightAssumption DEF Index
<1>3. (((a + d) % Width) + 0) % QSize = ((a + d) + 0) % QSize
  BY Zenon, <1>2, SlotOfIndex
<1>4. b \in Int /\ a + d \in Int
  BY SMTT(30), <1>1, InflightAssumption DEF Index
<1>5. b + 0 = b /\ (a + d) + 0 = a + d
  BY SMTT(30), <1>4
<1>6. (a + d) % QSize = b % QSize
  BY Zenon, <1>1, <1>3, <1>5
<1> QED
  BY Zenon, <1>6 DEF d

-----------------------------------------------------------------------------
(* Windows of a ring.                                                      *)

(* s lists a set in the order of a key. *)
SortedBy(s, S, key) ==
  /\ s \in [1 .. Cardinality(S) -> S]
  /\ \A i, j \in 1 .. Cardinality(S) : i < j => key[s[i]] < key[s[j]]

(* A sorted list has every member of the set once. *)
Once(s, S) ==
  /\ \A i, j \in 1 .. Cardinality(S) : s[i] = s[j] => i = j
  /\ \A x \in S : \E i \in 1 .. Cardinality(S) : s[i] = x

(* What the proofs need to know of the finite set of the heads: its        *)
(* subsets can be counted and sorted, a one-to-one function on it reaches  *)
(* all of it, and one to the numbers has a largest value.  A hypothesis of *)
(* the lemmas, proved at the end.                                          *)
Finite ==
  /\ \A S \in SUBSET Head_ :
       /\ Cardinality(S) \in 0 .. QSize
       /\ Cardinality(S) = 0 <=> S = {}
       /\ \A h \in S : Cardinality(S \ {h}) = Cardinality(S) - 1
       /\ \A h \in Head_ \ S : Cardinality(S \cup {h}) = Cardinality(S) + 1
       /\ \A key \in [S -> Nat] :
            (\A x, y \in S : key[x] = key[y] => x = y) => \E s : SortedBy(s, S, key)
       /\ \A key \in [S -> Nat], s \in [1 .. Cardinality(S) -> S] :
            SortedBy(s, S, key) => Once(s, S)
  /\ \A f \in [Head_ -> Head_] :
       (\A x, y \in Head_ : f[x] = f[y] => x = y) => \A h \in Head_ : \E x \in Head_ : f[x] = h
  /\ \A f \in [Head_ -> Nat] : \E h \in Head_ : \A g \in Head_ : f[h] >= f[g]

LEMMA HeadFinite ==
  ASSUME Finite, NEW S \in SUBSET Head_
  PROVE  /\ Cardinality(S) \in 0 .. QSize
         /\ Cardinality(S) = 0 <=> S = {}
         /\ \A h \in S : Cardinality(S \ {h}) = Cardinality(S) - 1
         /\ \A h \in Head_ \ S : Cardinality(S \cup {h}) = Cardinality(S) + 1
BY Zenon DEF Finite

LEMMA HeadOnto ==
  ASSUME Finite, NEW f \in [Head_ -> Head_], \A x, y \in Head_ : f[x] = f[y] => x = y
  PROVE  \A h \in Head_ : \E x \in Head_ : f[x] = h
BY Zenon DEF Finite

LEMMA HeadSortable ==
  ASSUME Finite, NEW S \in SUBSET Head_, NEW key \in [S -> Nat],
         \A x, y \in S : key[x] = key[y] => x = y
  PROVE  \E s : SortedBy(s, S, key)
BY Zenon DEF Finite

LEMMA HeadSorted ==
  ASSUME Finite, NEW S \in SUBSET Head_, NEW key \in [S -> Nat],
         NEW s \in [1 .. Cardinality(S) -> S], SortedBy(s, S, key)
  PROVE  Once(s, S)
BY Zenon DEF Finite

(* A window holds heads. *)
LEMMA EntryType ==
  ASSUME NEW ring \in [Head_ -> Head_], NEW from \in Index, NEW i \in Nat
  PROVE  Entry(ring, from, i) \in Head_
BY SMTT(30), SlotType, IndexType DEF Entry

(* The window does not fill the ring when some head is not in it. *)
LEMMA WindowRoom ==
  ASSUME Finite, NEW ring \in [Head_ -> Head_], NEW from \in Index, NEW n \in Nat,
         NEW S, Holds(ring, from, n, S), NEW h \in Head_ \ S
  PROVE  n < QSize
<1> SUFFICES ASSUME n = QSize PROVE FALSE
  BY SMTT(30), IndexType DEF Holds
<1> DEFINE f == [i \in Head_ |-> Entry(ring, from, i)]
<1>1. f \in [Head_ -> Head_] /\ Head_ = 0 .. n - 1
  <2>1. \A i \in Head_ : i \in Nat
    BY SMTT(30) DEF Head_
  <2>2. f \in [Head_ -> Head_]
    BY Zenon, <2>1, EntryType
  <2> QED
    BY Zenon, <2>2 DEF Head_
<1>2. \A x, y \in Head_ : f[x] = f[y] => x = y
  BY Zenon, <1>1 DEF Holds
<1> HIDE DEF f
<1>3. \A g \in Head_ : \E x \in Head_ : f[x] = g
  BY Zenon, <1>1, <1>2, HeadOnto
<1>4. PICK i \in Head_ : f[i] = h
  BY Zenon, <1>3
<1> QED
  BY Zenon, <1>1, <1>4 DEF Holds, f

(* A ring after a store of h to a slot. *)
Stored(new, ring, slot, h) ==
  /\ new \in [Head_ -> Head_]
  /\ new[slot] = h
  /\ \A i \in Head_ : i # slot => new[i] = ring[i]

(* What is written behind the window does not change it. *)
LEMMA WindowKept ==
  ASSUME NEW ring \in [Head_ -> Head_], NEW from \in Index, NEW n \in Nat, n < QSize,
         NEW h \in Head_, NEW new, Stored(new, ring, (from + n) % QSize, h)
  PROVE  /\ \A i \in 0 .. n - 1 : Entry(new, from, i) = Entry(ring, from, i)
         /\ Entry(new, from, n) = h
         /\ new \in [Head_ -> Head_]
<1>1. (from + n) % QSize \in Head_ /\ from \in Int
  BY SMTT(30), SlotType, IndexType
<1>2. ASSUME NEW i \in 0 .. n - 1
      PROVE  Entry(new, from, i) = Entry(ring, from, i)
  <2>1. i \in 0 .. QSize - 1 /\ n \in 0 .. QSize - 1 /\ i # n /\ QSize \in Nat \ {0}
    BY SMTT(30), IndexType
  <2>2. (from + i) % QSize # (from + n) % QSize
    BY Zenon, <1>1, <2>1, OtherSlot
  <2>3. (from + i) % QSize \in Head_
    BY SMTT(30), <1>1, <2>1, SlotType
  <2> QED
    BY Zenon, <1>1, <2>2, <2>3 DEF Entry, Stored
<1> QED
  BY Zenon, <1>1, <1>2 DEF Entry, Stored

LEMMA WindowWritten ==
  ASSUME NEW ring \in [Head_ -> Head_], NEW from \in Index, NEW n \in Nat, n < QSize,
         NEW S, Holds(ring, from, n, S), NEW h \in Head_,
         NEW new, Stored(new, ring, (from + n) % QSize, h)
  PROVE  Holds(new, from, n, S)
<1>1. \A i \in 0 .. n - 1 : Entry(new, from, i) = Entry(ring, from, i)
  BY SMTT(30), WindowKept
<1>2. {Entry(new, from, i) : i \in 0 .. n - 1} = {Entry(ring, from, i) : i \in 0 .. n - 1}
  BY <1>1, Zenon
<1> QED
  BY Zenon, <1>1, <1>2 DEF Holds

(* The window takes in the entry behind it. *)
LEMMA WindowGrows ==
  ASSUME NEW ring, NEW from \in Index, NEW n \in Nat, n < QSize,
         NEW S, Holds(ring, from, n, S), NEW h, h \notin S, Entry(ring, from, n) = h
  PROVE  Holds(ring, from, n + 1, S \cup {h})
<1>1. 0 .. (n + 1) - 1 = (0 .. n - 1) \cup {n}
  BY SMTT(30)
<1>2. \A i \in 0 .. n - 1 : Entry(ring, from, i) \in S
  BY Zenon DEF Holds
<1>3. S \cup {h} = {Entry(ring, from, i) : i \in 0 .. (n + 1) - 1}
  BY ZenonT(30), <1>1 DEF Holds
<1>4. \A i, j \in 0 .. (n + 1) - 1 :
        Entry(ring, from, i) = Entry(ring, from, j) => i = j
  BY Zenon, <1>1, <1>2 DEF Holds
<1> QED
  BY SMTT(30), <1>3, <1>4, IndexType DEF Holds

(* One step into the window the entries are the next ones. *)
LEMMA EntryNext ==
  ASSUME NEW ring, NEW from \in Index, NEW i \in Nat
  PROVE  Entry(ring, (from + 1) % Width, i) = Entry(ring, from, i + 1)
<1>1. from + 1 \in 0 .. 2 * Width - 1 /\ from \in Int
  BY SMTT(30), IndexType
<1>2. (((from + 1) % Width) + i) % QSize = ((from + 1) + i) % QSize
  BY Zenon, <1>1, SlotOfIndex
<1>3. (from + 1) + i = from + (i + 1)
  BY SMTT(30), <1>1
<1> QED
  BY Zenon, <1>2, <1>3 DEF Entry

(* The window loses its first entry. *)
LEMMA WindowShrinks ==
  ASSUME NEW ring, NEW from \in Index, NEW n \in Nat, n > 0,
         NEW S, Holds(ring, from, n, S)
  PROVE  /\ Entry(ring, from, 0) \in S
         /\ Holds(ring, (from + 1) % Width, n - 1, S \ {Entry(ring, from, 0)})
<1> DEFINE to == (from + 1) % Width
           h == Entry(ring, from, 0)
<1>1. \A i \in Nat : Entry(ring, to, i) = Entry(ring, from, i + 1)
  BY Zenon, EntryNext
<1>2. h \in S
  BY SMTT(30) DEF Holds
<1>3. \A i \in 0 .. (n - 1) - 1 : i \in Nat /\ i + 1 \in 0 .. n - 1 /\ i + 1 # 0
  BY SMTT(30)
<1>4. \A i \in 0 .. n - 1 : i # 0 => i - 1 \in 0 .. (n - 1) - 1 /\ (i - 1) + 1 = i
  BY SMTT(30)
<1>5. \A i, j \in 0 .. (n - 1) - 1 : Entry(ring, to, i) = Entry(ring, to, j) => i = j
  <2> SUFFICES ASSUME NEW i \in 0 .. (n - 1) - 1, NEW j \in 0 .. (n - 1) - 1,
                      Entry(ring, to, i) = Entry(ring, to, j)
               PROVE  i = j
    BY Zenon
  <2>1. Entry(ring, from, i + 1) = Entry(ring, from, j + 1)
    BY Zenon, <1>1, <1>3
  <2>2. i + 1 = j + 1
    BY Zenon, <1>3, <2>1 DEF Holds
  <2> QED
    BY SMTT(30), <2>2
<1>6. S \ {h} = {Entry(ring, to, i) : i \in 0 .. (n - 1) - 1}
  <2> HIDE DEF to
  <2>1. ASSUME NEW i \in 0 .. (n - 1) - 1
        PROVE  Entry(ring, to, i) \in S \ {h}
    <3>1. Entry(ring, from, i + 1) \in S
      BY Zenon, <1>3 DEF Holds
    <3>2. 0 \in 0 .. n - 1
      BY SMTT(30)
    <3>3. Entry(ring, from, i + 1) # h
      BY Zenon, <1>3, <3>2 DEF Holds
    <3> QED
      BY Zenon, <1>1, <1>3, <3>1, <3>3
  <2>2. ASSUME NEW x \in S \ {h}
        PROVE  \E i \in 0 .. (n - 1) - 1 : x = Entry(ring, to, i)
    <3>1. PICK i \in 0 .. n - 1 : x = Entry(ring, from, i)
      BY Zenon DEF Holds
    <3>2. i # 0
      BY Zenon, <3>1
    <3>3. x = Entry(ring, to, i - 1)
      BY Zenon, <1>1, <1>3, <1>4, <3>1, <3>2
    <3> QED
      BY Zenon, <1>4, <3>2, <3>3
  <2> QED
    BY ZenonT(30), <2>1, <2>2
<1>7. n - 1 <= QSize
  BY SMTT(30), IndexType DEF Holds
<1> HIDE DEF to, h
<1>8. Holds(ring, to, n - 1, S \ {h})
  BY Zenon, <1>5, <1>6, <1>7 DEF Holds
<1> QED
  BY Zenon, <1>2, <1>8 DEF to, h

(* An empty window holds nothing, and no other does. *)
LEMMA WindowEmpty ==
  ASSUME NEW ring, NEW from, NEW n \in Nat, NEW S, Holds(ring, from, n, S)
  PROVE  n = 0 <=> S = {}
<1>1. n = 0 => 0 .. n - 1 = {}
  BY SMTT(30)
<1>2. n # 0 => 0 \in 0 .. n - 1
  BY SMTT(30)
<1> QED
  BY ZenonT(30), <1>1, <1>2 DEF Holds

-----------------------------------------------------------------------------
(* Counters and the arrays of heads.                                       *)

LEMMA MaxCounterIsLargest ==
  ASSUME Finite, region.desc \in [Head_ -> [inflight : {0, 1}, counter : Nat]]
  PROVE  /\ MaxCounter \in Nat
         /\ \A h \in Head_ : region.desc[h].counter <= MaxCounter
         /\ \E h \in Head_ : region.desc[h].counter = MaxCounter
<1> DEFINE S == {region.desc[h].counter : h \in Head_}
           f == [h \in Head_ |-> region.desc[h].counter]
<1>1. S \subseteq Nat /\ f \in [Head_ -> Nat]
  BY Zenon
<1>2. \A h \in Head_ : f[h] = region.desc[h].counter
  BY Zenon
<1> HIDE DEF f
<1>3. PICK h \in Head_ : \A g \in Head_ : f[h] >= f[g]
  BY Zenon, <1>1 DEF Finite
<1>4. region.desc[h].counter \in S /\ \A y \in S : region.desc[h].counter >= y
  BY Zenon, <1>2, <1>3
<1>5. Max(S) \in S /\ \A y \in S : Max(S) >= y
  BY Zenon, <1>4 DEF Max
<1>6. MaxCounter \in S /\ \A y \in S : MaxCounter >= y
  BY Zenon, <1>5 DEF MaxCounter
<1>7. MaxCounter \in Nat
  BY Zenon, <1>1, <1>6
<1>8. ASSUME NEW g \in Head_ PROVE region.desc[g].counter <= MaxCounter
  <2>1. region.desc[g].counter \in S /\ region.desc[g].counter \in Nat
    BY Zenon
  <2> QED
    BY Zenon, <1>6, <1>7, <2>1
<1> QED
  BY Zenon, <1>6, <1>7, <1>8

(* The array of the requests to resubmit has each of them once, in the     *)
(* order of the counters, when these differ.                               *)
LEMMA ResubmitArrayIsSorted ==
  ASSUME Finite, region.desc \in [Head_ -> [inflight : {0, 1}, counter : Nat]],
         \A a, b \in InflightHeads :
           region.desc[a].counter = region.desc[b].counter => a = b
  PROVE  /\ ResubmitArray \in Seq(Head_)
         /\ Len(ResubmitArray) = Cardinality(InflightHeads)
         /\ Range(ResubmitArray) = InflightHeads
         /\ \A i, j \in DOMAIN ResubmitArray : ResubmitArray[i] = ResubmitArray[j] => i = j
         /\ \A i, j \in DOMAIN ResubmitArray :
              i < j => region.desc[ResubmitArray[i]].counter
                         < region.desc[ResubmitArray[j]].counter
<1> DEFINE S == InflightHeads
           n == Cardinality(S)
           key == [h \in S |-> region.desc[h].counter]
           R == ResubmitArray
<1>1. S \in SUBSET Head_ /\ n \in Nat
  BY SMTT(30), HeadFinite DEF InflightHeads
<1>2. key \in [S -> Nat] /\ \A x, y \in S : key[x] = key[y] => x = y
  BY Zenon, <1>1
<1>3. \E s \in [1 .. n -> S] : \A i, j \in 1 .. n : i < j => key[s[i]] < key[s[j]]
  <2> HIDE DEF key, S
  <2>1. \E s : SortedBy(s, S, key)
    BY <1>1, <1>2, HeadSortable, Zenon
  <2> QED
    BY Zenon, <2>1 DEF SortedBy
<1>4. \A s \in [1 .. n -> S] :
        (\A i, j \in DOMAIN s : i < j => region.desc[s[i]].counter < region.desc[s[j]].counter)
          <=> (\A i, j \in 1 .. n : i < j => key[s[i]] < key[s[j]])
  BY Zenon
<1>5. R \in [1 .. n -> S] /\ \A i, j \in DOMAIN R :
        i < j => region.desc[R[i]].counter < region.desc[R[j]].counter
  BY Zenon, <1>3, <1>4 DEF ResubmitArray
<1> HIDE DEF R
<1>6. \A i, j \in 1 .. n : i < j => key[R[i]] < key[R[j]]
  BY Zenon, <1>4, <1>5
<1>7. /\ \A i, j \in 1 .. n : R[i] = R[j] => i = j
      /\ \A x \in S : \E i \in 1 .. n : R[i] = x
  <2> HIDE DEF key, S
  <2>1. SortedBy(R, S, key)
    BY Zenon, <1>5, <1>6 DEF SortedBy
  <2>2. S \in SUBSET Head_ /\ key \in [S -> Nat] /\ R \in [1 .. Cardinality(S) -> S]
    BY Zenon, <1>1, <1>2, <1>5
  <2> QED
    <3>1. Once(R, S)
      BY <2>1, <2>2, HeadSorted, Zenon
    <3> QED
      BY Zenon, <3>1 DEF Once
<1>8. DOMAIN R = 1 .. n /\ R \in Seq(Head_) /\ Len(R) = n
  BY SMTT(30), <1>1, <1>5
<1>9. Range(R) = S
  BY SMTT(30), <1>5, <1>7, <1>8 DEF Range
<1> QED
  BY Zenon, <1>5, <1>7, <1>8, <1>9 DEF R

(* What is available from an index on, if it fits. *)
LEMMA AvailFromIsWindow ==
  ASSUME avail.ring \in [Head_ -> Head_], avail.idx \in Index,
         NEW from \in Index, NumAvail(from) <= QSize
  PROVE  /\ AvailFrom(from) \in Seq(Head_)
         /\ Len(AvailFrom(from)) = NumAvail(from)
         /\ \A i \in 1 .. NumAvail(from) :
              AvailFrom(from)[i] = Entry(avail.ring, from, i - 1)
<1> DEFINE n == NumAvail(from)
<1>1. n \in Nat
  BY SMTT(30), Distance, IndexType DEF NumAvail
<1>2. AvailFrom(from) = [i \in 1 .. n |-> avail.ring[(from + i - 1) % QSize]]
  BY SMTT(30), <1>1, IndexType DEF AvailFrom
<1>3. ASSUME NEW i \in 1 .. n
      PROVE  /\ avail.ring[(from + i - 1) % QSize] = Entry(avail.ring, from, i - 1)
             /\ Entry(avail.ring, from, i - 1) \in Head_
  <2>1. i - 1 \in Nat /\ from \in Int /\ from + i - 1 = from + (i - 1)
    BY SMTT(30), <1>1, IndexType
  <2> QED
    BY Zenon, <2>1, EntryType DEF Entry
<1> HIDE DEF n
<1>4. AvailFrom(from) \in [1 .. n -> Head_]
  BY Zenon, <1>2, <1>3
<1> QED
  BY SMTT(30), <1>1, <1>2, <1>3, <1>4 DEF n

-----------------------------------------------------------------------------
(* What the invariant says of the windows.                                 *)

LEMMA Ranges ==
  ASSUME Finite, TypeOK
  PROVE  /\ avail.ring \in [Head_ -> Head_] /\ avail.idx \in Index
         /\ used.ring \in [Head_ -> Head_] /\ used.idx \in Index
         /\ region.desc \in [Head_ -> [inflight : {0, 1}, counter : Nat]]
         /\ region.last_batch_head \in Head_ /\ region.used_idx \in Index
         /\ InflightHeads \subseteq Head_ /\ Open \subseteq Head_
         /\ BatchSize \in Nat
         /\ Cardinality(Open) \in 0 .. QSize /\ Frontier \in Index
         /\ Left \in 0 .. Width - 1 /\ NumUsed \in 0 .. Width - 1
         /\ last_used \in Index /\ Width \in Nat /\ QSize \in Nat
<1>1. /\ avail.ring \in [Head_ -> Head_] /\ avail.idx \in Index
      /\ used.ring \in [Head_ -> Head_] /\ used.idx \in Index
      /\ region.desc \in [Head_ -> [inflight : {0, 1}, counter : Nat]]
      /\ region.last_batch_head \in Head_ /\ region.used_idx \in Index
      /\ last_used \in Index
  BY Zenon DEF TypeOK
<1>2. InflightHeads \subseteq Head_ /\ Open \subseteq Head_
  BY Zenon DEF InflightHeads, Open
<1>3. Cardinality(Open) \in 0 .. QSize
  BY Zenon, <1>2, HeadFinite
<1>4. Frontier \in Index
  <2>1. used.idx + Cardinality(Open) \in Int
    BY SMTT(30), <1>1, <1>3, IndexType
  <2> QED
    BY Zenon, <2>1, Turn DEF Frontier
<1>5. Left \in 0 .. Width - 1 /\ NumUsed \in 0 .. Width - 1 /\ BatchSize \in 0 .. Width - 1
  BY Zenon, <1>1, <1>4, Distance DEF Left, NumAvail, NumUsed, BatchSize
<1>6. BatchSize \in Nat
  BY SMTT(30), <1>5, IndexType
<1> QED
  BY Zenon, <1>1, <1>2, <1>3, <1>4, <1>5, <1>6, IndexType

LEMMA WaitingHeads ==
  ASSUME Finite, TypeOK, RingInv
  PROVE  /\ Left \in 0 .. QSize /\ NumUsed \in 0 .. QSize
         /\ \A i \in 0 .. Left - 1 : Waiting(i) \in DeviceHeads \ Open /\ Waiting(i) \in Head_
         /\ \A i, j \in 0 .. Left - 1 : Waiting(i) = Waiting(j) => i = j
<1>1. Left \in 0 .. QSize /\ NumUsed \in 0 .. QSize
  BY SMTT(30), Ranges DEF RingInv, Holds
<1>2. \A i \in 0 .. Left - 1 : Waiting(i) \in DeviceHeads \ Open
  BY Zenon DEF RingInv, Holds, Waiting
<1>3. \A i, j \in 0 .. Left - 1 : Waiting(i) = Waiting(j) => i = j
  BY Zenon DEF RingInv, Holds, Waiting
<1> QED
  BY Zenon, <1>1, <1>2, <1>3 DEF DeviceHeads

(* A step that leaves the rings, the guest and the open requests alone. *)
LEMMA OpenFrame ==
  ASSUME TypeOK, RingInv, OrderInv, avail' = avail, used' = used, UNCHANGED guestVars,
         Open' = Open,
         \A h \in Open : region.desc[h].counter' = region.desc[h].counter
  PROVE  /\ Frontier' = Frontier /\ Left' = Left
         /\ \A i : Waiting(i)' = Waiting(i)
         /\ DeviceHeads' = DeviceHeads
         /\ RingInv' /\ OrderInv'
<1>1. Frontier' = Frontier
  BY Zenon DEF Frontier
<1>2. Left' = Left
  BY Zenon, <1>1 DEF Left, NumAvail
<1>3. \A i : Waiting(i)' = Waiting(i)
  BY Zenon, <1>1 DEF Waiting, Entry
<1>4. DeviceHeads' = DeviceHeads /\ UsedHeads' = UsedHeads
  BY Zenon DEF DeviceHeads, UsedHeads, guestVars
<1>5. NumUsed' = NumUsed
  BY Zenon DEF NumUsed, guestVars
<1>6. RingInv'
  BY Zenon, <1>1, <1>2, <1>4, <1>5 DEF RingInv, guestVars
<1>7. OrderInv'
  BY SMTT(30), <1>1, <1>2, <1>3, <1>4 DEF OrderInv, guestVars
<1> QED
  BY Zenon, <1>1, <1>2, <1>3, <1>4, <1>6, <1>7

(* A step of the server that stores nothing. *)
LEMMA SharedFrame ==
  ASSUME TypeOK, RingInv, OrderInv, UNCHANGED <<avail, used, region>>, UNCHANGED guestVars
  PROVE  /\ InflightHeads' = InflightHeads /\ BatchSize' = BatchSize /\ Open' = Open
         /\ Frontier' = Frontier /\ Left' = Left
         /\ \A i : Waiting(i)' = Waiting(i)
         /\ DeviceHeads' = DeviceHeads
         /\ RingInv' /\ OrderInv'
<1>1. InflightHeads' = InflightHeads /\ BatchSize' = BatchSize
  BY Zenon DEF InflightHeads, BatchSize
<1>2. Open' = Open
  BY Zenon, <1>1 DEF Open
<1>3. \A h \in Open : region.desc[h].counter' = region.desc[h].counter
  BY Zenon
<1> QED
  BY Zenon, <1>1, <1>2, <1>3, OpenFrame

-----------------------------------------------------------------------------
(* The server without stores.                                              *)

LEMMA SeqElement ==
  ASSUME NEW S, NEW s \in Seq(S)
  PROVE  Len(s) \in Nat /\ DOMAIN s = 1 .. Len(s) /\ \A i \in 1 .. Len(s) : s[i] \in S
BY SMTT(30)

(* The request at hand is one the guest waits for. *)
LEMMA HeadAtHand ==
  ASSUME IInv, pc = "handle"
  PROVE  /\ head \in InflightHeads /\ head \in Open /\ head \in DeviceHeads
         /\ serial[head] \in 1 .. made /\ made \in 0 .. MaxSubmit
         /\ BatchSize = 0 /\ Open = InflightHeads
<1>1. head \in InflightHeads
  BY Zenon DEF IInv, HeldInv, Marked, Current
<1>2. BatchSize = 0 /\ Open = InflightHeads
  BY Zenon DEF IInv, BatchInv, Open
<1>3. head \in DeviceHeads
  BY Zenon, <1>1, <1>2 DEF IInv, RingInv
<1>4. made \in 0 .. MaxSubmit /\ head \in Head_ /\ serial[head] \in 0 .. MaxSubmit
  BY Zenon DEF IInv, TypeOK
<1>5. serial[head] > 0 /\ serial[head] <= made
  BY Zenon, <1>3, <1>4 DEF IInv, OrderInv
<1> QED
  BY SMTT(30), <1>1, <1>2, <1>3, <1>4, <1>5, InflightAssumption

(* The order of the backend's requests when one more is given to it. *)
LEMMA HandledGrows ==
  ASSUME IInv, pc = "handle", handled' = Append(handled, serial[head])
  PROVE  /\ handled' \in Seq(1 .. MaxSubmit)
         /\ SubmissionOrder'
         /\ \A e \in DOMAIN handled' : handled'[e] <= made
         /\ \A e \in DOMAIN handled', i \in 0 .. Left - 1 : handled'[e] < serial[Waiting(i)]
         /\ vq.inflight_check =>
              \A e \in DOMAIN handled', i \in DOMAIN todo : handled'[e] < serial[todo[i]]
<1> DEFINE n == Len(handled)
<1>1. /\ handled \in Seq(1 .. MaxSubmit) /\ n \in Nat /\ DOMAIN handled = 1 .. n
      /\ \A e \in 1 .. n : handled[e] \in 1 .. MaxSubmit
  <2>1. handled \in Seq(1 .. MaxSubmit)
    BY Zenon DEF IInv, TypeOK
  <2> QED
    BY Zenon, <2>1, SeqElement
<1>2. serial[head] \in 1 .. made /\ serial[head] \in 1 .. MaxSubmit /\ head \in Open
  BY SMTT(30), HeadAtHand, InflightAssumption
<1>3. /\ handled' \in Seq(1 .. MaxSubmit)
      /\ DOMAIN handled' = 1 .. n + 1
      /\ \A e \in 1 .. n : handled'[e] = handled[e]
      /\ handled'[n + 1] = serial[head]
  BY SMTT(30), <1>1, <1>2
<1>4. \A e \in 1 .. n + 1 : e \in 1 .. n \/ e = n + 1
  BY SMTT(30), <1>1
<1>5. \A e \in 1 .. n : handled[e] < serial[head] /\ handled[e] <= made
  BY Zenon, <1>1 DEF IInv, HandledInv
<1> HIDE DEF n
<1>6. SubmissionOrder'
  <2> SUFFICES ASSUME NEW i \in 1 .. n + 1, NEW j \in 1 .. n + 1, i < j
               PROVE  handled'[i] < handled'[j]
    BY Zenon, <1>3 DEF SubmissionOrder
  <2>1. i \in 1 .. n
    BY SMTT(30), <1>1
  <2>2. CASE j \in 1 .. n
    <3>1. handled[i] < handled[j]
      BY Zenon, <1>1, <2>1, <2>2 DEF IInv, HandledInv, SubmissionOrder
    <3> QED
      BY Zenon, <1>3, <2>1, <2>2, <3>1
  <2>3. CASE j = n + 1
    BY Zenon, <1>3, <1>5, <2>1, <2>3
  <2> QED
    BY Zenon, <1>4, <2>2, <2>3
<1>7. \A e \in DOMAIN handled' : handled'[e] <= made
  <2>1. serial[head] <= made
    BY SMTT(30), HeadAtHand
  <2> QED
    BY Zenon, <1>3, <1>4, <1>5, <2>1
<1>8. \A e \in DOMAIN handled', i \in 0 .. Left - 1 : handled'[e] < serial[Waiting(i)]
  <2> SUFFICES ASSUME NEW e \in 1 .. n + 1, NEW i \in 0 .. Left - 1
               PROVE  handled'[e] < serial[Waiting(i)]
    BY Zenon, <1>3
  <2>1. serial[head] < serial[Waiting(i)]
    BY Zenon, <1>2 DEF IInv, OrderInv
  <2>2. e \in 1 .. n => handled[e] < serial[Waiting(i)]
    BY Zenon, <1>1 DEF IInv, HandledInv
  <2> QED
    BY Zenon, <1>3, <1>4, <2>1, <2>2
<1>9. vq.inflight_check =>
        \A e \in DOMAIN handled', i \in DOMAIN todo : handled'[e] < serial[todo[i]]
  <2> SUFFICES ASSUME vq.inflight_check, NEW e \in 1 .. n + 1, NEW i \in DOMAIN todo
               PROVE  handled'[e] < serial[todo[i]]
    BY Zenon, <1>3
  <2>1. serial[head] < serial[todo[i]]
    BY Zenon DEF IInv, HandledInv
  <2>2. e \in 1 .. n => handled[e] < serial[todo[i]]
    BY Zenon, <1>1 DEF IInv, HandledInv
  <2> QED
    BY Zenon, <1>3, <1>4, <2>1, <2>2
<1> QED
  BY Zenon, <1>3, <1>6, <1>7, <1>8, <1>9

LEMMA HandleBuffersStep ==
  ASSUME IInv, HandleBuffers
  PROVE  IInv'
<1>1. /\ pc = "handle" /\ pc' = "handled" /\ held' = held \cup {head}
      /\ handled' = Append(handled, serial[head])
      /\ UNCHANGED <<avail, used, region>> /\ UNCHANGED guestVars
      /\ UNCHANGED <<vq, head, todo, ret, stopping, base, restarts>>
  BY Zenon DEF HandleBuffers, Goto, stopVars
<1>2. /\ InflightHeads' = InflightHeads /\ BatchSize' = BatchSize /\ Open' = Open
      /\ Frontier' = Frontier /\ Left' = Left
      /\ \A i : Waiting(i)' = Waiting(i)
      /\ RingInv' /\ OrderInv'
  BY Zenon, <1>1, SharedFrame DEF IInv
<1>3. TypeOK'
  BY Zenon, <1>1, HandledGrows DEF IInv, TypeOK, guestVars
<1>4. BatchInv' /\ CounterInv'
  BY Zenon, <1>1, <1>2 DEF IInv, BatchInv, CounterInv
<1>5. HeldInv'
  <2>1. Current' = {} /\ Current = {head} /\ Resubmitted' = Resubmitted
    BY Zenon, <1>1 DEF Current, Resubmitted, Range
  <2>2. Marked' = Marked
    BY Zenon, <1>1, <2>1 DEF Marked
  <2> QED
    BY Zenon, <1>1, <1>2, <2>1, <2>2 DEF IInv, HeldInv, Pushing
<1>6. PlaceInv'
  <2>1. AtHand' = AtHand
    BY Zenon, <1>1 DEF AtHand, Pushing
  <2> QED
    BY Zenon, <1>1, <1>2, <2>1 DEF IInv, PlaceInv
<1>7. HandledInv'
  BY Zenon, <1>1, <1>2, HandledGrows DEF IInv, HandledInv, guestVars
<1> QED
  BY Zenon, <1>2, <1>3, <1>4, <1>5, <1>6, <1>7 DEF IInv

LEMMA VirtqDequeueOneDoneStep ==
  ASSUME IInv, VirtqDequeueOneDone
  PROVE  IInv'
<1>1. /\ pc = "handled" /\ pc' = "loop"
      /\ vq' = [vq EXCEPT !.last_avail = (vq.last_avail + 1) % Width]
      /\ UNCHANGED <<avail, used, region>> /\ UNCHANGED guestVars
      /\ UNCHANGED <<head, todo, ret, held, stopping, base, restarts, handled>>
  BY Zenon DEF VirtqDequeueOneDone, Goto, stopVars
<1>2. /\ InflightHeads' = InflightHeads /\ BatchSize' = BatchSize /\ Open' = Open
      /\ Frontier' = Frontier /\ Left' = Left
      /\ \A i : Waiting(i)' = Waiting(i)
      /\ RingInv' /\ OrderInv'
  BY Zenon, <1>1, SharedFrame DEF IInv
<1>3. /\ vq.last_avail \in Index /\ vq.inflight_check \in BOOLEAN /\ vq.req_cnt \in Nat
      /\ vq' \in [last_avail : Index, req_cnt : Nat, inflight_check : BOOLEAN]
      /\ vq'.last_avail = (vq.last_avail + 1) % Width
      /\ vq'.inflight_check = vq.inflight_check /\ vq'.req_cnt = vq.req_cnt
  <2>1. vq \in [last_avail : Index, req_cnt : Nat, inflight_check : BOOLEAN]
    BY Zenon DEF IInv, TypeOK
  <2>2. vq.last_avail + 1 \in Int
    BY SMTT(30), <2>1, IndexType
  <2>3. (vq.last_avail + 1) % Width \in Index
    BY Zenon, <2>2, Turn
  <2> QED
    BY Zenon, <1>1, <2>1, <2>3
<1>4. TypeOK'
  BY Zenon, <1>1, <1>3 DEF IInv, TypeOK, guestVars
<1>5. BatchInv' /\ CounterInv'
  BY Zenon, <1>1, <1>2, <1>3 DEF IInv, BatchInv, CounterInv
<1>6. HeldInv'
  <2>1. Current' = Current /\ Resubmitted' = Resubmitted
    BY Zenon, <1>1, <1>3 DEF Current, Resubmitted, Range
  <2>2. Marked' = Marked
    BY Zenon, <1>1, <2>1 DEF Marked
  <2> QED
    BY Zenon, <1>1, <1>2, <1>3, <2>1, <2>2 DEF IInv, HeldInv, Pushing
<1>7. PlaceInv'
  <2> DEFINE n == IF vq.inflight_check THEN Len(todo) ELSE 0
  <2>1. AtHand' = 0 /\ AtHand = 1
    BY Zenon, <1>1 DEF AtHand, Pushing
  <2>2. n \in 0 .. QSize
    <3>1. todo \in Seq(Head_) /\ Len(todo) <= QSize
      BY Zenon DEF IInv, TypeOK
    <3> QED
      BY SMTT(30), <3>1, IndexType
  <2>3. Frontier = (vq.last_avail + 1 + n) % Width
    BY Zenon, <1>1, <2>1 DEF IInv, PlaceInv
  <2>4. (((vq.last_avail + 1) % Width) + n) % Width = (vq.last_avail + (n + 1)) % Width
    BY Zenon, <1>3, <2>2, NextIndex
  <2>5. n' = n
    BY Zenon, <1>1, <1>3
  <2> HIDE DEF n
  <2>6. vq.last_avail + 1 + n = vq.last_avail + (n + 1) /\ vq'.last_avail \in Int
    BY SMTT(30), <1>3, <2>2, IndexType
  <2>7. vq'.last_avail + 0 + n = vq'.last_avail + n
    BY SMTT(30), <2>2, <2>6
  <2>8. Frontier' = (vq'.last_avail + AtHand' + n') % Width
    BY Zenon, <1>2, <1>3, <2>1, <2>3, <2>4, <2>5, <2>6, <2>7
  <2> QED
    BY Zenon, <1>1, <1>2, <1>3, <2>8 DEF n, IInv, PlaceInv
<1>8. HandledInv'
  BY Zenon, <1>1, <1>2, <1>3 DEF IInv, HandledInv, SubmissionOrder, guestVars
<1> QED
  BY Zenon, <1>2, <1>4, <1>5, <1>6, <1>7, <1>8 DEF IInv

(* What is left in the available ring, read when nothing is fetched from   *)
(* it that last_avail does not count.                                      *)
LEMMA AvailFromFrontier ==
  ASSUME Finite, TypeOK, RingInv, NEW from \in Index, from = Frontier
  PROVE  /\ AvailFrom(from) \in Seq(Head_)
         /\ Len(AvailFrom(from)) = Left /\ Left \in 0 .. QSize
         /\ \A i \in 1 .. Left : AvailFrom(from)[i] = Waiting(i - 1)
<1>1. Left \in 0 .. QSize /\ Left = NumAvail(from)
  BY Zenon, WaitingHeads DEF Left
<1>2. NumAvail(from) <= QSize
  BY SMTT(30), <1>1, IndexType
<1> QED
  BY Zenon, <1>1, <1>2, Ranges, AvailFromIsWindow DEF Waiting

LEMMA VirtqDequeueManyNextStep ==
  ASSUME Finite, IInv, VirtqDequeueManyNext
  PROVE  IInv'
<1>1. /\ pc = "loop" /\ todo = <<>>
      /\ vq' = [vq EXCEPT !.inflight_check = FALSE]
      /\ vq.inflight_check => todo' = AvailFrom(vq.last_avail) /\ pc' = "loop"
      /\ ~vq.inflight_check => todo' = <<>> /\ pc' = "idle"
      /\ UNCHANGED <<avail, used, region>> /\ UNCHANGED guestVars
      /\ UNCHANGED <<head, ret, held, stopping, base, restarts, handled>>
  BY Zenon DEF VirtqDequeueManyNext, Goto, stopVars
<1>2. /\ InflightHeads' = InflightHeads /\ BatchSize' = BatchSize /\ Open' = Open
      /\ Frontier' = Frontier /\ Left' = Left
      /\ \A i : Waiting(i)' = Waiting(i)
      /\ RingInv' /\ OrderInv'
  BY Zenon, <1>1, SharedFrame DEF IInv
<1>3. /\ vq.last_avail \in Index /\ vq.inflight_check \in BOOLEAN /\ vq.req_cnt \in Nat
      /\ vq' \in [last_avail : Index, req_cnt : Nat, inflight_check : BOOLEAN]
      /\ vq'.last_avail = vq.last_avail
      /\ vq'.inflight_check = FALSE /\ vq'.req_cnt = vq.req_cnt
  <2>1. vq \in [last_avail : Index, req_cnt : Nat, inflight_check : BOOLEAN]
    BY Zenon DEF IInv, TypeOK
  <2> QED
    BY Zenon, <1>1, <2>1
<1>4. vq.last_avail = Frontier
  <2>1. Frontier = (vq.last_avail + 0 + 0) % Width
    BY Zenon, <1>1 DEF IInv, PlaceInv, AtHand, Pushing
  <2>2. vq.last_avail + 0 + 0 = vq.last_avail + 0
    BY SMTT(30), <1>3, IndexType
  <2>3. 0 \in 0 .. QSize
    BY SMTT(30), IndexType
  <2> QED
    BY Zenon, <1>3, <2>1, <2>2, <2>3, NextIndex
<1>5. /\ todo' \in Seq(Head_) /\ Len(todo') <= Left /\ Len(todo') <= QSize
      /\ \A i \in 1 .. Len(todo') : todo'[i] = Waiting(i - 1)
  <2>1. Left \in 0 .. QSize
    BY Zenon, WaitingHeads DEF IInv
  <2>2. CASE vq.inflight_check
    <3>1. TypeOK /\ RingInv
      BY Zenon DEF IInv
    <3>2. /\ AvailFrom(vq.last_avail) \in Seq(Head_)
          /\ Len(AvailFrom(vq.last_avail)) = Left
          /\ \A i \in 1 .. Left : AvailFrom(vq.last_avail)[i] = Waiting(i - 1)
      BY Zenon, <1>3, <1>4, <3>1, AvailFromFrontier
    <3>3. Left <= Left /\ Left <= QSize
      BY SMTT(30), <2>1, IndexType
    <3>4. todo' = AvailFrom(vq.last_avail)
      BY Zenon, <1>1, <2>2
    <3> QED
      BY Zenon, <3>2, <3>3, <3>4
  <2>3. CASE ~vq.inflight_check
    <3>1. todo' = <<>>
      BY Zenon, <1>1, <2>3
    <3>2. todo' \in Seq(Head_) /\ Len(todo') = 0
      BY SMTT(30), <3>1
    <3> QED
      BY SMTT(30), <2>1, <3>2, IndexType
  <2> QED
    BY Zenon, <2>2, <2>3
<1>6. TypeOK'
  BY Zenon, <1>1, <1>3, <1>5 DEF IInv, TypeOK, guestVars
<1>7. BatchInv' /\ CounterInv'
  BY Zenon, <1>1, <1>2, <1>3 DEF IInv, BatchInv, CounterInv
<1>8. HeldInv'
  <2>1. Current' = {} /\ Current = {} /\ Resubmitted' = {} /\ Resubmitted = {}
    BY SMTT(30), <1>1, <1>3 DEF Current, Resubmitted, Range
  <2>2. Marked' = Marked
    BY Zenon, <1>1, <2>1 DEF Marked
  <2> QED
    BY Zenon, <1>1, <1>2, <1>3, <2>1, <2>2 DEF IInv, HeldInv, Pushing
<1>9. PlaceInv'
  <2>1. AtHand' = 0
    BY Zenon, <1>1 DEF AtHand, Pushing
  <2>2. vq'.last_avail + 0 + 0 = vq.last_avail + 0
    BY SMTT(30), <1>3, IndexType
  <2>3. 0 \in 0 .. QSize
    BY SMTT(30), IndexType
  <2>4. Frontier' = (vq'.last_avail + AtHand' + 0) % Width
    BY Zenon, <1>2, <1>3, <1>4, <2>1, <2>2, <2>3, NextIndex
  <2>5. \A i \in 1 .. Len(todo') : todo'[i] = Waiting((i - 1) + 0)'
    BY SMTT(30), <1>2, <1>5
  <2>6. Len(todo') + 0 <= Left'
    BY SMTT(30), <1>2, <1>5
  <2>7. pc' \in {"loop", "idle"}
    BY Zenon, <1>1, <1>3
  <2> QED
    BY Zenon, <1>1, <1>2, <1>3, <2>4, <2>5, <2>6, <2>7 DEF IInv, PlaceInv
<1>10. HandledInv'
  BY Zenon, <1>1, <1>2, <1>3 DEF IInv, HandledInv, SubmissionOrder, guestVars
<1> QED
  BY Zenon, <1>2, <1>6, <1>7, <1>8, <1>9, <1>10 DEF IInv

LEMMA VirtqDequeueManyStep ==
  ASSUME Finite, IInv, VirtqDequeueMany
  PROVE  IInv'
<1>1. /\ pc = "idle" /\ stopping = "no" /\ pc' = "loop"
      /\ vq.inflight_check => todo' = ResubmitArray
      /\ ~vq.inflight_check => todo' = AvailFrom(vq.last_avail)
      /\ UNCHANGED <<avail, used, region>> /\ UNCHANGED guestVars
      /\ UNCHANGED <<vq, head, ret, held, stopping, base, restarts, handled>>
  BY Zenon DEF VirtqDequeueMany, Goto, stopVars
<1>2. /\ InflightHeads' = InflightHeads /\ BatchSize' = BatchSize /\ Open' = Open
      /\ Frontier' = Frontier /\ Left' = Left
      /\ \A i : Waiting(i)' = Waiting(i)
      /\ RingInv' /\ OrderInv'
  BY Zenon, <1>1, SharedFrame DEF IInv
<1>3. vq.last_avail \in Index /\ vq.inflight_check \in BOOLEAN /\ TypeOK /\ RingInv
  BY Zenon DEF IInv, TypeOK
<1>4. BatchSize = 0 /\ Open = InflightHeads
  BY Zenon, <1>1 DEF IInv, BatchInv, Open
<1>5. Current' = {} /\ Current = {} /\ AtHand' = 0 /\ AtHand = 0
  BY Zenon, <1>1 DEF Current, AtHand, Pushing
<1>6. BatchInv' /\ CounterInv'
  BY Zenon, <1>1, <1>2 DEF IInv, BatchInv, CounterInv
<1>7. CASE vq.inflight_check
  <2>1. region.desc \in [Head_ -> [inflight : {0, 1}, counter : Nat]]
    BY Zenon, <1>3, Ranges
  <2>2. \A a, b \in InflightHeads :
          region.desc[a].counter = region.desc[b].counter => a = b
    BY Zenon, <1>4 DEF IInv, OrderInv
  <2>3. todo' = ResubmitArray
    BY Zenon, <1>1, <1>7
  <2>4. /\ todo' \in Seq(Head_)
        /\ Len(todo') = Cardinality(InflightHeads)
        /\ Range(todo') = InflightHeads
        /\ \A i, j \in DOMAIN todo' : todo'[i] = todo'[j] => i = j
        /\ \A i, j \in DOMAIN todo' :
             i < j => region.desc[todo'[i]].counter < region.desc[todo'[j]].counter
    BY Zenon, <2>1, <2>2, <2>3, ResubmitArrayIsSorted
  <2>5. Cardinality(InflightHeads) \in 0 .. QSize
    BY Zenon, <1>3, <1>4, Ranges
  <2>6. held = {} /\ todo = <<>> /\ handled = <<>> /\ vq.last_avail = used.idx
    BY Zenon, <1>1, <1>7 DEF IInv, HeldInv, HandledInv, PlaceInv
  <2>7. TypeOK'
    <3>1. Len(todo') <= QSize
      BY SMTT(30), <2>4, <2>5, IndexType
    <3> QED
      BY Zenon, <1>1, <2>4, <3>1 DEF IInv, TypeOK, guestVars
  <2>8. HeldInv'
    <3>1. Resubmitted' = InflightHeads
      BY Zenon, <1>1, <1>7, <2>4 DEF Resubmitted
    <3>2. Marked' = InflightHeads
      BY Zenon, <1>1, <1>5, <2>6, <3>1 DEF Marked
    <3> QED
      BY Zenon, <1>1, <1>2, <1>5, <1>7, <2>4, <2>6, <3>1, <3>2 DEF IInv, HeldInv, Pushing
  <2>9. PlaceInv'
    <3>1. Frontier = (vq.last_avail + Len(todo')) % Width
      BY Zenon, <1>4, <2>4, <2>6 DEF Frontier
    <3>2. vq.last_avail + 0 + Len(todo') = vq.last_avail + Len(todo')
      BY SMTT(30), <1>3, <2>4, <2>5, IndexType
    <3>3. Frontier' = (vq'.last_avail + AtHand' + Len(todo')) % Width
      BY Zenon, <1>1, <1>2, <1>5, <3>1, <3>2
    <3> QED
      BY Zenon, <1>1, <1>2, <1>7, <2>6, <3>3 DEF IInv, PlaceInv
  <2>10. HandledInv'
    <3>1. \A i, j \in DOMAIN todo' : i < j => serial[todo'[i]] < serial[todo'[j]]
      <4> SUFFICES ASSUME NEW i \in DOMAIN todo', NEW j \in DOMAIN todo', i < j
                   PROVE  serial[todo'[i]] < serial[todo'[j]]
        BY Zenon
      <4>1. todo'[i] \in Open /\ todo'[j] \in Open
        BY Zenon, <1>4, <2>4 DEF Range
      <4> QED
        BY Zenon, <2>4, <4>1 DEF IInv, OrderInv
    <3>2. SubmissionOrder' /\ handled' = <<>> /\ DOMAIN handled' = {}
      BY SMTT(30), <1>1, <2>6 DEF SubmissionOrder
    <3> QED
      BY Zenon, <1>1, <1>2, <3>1, <3>2 DEF IInv, HandledInv, guestVars
  <2> QED
    BY Zenon, <1>2, <1>6, <2>7, <2>8, <2>9, <2>10 DEF IInv
<1>8. CASE ~vq.inflight_check
  <2>1. todo' = AvailFrom(vq.last_avail)
    BY Zenon, <1>1, <1>8
  <2>2. Frontier = vq.last_avail
    <3>1. Frontier = (vq.last_avail + 0 + 0) % Width
      BY Zenon, <1>1, <1>5, <1>8 DEF IInv, PlaceInv
    <3>2. vq.last_avail + 0 + 0 = vq.last_avail + 0 /\ 0 \in 0 .. QSize
      BY SMTT(30), <1>3, IndexType
    <3> QED
      BY Zenon, <1>3, <3>1, <3>2, NextIndex
  <2>3. /\ todo' \in Seq(Head_)
        /\ Len(todo') = Left /\ Left \in 0 .. QSize
        /\ \A i \in 1 .. Left : todo'[i] = Waiting(i - 1)
    BY Zenon, <1>3, <2>1, <2>2, AvailFromFrontier
  <2>4. TypeOK'
    <3>1. Len(todo') <= QSize
      BY SMTT(30), <2>3, IndexType
    <3> QED
      BY Zenon, <1>1, <2>3, <3>1 DEF IInv, TypeOK, guestVars
  <2>5. HeldInv'
    <3>1. Resubmitted' = {} /\ Resubmitted = {}
      BY Zenon, <1>1, <1>8 DEF Resubmitted
    <3>2. Marked' = Marked
      BY Zenon, <1>1, <1>5, <3>1 DEF Marked
    <3> QED
      BY Zenon, <1>1, <1>2, <1>5, <1>8, <3>1, <3>2 DEF IInv, HeldInv, Pushing
  <2>6. PlaceInv'
    <3>1. \A i \in 1 .. Len(todo') : todo'[i] = Waiting((i - 1) + 0)'
      BY SMTT(30), <1>2, <2>3
    <3>2. Len(todo') + 0 <= Left'
      BY SMTT(30), <1>2, <2>3
    <3>3. Frontier' = (vq'.last_avail + AtHand' + 0) % Width
      BY Zenon, <1>1, <1>2, <1>5, <1>8 DEF IInv, PlaceInv
    <3> QED
      BY Zenon, <1>1, <1>2, <1>8, <3>1, <3>2, <3>3 DEF IInv, PlaceInv
  <2>7. HandledInv'
    BY Zenon, <1>1, <1>2, <1>8 DEF IInv, HandledInv, SubmissionOrder, guestVars
  <2> QED
    BY Zenon, <1>2, <1>6, <2>4, <2>5, <2>6, <2>7 DEF IInv
<1> QED
  BY Zenon, <1>3, <1>7, <1>8

LEMMA VringStopStep ==
  ASSUME IInv, NEW why \in {"disconnect", "GET_VRING_BASE"}, NEW c \in SUBSET held,
         VringStop(why, c)
  PROVE  IInv'
<1>1. /\ pc = "idle" /\ stopping = "no" /\ restarts < MaxRestart
      /\ why = "GET_VRING_BASE" => c = {}
      /\ stopping' = why /\ restarts' = restarts + 1 /\ held' = held \ c
      /\ UNCHANGED <<avail, used, region>> /\ UNCHANGED guestVars
      /\ UNCHANGED <<vq, pc, head, todo, ret, base, handled>>
  BY Zenon DEF VringStop
<1>2. /\ InflightHeads' = InflightHeads /\ BatchSize' = BatchSize /\ Open' = Open
      /\ Frontier' = Frontier /\ Left' = Left
      /\ \A i : Waiting(i)' = Waiting(i)
      /\ RingInv' /\ OrderInv'
  BY Zenon, <1>1, SharedFrame DEF IInv
<1>3. TypeOK'
  <2>1. restarts \in 0 .. MaxRestart
    BY Zenon DEF IInv, TypeOK
  <2>2. restarts' \in 0 .. MaxRestart
    BY SMTT(30), <1>1, <2>1, InflightAssumption
  <2> QED
    BY Zenon, <1>1, <2>2 DEF IInv, TypeOK, guestVars
<1>4. BatchInv' /\ CounterInv'
  BY Zenon, <1>1, <1>2 DEF IInv, BatchInv, CounterInv
<1>5. HeldInv'
  <2>1. Current' = {} /\ Current = {} /\ Resubmitted' = Resubmitted
    BY Zenon, <1>1 DEF Current, Resubmitted, Range
  <2>2. Marked' \subseteq Marked /\ (why = "GET_VRING_BASE" => Marked' = Marked)
    BY Zenon, <1>1, <2>1 DEF Marked
  <2> QED
    BY Zenon, <1>1, <1>2, <2>1, <2>2 DEF IInv, HeldInv, Pushing
<1>6. PlaceInv'
  <2>1. AtHand' = AtHand
    BY Zenon, <1>1 DEF AtHand, Pushing
  <2> QED
    BY Zenon, <1>1, <1>2, <2>1 DEF IInv, PlaceInv
<1>7. HandledInv'
  BY Zenon, <1>1, <1>2 DEF IInv, HandledInv, SubmissionOrder, guestVars
<1> QED
  BY Zenon, <1>2, <1>3, <1>4, <1>5, <1>6, <1>7 DEF IInv

LEMMA VringMarkDrainedStep ==
  ASSUME Finite, IInv, VringMarkDrained
  PROVE  IInv'
<1>1. /\ pc = "idle" /\ stopping # "no" /\ held = {} /\ pc' = "down"
      /\ base' = IF stopping = "GET_VRING_BASE" THEN vq.last_avail ELSE -1
      /\ stopping' = "no" /\ vq' = VqZero
      /\ UNCHANGED <<avail, used, region>> /\ UNCHANGED guestVars
      /\ UNCHANGED <<head, todo, ret, held, restarts, handled>>
  BY Zenon DEF VringMarkDrained, Goto
<1>2. /\ InflightHeads' = InflightHeads /\ BatchSize' = BatchSize /\ Open' = Open
      /\ Frontier' = Frontier /\ Left' = Left
      /\ \A i : Waiting(i)' = Waiting(i)
      /\ RingInv' /\ OrderInv'
  BY Zenon, <1>1, SharedFrame DEF IInv
<1>3. /\ vq.last_avail \in Index /\ vq.inflight_check \in BOOLEAN
      /\ vq' \in [last_avail : Index, req_cnt : Nat, inflight_check : BOOLEAN]
      /\ vq'.inflight_check = FALSE /\ TypeOK /\ RingInv
  <2>1. TypeOK /\ RingInv
    BY Zenon DEF IInv
  <2>2. vq \in [last_avail : Index, req_cnt : Nat, inflight_check : BOOLEAN]
    BY Zenon, <2>1 DEF TypeOK
  <2>3. vq' = [last_avail |-> 0, req_cnt |-> 0, inflight_check |-> FALSE] /\ 0 \in Index
    BY SMTT(30), <1>1, IndexType DEF VqZero
  <2> QED
    BY Zenon, <2>1, <2>2, <2>3
<1>4. todo = <<>> /\ Len(todo) = 0 /\ DOMAIN todo = {}
  BY SMTT(30), <1>1 DEF IInv, HeldInv
<1>5. stopping = "GET_VRING_BASE" => vq.last_avail = used.idx
  <2> SUFFICES ASSUME stopping = "GET_VRING_BASE" PROVE vq.last_avail = used.idx
    BY Zenon
  <2>1. CASE vq.inflight_check
    BY Zenon, <1>1, <2>1 DEF IInv, PlaceInv
  <2>2. CASE ~vq.inflight_check
    <3>1. Marked = {} /\ Marked = InflightHeads
      BY Zenon, <1>1, <2>2 DEF IInv, HeldInv, Marked, Current, Resubmitted
    <3>2. Open = {}
      BY Zenon, <3>1 DEF Open
    <3>3. Cardinality(Open) = 0
      BY Zenon, <3>2, HeadFinite
    <3>4. Frontier = (used.idx + 0) % Width
      BY Zenon, <3>3 DEF Frontier
    <3>5. Frontier = (vq.last_avail + 0 + 0) % Width
      BY Zenon, <1>1, <2>2 DEF IInv, PlaceInv, AtHand, Pushing
    <3>6. vq.last_avail + 0 + 0 = vq.last_avail + 0 /\ 0 \in 0 .. QSize
      BY SMTT(30), <1>3, IndexType
    <3>7. (used.idx + 0) % Width = used.idx
      BY Zenon, <1>3, <3>6, NextIndex, Ranges
    <3>8. (vq.last_avail + 0) % Width = vq.last_avail
      BY Zenon, <1>3, <3>6, NextIndex
    <3> QED
      BY Zenon, <3>4, <3>5, <3>6, <3>7, <3>8
  <2> QED
    BY Zenon, <1>3, <2>1, <2>2
<1>6. TypeOK'
  BY Zenon, <1>1, <1>3 DEF TypeOK, guestVars
<1>7. BatchInv' /\ CounterInv'
  BY Zenon, <1>1, <1>2 DEF IInv, BatchInv, CounterInv
<1>8. HeldInv'
  BY Zenon, <1>1, <1>3, <1>4 DEF HeldInv, Current, Resubmitted, Pushing
<1>9. PlaceInv'
  <2>1. Left' \in Nat
    BY SMTT(30), <1>2, <1>3, WaitingHeads, IndexType
  <2> QED
    BY SMTT(30), <1>1, <1>3, <1>4, <1>5, <2>1 DEF PlaceInv
<1>10. HandledInv'
  BY Zenon, <1>1, <1>2, <1>3 DEF IInv, HandledInv, SubmissionOrder, guestVars
<1> QED
  BY Zenon, <1>2, <1>6, <1>7, <1>8, <1>9, <1>10 DEF IInv

LEMMA CrashStep ==
  ASSUME Finite, IInv, Crash
  PROVE  IInv'
<1>1. /\ pc # "down" /\ restarts < MaxRestart /\ restarts' = restarts + 1
      /\ vq' = VqZero /\ held' = {} /\ todo' = <<>> /\ head' = 0 /\ ret' = "idle"
      /\ stopping' = "no" /\ base' = -1 /\ pc' = "down"
      /\ UNCHANGED <<avail, used, region>> /\ UNCHANGED guestVars /\ UNCHANGED handled
  BY Zenon DEF Crash, Goto
<1>2. /\ InflightHeads' = InflightHeads /\ BatchSize' = BatchSize /\ Open' = Open
      /\ Frontier' = Frontier /\ Left' = Left
      /\ \A i : Waiting(i)' = Waiting(i)
      /\ RingInv' /\ OrderInv'
  BY Zenon, <1>1, SharedFrame DEF IInv
<1>3. /\ vq' \in [last_avail : Index, req_cnt : Nat, inflight_check : BOOLEAN]
      /\ vq'.inflight_check = FALSE
      /\ 0 \in Head_
  BY SMTT(30), <1>1, IndexType DEF VqZero, Head_
<1>4. todo' \in Seq(Head_) /\ Len(todo') = 0 /\ DOMAIN todo' = {}
  BY SMTT(30), <1>1
<1>5. TypeOK'
  <2>1. restarts \in 0 .. MaxRestart
    BY Zenon DEF IInv, TypeOK
  <2>2. restarts' \in 0 .. MaxRestart
    BY SMTT(30), <1>1, <2>1, InflightAssumption
  <2>3. Len(todo') <= QSize
    BY SMTT(30), <1>4, IndexType
  <2> QED
    BY Zenon, <1>1, <1>3, <1>4, <2>2, <2>3 DEF IInv, TypeOK, guestVars
<1>6. BatchInv' /\ CounterInv'
  BY Zenon, <1>1, <1>2 DEF IInv, BatchInv, CounterInv
<1>7. HeldInv'
  BY Zenon, <1>1, <1>3, <1>4 DEF HeldInv, Current, Resubmitted, Pushing
<1>8. PlaceInv'
  <2>1. Left' \in Nat
    BY SMTT(30), <1>2, WaitingHeads, IndexType DEF IInv
  <2> QED
    BY SMTT(30), <1>1, <1>3, <1>4, <2>1 DEF PlaceInv
<1>9. HandledInv'
  BY Zenon, <1>1, <1>2, <1>3 DEF IInv, HandledInv, SubmissionOrder, guestVars
<1> QED
  BY Zenon, <1>2, <1>5, <1>6, <1>7, <1>8, <1>9 DEF IInv

-----------------------------------------------------------------------------
(* The server with stores to the region.                                   *)

LEMMA VirtioVirtqInitStep ==
  ASSUME Finite, IInv, VirtioVirtqInit
  PROVE  IInv'
<1>1. /\ pc = "down" /\ pc' = "init" /\ handled' = <<>>
      /\ vq' = [last_avail |-> IF base = -1 THEN used.idx ELSE base,
                req_cnt |-> MaxCounter, inflight_check |-> TRUE]
      /\ region' = IF MaxCounter = 0 \/ BatchSize = 0 THEN region
                   ELSE [region EXCEPT !.desc[region.last_batch_head].inflight = 0]
      /\ UNCHANGED <<avail, used>> /\ UNCHANGED guestVars
      /\ UNCHANGED <<head, todo, ret, held, stopping, base, restarts>>
  BY Zenon DEF VirtioVirtqInit, Goto, stopVars
<1>2. TypeOK /\ RingInv /\ OrderInv
  BY Zenon DEF IInv
<1>3. /\ region \in [desc : [Head_ -> [inflight : {0, 1}, counter : Nat]],
                     last_batch_head : Head_, used_idx : Index]
      /\ region.desc \in [Head_ -> [inflight : {0, 1}, counter : Nat]]
      /\ used.idx \in Index
  BY Zenon, <1>2 DEF TypeOK
<1>4. /\ MaxCounter \in Nat
      /\ \A h \in Head_ : region.desc[h].counter <= MaxCounter
  BY Zenon, <1>3, MaxCounterIsLargest
<1>5. MaxCounter = 0 => BatchSize = 0
  <2> SUFFICES ASSUME MaxCounter = 0, BatchSize # 0 PROVE FALSE
    BY Zenon
  <2>1. BatchSize = 1
    BY Zenon DEF IInv, BatchInv
  <2>2. PICK h \in Head_ : region.desc[h].counter # 0
    BY Zenon, <2>1 DEF IInv, CounterInv
  <2>3. region.desc[h].counter <= 0 /\ region.desc[h].counter \in Nat
    BY Zenon, <1>3, <1>4
  <2> QED
    BY SMTT(30), <2>2, <2>3
<1>6. /\ region' \in [desc : [Head_ -> [inflight : {0, 1}, counter : Nat]],
                      last_batch_head : Head_, used_idx : Index]
      /\ region'.last_batch_head = region.last_batch_head
      /\ region'.used_idx = region.used_idx
      /\ \A h \in Head_ :
           /\ region'.desc[h].counter = region.desc[h].counter
           /\ region'.desc[h].inflight =
                IF BatchSize # 0 /\ h = region.last_batch_head THEN 0
                ELSE region.desc[h].inflight
  <2>1. CASE BatchSize = 0
    BY Zenon, <1>1, <1>3, <2>1
  <2>2. CASE BatchSize # 0
    <3>1. region' = [region EXCEPT !.desc[region.last_batch_head].inflight = 0]
      BY Zenon, <1>1, <1>5, <2>2
    <3> QED
      BY ZenonT(30), <1>3, <2>2, <3>1
  <2> QED
    BY Zenon, <2>1, <2>2
<1>7. InflightHeads' = Open /\ BatchSize' = BatchSize
  BY SMTT(30), <1>1, <1>6 DEF InflightHeads, Open, BatchSize
<1>8. Open' = Open
  BY Zenon, <1>6, <1>7 DEF Open
<1>9. Open \subseteq Head_ /\ Open \subseteq InflightHeads
  BY Zenon DEF Open, InflightHeads
<1>10. /\ Frontier' = Frontier /\ Left' = Left
       /\ \A i : Waiting(i)' = Waiting(i)
       /\ RingInv' /\ OrderInv'
  BY Zenon, <1>1, <1>2, <1>6, <1>8, <1>9, OpenFrame
<1>11. /\ vq' \in [last_avail : Index, req_cnt : Nat, inflight_check : BOOLEAN]
       /\ vq'.last_avail = used.idx /\ vq'.req_cnt = MaxCounter
       /\ vq'.inflight_check = TRUE
  <2>1. base \in {-1, used.idx}
    BY Zenon, <1>1 DEF IInv, PlaceInv
  <2>2. vq' = [last_avail |-> used.idx, req_cnt |-> MaxCounter, inflight_check |-> TRUE]
    BY Zenon, <1>1, <2>1
  <2> QED
    BY Zenon, <1>3, <1>4, <2>2
<1>12. todo = <<>> /\ DOMAIN todo = {} /\ Range(todo) = {} /\ held = {} /\ stopping = "no"
  BY SMTT(30), <1>1 DEF IInv, HeldInv, Range
<1>13. TypeOK'
  <2>1. handled' \in Seq(1 .. MaxSubmit)
    BY SMTT(30), <1>1
  <2> QED
    BY Zenon, <1>1, <1>2, <1>6, <1>11, <2>1 DEF TypeOK, guestVars
<1>14. BatchInv'
  BY SMTT(30), <1>1, <1>6, <1>7 DEF IInv, BatchInv, Open
<1>15. CounterInv'
  <2>1. BatchSize' = 1 \/ InflightHeads' # {} => \E h \in Head_ : region'.desc[h].counter # 0
    BY Zenon, <1>6, <1>7, <1>9 DEF IInv, CounterInv
  <2> QED
    BY SMTT(30), <1>1, <1>4, <1>6, <1>11, <2>1 DEF CounterInv
<1>16. HeldInv'
  BY Zenon, <1>1, <1>11, <1>12 DEF HeldInv, Current, Resubmitted, Pushing, Range
<1>17. PlaceInv'
  BY Zenon, <1>1, <1>11 DEF PlaceInv
<1>18. HandledInv'
  BY Zenon, <1>1, <1>12 DEF HandledInv, SubmissionOrder
<1> QED
  BY Zenon, <1>10, <1>13, <1>14, <1>15, <1>16, <1>17, <1>18 DEF IInv

LEMMA VirtioVirtqInitDoneStep ==
  ASSUME IInv, VirtioVirtqInitDone
  PROVE  IInv'
<1>1. /\ pc = "init" /\ pc' = "idle"
      /\ vq' = [vq EXCEPT !.req_cnt = vq.req_cnt + 1]
      /\ region' = [region EXCEPT !.used_idx = used.idx]
      /\ UNCHANGED <<avail, used>> /\ UNCHANGED guestVars
      /\ UNCHANGED <<head, todo, ret, held, handled, stopping, base, restarts>>
  BY Zenon DEF VirtioVirtqInitDone, Goto, stopVars
<1>2. TypeOK /\ RingInv /\ OrderInv
  BY Zenon DEF IInv
<1>3. /\ region \in [desc : [Head_ -> [inflight : {0, 1}, counter : Nat]],
                     last_batch_head : Head_, used_idx : Index]
      /\ vq \in [last_avail : Index, req_cnt : Nat, inflight_check : BOOLEAN]
      /\ used.idx \in Index
  BY Zenon, <1>2 DEF TypeOK
<1>4. /\ region' \in [desc : [Head_ -> [inflight : {0, 1}, counter : Nat]],
                      last_batch_head : Head_, used_idx : Index]
      /\ region'.desc = region.desc /\ region'.last_batch_head = region.last_batch_head
      /\ region'.used_idx = used.idx
  BY Zenon, <1>1, <1>3
<1>5. /\ vq' \in [last_avail : Index, req_cnt : Nat, inflight_check : BOOLEAN]
      /\ vq'.last_avail = vq.last_avail /\ vq'.req_cnt = vq.req_cnt + 1
      /\ vq'.inflight_check = vq.inflight_check /\ vq.req_cnt \in Nat
  BY SMTT(30), <1>1, <1>3
<1>6. BatchSize' = 0
  BY Zenon, <1>1, <1>3, <1>4, Distance DEF BatchSize
<1>7. InflightHeads' = InflightHeads
  BY Zenon, <1>4 DEF InflightHeads
<1>8. Open' = Open
  <2>1. Open' = InflightHeads
    BY Zenon, <1>6, <1>7 DEF Open
  <2>2. Open = InflightHeads
    BY Zenon, <1>1 DEF IInv, BatchInv, Open
  <2> QED
    BY Zenon, <2>1, <2>2
<1>9. /\ Frontier' = Frontier /\ Left' = Left
      /\ \A i : Waiting(i)' = Waiting(i)
      /\ RingInv' /\ OrderInv'
  BY Zenon, <1>1, <1>2, <1>4, <1>8, OpenFrame
<1>10. TypeOK'
  BY Zenon, <1>1, <1>2, <1>4, <1>5 DEF TypeOK, guestVars
<1>11. BatchInv'
  BY Zenon, <1>1, <1>6 DEF BatchInv
<1>12. CounterInv'
  <2>1. \A h \in Head_ : region.desc[h].counter \in Nat
    BY Zenon, <1>3
  <2>2. \A h \in Head_ : region.desc[h].counter <= vq.req_cnt
    BY Zenon, <1>1 DEF IInv, CounterInv
  <2>3. \A h \in Head_ : region'.desc[h].counter < vq'.req_cnt
    BY SMTT(30), <1>4, <1>5, <2>1, <2>2
  <2>4. vq'.req_cnt > 0
    BY SMTT(30), <1>5
  <2>5. InflightHeads' # {} => \E h \in Head_ : region'.desc[h].counter # 0
    BY Zenon, <1>4, <1>7 DEF IInv, CounterInv
  <2> QED
    BY SMTT(30), <1>1, <1>6, <2>3, <2>4, <2>5 DEF CounterInv
<1>13. HeldInv'
  BY Zenon, <1>1, <1>5 DEF IInv, HeldInv, Current, Resubmitted, Pushing, Range
<1>14. PlaceInv'
  BY Zenon, <1>1, <1>5 DEF IInv, HeldInv, PlaceInv
<1>15. HandledInv'
  BY Zenon, <1>1, <1>5, <1>9 DEF IInv, HandledInv, SubmissionOrder, guestVars
<1> QED
  BY Zenon, <1>9, <1>10, <1>11, <1>12, <1>13, <1>14, <1>15 DEF IInv

LEMMA HeadAndTail ==
  ASSUME NEW S, NEW s \in Seq(S), s # <<>>
  PROVE  /\ Head(s) = s[1] /\ s[1] \in S /\ Len(s) \in Nat \ {0} /\ DOMAIN s = 1 .. Len(s)
         /\ Tail(s) \in Seq(S) /\ Len(Tail(s)) = Len(s) - 1
         /\ DOMAIN Tail(s) = 1 .. Len(s) - 1
         /\ \A i \in 1 .. Len(s) - 1 : Tail(s)[i] = s[i + 1]
BY SMTT(30)

LEMMA VirtqDequeueOneStep ==
  ASSUME Finite, IInv, VirtqDequeueOne
  PROVE  IInv'
<1>1. /\ pc = "loop" /\ todo # <<>> /\ head' = Head(todo) /\ todo' = Tail(todo)
      /\ vq.inflight_check => pc' = "handle" /\ region' = region
      /\ ~vq.inflight_check =>
           /\ region' = [region EXCEPT !.desc[Head(todo)].counter = vq.req_cnt]
           /\ pc' = "avail_update"
      /\ UNCHANGED <<avail, used>> /\ UNCHANGED guestVars
      /\ UNCHANGED <<vq, ret, held, handled, stopping, base, restarts>>
  BY Zenon DEF VirtqDequeueOne, Goto, stopVars
<1>2. TypeOK /\ RingInv /\ OrderInv
  BY Zenon DEF IInv
<1>3. /\ region \in [desc : [Head_ -> [inflight : {0, 1}, counter : Nat]],
                     last_batch_head : Head_, used_idx : Index]
      /\ vq.last_avail \in Index /\ vq.req_cnt \in Nat /\ vq.inflight_check \in BOOLEAN
      /\ todo \in Seq(Head_) /\ Len(todo) <= QSize
  BY Zenon, <1>2 DEF TypeOK
<1> DEFINE n == Len(todo)
<1>4. /\ head' = todo[1] /\ head' \in Head_ /\ n \in Nat \ {0} /\ DOMAIN todo = 1 .. n
      /\ todo' \in Seq(Head_) /\ Len(todo') = n - 1
      /\ DOMAIN todo' = 1 .. n - 1
      /\ \A i \in 1 .. n - 1 : todo'[i] = todo[i + 1]
  BY SMTT(30), <1>1, <1>3, HeadAndTail
<1>5. \A i \in 1 .. n - 1 : i + 1 \in 1 .. n /\ i + 1 # 1 /\ 1 < i + 1
  BY SMTT(30), <1>4
<1>6. n - 1 <= QSize /\ 1 \in 1 .. n
  BY SMTT(30), <1>3, <1>4, IndexType
<1> HIDE DEF n
<1>7. BatchSize = 0 /\ Open = InflightHeads
  BY Zenon, <1>1 DEF IInv, BatchInv, Open
<1>8. CASE vq.inflight_check
  <2>1. pc' = "handle" /\ region' = region
    BY Zenon, <1>1, <1>8
  <2>2. /\ InflightHeads' = InflightHeads /\ BatchSize' = BatchSize /\ Open' = Open
        /\ Frontier' = Frontier /\ Left' = Left
        /\ \A i : Waiting(i)' = Waiting(i)
        /\ RingInv' /\ OrderInv'
    BY Zenon, <1>1, <1>2, <2>1, SharedFrame
  <2>3. TypeOK'
    BY Zenon, <1>1, <1>2, <1>4, <1>6, <2>1 DEF TypeOK, guestVars
  <2>4. BatchInv' /\ CounterInv'
    BY Zenon, <1>1, <2>1, <2>2 DEF IInv, BatchInv, CounterInv
  <2>5. Range(todo) = {head'} \cup Range(todo')
    <3>1. \A i \in 1 .. n : i = 1 \/ (i - 1 \in 1 .. n - 1 /\ (i - 1) + 1 = i)
      BY SMTT(30), <1>4
    <3>2. ASSUME NEW x \in Range(todo) PROVE x \in {head'} \cup Range(todo')
      <4>1. PICK i \in 1 .. n : x = todo[i]
        BY Zenon, <1>4 DEF Range
      <4>2. i # 1 => x = todo'[i - 1] /\ i - 1 \in 1 .. n - 1
        BY Zenon, <1>4, <3>1, <4>1
      <4> QED
        BY Zenon, <1>4, <4>1, <4>2 DEF Range
    <3>3. ASSUME NEW x \in Range(todo') PROVE x \in Range(todo)
      <4>1. PICK i \in 1 .. n - 1 : x = todo'[i]
        BY Zenon, <1>4 DEF Range
      <4>2. x = todo[i + 1] /\ i + 1 \in 1 .. n
        BY Zenon, <1>4, <1>5, <4>1
      <4> QED
        BY Zenon, <1>4, <4>2 DEF Range
    <3>4. head' \in Range(todo)
      BY Zenon, <1>4, <1>6 DEF Range
    <3> QED
      BY Zenon, <3>2, <3>3, <3>4
  <2>6. \A i, j \in 1 .. n : todo[i] = todo[j] => i = j
    BY Zenon, <1>4, <1>8 DEF IInv, HeldInv
  <2>7. head' \notin Range(todo')
    <3> SUFFICES ASSUME NEW i \in 1 .. n - 1, head' = todo'[i] PROVE FALSE
      BY Zenon, <1>4 DEF Range
    <3>1. todo[1] = todo[i + 1]
      BY Zenon, <1>4
    <3> QED
      BY Zenon, <1>5, <1>6, <2>6, <3>1
  <2>8. HeldInv'
    <3>1. Current' = {head'} /\ Current = {} /\ Resubmitted' = Range(todo')
          /\ Resubmitted = Range(todo)
      BY Zenon, <1>1, <1>8, <2>1 DEF Current, Resubmitted, Range
    <3>2. Marked' = Marked
      BY Zenon, <1>1, <2>5, <3>1 DEF Marked
    <3>3. held \cap Range(todo) = {}
      BY Zenon, <3>1 DEF IInv, HeldInv
    <3>4. Current' \cap held' = {} /\ (held' \cup Current') \cap Resubmitted' = {}
      BY Zenon, <1>1, <2>5, <2>7, <3>1, <3>3
    <3>5. \A i, j \in DOMAIN todo' : todo'[i] = todo'[j] => i = j
      <4> SUFFICES ASSUME NEW i \in 1 .. n - 1, NEW j \in 1 .. n - 1, todo'[i] = todo'[j]
                   PROVE  i = j
        BY Zenon, <1>4
      <4>1. i + 1 = j + 1
        BY ZenonT(30), <1>4, <1>5, <2>6
      <4> QED
        BY SMTT(30), <4>1
    <3> QED
      BY Zenon, <1>1, <2>1, <2>2, <3>2, <3>4, <3>5 DEF IInv, HeldInv, Pushing
  <2>9. PlaceInv'
    <3>1. AtHand' = 1 /\ AtHand = 0
      BY Zenon, <1>1, <2>1 DEF AtHand, Pushing
    <3>2. Frontier = (vq.last_avail + 0 + n) % Width
      BY Zenon, <1>1, <1>8, <3>1 DEF n, IInv, PlaceInv
    <3>3. vq.last_avail + 0 + n = vq.last_avail + 1 + (n - 1)
      BY SMTT(30), <1>3, <1>4, IndexType
    <3>4. Frontier' = (vq'.last_avail + AtHand' + Len(todo')) % Width
      BY Zenon, <1>1, <1>4, <2>2, <3>1, <3>2, <3>3
    <3> QED
      BY Zenon, <1>1, <1>8, <2>1, <3>4 DEF PlaceInv
  <2>10. HandledInv'
    <3>1. /\ \A e \in DOMAIN handled, i \in 1 .. n : handled[e] < serial[todo[i]]
          /\ \A i, j \in 1 .. n : i < j => serial[todo[i]] < serial[todo[j]]
      BY Zenon, <1>4, <1>8 DEF IInv, HandledInv
    <3>2. \A e \in DOMAIN handled : handled[e] < serial[head']
      BY Zenon, <1>4, <1>6, <3>1
    <3>3. \A e \in DOMAIN handled, i \in 1 .. n - 1 : handled[e] < serial[todo'[i]]
      BY Zenon, <1>4, <1>5, <3>1
    <3>4. \A i, j \in 1 .. n - 1 : i < j => serial[todo'[i]] < serial[todo'[j]]
      <4> SUFFICES ASSUME NEW i \in 1 .. n - 1, NEW j \in 1 .. n - 1, i < j
                   PROVE  serial[todo'[i]] < serial[todo'[j]]
        BY Zenon
      <4>1. i + 1 < j + 1
        BY SMTT(30)
      <4> QED
        BY Zenon, <1>4, <1>5, <3>1, <4>1
    <3>5. \A i \in 1 .. n - 1 : serial[head'] < serial[todo'[i]]
      BY Zenon, <1>4, <1>5, <1>6, <3>1
    <3>6. UNCHANGED <<handled, made, serial, vq>>
      BY ZenonT(30), <1>1 DEF guestVars
    <3> QED
      BY Zenon, <1>4, <2>1, <2>2, <3>2, <3>3, <3>4, <3>5, <3>6 DEF IInv, HandledInv, SubmissionOrder
  <2> QED
    BY Zenon, <2>2, <2>3, <2>4, <2>8, <2>9, <2>10 DEF IInv
<1>9. CASE ~vq.inflight_check
  <2>1. /\ pc' = "avail_update"
        /\ region' = [region EXCEPT !.desc[head'].counter = vq.req_cnt]
    BY Zenon, <1>1, <1>9
  <2>2. /\ region' \in [desc : [Head_ -> [inflight : {0, 1}, counter : Nat]],
                        last_batch_head : Head_, used_idx : Index]
        /\ region'.last_batch_head = region.last_batch_head
        /\ region'.used_idx = region.used_idx
        /\ \A h \in Head_ :
             /\ region'.desc[h].inflight = region.desc[h].inflight
             /\ region'.desc[h].counter =
                  IF h = head' THEN vq.req_cnt ELSE region.desc[h].counter
    <3> DEFINE D == region.desc
               E == [D[head'] EXCEPT !.counter = vq.req_cnt]
    <3>1. D \in [Head_ -> [inflight : {0, 1}, counter : Nat]]
      BY Zenon, <1>3
    <3>2. /\ E \in [inflight : {0, 1}, counter : Nat]
          /\ E.inflight = D[head'].inflight /\ E.counter = vq.req_cnt
      BY ZenonT(30), <1>3, <1>4, <3>1
    <3>3. region' = [region EXCEPT !.desc = [D EXCEPT ![head'] = E]]
      BY Zenon, <2>1
    <3> HIDE DEF E
    <3>4. region'.desc = [D EXCEPT ![head'] = E]
      BY Zenon, <1>3, <3>3
    <3>5. /\ region'.last_batch_head = region.last_batch_head
          /\ region'.used_idx = region.used_idx
          /\ region' \in [desc : [Head_ -> [inflight : {0, 1}, counter : Nat]],
                          last_batch_head : Head_, used_idx : Index]
      BY Zenon, <1>3, <1>4, <3>1, <3>2, <3>3
    <3> QED
      BY Zenon, <1>4, <3>1, <3>2, <3>4, <3>5
  <2>3. Left \in Nat /\ n <= Left /\ \A i \in 1 .. n : todo[i] = Waiting(i - 1)
    <3>1. Len(todo) + 0 <= Left /\ \A i \in 1 .. Len(todo) : todo[i] = Waiting((i - 1) + 0)
      BY Zenon, <1>1, <1>9 DEF IInv, PlaceInv
    <3>2. \A i \in 1 .. n : (i - 1) + 0 = i - 1
      BY SMTT(30), <1>4
    <3>3. Left \in Nat
      BY SMTT(30), <1>2, WaitingHeads, IndexType
    <3> QED
      BY SMTT(30), <1>4, <3>1, <3>2, <3>3 DEF n
  <2>4. head' = Waiting(0) /\ 0 \in 0 .. Left - 1
    BY SMTT(30), <1>4, <1>6, <2>3
  <2>5. head' \notin Open
    BY Zenon, <1>2, <2>4, WaitingHeads
  <2>6. InflightHeads' = InflightHeads /\ BatchSize' = BatchSize
    BY Zenon, <1>1, <2>2 DEF InflightHeads, BatchSize
  <2>7. Open' = Open
    BY Zenon, <2>2, <2>6 DEF Open
  <2>8. /\ Frontier' = Frontier /\ Left' = Left
        /\ \A i : Waiting(i)' = Waiting(i)
        /\ RingInv' /\ OrderInv'
    <3>1. \A h \in Open : region.desc[h].counter' = region.desc[h].counter
      BY Zenon, <2>2, <2>5 DEF Open, InflightHeads
    <3> QED
      BY Zenon, <1>1, <1>2, <2>7, <3>1, OpenFrame
  <2>9. TypeOK'
    <3>1. region' \in [desc : [Head_ -> [inflight : {0, 1}, counter : Nat]],
                       last_batch_head : Head_, used_idx : Index]
      BY Zenon, <2>2
    <3>2. pc' = "avail_update"
      BY Zenon, <2>1
    <3> QED
      BY ZenonT(30), <1>1, <1>2, <1>4, <1>6, <3>1, <3>2 DEF TypeOK, guestVars
  <2>10. BatchInv'
    BY Zenon, <1>1, <1>7, <2>1, <2>6 DEF BatchInv
  <2>11. CounterInv'
    <3>1. vq.req_cnt > 0 /\ \A h \in Head_ : region.desc[h].counter < vq.req_cnt
      BY Zenon, <1>1 DEF IInv, CounterInv
    <3>2. region'.desc[head'].counter = vq.req_cnt
      BY Zenon, <1>4, <2>2
    <3>3. region'.desc[head'].counter # 0
      BY SMTT(30), <1>3, <3>1, <3>2
    <3> QED
      BY ZenonT(30), <1>1, <1>4, <2>1, <2>2, <3>1, <3>2, <3>3 DEF CounterInv
  <2>12. HeldInv'
    <3>1. Current' = {} /\ Current = {} /\ Resubmitted' = {} /\ Resubmitted = {}
      BY Zenon, <1>1, <1>9, <2>1 DEF Current, Resubmitted
    <3>2. Marked' = Marked
      BY Zenon, <1>1, <3>1 DEF Marked
    <3> QED
      BY Zenon, <1>1, <1>9, <2>1, <2>6, <3>1, <3>2 DEF IInv, HeldInv, Pushing
  <2>13. PlaceInv'
    <3>1. AtHand' = 0 /\ AtHand = 0
      BY Zenon, <1>1, <2>1 DEF AtHand, Pushing
    <3>2. \A i \in 1 .. n - 1 : todo'[i] = Waiting((i - 1) + 1)'
      <4> SUFFICES ASSUME NEW i \in 1 .. n - 1 PROVE todo'[i] = Waiting((i - 1) + 1)
        BY Zenon, <2>8
      <4>1. (i + 1) - 1 = (i - 1) + 1
        BY SMTT(30)
      <4> QED
        BY Zenon, <1>4, <1>5, <2>3, <4>1
    <3>3. Len(todo') + 1 <= Left'
      BY SMTT(30), <1>4, <2>3, <2>8
    <3>4. Frontier' = (vq'.last_avail + AtHand' + 0) % Width
      BY Zenon, <1>1, <1>9, <2>8, <3>1 DEF IInv, PlaceInv
    <3>5. head' = Waiting(0)'
      BY Zenon, <2>4, <2>8
    <3> QED
      BY Zenon, <1>1, <1>4, <1>9, <2>1, <3>2, <3>3, <3>4, <3>5 DEF PlaceInv
  <2>14. HandledInv'
    BY Zenon, <1>1, <1>9, <2>1, <2>8 DEF IInv, HandledInv, SubmissionOrder, guestVars
  <2> QED
    BY Zenon, <2>8, <2>9, <2>10, <2>11, <2>12, <2>13, <2>14 DEF IInv
<1> QED
  BY Zenon, <1>3, <1>8, <1>9

LEMMA VirtqInflightUsedUpdateStep ==
  ASSUME IInv, VirtqInflightUsedUpdate
  PROVE  IInv'
<1>1. /\ pc = "used_update" /\ pc' = "used_idx"
      /\ region' = [region EXCEPT !.last_batch_head = head]
      /\ UNCHANGED <<avail, used>> /\ UNCHANGED guestVars
      /\ UNCHANGED <<vq, head, todo, ret, held, handled, stopping, base, restarts>>
  BY Zenon DEF VirtqInflightUsedUpdate, Goto, stopVars
<1>2. TypeOK /\ RingInv /\ OrderInv
  BY Zenon DEF IInv
<1>3. /\ region' \in [desc : [Head_ -> [inflight : {0, 1}, counter : Nat]],
                      last_batch_head : Head_, used_idx : Index]
      /\ region'.desc = region.desc /\ region'.last_batch_head = head
      /\ region'.used_idx = region.used_idx
  BY Zenon, <1>1, <1>2 DEF TypeOK
<1>4. InflightHeads' = InflightHeads /\ BatchSize' = BatchSize /\ BatchSize = 0
  BY Zenon, <1>1, <1>3 DEF InflightHeads, BatchSize, IInv, BatchInv
<1>5. Open' = Open
  BY Zenon, <1>4 DEF Open
<1>6. /\ Frontier' = Frontier /\ Left' = Left
      /\ \A i : Waiting(i)' = Waiting(i)
      /\ RingInv' /\ OrderInv'
  BY Zenon, <1>1, <1>2, <1>3, <1>5, OpenFrame
<1>7. TypeOK'
  BY Zenon, <1>1, <1>2, <1>3 DEF TypeOK, guestVars
<1>8. BatchInv' /\ CounterInv'
  BY Zenon, <1>1, <1>3, <1>4 DEF IInv, BatchInv, CounterInv
<1>9. HeldInv'
  <2>1. Current' = Current /\ Resubmitted' = Resubmitted
    BY Zenon, <1>1 DEF Current, Resubmitted, Range
  <2>2. Marked' = Marked
    BY Zenon, <1>1, <2>1 DEF Marked
  <2> QED
    BY Zenon, <1>1, <1>4, <2>1, <2>2 DEF IInv, HeldInv, Pushing
<1>10. PlaceInv'
  <2>1. AtHand' = AtHand
    BY Zenon, <1>1 DEF AtHand, Pushing
  <2> QED
    BY Zenon, <1>1, <1>6, <2>1 DEF IInv, PlaceInv
<1>11. HandledInv'
  BY Zenon, <1>1, <1>6 DEF IInv, HandledInv, SubmissionOrder, guestVars
<1> QED
  BY Zenon, <1>6, <1>7, <1>8, <1>9, <1>10, <1>11 DEF IInv

(* The region after the mark of one descriptor is stored. *)
Mark(r, x, m) == [r EXCEPT !.desc[x].inflight = m]

LEMMA MarkStored ==
  ASSUME NEW r \in [desc : [Head_ -> [inflight : {0, 1}, counter : Nat]],
                    last_batch_head : Head_, used_idx : Index],
         NEW x \in Head_, NEW m \in {0, 1}
  PROVE  LET t == Mark(r, x, m) IN
         /\ t \in [desc : [Head_ -> [inflight : {0, 1}, counter : Nat]],
                   last_batch_head : Head_, used_idx : Index]
         /\ t.last_batch_head = r.last_batch_head /\ t.used_idx = r.used_idx
         /\ \A h \in Head_ : /\ t.desc[h].counter = r.desc[h].counter
                             /\ t.desc[h].inflight = IF h = x THEN m ELSE r.desc[h].inflight
<1> DEFINE t == Mark(r, x, m)
           D == r.desc
           E == [D[x] EXCEPT !.inflight = m]
<1>1. D \in [Head_ -> [inflight : {0, 1}, counter : Nat]]
  BY Zenon
<1>2. /\ E \in [inflight : {0, 1}, counter : Nat]
      /\ E.counter = D[x].counter /\ E.inflight = m
  BY Zenon, <1>1
<1>3. t = [r EXCEPT !.desc = [D EXCEPT ![x] = E]]
  BY Zenon DEF Mark
<1> HIDE DEF E, t
<1>4. t.desc = [D EXCEPT ![x] = E]
  BY Zenon, <1>3
<1>5. /\ t.last_batch_head = r.last_batch_head /\ t.used_idx = r.used_idx
      /\ t \in [desc : [Head_ -> [inflight : {0, 1}, counter : Nat]],
                last_batch_head : Head_, used_idx : Index]
  BY Zenon, <1>1, <1>2, <1>3
<1>6. \A h \in Head_ : /\ t.desc[h].counter = D[h].counter
                       /\ t.desc[h].inflight = IF h = x THEN m ELSE D[h].inflight
  BY Zenon, <1>1, <1>2, <1>4
<1> QED
  BY Zenon, <1>5, <1>6 DEF t

LEMMA VirtqInflightUsedCommitStep ==
  ASSUME IInv, VirtqInflightUsedCommit
  PROVE  IInv'
<1>1. /\ pc = "used_commit" /\ pc' = "commit_idx"
      /\ region' = [region EXCEPT !.desc[head].inflight = 0]
      /\ UNCHANGED <<avail, used>> /\ UNCHANGED guestVars
      /\ UNCHANGED <<vq, head, todo, ret, held, handled, stopping, base, restarts>>
  BY Zenon DEF VirtqInflightUsedCommit, Goto, stopVars
<1>2. TypeOK /\ RingInv /\ OrderInv
  BY Zenon DEF IInv
<1>3. /\ region \in [desc : [Head_ -> [inflight : {0, 1}, counter : Nat]],
                     last_batch_head : Head_, used_idx : Index]
      /\ head \in Head_
  BY Zenon, <1>2 DEF TypeOK
<1>4. /\ region' \in [desc : [Head_ -> [inflight : {0, 1}, counter : Nat]],
                      last_batch_head : Head_, used_idx : Index]
      /\ region'.last_batch_head = region.last_batch_head
      /\ region'.used_idx = region.used_idx
      /\ \A h \in Head_ :
           /\ region'.desc[h].counter = region.desc[h].counter
           /\ region'.desc[h].inflight = IF h = head THEN 0 ELSE region.desc[h].inflight
  <2>1. region' = Mark(region, head, 0) /\ 0 \in {0, 1}
    BY Zenon, <1>1 DEF Mark
  <2> QED
    BY SMTT(30), <1>3, <2>1, MarkStored
<1>5. /\ InflightHeads' = InflightHeads \ {head}
      /\ BatchSize' = BatchSize /\ BatchSize = 1 /\ region.last_batch_head = head
  BY SMTT(30), <1>1, <1>4 DEF InflightHeads, BatchSize, IInv, BatchInv
<1>6. Open' = Open
  BY SMTT(30), <1>4, <1>5 DEF Open
<1>7. /\ Frontier' = Frontier /\ Left' = Left
      /\ \A i : Waiting(i)' = Waiting(i)
      /\ RingInv' /\ OrderInv'
  <2>1. \A h \in Open : region.desc[h].counter' = region.desc[h].counter
    BY Zenon, <1>4 DEF Open, InflightHeads
  <2> QED
    BY Zenon, <1>1, <1>2, <1>6, <2>1, OpenFrame
<1>8. TypeOK'
  <2>1. region' \in [desc : [Head_ -> [inflight : {0, 1}, counter : Nat]],
                     last_batch_head : Head_, used_idx : Index]
    BY Zenon, <1>4
  <2> QED
    BY Zenon, <1>1, <1>2, <2>1 DEF TypeOK, guestVars
<1>9. BatchInv' /\ CounterInv'
  BY SMTT(30), <1>1, <1>4, <1>5 DEF IInv, BatchInv, CounterInv
<1>10. HeldInv'
  <2>1. Current' = {} /\ Current = {head} /\ Resubmitted' = Resubmitted
    BY Zenon, <1>1 DEF Current, Resubmitted, Range
  <2>2. head \notin held /\ head \notin Resubmitted
    BY Zenon, <2>1 DEF IInv, HeldInv
  <2>3. Marked' = Marked \ {head}
    BY Zenon, <1>1, <2>1, <2>2 DEF Marked
  <2>4. Marked' \subseteq InflightHeads' /\ (stopping' # "disconnect" => Marked' = InflightHeads')
    BY Zenon, <1>1, <1>5, <2>3 DEF IInv, HeldInv
  <2> QED
    BY Zenon, <1>1, <2>1, <2>4 DEF IInv, HeldInv, Pushing
<1>11. PlaceInv'
  <2>1. AtHand' = AtHand
    BY Zenon, <1>1 DEF AtHand, Pushing
  <2> QED
    BY Zenon, <1>1, <1>7, <2>1 DEF IInv, PlaceInv
<1>12. HandledInv'
  BY ZenonT(30), <1>1, <1>7 DEF IInv, HandledInv, SubmissionOrder, guestVars
<1> QED
  BY Zenon, <1>7, <1>8, <1>9, <1>10, <1>11, <1>12 DEF IInv

LEMMA StoreRegionUsedIdxStep ==
  ASSUME IInv, StoreRegionUsedIdx
  PROVE  IInv'
<1>1. /\ pc = "commit_idx" /\ pc' = ret
      /\ region' = [region EXCEPT !.used_idx = used.idx]
      /\ UNCHANGED <<avail, used>> /\ UNCHANGED guestVars
      /\ UNCHANGED <<vq, head, todo, ret, held, handled, stopping, base, restarts>>
  BY Zenon DEF StoreRegionUsedIdx, Goto, stopVars
<1>2. TypeOK /\ RingInv /\ OrderInv
  BY Zenon DEF IInv
<1>3. /\ region' \in [desc : [Head_ -> [inflight : {0, 1}, counter : Nat]],
                      last_batch_head : Head_, used_idx : Index]
      /\ region'.desc = region.desc /\ region'.last_batch_head = region.last_batch_head
      /\ region'.used_idx = used.idx /\ used.idx \in Index /\ ret \in {"idle", "handled"}
  BY Zenon, <1>1, <1>2 DEF TypeOK
<1>4. InflightHeads' = InflightHeads /\ BatchSize' = 0
  BY ZenonT(30), <1>1, <1>3, Distance DEF InflightHeads, BatchSize
<1>5. Open' = Open
  <2>1. Open' = InflightHeads
    BY Zenon, <1>4 DEF Open
  <2>2. Open = InflightHeads
    BY Zenon, <1>1 DEF IInv, BatchInv, Open
  <2> QED
    BY Zenon, <2>1, <2>2
<1>6. /\ Frontier' = Frontier /\ Left' = Left
      /\ \A i : Waiting(i)' = Waiting(i)
      /\ RingInv' /\ OrderInv'
  BY Zenon, <1>1, <1>2, <1>3, <1>5, OpenFrame
<1>7. TypeOK'
  BY Zenon, <1>1, <1>2, <1>3 DEF TypeOK, guestVars
<1>8. BatchInv' /\ CounterInv'
  BY Zenon, <1>1, <1>3, <1>4 DEF IInv, BatchInv, CounterInv
<1>9. ret = "idle" => vq.inflight_check = FALSE /\ todo = <<>>
  BY Zenon, <1>1, <1>2 DEF IInv, HeldInv, Pushing, TypeOK
<1>10. HeldInv'
  <2>1. Current' = {} /\ Current = {} /\ Resubmitted' = Resubmitted
    BY SMTT(30), <1>1, <1>3 DEF Current, Resubmitted, Range
  <2>2. Marked' = Marked
    BY Zenon, <1>1, <2>1 DEF Marked
  <2> QED
    BY Zenon, <1>1, <1>3, <1>4, <1>9, <2>1, <2>2 DEF IInv, HeldInv, Pushing
<1>11. PlaceInv'
  <2>1. AtHand' = AtHand
    BY Zenon, <1>1, <1>3 DEF AtHand, Pushing
  <2> QED
    BY Zenon, <1>1, <1>3, <1>6, <1>9, <2>1 DEF IInv, PlaceInv
<1>12. HandledInv'
  BY Zenon, <1>1, <1>3, <1>6, <1>9 DEF IInv, HandledInv, SubmissionOrder, guestVars
<1> QED
  BY Zenon, <1>6, <1>7, <1>8, <1>10, <1>11, <1>12 DEF IInv

LEMMA VirtqInflightAvailUpdateStep ==
  ASSUME Finite, IInv, VirtqInflightAvailUpdate
  PROVE  IInv'
<1>1. /\ pc = "avail_update" /\ pc' = "handle"
      /\ region' = [region EXCEPT !.desc[head].inflight = 1]
      /\ vq' = [vq EXCEPT !.req_cnt = vq.req_cnt + 1]
      /\ UNCHANGED <<avail, used>> /\ UNCHANGED guestVars
      /\ UNCHANGED <<head, todo, ret, held, handled, stopping, base, restarts>>
  BY Zenon DEF VirtqInflightAvailUpdate, Goto, stopVars
<1>2. TypeOK /\ RingInv /\ OrderInv
  BY Zenon DEF IInv
<1>3. /\ region \in [desc : [Head_ -> [inflight : {0, 1}, counter : Nat]],
                     last_batch_head : Head_, used_idx : Index]
      /\ vq \in [last_avail : Index, req_cnt : Nat, inflight_check : BOOLEAN]
      /\ head \in Head_ /\ todo \in Seq(Head_) /\ used.idx \in Index /\ avail.idx \in Index
  BY Zenon, <1>2 DEF TypeOK
<1>4. /\ region' \in [desc : [Head_ -> [inflight : {0, 1}, counter : Nat]],
                      last_batch_head : Head_, used_idx : Index]
      /\ region'.last_batch_head = region.last_batch_head
      /\ region'.used_idx = region.used_idx
      /\ \A h \in Head_ :
           /\ region'.desc[h].counter = region.desc[h].counter
           /\ region'.desc[h].inflight = IF h = head THEN 1 ELSE region.desc[h].inflight
  <2>1. region' = Mark(region, head, 1) /\ 1 \in {0, 1}
    BY Zenon, <1>1 DEF Mark
  <2> QED
    BY SMTT(30), <1>3, <2>1, MarkStored
<1>5. /\ vq' \in [last_avail : Index, req_cnt : Nat, inflight_check : BOOLEAN]
      /\ vq'.last_avail = vq.last_avail /\ vq'.req_cnt = vq.req_cnt + 1
      /\ vq'.inflight_check = vq.inflight_check
      /\ vq.req_cnt \in Nat /\ vq.last_avail \in Index
  <2>1. vq' = [vq EXCEPT !.req_cnt = vq.req_cnt + 1]
    BY Zenon, <1>1
  <2>2. vq \in [last_avail : Index, req_cnt : Nat, inflight_check : BOOLEAN]
    BY Zenon, <1>3
  <2> QED
    BY SMTT(30), <2>1, <2>2
<1>6. vq.inflight_check = FALSE /\ stopping = "no" /\ BatchSize = 0
  BY ZenonT(30), <1>1, <1>3 DEF IInv, HeldInv, BatchInv, Pushing
<1>7. InflightHeads' = InflightHeads \cup {head} /\ BatchSize' = 0
  BY SMTT(30), <1>1, <1>3, <1>4, <1>6 DEF InflightHeads, BatchSize
<1>8. Open = InflightHeads /\ Open' = Open \cup {head}
  BY Zenon, <1>6, <1>7 DEF Open
<1>9. /\ Len(todo) \in Nat /\ Left \in Nat /\ Len(todo) + 1 <= Left
      /\ \A i \in 1 .. Len(todo) : todo[i] = Waiting((i - 1) + 1)
      /\ head = Waiting(0)
  <2>1. Left \in Nat
    BY SMTT(30), <1>2, WaitingHeads, IndexType
  <2> QED
    BY SMTT(30), <1>1, <1>3, <1>6, <2>1 DEF IInv, PlaceInv
<1>10. 0 \in 0 .. Left - 1 /\ \A i \in 0 .. (Left - 1) - 1 : i + 1 \in 0 .. Left - 1 /\ 0 < i + 1
  BY SMTT(30), <1>9
<1>11. head \in DeviceHeads /\ head \notin Open
  BY Zenon, <1>2, <1>9, <1>10, WaitingHeads
<1>12. Frontier' = (Frontier + 1) % Width
  <2>1. Open \in SUBSET Head_ /\ Cardinality(Open) \in 0 .. QSize
    BY Zenon, <1>2, Ranges
  <2>2. Cardinality(Open') = Cardinality(Open) + 1
    BY Zenon, <1>8, <1>11, <2>1, HeadFinite DEF DeviceHeads
  <2>3. (((used.idx + Cardinality(Open)) % Width) + 1) % Width
          = (used.idx + (Cardinality(Open) + 1)) % Width
    BY Zenon, <1>3, <2>1, NextIndex
  <2> QED
    BY Zenon, <1>1, <2>2, <2>3 DEF Frontier
<1>13. Frontier \in Index /\ avail.idx # Frontier
  <2>1. Frontier \in Index
    BY Zenon, <1>2, Ranges
  <2>2. avail.idx = Frontier => Left = 0
    BY Zenon, <1>3, <2>1, Distance DEF Left, NumAvail
  <2> QED
    BY SMTT(30), <1>9, <2>1, <2>2
<1>14. Left' = Left - 1
  BY Zenon, <1>1, <1>3, <1>12, <1>13, NearerOne DEF Left, NumAvail
<1>15. \A i \in Nat : Waiting(i)' = Waiting(i + 1)
  BY Zenon, <1>1, <1>12, <1>13, EntryNext DEF Waiting
<1>16. RingInv'
  <2>1. DeviceHeads' = DeviceHeads /\ UsedHeads' = UsedHeads /\ NumUsed' = NumUsed
    BY Zenon, <1>1 DEF DeviceHeads, UsedHeads, NumUsed, guestVars
  <2>2. Holds(avail.ring, (Frontier + 1) % Width, Left - 1, (DeviceHeads \ Open) \ {head})
    <3>1. Holds(avail.ring, Frontier, Left, DeviceHeads \ Open) /\ Left > 0
      BY SMTT(30), <1>2, <1>9 DEF RingInv
    <3>2. head = Entry(avail.ring, Frontier, 0)
      BY Zenon, <1>9 DEF Waiting
    <3> QED
      BY Zenon, <1>9, <1>13, <3>1, <3>2, WindowShrinks
  <2>3. (DeviceHeads \ Open) \ {head} = DeviceHeads' \ Open'
    BY Zenon, <1>8, <2>1
  <2>4. Open' \subseteq DeviceHeads'
    BY Zenon, <1>2, <1>8, <1>11, <2>1 DEF RingInv
  <2>5. Holds(used.ring', last_used', NumUsed', UsedHeads')
    BY Zenon, <1>1, <1>2, <2>1 DEF RingInv, guestVars
  <2>6. Holds(avail.ring', Frontier', Left', DeviceHeads' \ Open')
    BY Zenon, <1>1, <1>12, <1>14, <2>2, <2>3
  <2> QED
    BY Zenon, <2>4, <2>5, <2>6 DEF RingInv
<1>17. /\ vq.req_cnt > 0 /\ region.desc[head].counter = vq.req_cnt
       /\ \A h \in Head_ \ {head} : region.desc[h].counter < vq.req_cnt
       /\ \A h \in Head_ : region.desc[h].counter \in Nat
  BY Zenon, <1>1, <1>3 DEF IInv, CounterInv
<1>18. OrderInv'
  <2>1. /\ DeviceHeads' = DeviceHeads /\ UNCHANGED <<made, serial>>
        /\ Open \subseteq Head_ /\ Open' \subseteq Head_
        /\ \A h \in Head_ : serial[h] \in Nat
    <3>1. DeviceHeads' = DeviceHeads /\ UNCHANGED <<made, serial>>
      BY Zenon, <1>1 DEF DeviceHeads, guestVars
    <3>2. Open \subseteq Head_ /\ Open' \subseteq Head_
      BY Zenon, <1>2, <1>3, <1>8, Ranges
    <3>3. \A h \in Head_ : serial[h] \in Nat
      BY SMTT(30), <1>2, InflightAssumption DEF TypeOK
    <3> QED
      BY Zenon, <3>1, <3>2, <3>3
  <2>2. \A a \in Open : serial[a] < serial[head]
    BY Zenon, <1>2, <1>9, <1>10 DEF OrderInv
  <2>3. \A a, b \in Open' :
          region'.desc[a].counter = region'.desc[b].counter => a = b
    <3> SUFFICES ASSUME NEW a \in Open', NEW b \in Open',
                        region.desc[a].counter = region.desc[b].counter, a # b
                 PROVE  FALSE
      BY SMTT(30), <1>4, <2>1
    <3>1. CASE a \in Open /\ b \in Open
      BY Zenon, <1>2, <3>1 DEF OrderInv
    <3>2. CASE a = head \/ b = head
      BY SMTT(30), <1>17, <2>1, <3>2
    <3> QED
      BY Zenon, <1>8, <3>1, <3>2
  <2>4. \A a, b \in Open' :
          region'.desc[a].counter < region'.desc[b].counter => serial[a] < serial[b]
    <3> SUFFICES ASSUME NEW a \in Open', NEW b \in Open',
                        region.desc[a].counter < region.desc[b].counter
                 PROVE  serial[a] < serial[b]
      BY Zenon, <1>4, <2>1
    <3>1. CASE a \in Open /\ b \in Open
      BY Zenon, <1>2, <3>1 DEF OrderInv
    <3>2. CASE a = head
      <4>1. region.desc[b].counter <= vq.req_cnt
        BY SMTT(30), <1>5, <1>17, <2>1
      <4> QED
        BY SMTT(30), <1>17, <2>1, <3>2, <4>1
    <3>3. CASE a \in Open /\ b = head
      BY Zenon, <2>2, <3>3
    <3> QED
      BY Zenon, <1>8, <3>1, <3>2, <3>3
  <2>5. \A i \in 0 .. Left' - 1 : i \in Nat /\ i + 1 \in 0 .. Left - 1 /\ 0 < i + 1
    BY SMTT(30), <1>10, <1>14
  <2>6. \A i \in 0 .. Left' - 1 : \A a \in Open' : serial[a] < serial[Waiting(i)']
    <3> SUFFICES ASSUME NEW i \in 0 .. Left' - 1, NEW a \in Open'
                 PROVE  serial[a] < serial[Waiting(i + 1)]
      BY Zenon, <1>15, <2>5
    <3>1. CASE a \in Open
      BY Zenon, <1>2, <2>5, <3>1 DEF OrderInv
    <3>2. CASE a = head
      BY Zenon, <1>2, <1>9, <1>10, <2>5, <3>2 DEF OrderInv
    <3> QED
      BY Zenon, <1>8, <3>1, <3>2
  <2>7. \A i, j \in 0 .. Left' - 1 : i < j => serial[Waiting(i)'] < serial[Waiting(j)']
    <3> SUFFICES ASSUME NEW i \in 0 .. Left' - 1, NEW j \in 0 .. Left' - 1, i < j
                 PROVE  serial[Waiting(i + 1)] < serial[Waiting(j + 1)]
      BY Zenon, <1>15, <2>5
    <3>1. i + 1 < j + 1
      BY SMTT(30), <2>5
    <3> QED
      BY Zenon, <1>2, <2>5, <3>1 DEF OrderInv
  <2> QED
    BY Zenon, <1>2, <2>1, <2>3, <2>4, <2>6, <2>7 DEF OrderInv
<1>19. TypeOK'
  <2>1. region' \in [desc : [Head_ -> [inflight : {0, 1}, counter : Nat]],
                     last_batch_head : Head_, used_idx : Index]
    BY Zenon, <1>4
  <2> QED
    BY Zenon, <1>1, <1>2, <1>5, <2>1 DEF TypeOK, guestVars
<1>20. BatchInv'
  BY Zenon, <1>1, <1>7 DEF BatchInv
<1>21. CounterInv'
  <2>1. \A h \in Head_ : region'.desc[h].counter < vq'.req_cnt
    BY SMTT(30), <1>4, <1>5, <1>17
  <2>2. region'.desc[head].counter # 0
    BY SMTT(30), <1>3, <1>4, <1>5, <1>17
  <2>3. vq'.req_cnt > 0
    BY SMTT(30), <1>5
  <2> QED
    BY Zenon, <1>1, <1>3, <2>1, <2>2, <2>3 DEF CounterInv
<1>22. HeldInv'
  <2>1. Current' = {head} /\ Current = {} /\ Resubmitted' = {} /\ Resubmitted = {}
    BY Zenon, <1>1, <1>5, <1>6 DEF Current, Resubmitted
  <2>2. held = InflightHeads
    BY Zenon, <1>1, <1>6, <2>1 DEF IInv, HeldInv, Marked
  <2>3. Marked' = InflightHeads'
    BY Zenon, <1>1, <1>7, <2>1, <2>2 DEF Marked
  <2>4. head \notin held
    BY Zenon, <1>8, <1>11, <2>2
  <2> QED
    BY ZenonT(30), <1>1, <1>5, <1>6, <2>1, <2>3, <2>4 DEF IInv, HeldInv, Pushing
<1>23. PlaceInv'
  <2>1. AtHand' = 1 /\ AtHand = 0
    BY Zenon, <1>1 DEF AtHand, Pushing
  <2>2. Frontier = (vq.last_avail + 0 + 0) % Width
    BY Zenon, <1>1, <1>6, <2>1 DEF IInv, PlaceInv
  <2>3. /\ vq.last_avail + 0 + 0 = vq.last_avail + 0 /\ 0 \in 0 .. QSize
        /\ vq.last_avail + 1 + 0 = vq.last_avail + 1
    BY SMTT(30), <1>5, IndexType
  <2>4. Frontier = vq.last_avail
    BY Zenon, <1>5, <2>2, <2>3, NextIndex
  <2>5. Frontier' = (vq'.last_avail + AtHand' + 0) % Width
    BY Zenon, <1>5, <1>12, <2>1, <2>3, <2>4
  <2>6. Len(todo') + 0 <= Left'
    BY SMTT(30), <1>1, <1>9, <1>14
  <2>7. \A i \in 1 .. Len(todo') : todo'[i] = Waiting((i - 1) + 0)'
    <3> SUFFICES ASSUME NEW i \in 1 .. Len(todo) PROVE todo[i] = Waiting((i - 1) + 0)'
      BY Zenon, <1>1
    <3>1. (i - 1) + 0 \in Nat /\ ((i - 1) + 0) + 1 = (i - 1) + 1
      BY SMTT(30), <1>9
    <3> QED
      BY Zenon, <1>9, <1>15, <3>1
  <2> QED
    BY Zenon, <1>1, <1>5, <1>6, <2>5, <2>6, <2>7 DEF PlaceInv
<1>24. HandledInv'
  <2>1. \A e \in DOMAIN handled, i \in 0 .. Left - 1 : handled[e] < serial[Waiting(i)]
    BY Zenon DEF IInv, HandledInv
  <2>2. \A e \in DOMAIN handled, i \in 0 .. Left' - 1 : handled[e] < serial[Waiting(i)']
    <3>1. \A i \in 0 .. Left' - 1 : i \in Nat /\ i + 1 \in 0 .. Left - 1
      BY SMTT(30), <1>10, <1>14
    <3> QED
      BY Zenon, <1>15, <2>1, <3>1
  <2>3. \A e \in DOMAIN handled : handled[e] < serial[head]
    BY Zenon, <1>9, <1>10, <2>1
  <2>4. UNCHANGED <<handled, serial, made, todo, head>>
    BY Zenon, <1>1 DEF guestVars
  <2> QED
    BY ZenonT(30), <1>1, <1>5, <1>6, <2>2, <2>3, <2>4 DEF IInv, HandledInv, SubmissionOrder
<1> QED
  BY Zenon, <1>16, <1>18, <1>19, <1>20, <1>21, <1>22, <1>23, <1>24 DEF IInv

(* The element of a request is written behind those the driver looks at. *)
Elem(h) == [used EXCEPT !.ring[used.idx % QSize] = h]

LEMMA ElemWritten ==
  ASSUME Finite, TypeOK, RingInv, OrderInv, NEW h \in DeviceHeads, used' = Elem(h),
         UNCHANGED <<avail, region>>, UNCHANGED guestVars
  PROVE  /\ used' \in [ring : [Head_ -> Head_], idx : Index]
         /\ used'.idx = used.idx /\ used'.ring[used'.idx % QSize] = h
         /\ InflightHeads' = InflightHeads /\ BatchSize' = BatchSize
         /\ Frontier' = Frontier /\ Left' = Left
         /\ \A i : Waiting(i)' = Waiting(i)
         /\ RingInv' /\ OrderInv'
<1>1. /\ used \in [ring : [Head_ -> Head_], idx : Index]
      /\ h \in Head_ /\ owner[h] = "device" /\ used.idx \in Index
      /\ NumUsed \in Nat /\ last_used \in Index
  <2>1. used \in [ring : [Head_ -> Head_], idx : Index] /\ last_used \in Index
    BY Zenon DEF TypeOK
  <2>2. h \in Head_ /\ owner[h] = "device"
    BY Zenon DEF DeviceHeads
  <2>3. NumUsed \in Nat
    BY SMTT(30), Ranges
  <2> QED
    BY Zenon, <2>1, <2>2, <2>3
<1>2. used.idx % QSize \in Head_
  BY SMTT(30), <1>1, IndexType, SlotType
<1>3. /\ used' \in [ring : [Head_ -> Head_], idx : Index]
      /\ used'.idx = used.idx
      /\ used'.ring = [used.ring EXCEPT ![used.idx % QSize] = h]
      /\ used'.ring[used.idx % QSize] = h
  BY Zenon, <1>1, <1>2 DEF Elem
<1>4. /\ InflightHeads' = InflightHeads /\ BatchSize' = BatchSize
      /\ DeviceHeads' = DeviceHeads /\ UsedHeads' = UsedHeads /\ NumUsed' = NumUsed
      /\ UNCHANGED <<made, serial, last_used>>
  BY ZenonT(30), <1>3 DEF InflightHeads, BatchSize, DeviceHeads, UsedHeads, NumUsed, guestVars
<1>5. Open' = Open
  BY Zenon, <1>4 DEF Open
<1>6. Frontier' = Frontier
  BY Zenon, <1>3, <1>5 DEF Frontier
<1>7. Left' = Left /\ \A i : Waiting(i)' = Waiting(i)
  BY Zenon, <1>6 DEF Left, NumAvail, Waiting, Entry
<1>8. Holds(used'.ring, last_used, NumUsed, UsedHeads)
  <2>1. Holds(used.ring, last_used, NumUsed, UsedHeads) /\ h \in Head_ \ UsedHeads
    BY Zenon, <1>1 DEF RingInv, UsedHeads
  <2>2. NumUsed < QSize
    BY Zenon, <1>1, <2>1, WindowRoom
  <2>3. (last_used + NumUsed) % QSize = used.idx % QSize
    BY Zenon, <1>1, SlotOfEnd DEF NumUsed
  <2>4. Stored(used'.ring, used.ring, (last_used + NumUsed) % QSize, h)
    BY Zenon, <1>3, <2>3 DEF Stored
  <2> QED
    BY Zenon, <1>1, <2>1, <2>2, <2>4, WindowWritten
<1>9. RingInv'
  <2>1. Holds(used.ring', last_used', NumUsed', UsedHeads')
    BY Zenon, <1>4, <1>8
  <2>2. Holds(avail.ring', Frontier', Left', DeviceHeads' \ Open') /\ Open' \subseteq DeviceHeads'
    BY Zenon, <1>4, <1>5, <1>6, <1>7 DEF RingInv
  <2> QED
    BY Zenon, <2>1, <2>2 DEF RingInv
<1>10. OrderInv'
  BY ZenonT(30), <1>4, <1>5, <1>7 DEF OrderInv
<1> QED
  BY Zenon, <1>3, <1>4, <1>6, <1>7, <1>9, <1>10

LEMMA PushAtOnceStep ==
  ASSUME Finite, IInv, PushAtOnce
  PROVE  IInv'
<1>1. /\ pc = "handle" /\ pc' = "used_update" /\ ret' = "handled"
      /\ handled' = Append(handled, serial[head]) /\ used' = Elem(head)
      /\ UNCHANGED <<avail, region>> /\ UNCHANGED guestVars
      /\ UNCHANGED <<vq, head, todo, held, stopping, base, restarts>>
  BY Zenon DEF PushAtOnce, PushHead, Goto, stopVars, Elem
<1>2. TypeOK /\ RingInv /\ OrderInv /\ head \in DeviceHeads /\ BatchSize = 0
  BY Zenon, <1>1, HeadAtHand DEF IInv
<1>3. /\ used' \in [ring : [Head_ -> Head_], idx : Index]
      /\ used'.idx = used.idx /\ used'.ring[used'.idx % QSize] = head
      /\ InflightHeads' = InflightHeads /\ BatchSize' = BatchSize
      /\ Frontier' = Frontier /\ Left' = Left
      /\ \A i : Waiting(i)' = Waiting(i)
      /\ RingInv' /\ OrderInv'
  BY Zenon, <1>1, <1>2, ElemWritten
<1>4. TypeOK'
  <2>1. handled' \in Seq(1 .. MaxSubmit)
    BY Zenon, <1>1, HandledGrows
  <2> QED
    BY Zenon, <1>1, <1>2, <1>3, <2>1 DEF TypeOK, guestVars
<1>5. BatchInv' /\ CounterInv'
  BY Zenon, <1>1, <1>2, <1>3 DEF IInv, BatchInv, CounterInv
<1>6. HeldInv'
  <2>1. Current' = {head} /\ Current = {head} /\ Resubmitted' = Resubmitted
    BY Zenon, <1>1 DEF Current, Resubmitted, Range
  <2>2. Marked' = Marked
    BY Zenon, <1>1, <2>1 DEF Marked
  <2> QED
    BY Zenon, <1>1, <1>3, <2>1, <2>2 DEF IInv, HeldInv, Pushing
<1>7. PlaceInv'
  <2>1. AtHand' = AtHand
    BY Zenon, <1>1 DEF AtHand, Pushing
  <2> QED
    BY Zenon, <1>1, <1>3, <2>1 DEF IInv, PlaceInv
<1>8. HandledInv'
  BY Zenon, <1>1, <1>3, HandledGrows DEF IInv, HandledInv, guestVars
<1> QED
  BY Zenon, <1>3, <1>4, <1>5, <1>6, <1>7, <1>8 DEF IInv

LEMMA VirtqPushStep ==
  ASSUME Finite, IInv, NEW h \in Head_, VirtqPush(h)
  PROVE  IInv'
<1>1. /\ pc = "idle" /\ pc' = "used_update" /\ ret' = "idle" /\ head' = h
      /\ h \in held /\ held' = held \ {h} /\ used' = Elem(h)
      /\ UNCHANGED <<avail, region>> /\ UNCHANGED guestVars
      /\ UNCHANGED <<vq, todo, handled, stopping, base, restarts>>
  BY Zenon DEF VirtqPush, PushHead, Goto, stopVars, Elem
<1>2. /\ TypeOK /\ RingInv /\ OrderInv
      /\ BatchSize = 0 /\ todo = <<>> /\ vq.inflight_check = FALSE
  BY Zenon, <1>1 DEF IInv, BatchInv, HeldInv, TypeOK
<1>3. /\ Current = {} /\ Resubmitted = {} /\ Current' = {h} /\ Resubmitted' = {}
  BY Zenon, <1>1, <1>2 DEF Current, Resubmitted
<1>4. Marked = held /\ Marked' = held
  BY Zenon, <1>1, <1>3 DEF Marked
<1>5. held \subseteq InflightHeads /\ (stopping # "disconnect" => held = InflightHeads)
  BY Zenon, <1>1, <1>2, <1>4 DEF IInv, HeldInv
<1>6. h \in DeviceHeads
  <2>1. h \in Open
    BY Zenon, <1>1, <1>2, <1>5 DEF Open
  <2> QED
    BY Zenon, <1>2, <2>1 DEF RingInv
<1>7. /\ used' \in [ring : [Head_ -> Head_], idx : Index]
      /\ used'.idx = used.idx /\ used'.ring[used'.idx % QSize] = h
      /\ InflightHeads' = InflightHeads /\ BatchSize' = BatchSize
      /\ Frontier' = Frontier /\ Left' = Left
      /\ \A i : Waiting(i)' = Waiting(i)
      /\ RingInv' /\ OrderInv'
  BY Zenon, <1>1, <1>2, <1>6, ElemWritten
<1>8. TypeOK'
  BY Zenon, <1>1, <1>2, <1>7 DEF TypeOK, guestVars
<1>9. BatchInv' /\ CounterInv'
  BY Zenon, <1>1, <1>2, <1>7 DEF IInv, BatchInv, CounterInv
<1>10. HeldInv'
  BY Zenon, <1>1, <1>2, <1>3, <1>4, <1>5, <1>7 DEF HeldInv, Pushing
<1>11. PlaceInv'
  <2>1. AtHand' = 0 /\ AtHand = 0
    BY Zenon, <1>1 DEF AtHand, Pushing
  <2> QED
    BY Zenon, <1>1, <1>2, <1>7, <2>1 DEF IInv, PlaceInv
<1>12. HandledInv'
  BY ZenonT(30), <1>1, <1>2, <1>7 DEF IInv, HandledInv, SubmissionOrder, guestVars
<1> QED
  BY Zenon, <1>7, <1>8, <1>9, <1>10, <1>11, <1>12 DEF IInv

LEMMA StoreUsedIdxStep ==
  ASSUME Finite, IInv, StoreUsedIdx
  PROVE  IInv'
<1>1. /\ pc = "used_idx" /\ pc' = "used_commit"
      /\ used' = [used EXCEPT !.idx = (used.idx + 1) % Width]
      /\ owner' = [owner EXCEPT ![used.ring[used.idx % QSize]] = "used"]
      /\ UNCHANGED <<avail, region, last_used, made, serial>>
      /\ UNCHANGED <<vq, head, todo, ret, held, handled, stopping, base, restarts>>
  BY Zenon DEF StoreUsedIdx, Goto, stopVars
<1>2. TypeOK /\ RingInv /\ OrderInv
  BY Zenon DEF IInv
<1>3. /\ used \in [ring : [Head_ -> Head_], idx : Index] /\ used.idx \in Index
      /\ owner \in [Head_ -> {"driver", "device", "used"}]
      /\ head \in Head_ /\ last_used \in Index /\ region.used_idx \in Index
      /\ (used.idx + 1) % Width \in Index
  <2>1. (used.idx + 1) % Width \in Index
    <3>1. used.idx + 1 \in Int
      BY SMTT(30), <1>2, Ranges, IndexType
    <3> QED
      BY Zenon, <3>1, Turn
  <2> QED
    BY Zenon, <1>2, <2>1, Ranges DEF TypeOK
<1>4. /\ used' \in [ring : [Head_ -> Head_], idx : Index]
      /\ used'.idx = (used.idx + 1) % Width /\ used'.ring = used.ring
  BY Zenon, <1>1, <1>3
<1>5. /\ BatchSize = 0 /\ region.last_batch_head = head
      /\ used.ring[used.idx % QSize] = head
  BY Zenon, <1>1 DEF IInv, BatchInv
<1>6. /\ owner' \in [Head_ -> {"driver", "device", "used"}]
      /\ owner'[head] = "used" /\ \A h \in Head_ \ {head} : owner'[h] = owner[h]
  BY Zenon, <1>1, <1>3, <1>5
<1>7. Current = {head} /\ Current' = {head} /\ Resubmitted' = Resubmitted /\ Marked' = Marked
  <2>1. Current = {head} /\ Current' = {head} /\ Resubmitted' = Resubmitted
    BY Zenon, <1>1 DEF Current, Resubmitted, Range
  <2> QED
    BY Zenon, <1>1, <2>1 DEF Marked
<1>8. InflightHeads' = InflightHeads /\ head \in InflightHeads
  <2>1. head \in InflightHeads
    BY Zenon, <1>1, <1>7 DEF IInv, HeldInv, Marked
  <2> QED
    BY Zenon, <1>1, <2>1 DEF InflightHeads
<1>9. BatchSize' = 1
  <2>1. 0 < Width - 1
    BY SMTT(30), IndexType
  <2>2. (used.idx - region.used_idx) % Width = 0
    BY Zenon, <1>5 DEF BatchSize
  <2>3. (((used.idx + 1) % Width) - region.used_idx) % Width = 0 + 1
    BY Zenon, <1>3, <2>1, <2>2, FartherOne
  <2> QED
    BY SMTT(30), <1>1, <1>4, <2>3 DEF BatchSize
<1>10. Open = InflightHeads /\ Open' = Open \ {head} /\ head \in Open
  BY SMTT(30), <1>1, <1>5, <1>8, <1>9 DEF Open
<1>11. head \in DeviceHeads /\ head \in Head_ \ UsedHeads
  BY Zenon, <1>2, <1>3, <1>10 DEF RingInv, DeviceHeads, UsedHeads
<1>12. Frontier' = Frontier
  <2>1. Open \in SUBSET Head_ /\ Cardinality(Open) \in 0 .. QSize
    BY Zenon, <1>2, Ranges
  <2>2. Cardinality(Open') = Cardinality(Open) - 1
    BY Zenon, <1>10, <2>1, HeadFinite
  <2>3. Cardinality(Open) # 0
    BY Zenon, <1>10, <2>1, HeadFinite
  <2>4. Cardinality(Open) - 1 \in 0 .. QSize /\ (Cardinality(Open) - 1) + 1 = Cardinality(Open)
    BY SMTT(30), <2>1, <2>3, IndexType
  <2>5. (((used.idx + 1) % Width) + (Cardinality(Open) - 1)) % Width
          = (used.idx + ((Cardinality(Open) - 1) + 1)) % Width
    BY Zenon, <1>3, <2>4, NextIndex
  <2> QED
    BY Zenon, <1>4, <2>2, <2>4, <2>5 DEF Frontier
<1>13. Left' = Left /\ \A i : Waiting(i)' = Waiting(i)
  BY Zenon, <1>1, <1>12 DEF Left, NumAvail, Waiting, Entry
<1>14. /\ DeviceHeads' = DeviceHeads \ {head} /\ UsedHeads' = UsedHeads \cup {head}
  BY Zenon, <1>3, <1>6 DEF DeviceHeads, UsedHeads
<1>15. RingInv'
  <2>1. /\ Holds(used.ring, last_used, NumUsed, UsedHeads)
        /\ NumUsed \in Nat /\ used.ring \in [Head_ -> Head_]
    BY SMTT(30), <1>2, Ranges DEF RingInv
  <2>2. NumUsed < QSize
    BY Zenon, <1>3, <1>11, <2>1, WindowRoom
  <2>3. NumUsed < Width - 1
    BY SMTT(30), <2>1, <2>2, IndexType
  <2>4. NumUsed' = NumUsed + 1
    BY Zenon, <1>1, <1>3, <1>4, <2>3, FartherOne DEF NumUsed
  <2>5. Entry(used.ring, last_used, NumUsed) = head
    BY Zenon, <1>3, <1>5, SlotOfEnd DEF NumUsed, Entry
  <2>6. Holds(used.ring, last_used, NumUsed + 1, UsedHeads \cup {head})
    BY Zenon, <1>3, <1>11, <2>1, <2>2, <2>5, WindowGrows
  <2>7. Holds(used.ring', last_used', NumUsed', UsedHeads')
    BY Zenon, <1>1, <1>4, <1>14, <2>4, <2>6
  <2>8. DeviceHeads' \ Open' = DeviceHeads \ Open /\ Open' \subseteq DeviceHeads'
    BY Zenon, <1>2, <1>10, <1>14 DEF RingInv
  <2>9. Holds(avail.ring', Frontier', Left', DeviceHeads' \ Open')
    BY Zenon, <1>1, <1>2, <1>12, <1>13, <2>8 DEF RingInv
  <2> QED
    BY Zenon, <2>7, <2>8, <2>9 DEF RingInv
<1>16. OrderInv'
  BY SMTT(30), <1>1, <1>2, <1>10, <1>13, <1>14 DEF OrderInv
<1>17. TypeOK'
  BY Zenon, <1>1, <1>2, <1>4, <1>6 DEF TypeOK
<1>18. BatchInv'
  BY Zenon, <1>1, <1>5, <1>9 DEF BatchInv
<1>19. CounterInv'
  BY Zenon, <1>1, <1>8 DEF IInv, CounterInv
<1>20. HeldInv'
  BY Zenon, <1>1, <1>7, <1>8 DEF IInv, HeldInv, Pushing
<1>21. PlaceInv'
  <2>1. AtHand' = AtHand
    BY Zenon, <1>1 DEF AtHand, Pushing
  <2> QED
    BY Zenon, <1>1, <1>12, <1>13, <2>1 DEF IInv, PlaceInv
<1>22. HandledInv'
  BY Zenon, <1>1, <1>13 DEF IInv, HandledInv, SubmissionOrder
<1> QED
  BY Zenon, <1>15, <1>16, <1>17, <1>18, <1>19, <1>20, <1>21, <1>22 DEF IInv

-----------------------------------------------------------------------------
(* The driver.                                                             *)

LEMMA ReclaimStep ==
  ASSUME Finite, IInv, Reclaim
  PROVE  IInv'
<1> DEFINE h == Entry(used.ring, last_used, 0)
<1>1. /\ last_used # used.idx /\ last_used' = (last_used + 1) % Width
      /\ owner' = [owner EXCEPT ![used.ring[last_used % QSize]] = "driver"]
      /\ UNCHANGED <<avail, used, region, made, serial>>
      /\ UNCHANGED <<vq, pc, head, todo, ret, held, handled, stopping, base, restarts>>
  BY Zenon DEF Reclaim, stopVars
<1>2. TypeOK /\ RingInv /\ OrderInv
  BY Zenon DEF IInv
<1>3. /\ used.ring \in [Head_ -> Head_] /\ used.idx \in Index
      /\ owner \in [Head_ -> {"driver", "device", "used"}]
      /\ last_used \in Index /\ NumUsed \in Nat
      /\ last_used' \in Index
  <2>1. (last_used + 1) % Width \in Index
    <3>1. last_used + 1 \in Int
      BY SMTT(30), <1>2, Ranges, IndexType
    <3> QED
      BY Zenon, <3>1, Turn
  <2>2. NumUsed \in Nat
    BY SMTT(30), <1>2, Ranges
  <2> QED
    BY Zenon, <1>1, <1>2, <2>1, <2>2, Ranges DEF TypeOK
<1>4. used.ring[last_used % QSize] = h /\ h \in Head_
  <2>1. last_used + 0 = last_used
    BY SMTT(30), <1>3, IndexType
  <2> QED
    BY Zenon, <1>3, <2>1, EntryType DEF Entry
<1>5. /\ h \in UsedHeads
      /\ Holds(used.ring, (last_used + 1) % Width, NumUsed - 1, UsedHeads \ {h})
  <2>1. NumUsed > 0
    <3>1. (used.idx - last_used) % Width # 0
      BY Zenon, <1>1, <1>3, Distance
    <3> QED
      BY SMTT(30), <1>3, <3>1 DEF NumUsed
  <2>2. Holds(used.ring, last_used, NumUsed, UsedHeads)
    BY Zenon, <1>2 DEF RingInv
  <2> QED
    BY Zenon, <1>3, <2>1, <2>2, WindowShrinks
<1> HIDE DEF h
<1>6. /\ owner' \in [Head_ -> {"driver", "device", "used"}]
      /\ owner'[h] = "driver" /\ \A x \in Head_ \ {h} : owner'[x] = owner[x]
  BY Zenon, <1>1, <1>3, <1>4
<1>7. DeviceHeads' = DeviceHeads /\ UsedHeads' = UsedHeads \ {h}
  BY Zenon, <1>5, <1>6 DEF DeviceHeads, UsedHeads
<1>8. NumUsed' = NumUsed - 1
  BY Zenon, <1>1, <1>3, NearerOne DEF NumUsed
<1>9. InflightHeads' = InflightHeads /\ BatchSize' = BatchSize
  BY Zenon, <1>1 DEF InflightHeads, BatchSize
<1>10. Open' = Open
  BY Zenon, <1>1, <1>9 DEF Open
<1>11. Frontier' = Frontier
  BY Zenon, <1>1, <1>10 DEF Frontier
<1>12. Left' = Left /\ \A i : Waiting(i)' = Waiting(i)
  BY Zenon, <1>1, <1>11 DEF Left, NumAvail, Waiting, Entry
<1>13. RingInv'
  <2>1. Holds(used.ring', last_used', NumUsed', UsedHeads')
    BY Zenon, <1>1, <1>5, <1>7, <1>8
  <2>2. Holds(avail.ring', Frontier', Left', DeviceHeads' \ Open') /\ Open' \subseteq DeviceHeads'
    BY Zenon, <1>1, <1>2, <1>7, <1>10, <1>11, <1>12 DEF RingInv
  <2> QED
    BY Zenon, <2>1, <2>2 DEF RingInv
<1>14. OrderInv'
  BY ZenonT(30), <1>1, <1>2, <1>7, <1>10, <1>12 DEF OrderInv
<1>15. TypeOK'
  BY ZenonT(30), <1>1, <1>2, <1>3, <1>6 DEF TypeOK
<1>16. BatchInv' /\ CounterInv'
  BY ZenonT(30), <1>1, <1>9 DEF IInv, BatchInv, CounterInv
<1>17. HeldInv'
  <2>1. Current' = Current /\ Resubmitted' = Resubmitted
    BY Zenon, <1>1 DEF Current, Resubmitted, Range
  <2>2. Marked' = Marked
    BY Zenon, <1>1, <2>1 DEF Marked
  <2> QED
    BY Zenon, <1>1, <1>9, <2>1, <2>2 DEF IInv, HeldInv, Pushing
<1>18. PlaceInv'
  <2>1. AtHand' = AtHand
    BY Zenon, <1>1 DEF AtHand, Pushing
  <2> QED
    BY Zenon, <1>1, <1>11, <1>12, <2>1 DEF IInv, PlaceInv
<1>19. HandledInv'
  BY Zenon, <1>1, <1>12 DEF IInv, HandledInv, SubmissionOrder
<1> QED
  BY Zenon, <1>13, <1>14, <1>15, <1>16, <1>17, <1>18, <1>19 DEF IInv

(* What is to be resubmitted is not answered. *)
LEMMA TodoIsOpen ==
  ASSUME IInv, vq.inflight_check
  PROVE  \A i \in DOMAIN todo : todo[i] \in Open
<1> SUFFICES ASSUME NEW i \in DOMAIN todo
             PROVE  todo[i] \in Open
  BY Zenon
<1>1. todo \in Seq(Head_) /\ todo # <<>>
  BY SMTT(30) DEF IInv, TypeOK
<1>2. pc \notin {"down", "init", "idle"}
  BY Zenon, <1>1 DEF IInv, HeldInv
<1>3. todo[i] \in Resubmitted
  BY Zenon DEF Resubmitted, Range
<1>4. todo[i] \in InflightHeads /\ todo[i] \notin Current
  BY Zenon, <1>2, <1>3 DEF IInv, HeldInv, Marked
<1>5. BatchSize # 0 => todo[i] # region.last_batch_head
  <2>1. CASE pc = "used_commit"
    BY Zenon, <1>4, <2>1 DEF IInv, BatchInv, Current
  <2>2. CASE pc = "commit_idx"
    BY Zenon, <1>4, <2>2 DEF IInv, BatchInv
  <2> QED
    BY Zenon, <1>2, <2>1, <2>2 DEF IInv, BatchInv
<1> QED
  BY Zenon, <1>4, <1>5 DEF Open

LEMMA SubmitStep ==
  ASSUME Finite, IInv, NEW h \in Head_, Submit(h)
  PROVE  IInv'
<1>1. /\ owner[h] = "driver" /\ made < MaxSubmit
      /\ avail' = [ring |-> [avail.ring EXCEPT ![avail.idx % QSize] = h],
                   idx |-> (avail.idx + 1) % Width]
      /\ owner' = [owner EXCEPT ![h] = "device"]
      /\ made' = made + 1 /\ serial' = [serial EXCEPT ![h] = made + 1]
      /\ UNCHANGED <<used, region, last_used>>
      /\ UNCHANGED <<vq, pc, head, todo, ret, held, handled, stopping, base, restarts>>
  BY Zenon DEF Submit, stopVars
<1>2. TypeOK /\ RingInv /\ OrderInv
  BY Zenon DEF IInv
<1>3. /\ avail.ring \in [Head_ -> Head_] /\ avail.idx \in Index
      /\ owner \in [Head_ -> {"driver", "device", "used"}]
      /\ Left \in Nat /\ Frontier \in Index /\ Open \subseteq Head_
      /\ avail.idx % QSize \in Head_ /\ (avail.idx + 1) % Width \in Index
  <2>1. avail.idx \in Int /\ avail.idx + 1 \in Int
    BY SMTT(30), <1>2, Ranges, IndexType
  <2>2. avail.idx % QSize \in Head_ /\ (avail.idx + 1) % Width \in Index
    BY Zenon, <2>1, SlotType, Turn
  <2>3. Left \in Nat
    BY SMTT(30), <1>2, Ranges
  <2> QED
    BY Zenon, <1>2, <2>2, <2>3, Ranges DEF TypeOK
<1>4. /\ avail' \in [ring : [Head_ -> Head_], idx : Index]
      /\ avail'.idx = (avail.idx + 1) % Width
      /\ Stored(avail'.ring, avail.ring, avail.idx % QSize, h)
  BY Zenon, <1>1, <1>3 DEF Stored
<1>5. /\ owner' \in [Head_ -> {"driver", "device", "used"}]
      /\ owner'[h] = "device" /\ \A x \in Head_ \ {h} : owner'[x] = owner[x]
  BY Zenon, <1>1, <1>3
<1>6. /\ made \in Nat /\ made' \in 0 .. MaxSubmit /\ made' = made + 1
      /\ serial' \in [Head_ -> 0 .. MaxSubmit]
      /\ serial'[h] = made + 1 /\ \A x \in Head_ \ {h} : serial'[x] = serial[x]
      /\ \A x \in Head_ : serial[x] \in Nat /\ serial[x] <= made
  <2>1. /\ made \in Nat /\ made + 1 \in 0 .. MaxSubmit
        /\ serial \in [Head_ -> 0 .. MaxSubmit]
    BY SMTT(30), <1>1, <1>2, InflightAssumption DEF TypeOK
  <2>2. \A x \in Head_ : serial[x] \in Nat /\ serial[x] <= made
    BY SMTT(30), <1>2, <2>1, InflightAssumption DEF OrderInv
  <2> QED
    BY Zenon, <1>1, <2>1, <2>2
<1>7. /\ h \notin DeviceHeads /\ DeviceHeads' = DeviceHeads \cup {h}
      /\ UsedHeads' = UsedHeads
  BY Zenon, <1>1, <1>5 DEF DeviceHeads, UsedHeads
<1>8. InflightHeads' = InflightHeads /\ BatchSize' = BatchSize /\ NumUsed' = NumUsed
  BY Zenon, <1>1 DEF InflightHeads, BatchSize, NumUsed
<1>9. Open' = Open /\ h \notin Open
  BY Zenon, <1>1, <1>2, <1>7, <1>8 DEF Open, RingInv
<1>10. Frontier' = Frontier
  BY Zenon, <1>1, <1>9 DEF Frontier
<1>11. Holds(avail.ring, Frontier, Left, DeviceHeads \ Open) /\ h \in Head_ \ (DeviceHeads \ Open)
  BY Zenon, <1>2, <1>7 DEF RingInv
<1>12. Left < QSize
  BY Zenon, <1>3, <1>11, WindowRoom
<1>13. Left' = Left + 1
  <2>1. (avail.idx - Frontier) % Width < Width - 1
    BY SMTT(30), <1>3, <1>12, IndexType DEF Left, NumAvail
  <2> QED
    BY Zenon, <1>3, <1>4, <1>10, <2>1, FartherOne DEF Left, NumAvail
<1>14. Stored(avail'.ring, avail.ring, (Frontier + Left) % QSize, h)
  <2>1. (Frontier + Left) % QSize = avail.idx % QSize
    BY Zenon, <1>3, SlotOfEnd DEF Left, NumAvail
  <2> QED
    BY Zenon, <1>4, <2>1
<1>15. /\ \A i \in 0 .. Left - 1 : Waiting(i)' = Waiting(i)
       /\ \A i : i = Left => Waiting(i)' = h
  <2>1. /\ \A i \in 0 .. Left - 1 : Entry(avail'.ring, Frontier, i) = Entry(avail.ring, Frontier, i)
        /\ Entry(avail'.ring, Frontier, Left) = h
    BY SMTT(30), <1>3, <1>12, <1>14, WindowKept
  <2> QED
    BY Zenon, <1>10, <2>1 DEF Waiting, Entry
<1>16. \A i \in 0 .. Left' - 1 : i \in 0 .. Left - 1 \/ i = Left
  BY SMTT(30), <1>3, <1>13
<1>17. RingInv'
  <2>1. Holds(avail'.ring, Frontier, Left, DeviceHeads \ Open)
    BY Zenon, <1>3, <1>11, <1>12, <1>14, WindowWritten
  <2>2. Entry(avail'.ring, Frontier, Left) = h
    BY SMTT(30), <1>3, <1>12, <1>14, WindowKept
  <2>3. Holds(avail'.ring, Frontier, Left + 1, (DeviceHeads \ Open) \cup {h})
    BY Zenon, <1>3, <1>11, <1>12, <2>1, <2>2, WindowGrows
  <2>4. DeviceHeads' \ Open' = (DeviceHeads \ Open) \cup {h} /\ Open' \subseteq DeviceHeads'
    BY Zenon, <1>2, <1>7, <1>9 DEF RingInv
  <2>5. Holds(avail.ring', Frontier', Left', DeviceHeads' \ Open')
    BY Zenon, <1>10, <1>13, <2>3, <2>4
  <2>6. Holds(used.ring', last_used', NumUsed', UsedHeads')
    BY Zenon, <1>1, <1>2, <1>7, <1>8 DEF RingInv
  <2> QED
    BY Zenon, <2>4, <2>5, <2>6 DEF RingInv
<1>18. \A i \in 0 .. Left - 1 : Waiting(i) \in Head_ \ {h}
  BY Zenon, <1>2, <1>7, WaitingHeads
<1>19. OrderInv'
  <2>1. \A x \in Head_ : serial'[x] <= made'
    BY SMTT(30), <1>6
  <2>2. \A x \in DeviceHeads' : serial'[x] > 0
    BY SMTT(30), <1>2, <1>6, <1>7 DEF OrderInv, DeviceHeads
  <2>3. \A a \in Open : serial'[a] = serial[a] /\ a \in Head_
    BY Zenon, <1>3, <1>6, <1>9
  <2>4. \A i \in 0 .. Left' - 1 : \A a \in Open' : serial'[a] < serial'[Waiting(i)']
    <3> SUFFICES ASSUME NEW i \in 0 .. Left' - 1, NEW a \in Open
                 PROVE  serial[a] < serial'[Waiting(i)']
      BY Zenon, <1>9, <2>3
    <3>1. CASE i \in 0 .. Left - 1
      BY Zenon, <1>2, <1>6, <1>15, <1>18, <3>1 DEF OrderInv
    <3>2. CASE i = Left
      BY SMTT(30), <1>6, <1>15, <2>3, <3>2
    <3> QED
      BY Zenon, <1>16, <3>1, <3>2
  <2>5. \A i, j \in 0 .. Left' - 1 : i < j => serial'[Waiting(i)'] < serial'[Waiting(j)']
    <3> SUFFICES ASSUME NEW i \in 0 .. Left' - 1, NEW j \in 0 .. Left' - 1, i < j
                 PROVE  serial'[Waiting(i)'] < serial'[Waiting(j)']
      BY Zenon
    <3>1. i \in 0 .. Left - 1
      BY SMTT(30), <1>3, <1>13
    <3>2. CASE j \in 0 .. Left - 1
      BY ZenonT(30), <1>2, <1>6, <1>15, <1>18, <3>1, <3>2 DEF OrderInv
    <3>3. CASE j = Left
      BY SMTT(30), <1>6, <1>15, <1>18, <3>1, <3>3
    <3> QED
      BY Zenon, <1>16, <3>2, <3>3
  <2>6. region' = region
    BY Zenon, <1>1
  <2> QED
    BY ZenonT(30), <1>2, <1>9, <2>1, <2>2, <2>3, <2>4, <2>5, <2>6 DEF OrderInv
<1>20. TypeOK'
  BY ZenonT(30), <1>1, <1>2, <1>4, <1>5, <1>6 DEF TypeOK
<1>21. BatchInv' /\ CounterInv'
  BY ZenonT(30), <1>1, <1>8 DEF IInv, BatchInv, CounterInv
<1>22. HeldInv'
  <2>1. Current' = Current /\ Resubmitted' = Resubmitted
    BY Zenon, <1>1 DEF Current, Resubmitted, Range
  <2>2. Marked' = Marked
    BY Zenon, <1>1, <2>1 DEF Marked
  <2> QED
    BY Zenon, <1>1, <1>8, <2>1, <2>2 DEF IInv, HeldInv, Pushing
<1>23. PlaceInv'
  <2>1. AtHand' = AtHand
    BY Zenon, <1>1 DEF AtHand, Pushing
  <2>2. Len(todo) \in Nat
    BY SMTT(30), <1>2 DEF TypeOK
  <2>3. ASSUME vq.inflight_check = FALSE, NEW k \in {0, 1},
               k = IF pc = "avail_update" THEN 1 ELSE 0
        PROVE  /\ Len(todo) + k <= Left'
               /\ \A i \in 1 .. Len(todo) : todo[i] = Waiting((i - 1) + k)'
               /\ k = 1 => head = Waiting(0)'
    <3>1. /\ Len(todo) + k <= Left
          /\ \A i \in 1 .. Len(todo) : todo[i] = Waiting((i - 1) + k)
          /\ k = 1 => head = Waiting(0)
      BY SMTT(30), <2>3 DEF IInv, PlaceInv
    <3>2. /\ \A i \in 1 .. Len(todo) : (i - 1) + k \in 0 .. Left - 1
          /\ k = 1 => 0 \in 0 .. Left - 1
      BY SMTT(30), <1>3, <2>2, <3>1
    <3> QED
      BY SMTT(30), <1>3, <1>13, <1>15, <2>2, <3>1, <3>2
  <2>4. pc = "avail_update" => vq.inflight_check = FALSE
    BY Zenon, <1>2 DEF IInv, HeldInv, TypeOK
  <2> QED
    <3>1. /\ vq'.inflight_check = FALSE /\ pc' = "avail_update" =>
               /\ Len(todo') + 1 <= Left'
               /\ \A i \in 1 .. Len(todo') : todo'[i] = Waiting((i - 1) + 1)'
          /\ vq'.inflight_check = FALSE /\ pc' # "avail_update" =>
               /\ Len(todo') + 0 <= Left'
               /\ \A i \in 1 .. Len(todo') : todo'[i] = Waiting((i - 1) + 0)'
      BY Zenon, <1>1, <2>3
    <3>2. pc' = "avail_update" => head' = Waiting(0)'
      BY Zenon, <1>1, <2>3, <2>4
    <3>3. vq.inflight_check \in BOOLEAN /\ vq' = vq
      BY Zenon, <1>1, <1>2 DEF TypeOK
    <3>4. /\ pc' = "down" => base' \in {-1, used'.idx}
          /\ pc' \in {"init", "idle"} /\ vq'.inflight_check => vq'.last_avail = used'.idx
          /\ pc' \notin {"down", "init"} /\ ~(pc' = "idle" /\ vq'.inflight_check) =>
               Frontier' = (vq'.last_avail + AtHand'
                              + (IF vq'.inflight_check THEN Len(todo') ELSE 0)) % Width
      BY Zenon, <1>1, <1>10, <2>1 DEF IInv, PlaceInv
    <3> QED
      BY Zenon, <3>1, <3>2, <3>3, <3>4 DEF PlaceInv
<1>24. HandledInv'
  <2>1. handled \in Seq(1 .. MaxSubmit) /\ MaxSubmit \in Nat
    BY Zenon, <1>2, InflightAssumption DEF TypeOK
  <2>2. \A e \in DOMAIN handled : handled[e] \in Nat /\ handled[e] <= made
    <3>1. \A e \in DOMAIN handled : handled[e] \in 1 .. MaxSubmit
      BY Zenon, <2>1, SeqElement
    <3>2. \A e \in DOMAIN handled : handled[e] <= made
      BY Zenon DEF IInv, HandledInv
    <3> QED
      BY SMTT(30), <2>1, <3>1, <3>2
  <2>3. \A e \in DOMAIN handled, i \in 0 .. Left' - 1 : handled[e] < serial'[Waiting(i)']
    <3> SUFFICES ASSUME NEW e \in DOMAIN handled, NEW i \in 0 .. Left' - 1
                 PROVE  handled[e] < serial'[Waiting(i)']
      BY Zenon
    <3>1. CASE i \in 0 .. Left - 1
      BY ZenonT(30), <1>6, <1>15, <1>18, <3>1 DEF IInv, HandledInv
    <3>2. CASE i = Left
      BY SMTT(30), <1>6, <1>15, <2>2, <3>2
    <3> QED
      BY Zenon, <1>16, <3>1, <3>2
  <2>4. pc = "handle" => serial'[head] = serial[head]
    <3>1. pc = "handle" => head \in DeviceHeads
      BY Zenon, HeadAtHand
    <3> QED
      BY Zenon, <1>6, <1>7, <3>1 DEF DeviceHeads
  <2>5. vq.inflight_check => \A i \in DOMAIN todo : serial'[todo[i]] = serial[todo[i]]
    BY Zenon, <1>3, <1>6, <1>9, TodoIsOpen
  <2>6. SubmissionOrder' /\ \A e \in DOMAIN handled' : handled'[e] <= made'
    BY SMTT(30), <1>1, <1>6, <2>2 DEF IInv, HandledInv, SubmissionOrder
  <2>7. vq.inflight_check =>
          /\ \A e \in DOMAIN handled, i \in DOMAIN todo : handled[e] < serial'[todo[i]]
          /\ \A i, j \in DOMAIN todo : i < j => serial'[todo[i]] < serial'[todo[j]]
          /\ pc = "handle" => \A i \in DOMAIN todo : serial'[head] < serial'[todo[i]]
    BY Zenon, <2>4, <2>5 DEF IInv, HandledInv
  <2>8. pc = "handle" => \A e \in DOMAIN handled : handled[e] < serial'[head]
    BY Zenon, <2>4 DEF IInv, HandledInv
  <2>9. pc = "init" \/ (pc = "idle" /\ vq.inflight_check) => handled = <<>>
    BY Zenon DEF IInv, HandledInv
  <2> QED
    BY ZenonT(30), <1>1, <2>3, <2>6, <2>7, <2>8, <2>9 DEF HandledInv
<1> QED
  BY Zenon, <1>17, <1>19, <1>20, <1>21, <1>22, <1>23, <1>24 DEF IInv

-----------------------------------------------------------------------------
(* The induction.                                                          *)

LEMMA InitIInv ==
  ASSUME Finite, Init
  PROVE  IInv
<1>1. 0 \in Head_ /\ 0 \in Index /\ Width \in Nat /\ QSize \in Nat /\ -1 \in Int
  BY SMTT(30), IndexType DEF Head_
<1>2. TypeOK
  <2>1. MaxSubmit \in Nat /\ MaxRestart \in Nat
    BY Zenon, InflightAssumption
  <2>2. todo \in Seq(Head_) /\ Len(todo) <= QSize /\ handled \in Seq(1 .. MaxSubmit)
    BY SMTT(30), <1>1 DEF Init
  <2>3. vq \in [last_avail : Index, req_cnt : Nat, inflight_check : BOOLEAN]
    BY Zenon, <1>1 DEF Init, VqZero
  <2> QED
    BY SMTT(30), <1>1, <2>1, <2>2, <2>3 DEF Init, TypeOK
<1>3. BatchSize = 0 /\ NumUsed = 0
  BY Zenon, <1>1, Distance DEF Init, BatchSize, NumUsed
<1>4. InflightHeads = {} /\ Open = {} /\ DeviceHeads = {} /\ UsedHeads = {}
  BY SMTT(30), <1>3 DEF Init, InflightHeads, Open, DeviceHeads, UsedHeads
<1>5. Frontier = 0 /\ Left = 0
  <2>1. Cardinality(Open) = 0
    BY Zenon, <1>4, HeadFinite
  <2>2. (0 + 0) % Width = 0 /\ (0 - 0) % Width = 0
    BY Zenon, <1>1, NextIndex, Distance
  <2>3. Frontier = 0
    BY Zenon, <2>1, <2>2 DEF Init, Frontier
  <2> QED
    BY Zenon, <2>2, <2>3 DEF Init, Left, NumAvail
<1>6. RingInv
  <2>1. 0 .. 0 - 1 = {} /\ 0 <= QSize
    BY SMTT(30), <1>1
  <2> QED
    BY Zenon, <1>3, <1>4, <1>5, <2>1 DEF RingInv, Holds
<1>7. BatchInv /\ CounterInv
  BY SMTT(30), <1>3, <1>4 DEF Init, BatchInv, CounterInv
<1>8. HeldInv
  BY Zenon DEF Init, HeldInv, Current, Resubmitted, Pushing, VqZero
<1>9. PlaceInv
  BY SMTT(30), <1>5 DEF Init, PlaceInv, VqZero
<1>10. OrderInv
  BY SMTT(30), <1>4, <1>5 DEF Init, OrderInv
<1>11. HandledInv
  BY SMTT(30) DEF Init, HandledInv, SubmissionOrder, VqZero
<1> QED
  BY Zenon, <1>2, <1>6, <1>7, <1>8, <1>9, <1>10, <1>11 DEF IInv

LEMMA StutterIInv ==
  ASSUME IInv, UNCHANGED vars
  PROVE  IInv'
<1>1. /\ UNCHANGED <<avail, used, region>> /\ UNCHANGED guestVars
      /\ UNCHANGED <<vq, pc, head, todo, ret, held, handled, stopping, base, restarts>>
  BY Zenon DEF vars, guestVars
<1>2. /\ InflightHeads' = InflightHeads /\ BatchSize' = BatchSize
      /\ Frontier' = Frontier /\ Left' = Left
      /\ \A i : Waiting(i)' = Waiting(i)
      /\ RingInv' /\ OrderInv'
  BY Zenon, <1>1, SharedFrame DEF IInv
<1>3. TypeOK'
  BY ZenonT(30), <1>1 DEF IInv, TypeOK, guestVars
<1>4. BatchInv' /\ CounterInv'
  BY ZenonT(30), <1>1, <1>2 DEF IInv, BatchInv, CounterInv
<1>5. HeldInv'
  <2>1. Current' = Current /\ Resubmitted' = Resubmitted
    BY Zenon, <1>1 DEF Current, Resubmitted, Range
  <2>2. Marked' = Marked
    BY Zenon, <1>1, <2>1 DEF Marked
  <2> QED
    BY ZenonT(30), <1>1, <1>2, <2>1, <2>2 DEF IInv, HeldInv, Pushing
<1>6. PlaceInv'
  <2>1. AtHand' = AtHand
    BY Zenon, <1>1 DEF AtHand, Pushing
  <2> QED
    BY Zenon, <1>1, <1>2, <2>1 DEF IInv, PlaceInv
<1>7. HandledInv'
  BY Zenon, <1>1, <1>2 DEF IInv, HandledInv, SubmissionOrder, guestVars
<1> QED
  BY Zenon, <1>2, <1>3, <1>4, <1>5, <1>6, <1>7 DEF IInv

LEMMA NextIInv ==
  ASSUME Finite, IInv, [Next]_vars
  PROVE  IInv'
<1>1. CASE VirtqStep
  BY ZenonT(30), <1>1, VirtioVirtqInitStep, VirtioVirtqInitDoneStep, VirtqDequeueOneStep,
     VirtqInflightAvailUpdateStep, HandleBuffersStep, PushAtOnceStep,
     VirtqDequeueOneDoneStep, VirtqDequeueManyNextStep, VirtqInflightUsedUpdateStep,
     StoreUsedIdxStep, VirtqInflightUsedCommitStep, StoreRegionUsedIdxStep,
     VringMarkDrainedStep DEF VirtqStep
<1>2. CASE VirtqDequeueMany
  BY Zenon, <1>2, VirtqDequeueManyStep
<1>3. ASSUME NEW h \in Head_, Submit(h) \/ VirtqPush(h)
      PROVE  IInv'
  BY Zenon, <1>3, SubmitStep, VirtqPushStep
<1>4. CASE Reclaim
  BY Zenon, <1>4, ReclaimStep
<1>5. ASSUME NEW why \in {"disconnect", "GET_VRING_BASE"}, NEW c \in SUBSET held,
             VringStop(why, c)
      PROVE  IInv'
  BY Zenon, <1>5, VringStopStep
<1>6. CASE Crash
  BY Zenon, <1>6, CrashStep
<1>7. CASE UNCHANGED vars
  BY Zenon, <1>7, StutterIInv
<1> QED
  BY Zenon, <1>1, <1>2, <1>3, <1>4, <1>5, <1>6, <1>7 DEF Next

-----------------------------------------------------------------------------
(* What the next server finds are the requests that were fetched and are   *)
(* not answered.                                                           *)
LEMMA RecoveredIsOpen ==
  ASSUME Finite, IInv
  PROVE  Recovered = Open
<1>1. BatchSize \in {0, 1} /\ TypeOK
  BY Zenon DEF IInv, BatchInv
<1>2. BatchSize = 1 => MaxCounter # 0
  <2>1. BatchSize = 1 => \E h \in Head_ : region.desc[h].counter # 0
    BY Zenon DEF IInv, CounterInv
  <2>2. /\ \A h \in Head_ : region.desc[h].counter \in Nat
        /\ region.desc \in [Head_ -> [inflight : {0, 1}, counter : Nat]]
    BY Zenon, <1>1, Ranges
  <2>3. MaxCounter = 0 => \A h \in Head_ : region.desc[h].counter <= 0
    BY Zenon, <2>2, MaxCounterIsLargest
  <2> QED
    BY SMTT(30), <2>1, <2>2, <2>3
<1> QED
  BY SMTT(30), <1>1, <1>2 DEF Recovered, Open

LEMMA RecoverableFact ==
  ASSUME Finite, IInv
  PROVE  Recoverable
<1> DEFINE rest == AvailFrom((used.idx + Cardinality(Recovered)) % Width)
<1>1. TypeOK /\ RingInv /\ BatchSize \in {0, 1}
  BY Zenon DEF IInv, BatchInv
<1>2. Recovered = Open /\ Frontier \in Index
  BY Zenon, <1>1, RecoveredIsOpen, Ranges
<1>3. (used.idx + Cardinality(Recovered)) % Width = Frontier
  BY Zenon, <1>2 DEF Frontier
<1>4. /\ rest \in Seq(Head_) /\ Len(rest) = Left /\ Left \in 0 .. QSize
      /\ \A i \in 1 .. Left : rest[i] = Waiting(i - 1)
  BY Zenon, <1>1, <1>2, <1>3, AvailFromFrontier
<1> HIDE DEF rest
<1>5. Left \in Nat /\ DOMAIN rest = 1 .. Left
  BY SMTT(30), <1>4, IndexType
<1>6. /\ \A i \in 1 .. Left : i - 1 \in 0 .. Left - 1
      /\ \A i \in 0 .. Left - 1 : i + 1 \in 1 .. Left /\ (i + 1) - 1 = i
  BY SMTT(30), <1>5
<1>7. DeviceHeads \ Open = {Waiting(i) : i \in 0 .. Left - 1}
  BY Zenon, <1>1 DEF RingInv, Holds, Waiting
<1>8. Range(rest) = DeviceHeads \ Open
  <2>1. \A x \in Range(rest) : x \in DeviceHeads \ Open
    BY Zenon, <1>4, <1>5, <1>6, <1>7 DEF Range
  <2>2. \A x \in DeviceHeads \ Open : x \in Range(rest)
    <3> SUFFICES ASSUME NEW i \in 0 .. Left - 1
                 PROVE  Waiting(i) \in Range(rest)
      BY Zenon, <1>7
    <3>1. rest[i + 1] = Waiting(i) /\ i + 1 \in DOMAIN rest
      BY Zenon, <1>4, <1>5, <1>6
    <3> QED
      BY Zenon, <3>1 DEF Range
  <2> QED
    BY Zenon, <2>1, <2>2
<1>9. IsInjective(rest)
  <2> SUFFICES ASSUME NEW a \in 1 .. Left, NEW b \in 1 .. Left, rest[a] = rest[b]
               PROVE  a = b
    BY Zenon, <1>5 DEF IsInjective
  <2>1. Waiting(a - 1) = Waiting(b - 1)
    BY Zenon, <1>4
  <2>2. a - 1 = b - 1
    BY Zenon, <1>1, <1>6, <2>1, WaitingHeads
  <2> QED
    BY SMTT(30), <1>5, <2>2
<1>10. Open \subseteq DeviceHeads
  BY Zenon, <1>1 DEF RingInv
<1> QED
  BY Zenon, <1>1, <1>2, <1>8, <1>9, <1>10 DEF Recoverable, rest

(* virtq_push shows the driver the element of the request at hand. *)
LEMMA UsedOnceStep ==
  ASSUME IInv, [Next]_vars, used'.idx # used.idx
  PROVE  used.ring[used.idx % QSize] \in DeviceHeads
<1>1. StoreUsedIdx
  <2>1. /\ used \in [ring : [Head_ -> Head_], idx : Index]
        /\ \A h : Elem(h).idx = used.idx
    BY Zenon DEF IInv, TypeOK, Elem
  <2>2. ASSUME NEW h, PushHead(h) PROVE FALSE
    BY Zenon, <2>1, <2>2 DEF PushHead, Elem
  <2>3. UNCHANGED used => FALSE
    BY Zenon
  <2>4. CASE VirtqStep
    BY Zenon, <2>2, <2>3, <2>4 DEF VirtqStep, VirtioVirtqInit, VirtioVirtqInitDone,
       VirtqDequeueOne, VirtqInflightAvailUpdate, HandleBuffers, PushAtOnce,
       VirtqDequeueOneDone, VirtqDequeueManyNext, VirtqInflightUsedUpdate,
       VirtqInflightUsedCommit, StoreRegionUsedIdx, VringMarkDrained
  <2>5. CASE VirtqDequeueMany \/ Reclaim \/ Crash \/ UNCHANGED vars
    BY Zenon, <2>3, <2>5 DEF VirtqDequeueMany, Reclaim, Crash, vars
  <2>6. ASSUME NEW h \in Head_, Submit(h) \/ VirtqPush(h) PROVE FALSE
    BY Zenon, <2>2, <2>3, <2>6 DEF Submit, VirtqPush
  <2>7. ASSUME NEW why \in {"disconnect", "GET_VRING_BASE"}, NEW c \in SUBSET held,
               VringStop(why, c)
        PROVE FALSE
    BY Zenon, <2>3, <2>7 DEF VringStop
  <2> QED
    BY Zenon, <2>4, <2>5, <2>6, <2>7 DEF Next
<1>2. pc = "used_idx" /\ BatchSize = 0 /\ used.ring[used.idx % QSize] = head
  BY Zenon, <1>1 DEF StoreUsedIdx, IInv, BatchInv
<1>3. head \in InflightHeads
  BY Zenon, <1>2 DEF IInv, HeldInv, Marked, Current
<1>4. head \in Open
  BY Zenon, <1>2, <1>3 DEF Open
<1> QED
  BY Zenon, <1>2, <1>4 DEF IInv, RingInv

-----------------------------------------------------------------------------
(* The set of the heads is finite.                                         *)
INSTANCE FiniteSetTheorems

(* A finite set can be sorted by a key that tells its elements apart: an   *)
(* element's place is the number of those that do not come after it.       *)
LEMMA Sortable ==
  ASSUME NEW S, IsFiniteSet(S), NEW key \in [S -> Nat],
         \A x, y \in S : key[x] = key[y] => x = y
  PROVE  \E s \in [1 .. Cardinality(S) -> S] :
           \A i, j \in 1 .. Cardinality(S) : i < j => key[s[i]] < key[s[j]]
<1> DEFINE n == Cardinality(S)
           Upto(x) == {y \in S : key[y] <= key[x]}
           place == [x \in S |-> Cardinality(Upto(x))]
<1>1. n \in Nat
  BY Zenon, FS_CardinalityType
<1>2. ASSUME NEW x \in S
      PROVE  IsFiniteSet(Upto(x)) /\ place[x] \in 1 .. n
  <2>1. Upto(x) \in SUBSET S /\ x \in Upto(x)
    BY SMTT(30)
  <2>2. IsFiniteSet(Upto(x)) /\ Cardinality(Upto(x)) <= n
    BY Zenon, <2>1, FS_Subset
  <2>3. Cardinality(Upto(x)) \in Nat /\ Cardinality(Upto(x)) # 0
    BY ZenonT(30), <2>1, <2>2, FS_CardinalityType, FS_EmptySet
  <2> QED
    BY SMTT(30), <1>1, <2>2, <2>3
<1>3. ASSUME NEW x \in S, NEW y \in S, key[x] < key[y]
      PROVE  place[x] < place[y]
  <2>1. Upto(x) \in SUBSET Upto(y) /\ y \in Upto(y) /\ y \notin Upto(x)
    BY SMTT(30), <1>3
  <2>2. IsFiniteSet(Upto(y)) /\ IsFiniteSet(Upto(x))
    BY Zenon, <1>2
  <2>3. /\ Cardinality(Upto(x)) <= Cardinality(Upto(y))
        /\ Cardinality(Upto(y)) = Cardinality(Upto(x)) => Upto(y) = Upto(x)
    BY ZenonT(30), <2>1, <2>2, FS_Subset
  <2>4. Cardinality(Upto(x)) # Cardinality(Upto(y))
    BY ZenonT(30), <2>1, <2>3
  <2>5. Cardinality(Upto(x)) \in Nat /\ Cardinality(Upto(y)) \in Nat
    BY ZenonT(30), <2>2, FS_CardinalityType
  <2> QED
    BY SMTT(30), <2>3, <2>4, <2>5
<1> HIDE DEF place
<1>4. place \in [S -> 1 .. n]
  BY Zenon, <1>2 DEF place
<1>5. \A x, y \in S : place[x] = place[y] => x = y
  <2> SUFFICES ASSUME NEW x \in S, NEW y \in S, place[x] = place[y], x # y
               PROVE  FALSE
    BY Zenon
  <2>1. key[x] \in Nat /\ key[y] \in Nat /\ key[x] # key[y]
    BY Zenon
  <2>2. place[x] \in Int /\ place[y] \in Int
    BY SMTT(30), <1>4
  <2> QED
    BY SMTT(30), <1>3, <2>1, <2>2
<1>6. place \in Injection(S, 1 .. n)
  BY Zenon, <1>4, <1>5 DEF Injection, IsInjective
<1>7. IsFiniteSet(1 .. n) /\ Cardinality(1 .. n) = n
  BY SMTT(30), <1>1, FS_Interval
<1>8. place \in Surjection(S, 1 .. n)
  BY Zenon, <1>6, <1>7, FS_Injection
<1>9. \A i \in 1 .. n : \E x \in S : place[x] = i
  BY Zenon, <1>8 DEF Surjection
<1> DEFINE s == [i \in 1 .. n |-> CHOOSE x \in S : place[x] = i]
<1>10. s \in [1 .. n -> S] /\ \A i \in 1 .. n : place[s[i]] = i
  BY Zenon, <1>9
<1>11. ASSUME NEW i \in 1 .. n, NEW j \in 1 .. n, i < j
       PROVE  key[s[i]] < key[s[j]]
  <2> HIDE DEF s
  <2>1. s[i] \in S /\ s[j] \in S /\ place[s[i]] = i /\ place[s[j]] = j
    BY Zenon, <1>10
  <2>2. key[s[i]] \in Nat /\ key[s[j]] \in Nat
    BY Zenon, <2>1
  <2>3. ~(key[s[j]] < key[s[i]])
    BY SMTT(30), <1>3, <1>11, <2>1
  <2>4. key[s[i]] # key[s[j]]
    BY SMTT(30), <1>11, <2>1
  <2> QED
    BY SMTT(30), <2>2, <2>3, <2>4
<1> QED
  BY ZenonT(30), <1>10, <1>11

(* A sorted enumeration reaches every element, each once. *)
LEMMA SortedAll ==
  ASSUME NEW S, IsFiniteSet(S), NEW key \in [S -> Nat],
         NEW s, SortedBy(s, S, key)
  PROVE  /\ Cardinality(S) \in Nat
         /\ \A i, j \in 1 .. Cardinality(S) : s[i] = s[j] => i = j
         /\ \A x \in S : \E i \in 1 .. Cardinality(S) : s[i] = x
<1> DEFINE n == Cardinality(S)
<1>1. n \in Nat /\ s \in [1 .. n -> S]
  BY Zenon, FS_CardinalityType DEF SortedBy
<1>2. \A i, j \in 1 .. n : s[i] = s[j] => i = j
  <2> SUFFICES ASSUME NEW i \in 1 .. n, NEW j \in 1 .. n, s[i] = s[j], i # j
               PROVE  FALSE
    BY Zenon
  <2>1. key[s[i]] \in Nat
    BY ZenonT(30), <1>1
  <2>2. i < j \/ j < i
    BY SMTT(30), <1>1
  <2> QED
    BY SMTT(30), <2>1, <2>2 DEF SortedBy
<1>3. s \in Injection(1 .. n, S)
  BY ZenonT(30), <1>1, <1>2 DEF Injection, IsInjective
<1>4. Cardinality(1 .. n) = n
  BY SMTT(30), <1>1, FS_Interval
<1>5. s \in Surjection(1 .. n, S)
  BY Zenon, <1>3, <1>4, FS_Injection
<1> QED
  BY Zenon, <1>1, <1>2, <1>5 DEF Surjection

LEMMA LargestKey ==
  ASSUME NEW S, IsFiniteSet(S), S # {}, NEW key \in [S -> Nat],
         \A x, y \in S : key[x] = key[y] => x = y
  PROVE  \E x \in S : \A y \in S : key[x] >= key[y]
<1> DEFINE n == Cardinality(S)
<1>1. PICK s \in [1 .. n -> S] : \A i, j \in 1 .. n : i < j => key[s[i]] < key[s[j]]
  BY Zenon, Sortable
<1>2. SortedBy(s, S, key)
  BY Zenon, <1>1 DEF SortedBy
<1>3. n \in Nat /\ \A x \in S : \E i \in 1 .. n : s[i] = x
  BY SMTT(30), <1>2, SortedAll
<1> HIDE DEF n
<1>4. n \in 1 .. n
  BY SMTT(30), <1>3
<1>5. ASSUME NEW y \in S PROVE key[s[n]] >= key[y]
  <2>1. PICK i \in 1 .. n : s[i] = y
    BY Zenon, <1>3
  <2>2. i < n => key[y] < key[s[n]]
    BY Zenon, <1>1, <1>4, <2>1
  <2>3. key[y] \in Nat /\ key[s[n]] \in Nat
    BY Zenon, <1>4
  <2> QED
    BY SMTT(30), <1>3, <2>1, <2>2, <2>3
<1> QED
  BY Zenon, <1>4, <1>5

LEMMA HeadsAreFinite == Finite
<1>1. IsFiniteSet(Head_) /\ Cardinality(Head_) = QSize
  <2>1. 0 \in Int /\ QSize - 1 \in Int /\ QSize \in Nat /\ QSize > 0
    BY SMTT(30), InflightAssumption
  <2> QED
    BY SMTT(30), <2>1, FS_Interval DEF Head_
<1>2. ASSUME NEW S \in SUBSET Head_
      PROVE  IsFiniteSet(S) /\ Cardinality(S) \in 0 .. QSize
  <2>1. IsFiniteSet(S) /\ Cardinality(S) <= Cardinality(Head_)
    BY Zenon, <1>1, FS_Subset
  <2>2. Cardinality(S) \in Nat
    BY Zenon, <2>1, FS_CardinalityType
  <2> QED
    BY SMTT(30), <1>1, <2>1, <2>2, InflightAssumption
<1>3. ASSUME NEW S \in SUBSET Head_
      PROVE  /\ Cardinality(S) = 0 <=> S = {}
             /\ \A h \in S : Cardinality(S \ {h}) = Cardinality(S) - 1
             /\ \A h \in Head_ \ S : Cardinality(S \cup {h}) = Cardinality(S) + 1
  BY ZenonT(30), <1>2, FS_EmptySet, FS_RemoveElement, FS_AddElement
<1>4. ASSUME NEW S \in SUBSET Head_, NEW key \in [S -> Nat],
             \A x, y \in S : key[x] = key[y] => x = y
      PROVE  \E s : SortedBy(s, S, key)
  BY ZenonT(30), <1>2, <1>4, Sortable DEF SortedBy
<1>5. ASSUME NEW S \in SUBSET Head_, NEW key \in [S -> Nat],
             NEW s \in [1 .. Cardinality(S) -> S], SortedBy(s, S, key)
      PROVE  Once(s, S)
  BY SMTT(30), <1>2, <1>5, SortedAll DEF Once
<1>6. ASSUME NEW f \in [Head_ -> Head_], \A x, y \in Head_ : f[x] = f[y] => x = y,
             NEW h \in Head_
      PROVE  \E x \in Head_ : f[x] = h
  <2>1. f \in Injection(Head_, Head_)
    BY Zenon, <1>6 DEF Injection, IsInjective
  <2>2. f \in Surjection(Head_, Head_)
    BY Zenon, <1>1, <2>1, FS_Injection
  <2> QED
    BY Zenon, <2>2 DEF Surjection
<1>7. ASSUME NEW f \in [Head_ -> Nat]
      PROVE  \E h \in Head_ : \A g \in Head_ : f[h] >= f[g]
  <2> DEFINE S == {f[h] : h \in Head_}
             key == [x \in S |-> x]
  <2>1. f \in Surjection(Head_, S) /\ f[0] \in S
    BY SMTT(30), InflightAssumption DEF Surjection, Head_
  <2>2. IsFiniteSet(S) /\ S # {}
    BY Zenon, <1>1, <2>1, FS_Surjection
  <2>3. key \in [S -> Nat] /\ \A x, y \in S : key[x] = key[y] => x = y
    BY Zenon
  <2>4. \A x \in S : key[x] = x
    BY Zenon
  <2> HIDE DEF key
  <2>5. PICK x \in S : \A y \in S : key[x] >= key[y]
    <3> HIDE DEF S
    <3> QED
      BY ZenonT(30), <2>2, <2>3, LargestKey
  <2> QED
    BY SMTT(30), <2>4, <2>5
<1> QED
  BY Zenon, <1>2, <1>3, <1>4, <1>5, <1>6, <1>7 DEF Finite

(* The inductive invariant holds in every reachable state. *)
LEMMA AlwaysIInv == Spec => []IInv
<1>1. Init => IInv
  BY Zenon, InitIInv, HeadsAreFinite
<1>2. IInv /\ [Next]_vars => IInv'
  BY Zenon, NextIInv, HeadsAreFinite
<1> QED
  BY <1>1, <1>2, PTL DEF Spec

-----------------------------------------------------------------------------
(* Whatever store to the shared memory the server dies after, the next one *)
(* finds every request the guest waits for, once: marked in the inflight   *)
(* region, or in the available ring behind as many entries as are marked.  *)
THEOREM RecoverableAlways == Spec => []Recoverable
<1>1. IInv => Recoverable
  BY ZenonT(30), RecoverableFact, HeadsAreFinite
<1> QED
  BY <1>1, AlwaysIInv, PTL

(* virtq_dequeue_many gives the backend the requests in the order the      *)
(* guest made them, the resubmitted ones first.                            *)
THEOREM SubmissionOrderAlways == Spec => []SubmissionOrder
<1>1. IInv => SubmissionOrder
  BY Zenon DEF IInv, HandledInv
<1> QED
  BY <1>1, AlwaysIInv, PTL

(* The element the store of used->idx shows to the driver is one of a      *)
(* request that the driver waits for, so none is answered twice, not even  *)
(* by the server that follows one that died in virtq_push.                 *)
THEOREM UsedOnceAlways == Spec => UsedOnce
<1>1. IInv /\ [Next]_vars =>
        [used'.idx # used.idx => used.ring[used.idx % QSize] \in DeviceHeads]_vars
  BY Zenon, UsedOnceStep
<1> QED
  BY <1>1, AlwaysIInv, PTL DEF Spec, UsedOnce
=============================================================================
