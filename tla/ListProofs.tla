----------------------------- MODULE ListProofs -----------------------------
(***************************************************************************)
(* What the proofs need to know of lists: induction over the naturals and  *)
(* along a list, and what linking, unlinking and Keep do to the elements   *)
(* of a list and to their order.                                           *)
(*                                                                         *)
(* Induction is stated over a set instead of a predicate, so that the      *)
(* provers can use it; it follows from the well-foundedness of < on Nat.   *)
(***************************************************************************)
EXTENDS Lists, Functions, SequenceTheorems, WellFoundedInduction, TLAPS

(* A list without repetition. *)
Distinct(s) == \A i, j \in DOMAIN s : s[i] = s[j] => i = j

(* A set of naturals that is not empty has a least element. *)
LEMMA LeastNatural ==
  ASSUME NEW T, T \subseteq Nat, T # {}
  PROVE  \E n \in T : \A m \in T : n <= m
<1> DEFINE R == OpToRel(<, Nat)
<1>1. IsWellFoundedOn(R, Nat)
  BY NatLessThanWellFounded
<1>2. R = {ss \in Nat \X Nat : ss[1] < ss[2]}
  BY DEF OpToRel
<1> HIDE DEF R
<1>3. PICK n \in T : \A m \in T : <<m, n>> \notin R
  BY <1>1, WFMin
<1>4. ASSUME NEW m \in T PROVE n <= m
  <2>1. m \in Nat /\ n \in Nat /\ <<m, n>> \notin R
    BY <1>3
  <2>2. ~(m < n)
    BY <1>2, <2>1
  <2> QED BY <2>1, <2>2
<1> QED BY <1>3, <1>4

(* Induction over the naturals. *)
LEMMA Induction ==
  ASSUME NEW P, 0 \in P, \A n \in Nat : n \in P => n + 1 \in P
  PROVE  \A n \in Nat : n \in P
<1> DEFINE T == {n \in Nat : n \notin P}
<1>1. SUFFICES ASSUME T # {} PROVE FALSE
  OBVIOUS
<1>2. PICK n \in T : \A m \in T : n <= m
  BY <1>1, LeastNatural
<1>3. n \in Nat /\ n # 0 /\ n - 1 \in Nat /\ n - 1 \notin T
  BY <1>2
<1>4. n - 1 \in P /\ (n - 1) + 1 = n
  BY <1>3
<1> QED BY <1>2, <1>3, <1>4

-----------------------------------------------------------------------------
(* Linking and unlinking.                                                  *)

(* What holds of an empty list. *)
LEMMA EmptyFacts == Range(<<>>) = {} /\ Distinct(<<>>) /\ \A S : <<>> \in Seq(S)
BY DEF Range, Distinct

(* A list without elements is empty. *)
LEMMA NoElement ==
  ASSUME NEW S, NEW s \in Seq(S), Range(s) = {}
  PROVE  s = <<>>
<1>1. 1 \notin DOMAIN s
  BY DEF Range
<1> QED BY <1>1

(* Linking an element in front of a list that does not have it. *)
LEMMA ConsFacts ==
  ASSUME NEW S, NEW s \in Seq(S), NEW b \in S
  PROVE  /\ <<b>> \o s \in Seq(S)
         /\ <<b>> \o s # <<>>
         /\ Range(<<b>> \o s) = {b} \cup Range(s)
         /\ Distinct(s) /\ b \notin Range(s) => Distinct(<<b>> \o s)
<1> DEFINE c == <<b>> \o s
<1>1. /\ c \in Seq(S) /\ Len(c) = Len(s) + 1 /\ DOMAIN c = 1 .. Len(c)
      /\ c[1] = b /\ \A i \in 1 .. Len(s) : c[i + 1] = s[i]
  OBVIOUS
<1>2. DOMAIN s = 1 .. Len(s) /\ Len(s) \in Nat
  OBVIOUS
<1>3. \A i \in 1 .. Len(c) : i = 1 \/ (i - 1 \in 1 .. Len(s) /\ c[i] = s[i - 1])
  BY <1>1, <1>2
<1>4. Range(c) = {b} \cup Range(s)
  <2>1. ASSUME NEW x \in Range(c) PROVE x \in {b} \cup Range(s)
    BY <1>1, <1>2, <1>3 DEF Range
  <2>2. ASSUME NEW x \in {b} \cup Range(s) PROVE x \in Range(c)
    <3>1. CASE x = b
      BY <1>1, <1>2, <3>1 DEF Range
    <3>2. CASE x \in Range(s)
      <4>1. PICK i \in 1 .. Len(s) : s[i] = x
        BY <1>2, <3>2 DEF Range
      <4>2. i + 1 \in DOMAIN c /\ c[i + 1] = x
        BY <4>1, <1>1, <1>2
      <4> QED BY <4>2 DEF Range
    <3> QED BY <3>1, <3>2
  <2> QED BY <2>1, <2>2
<1>5. Distinct(s) /\ b \notin Range(s) => Distinct(c)
  BY <1>1, <1>2, <1>3 DEF Distinct, Range
<1> QED BY <1>1, <1>4, <1>5

(* Unlinking the head of a list. *)
LEMMA TailFacts ==
  ASSUME NEW S, NEW s \in Seq(S), s # <<>>
  PROVE  /\ Head(s) \in S /\ Tail(s) \in Seq(S)
         /\ Range(s) = {Head(s)} \cup Range(Tail(s))
         /\ Distinct(s) => Distinct(Tail(s)) /\ Head(s) \notin Range(Tail(s))
<1> DEFINE t == Tail(s)
<1>1. /\ Len(s) \in Nat /\ Len(s) > 0 /\ DOMAIN s = 1 .. Len(s)
      /\ Head(s) = s[1] /\ Head(s) \in S
  OBVIOUS
<1>2. /\ t \in Seq(S) /\ Len(t) = Len(s) - 1 /\ DOMAIN t = 1 .. Len(t)
      /\ \A i \in 1 .. Len(t) : t[i] = s[i + 1]
  OBVIOUS
<1>3. \A i \in 1 .. Len(s) : i = 1 \/ (i - 1 \in 1 .. Len(t) /\ s[i] = t[i - 1])
  BY <1>1, <1>2
<1>4. ASSUME NEW x \in Range(s) PROVE x \in {Head(s)} \cup Range(t)
  <2>1. PICK i \in 1 .. Len(s) : s[i] = x
    BY <1>1 DEF Range
  <2>2. CASE i = 1
    BY <1>1, <2>1, <2>2
  <2>3. CASE i - 1 \in DOMAIN t /\ x = t[i - 1]
    BY <2>3 DEF Range
  <2> QED BY <1>2, <1>3, <2>1, <2>2, <2>3
<1>5. ASSUME NEW x \in Range(t) PROVE x \in Range(s)
  <2>1. PICK i \in 1 .. Len(t) : t[i] = x
    BY <1>2 DEF Range
  <2>2. i + 1 \in DOMAIN s /\ s[i + 1] = x
    BY <1>1, <1>2, <2>1
  <2> QED BY <2>2 DEF Range
<1>6. Head(s) \in Range(s)
  BY <1>1 DEF Range
<1>7. ASSUME Distinct(s) PROVE Distinct(t)
  <2>1. ASSUME NEW i \in DOMAIN t, NEW j \in DOMAIN t, t[i] = t[j] PROVE i = j
    <3>1. i + 1 \in DOMAIN s /\ j + 1 \in DOMAIN s /\ s[i + 1] = s[j + 1]
      BY <1>1, <1>2, <2>1
    <3>2. i + 1 = j + 1
      BY <3>1, <1>7 DEF Distinct
    <3> QED BY <3>2, <1>2
  <2> QED BY <2>1 DEF Distinct
<1>8. ASSUME Distinct(s) PROVE Head(s) \notin Range(t)
  <2>1. SUFFICES ASSUME NEW i \in DOMAIN t, t[i] = Head(s) PROVE FALSE
    BY DEF Range
  <2>2. i + 1 \in DOMAIN s /\ s[i + 1] = s[1] /\ 1 \in DOMAIN s
    BY <1>1, <1>2, <2>1
  <2>3. i + 1 = 1
    BY <2>2, <1>8 DEF Distinct
  <2> QED BY <2>3, <1>2
<1>9. Range(s) = {Head(s)} \cup Range(t)
  BY <1>4, <1>5, <1>6
<1> QED BY <1>1, <1>2, <1>7, <1>8, <1>9

(* Linking an element at the end of a list that does not have it. *)
LEMMA AppendFacts ==
  ASSUME NEW S, NEW s \in Seq(S), NEW x \in S
  PROVE  /\ Append(s, x) \in Seq(S)
         /\ Append(s, x) # <<>>
         /\ Range(Append(s, x)) = Range(s) \cup {x}
         /\ Distinct(s) /\ x \notin Range(s) => Distinct(Append(s, x))
<1> DEFINE a == Append(s, x)
<1>1. /\ a \in Seq(S) /\ Len(a) = Len(s) + 1 /\ DOMAIN a = 1 .. Len(a)
      /\ a[Len(s) + 1] = x /\ \A i \in 1 .. Len(s) : a[i] = s[i]
      /\ a # <<>>
  BY AppendProperties
<1>2. DOMAIN s = 1 .. Len(s) /\ Len(s) \in Nat
  OBVIOUS
<1> HIDE DEF a
<1>3. \A i \in DOMAIN a : i = Len(s) + 1 \/ i \in DOMAIN s
  BY <1>1, <1>2
<1>4. Range(a) = Range(s) \cup {x}
  BY <1>1, <1>2, <1>3 DEF Range
<1>5. Distinct(s) /\ x \notin Range(s) => Distinct(a)
  BY <1>1, <1>2, <1>3 DEF Distinct, Range
<1> QED BY <1>1, <1>4, <1>5 DEF a

-----------------------------------------------------------------------------
(* What Keep computes.                                                     *)

(* The function that Keep is defined by. *)
Step(s, T, f, i) == IF s[i] \in T THEN Append(f[i - 1], s[i]) ELSE f[i - 1]

IsKept(s, T, f, n) == f = [i \in 0 .. n |-> IF i = 0 THEN <<>> ELSE Step(s, T, f, i)]

(* There is one: it is built element by element. *)
LEMMA KeptExists ==
  ASSUME NEW s, NEW T
  PROVE  \A n \in Nat : \E f : IsKept(s, T, f, n)
<1> DEFINE P == {n \in Nat : \E f : IsKept(s, T, f, n)}
<1>1. 0 \in P
  <2> DEFINE f == [i \in 0 .. 0 |-> <<>>]
  <2>1. IsKept(s, T, f, 0)
    BY DEF IsKept
  <2> QED BY <2>1
<1>2. ASSUME NEW n \in Nat, n \in P PROVE n + 1 \in P
  <2>1. PICK f : IsKept(s, T, f, n)
    BY <1>2
  <2> DEFINE g == [i \in 0 .. n + 1 |-> IF i \in 0 .. n THEN f[i] ELSE Step(s, T, f, i)]
             h == [i \in 0 .. n + 1 |-> IF i = 0 THEN <<>> ELSE Step(s, T, g, i)]
  <2>2. \A i \in 0 .. n : g[i] = f[i]
    OBVIOUS
  <2>3. \A i \in 0 .. n : f[i] = IF i = 0 THEN <<>> ELSE Step(s, T, f, i)
    BY <2>1 DEF IsKept
  <2>4. ASSUME NEW i \in 0 .. n + 1 PROVE g[i] = h[i]
    <3>1. CASE i = 0
      BY <3>1, <2>3
    <3>2. CASE i # 0
      <4>1. i - 1 \in 0 .. n
        BY <3>2
      <4>2. Step(s, T, g, i) = Step(s, T, f, i)
        BY <4>1, <2>2 DEF Step
      <4>3. g[i] = Step(s, T, f, i)
        BY <2>3, <3>2
      <4> QED BY <4>2, <4>3, <3>2
    <3> QED BY <3>1, <3>2
  <2>5. g = h
    BY <2>4
  <2>6. IsKept(s, T, g, n + 1)
    BY <2>5 DEF IsKept
  <2> QED BY <2>6
<1> HIDE DEF P
<1>3. \A n \in Nat : n \in P
  BY <1>1, <1>2, Induction
<1> QED BY <1>3 DEF P

Kept(s, T) == CHOOSE f : IsKept(s, T, f, Len(s))

(* Keep is computed as its definition says. *)
LEMMA KeepKept ==
  ASSUME NEW s, NEW T, Len(s) \in Nat
  PROVE  /\ Keep(s, T) = Kept(s, T)[Len(s)]
         /\ Kept(s, T)[0] = <<>>
         /\ \A i \in 1 .. Len(s) : Kept(s, T)[i] = Step(s, T, Kept(s, T), i)
<1>1. Keep(s, T) = Kept(s, T)[Len(s)]
  BY DEF Keep, Kept, IsKept, Step
<1>2. IsKept(s, T, Kept(s, T), Len(s))
  BY KeptExists DEF Kept
<1> QED BY <1>1, <1>2 DEF IsKept

(* Keep leaves the elements of T, none of them twice unless it was. *)
LEMMA KeepFacts ==
  ASSUME NEW S, NEW s \in Seq(S), NEW T
  PROVE  /\ Keep(s, T) \in Seq(S)
         /\ Range(Keep(s, T)) = Range(s) \cap T
         /\ Distinct(s) => Distinct(Keep(s, T))
<1> DEFINE k == Kept(s, T)
           Upto(n) == {s[i] : i \in 1 .. n}
           P == {n \in Nat : n <= Len(s) =>
                   /\ k[n] \in Seq(S)
                   /\ Range(k[n]) = Upto(n) \cap T
                   /\ Distinct(s) => Distinct(k[n])}
<1>1. /\ Len(s) \in Nat /\ DOMAIN s = 1 .. Len(s)
      /\ Keep(s, T) = k[Len(s)] /\ k[0] = <<>>
      /\ \A i \in 1 .. Len(s) : k[i] = IF s[i] \in T THEN Append(k[i - 1], s[i]) ELSE k[i - 1]
  BY KeepKept DEF Step
<1> HIDE DEF k
<1>2. 0 \in P
  <2>1. Upto(0) = {}
    OBVIOUS
  <2>2. k[0] \in Seq(S) /\ Range(k[0]) = {} /\ Distinct(k[0])
    BY <1>1, EmptyFacts
  <2> HIDE DEF Upto
  <2> QED BY <2>1, <2>2
<1>3. ASSUME NEW n \in Nat, n \in P PROVE n + 1 \in P
  <2>1. SUFFICES ASSUME n + 1 <= Len(s)
                 PROVE  /\ k[n + 1] \in Seq(S)
                        /\ Range(k[n + 1]) = Upto(n + 1) \cap T
                        /\ Distinct(s) => Distinct(k[n + 1])
    OBVIOUS
  <2>2. /\ k[n] \in Seq(S) /\ Range(k[n]) = Upto(n) \cap T
        /\ Distinct(s) => Distinct(k[n])
    BY <1>1, <1>3, <2>1
  <2>3. n + 1 \in 1 .. Len(s) /\ s[n + 1] \in S /\ (n + 1) - 1 = n
    BY <1>1, <2>1
  <2>4. k[n + 1] = IF s[n + 1] \in T THEN Append(k[n], s[n + 1]) ELSE k[n]
    BY <1>1, <2>3
  <2>5. Upto(n + 1) = Upto(n) \cup {s[n + 1]}
    <3>1. 1 .. n + 1 = (1 .. n) \cup {n + 1}
      OBVIOUS
    <3> QED BY <3>1
  <2>6. Distinct(s) => s[n + 1] \notin Upto(n)
    BY <1>1, <2>1, <2>3 DEF Distinct
  <2> HIDE DEF Upto
  <2>7. CASE s[n + 1] \in T
    BY <2>2, <2>3, <2>4, <2>5, <2>6, <2>7, AppendFacts
  <2>8. CASE s[n + 1] \notin T
    BY <2>2, <2>3, <2>4, <2>5, <2>8
  <2> QED BY <2>7, <2>8
<1>4. Len(s) \in P
  <2> HIDE DEF P
  <2> QED BY <1>1, <1>2, <1>3, Induction
<1>5. Upto(Len(s)) = Range(s)
  BY <1>1 DEF Range
<1> QED BY <1>1, <1>4, <1>5

(* Keep of a list and one element more. *)
LEMMA KeepAppend ==
  ASSUME NEW S, NEW s \in Seq(S), NEW x \in S, NEW T
  PROVE  Keep(Append(s, x), T) = IF x \in T THEN Append(Keep(s, T), x) ELSE Keep(s, T)
<1> DEFINE a == Append(s, x)
           k == Kept(s, T)
           l == Kept(a, T)
           P == {n \in Nat : n <= Len(s) => k[n] = l[n]}
<1>0. /\ a \in Seq(S) /\ Len(s) \in Nat /\ Len(a) = Len(s) + 1
      /\ a[Len(s) + 1] = x /\ \A i \in 1 .. Len(s) : a[i] = s[i]
  BY AppendProperties
<1> HIDE DEF a
<1>1. /\ Keep(s, T) = k[Len(s)] /\ k[0] = <<>>
      /\ \A i \in 1 .. Len(s) : k[i] = IF s[i] \in T THEN Append(k[i - 1], s[i]) ELSE k[i - 1]
  BY <1>0, KeepKept DEF Step
<1>2. /\ Keep(a, T) = l[Len(a)] /\ l[0] = <<>>
      /\ \A i \in 1 .. Len(a) : l[i] = IF a[i] \in T THEN Append(l[i - 1], a[i]) ELSE l[i - 1]
  BY <1>0, KeepKept DEF Step
<1> HIDE DEF k, l
<1>3. 0 \in P
  BY <1>1, <1>2
<1>4. ASSUME NEW n \in Nat, n \in P PROVE n + 1 \in P
  <2>1. SUFFICES ASSUME n + 1 <= Len(s) PROVE k[n + 1] = l[n + 1]
    OBVIOUS
  <2>2. k[n] = l[n] /\ n + 1 \in 1 .. Len(s) /\ n + 1 \in 1 .. Len(a) /\ (n + 1) - 1 = n
    BY <1>0, <1>4, <2>1
  <2> QED BY <1>0, <1>1, <1>2, <2>2
<1>5. k[Len(s)] = l[Len(s)]
  <2>1. Len(s) \in P
    <3> HIDE DEF P
    <3> QED BY <1>0, <1>3, <1>4, Induction
  <2> QED BY <1>0, <2>1
<1>6. /\ Len(a) \in 1 .. Len(a) /\ Len(a) - 1 = Len(s) /\ a[Len(a)] = x
  BY <1>0
<1> QED BY <1>1, <1>2, <1>5, <1>6 DEF a

(* Only what is in the list matters. *)
LEMMA KeepSame ==
  ASSUME NEW S, NEW s \in Seq(S), NEW T, NEW U, Range(s) \cap T = Range(s) \cap U
  PROVE  Keep(s, T) = Keep(s, U)
<1> DEFINE k == Kept(s, T)
           l == Kept(s, U)
           P == {n \in Nat : n <= Len(s) => k[n] = l[n]}
<1>1. /\ Keep(s, T) = k[Len(s)] /\ k[0] = <<>>
      /\ \A i \in 1 .. Len(s) : k[i] = IF s[i] \in T THEN Append(k[i - 1], s[i]) ELSE k[i - 1]
  BY KeepKept DEF Step
<1>2. /\ Keep(s, U) = l[Len(s)] /\ l[0] = <<>>
      /\ \A i \in 1 .. Len(s) : l[i] = IF s[i] \in U THEN Append(l[i - 1], s[i]) ELSE l[i - 1]
  BY KeepKept DEF Step
<1>3. \A i \in 1 .. Len(s) : s[i] \in T <=> s[i] \in U
  BY DEF Range
<1> HIDE DEF k, l
<1>4. 0 \in P
  BY <1>1, <1>2
<1>5. ASSUME NEW n \in Nat, n \in P PROVE n + 1 \in P
  <2>1. SUFFICES ASSUME n + 1 <= Len(s) PROVE k[n + 1] = l[n + 1]
    OBVIOUS
  <2>2. k[n] = l[n] /\ n + 1 \in 1 .. Len(s) /\ (n + 1) - 1 = n
    BY <1>5, <2>1
  <2> QED BY <1>1, <1>2, <1>3, <2>2
<1>6. Len(s) \in P
  <2> HIDE DEF P
  <2> QED BY <1>4, <1>5, Induction
<1> QED BY <1>1, <1>2, <1>6

(* Keep goes through a list and then through what follows it. *)
LEMMA KeepConcat ==
  ASSUME NEW S, NEW s \in Seq(S), NEW t \in Seq(S), NEW T
  PROVE  Keep(s \o t, T) = Keep(s, T) \o Keep(t, T)
<1> DEFINE c == s \o t
           k == Kept(s, T)
           l == Kept(t, T)
           m == Kept(c, T)
           P == {n \in Nat : n <= Len(s) => m[n] = k[n]}
           Q == {n \in Nat : n <= Len(t) => l[n] \in Seq(S) /\ m[Len(s) + n] = Keep(s, T) \o l[n]}
<1>1. /\ c \in Seq(S) /\ Len(s) \in Nat /\ Len(t) \in Nat
      /\ Len(c) = Len(s) + Len(t) /\ Len(c) \in Nat
      /\ \A i \in 1 .. Len(s) : c[i] = s[i]
      /\ \A i \in 1 .. Len(t) : c[Len(s) + i] = t[i] /\ t[i] \in S
  OBVIOUS
<1> HIDE DEF c
<1>2. /\ Keep(s, T) = k[Len(s)] /\ k[0] = <<>>
      /\ \A i \in 1 .. Len(s) : k[i] = IF s[i] \in T THEN Append(k[i - 1], s[i]) ELSE k[i - 1]
  BY KeepKept DEF Step
<1>3. /\ Keep(t, T) = l[Len(t)] /\ l[0] = <<>>
      /\ \A i \in 1 .. Len(t) : l[i] = IF t[i] \in T THEN Append(l[i - 1], t[i]) ELSE l[i - 1]
  BY KeepKept DEF Step
<1>4. /\ Keep(c, T) = m[Len(c)] /\ m[0] = <<>>
      /\ \A i \in 1 .. Len(c) : m[i] = IF c[i] \in T THEN Append(m[i - 1], c[i]) ELSE m[i - 1]
  <2>1. Len(c) \in Nat
    BY <1>1
  <2> QED BY <2>1, KeepKept DEF Step
<1> HIDE DEF k, l, m
<1>5. m[Len(s)] = k[Len(s)]
  <2>1. 0 \in P
    BY <1>2, <1>4
  <2>2. ASSUME NEW n \in Nat, n \in P PROVE n + 1 \in P
    <3>1. SUFFICES ASSUME n + 1 <= Len(s) PROVE m[n + 1] = k[n + 1]
      OBVIOUS
    <3>2. m[n] = k[n] /\ n + 1 \in 1 .. Len(s) /\ n + 1 \in 1 .. Len(c) /\ (n + 1) - 1 = n
      BY <1>1, <2>2, <3>1
    <3> QED BY <1>1, <1>2, <1>4, <3>2
  <2>3. Len(s) \in P
    <3> HIDE DEF P
    <3> QED BY <1>1, <2>1, <2>2, Induction
  <2> QED BY <1>1, <2>3
<1>6. Keep(s, T) \in Seq(S)
  BY KeepFacts
<1>7. 0 \in Q
  <2>1. Keep(s, T) \o <<>> = Keep(s, T) /\ <<>> \in Seq(S) /\ Len(s) + 0 = Len(s)
    BY <1>1, <1>6, ConcatEmptySeq
  <2> QED BY <1>2, <1>3, <1>5, <2>1
<1>8. ASSUME NEW n \in Nat, n \in Q PROVE n + 1 \in Q
  <2>1. SUFFICES ASSUME n + 1 <= Len(t)
                 PROVE  l[n + 1] \in Seq(S) /\ m[Len(s) + (n + 1)] = Keep(s, T) \o l[n + 1]
    OBVIOUS
  <2>2. /\ l[n] \in Seq(S) /\ m[Len(s) + n] = Keep(s, T) \o l[n]
        /\ n + 1 \in 1 .. Len(t) /\ (n + 1) - 1 = n
        /\ Len(s) + (n + 1) \in 1 .. Len(c) /\ (Len(s) + (n + 1)) - 1 = Len(s) + n
    BY <1>1, <1>8, <2>1
  <2>3. /\ c[Len(s) + (n + 1)] = t[n + 1] /\ t[n + 1] \in S
        /\ l[n + 1] = IF t[n + 1] \in T THEN Append(l[n], t[n + 1]) ELSE l[n]
        /\ m[Len(s) + (n + 1)] = IF t[n + 1] \in T THEN Append(m[Len(s) + n], t[n + 1])
                                  ELSE m[Len(s) + n]
    BY <1>1, <1>3, <1>4, <2>2
  <2>4. ASSUME NEW x \in Seq(S), NEW y \in Seq(S), NEW z \in S
        PROVE  Append(x \o y, z) = x \o Append(y, z) /\ Append(y, z) \in Seq(S)
    <3>1. x \o y \in Seq(S) /\ <<z>> \in Seq(S) /\ Append(y, z) \in Seq(S)
      OBVIOUS
    <3>2. (x \o y) \o <<z>> = x \o (y \o <<z>>)
      BY <3>1, ConcatAssociative
    <3> QED BY <3>1, <3>2, AppendIsConcat
  <2>5. CASE t[n + 1] \in T
    <3>1. /\ l[n + 1] = Append(l[n], t[n + 1])
          /\ m[Len(s) + (n + 1)] = Append(Keep(s, T) \o l[n], t[n + 1])
      BY <2>2, <2>3, <2>5
    <3>2. l[n] \in Seq(S) /\ t[n + 1] \in S
      BY <2>2, <2>3
    <3>3. /\ Append(Keep(s, T) \o l[n], t[n + 1]) = Keep(s, T) \o Append(l[n], t[n + 1])
          /\ Append(l[n], t[n + 1]) \in Seq(S)
      BY <1>6, <2>4, <3>2
    <3> QED BY <3>1, <3>3
  <2>6. CASE t[n + 1] \notin T
    BY <2>2, <2>3, <2>6
  <2> QED BY <2>5, <2>6
<1>9. Len(t) \in Q
  <2> HIDE DEF Q
  <2> QED BY <1>1, <1>7, <1>8, Induction
<1> QED BY <1>1, <1>3, <1>4, <1>9 DEF c
=============================================================================
