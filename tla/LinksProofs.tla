---------------------------- MODULE LinksProofs -----------------------------
(***************************************************************************)
(* Proofs about the transports of MCLinks: what they promise holds for     *)
(* every number of messages, every history and every size of a buffer.     *)
(***************************************************************************)
EXTENDS MCLinks, SequenceTheorems, WellFoundedInduction, FiniteSetTheorems, TLAPS

-----------------------------------------------------------------------------
(* Recursion.  What is true of 0, and of n + 1 when it is of n, is stated   *)
(* as a set of numbers.                                                     *)

(* A set of numbers that is not empty has a least one. *)
LEMMA LeastOf ==
  ASSUME NEW T \in SUBSET Nat, T # {}
  PROVE  \E x \in T : \A y \in T : x <= y
<1>1. IsWellFoundedOn(OpToRel(<, Nat), Nat)
  BY NatLessThanWellFounded
<1>2. \E x \in T : \A y \in T : ~(<<y, x>> \in OpToRel(<, Nat))
  BY <1>1, WFMin
<1>3. ASSUME NEW x \in Nat, NEW y \in Nat, ~(<<y, x>> \in OpToRel(<, Nat)) PROVE x <= y
  BY <1>3 DEF OpToRel
<1> QED
  BY <1>2, <1>3

(* Induction: a set with 0 that has with each number the next one is Nat.  *)
LEMMA Inductive ==
  ASSUME NEW P \in SUBSET Nat, 0 \in P, \A n \in P : n + 1 \in P
  PROVE  P = Nat
<1> SUFFICES ASSUME P # Nat PROVE FALSE
  OBVIOUS
<1>1. Nat \ P # {} /\ Nat \ P \in SUBSET Nat
  OBVIOUS
<1>2. PICK x \in Nat \ P : \A y \in Nat \ P : x <= y
  BY <1>1, LeastOf
<1>3. x - 1 \in Nat /\ ~(x <= x - 1)
  BY <1>2
<1>4. x - 1 \in P
  BY <1>2, <1>3
<1>5. x = (x - 1) + 1
  BY <1>2
<1> QED
  BY <1>2, <1>4, <1>5

\* g[i] is the first i sequences, joined.
Joins(g, seqs, n) == g = [i \in 1..n |-> IF i = 1 THEN seqs[i] ELSE g[i-1] \o seqs[i]]

(* FlattenSeq is the recursion it is defined by. *)
LEMMA FlattenDef ==
  ASSUME NEW seqs, Len(seqs) \in Nat \ {0}
  PROVE  \E g : Joins(g, seqs, Len(seqs)) /\ FlattenSeq(seqs) = g[Len(seqs)]
<1> DEFINE P == {n \in Nat : \E g : Joins(g, seqs, n)}
<1>1. 0 \in P
  <2>1. Joins([i \in 1..0 |-> 0], seqs, 0)
    BY DEF Joins
  <2> QED
    BY <2>1
<1>2. ASSUME NEW n \in P PROVE n + 1 \in P
  <2>1. PICK g : Joins(g, seqs, n)
    OBVIOUS
  <2> DEFINE h == [i \in 1..(n+1) |-> IF i <= n THEN g[i] ELSE IF i = 1 THEN seqs[i] ELSE g[i-1] \o seqs[i]]
  <2>2. \A i \in 1..n : g[i] = IF i = 1 THEN seqs[i] ELSE g[i-1] \o seqs[i]
    BY <2>1, Zenon DEF Joins
  <2>3. \A i \in 1..(n+1) : h[i] = IF i = 1 THEN seqs[i] ELSE h[i-1] \o seqs[i]
    <3> SUFFICES ASSUME NEW i \in 1..(n+1) PROVE h[i] = IF i = 1 THEN seqs[i] ELSE h[i-1] \o seqs[i]
      OBVIOUS
    <3>1. i # 1 => i - 1 \in 1..(n+1) /\ i - 1 <= n /\ h[i-1] = g[i-1]
      OBVIOUS
    <3>2. CASE i <= n
      <4>1. h[i] = g[i] /\ i \in 1..n
        BY <3>2
      <4> QED BY <4>1, <3>1, <2>2
    <3>3. CASE ~(i <= n)
      <4>1. h[i] = IF i = 1 THEN seqs[i] ELSE g[i-1] \o seqs[i]
        BY <3>3
      <4> HIDE DEF h
      <4> QED BY <4>1, <3>1
    <3> QED BY <3>2, <3>3
  <2>4. Joins(h, seqs, n + 1)
    <3>1. h = [i \in 1..(n+1) |-> h[i]]
      OBVIOUS
    <3> HIDE DEF h
    <3> QED BY <3>1, <2>3, Zenon DEF Joins
  <2> QED
    BY <2>4
<1>3. P = Nat
  <2> HIDE DEF P
  <2>1. P \in SUBSET Nat
    BY DEF P
  <2> QED BY <1>1, <1>2, <2>1, Inductive
<1>4. \E g : Joins(g, seqs, Len(seqs))
  BY <1>3
<1> DEFINE f == CHOOSE g : Joins(g, seqs, Len(seqs))
<1>5. Joins(f, seqs, Len(seqs))
  BY <1>4
<1>6. FlattenSeq(seqs) = f[Len(seqs)]
  BY Zenon DEF FlattenSeq, Joins
<1> QED
  BY <1>5, <1>6

(* Joining one more sequence puts it at the end. *)
LEMMA FlattenAppend ==
  ASSUME NEW S, NEW ss \in Seq(Seq(S)), NEW t \in Seq(S)
  PROVE  FlattenSeq(ss) \in Seq(S) /\ FlattenSeq(Append(ss, t)) = FlattenSeq(ss) \o t
<1> DEFINE tt == Append(ss, t)
           n == Len(ss)
<1>1. /\ n \in Nat /\ tt \in Seq(Seq(S)) /\ Len(tt) = n + 1 /\ tt[n + 1] = t
      /\ \A i \in 1..n : tt[i] = ss[i] /\ ss[i] \in Seq(S)
  BY AppendProperties
<1>2. PICK h : Joins(h, tt, n + 1) /\ FlattenSeq(tt) = h[n + 1]
  <2>1. Len(tt) \in Nat \ {0} /\ Len(tt) = n + 1
    BY <1>1
  <2> HIDE DEF tt, n
  <2>2. \E h : Joins(h, tt, Len(tt)) /\ FlattenSeq(tt) = h[Len(tt)]
    BY <2>1, FlattenDef
  <2> QED
    BY <2>1, <2>2
<1>3. \A i \in 1..(n + 1) : h[i] = IF i = 1 THEN tt[i] ELSE h[i - 1] \o tt[i]
  BY <1>2, Zenon DEF Joins
<1> HIDE DEF tt
<1>4. CASE n = 0
  <2>1. ss = <<>>
    BY <1>4, EmptySeq
  <2>2. FlattenSeq(ss) = <<>>
    BY <2>1 DEF FlattenSeq
  <2>3. FlattenSeq(tt) = t
    BY <1>1, <1>2, <1>3, <1>4
  <2> QED
    BY <2>2, <2>3, ConcatEmptySeq DEF tt
<1>5. CASE n # 0
  <2>1. PICK g : Joins(g, ss, n) /\ FlattenSeq(ss) = g[n]
    BY <1>1, <1>5, FlattenDef
  <2>2. \A i \in 1..n : g[i] = IF i = 1 THEN ss[i] ELSE g[i - 1] \o ss[i]
    BY <2>1, Zenon DEF Joins
  <2> DEFINE P == {k \in Nat : k \in 1..n => g[k] \in Seq(S) /\ h[k] = g[k]}
  <2>3. 0 \in P
    OBVIOUS
  <2>4. ASSUME NEW k \in P PROVE k + 1 \in P
    <3> SUFFICES ASSUME k + 1 \in 1..n PROVE g[k + 1] \in Seq(S) /\ h[k + 1] = g[k + 1]
      OBVIOUS
    <3>1. k + 1 \in 1..(n + 1) /\ k \in Nat /\ (k + 1) - 1 = k /\ tt[k + 1] = ss[k + 1] /\ ss[k + 1] \in Seq(S)
      BY <1>1, SMTT(30)
    <3>2. CASE k = 0
      <4>1. k + 1 = 1
        BY <3>2
      <4> QED
        BY <1>3, <2>2, <3>1, <4>1
    <3>3. CASE k # 0
      <4>1. g[k] \in Seq(S) /\ h[k] = g[k]
        BY <3>1, <3>3
      <4>2. k + 1 # 1
        BY <3>1, <3>3
      <4>3. g[k + 1] = g[k] \o ss[k + 1] /\ h[k + 1] = h[k] \o tt[k + 1]
        BY <1>3, <2>2, <3>1, <4>2
      <4> QED
        BY <3>1, <4>1, <4>3, ConcatProperties
    <3> QED
      BY <3>2, <3>3
  <2>5. P = Nat
    <3> HIDE DEF P
    <3>1. P \in SUBSET Nat
      BY DEF P
    <3> QED
      BY <2>3, <2>4, <3>1, Inductive
  <2>6. g[n] \in Seq(S) /\ h[n] = g[n]
    <3>1. n \in P /\ n \in 1..n
      BY <1>1, <1>5, <2>5
    <3> QED
      BY <3>1
  <2>7. h[n + 1] = h[n] \o t
    <3>1. n + 1 \in 1..(n + 1) /\ n + 1 # 1 /\ (n + 1) - 1 = n
      BY <1>1, <1>5
    <3> QED
      BY <1>1, <1>3, <3>1
  <2> QED
    BY <1>2, <2>1, <2>6, <2>7 DEF tt
<1> QED
  BY <1>4, <1>5

-----------------------------------------------------------------------------
(* Sequences of samples *)

\* The samples of a sequence are in the order they were sent, none twice.
Rising(s) == \A i, j \in DOMAIN s : i < j => s[i] < s[j]

\* Every sample of s was sent before every sample of t.
Before(s, t) == \A i \in DOMAIN s, j \in DOMAIN t : s[i] < t[j]

UpTo(s, n) == \A i \in DOMAIN s : s[i] <= n

(* Two sequences of samples, one sent before the other, are one sequence.  *)
LEMMA RisingConcat ==
  ASSUME NEW s \in Seq(Nat), NEW t \in Seq(Nat), Rising(s), Rising(t), Before(s, t)
  PROVE  s \o t \in Seq(Nat) /\ Rising(s \o t)
<1>1. s \o t \in Seq(Nat) /\ Len(s \o t) = Len(s) + Len(t)
  BY ConcatProperties
<1>2. \A i \in 1..(Len(s) + Len(t)) : (s \o t)[i] = IF i <= Len(s) THEN s[i] ELSE t[i - Len(s)]
  BY ConcatProperties
<1>3. DOMAIN (s \o t) = 1..(Len(s) + Len(t)) /\ DOMAIN s = 1..Len(s) /\ DOMAIN t = 1..Len(t)
  BY <1>1
<1>4. ASSUME NEW i \in DOMAIN (s \o t), NEW j \in DOMAIN (s \o t), i < j
      PROVE  (s \o t)[i] < (s \o t)[j]
  <2> DEFINE m == Len(s)
  <2>1. m \in Nat /\ Len(t) \in Nat
    OBVIOUS
  <2>2. i \in Int /\ j \in Int /\ i \in 1..(m + Len(t)) /\ j \in 1..(m + Len(t))
    BY <1>3, <2>1
  <2>3. CASE j <= m
    <3>1. (s \o t)[i] = s[i] /\ (s \o t)[j] = s[j]
      BY <1>2, <1>4, <2>1, <2>2, <2>3
    <3>2. i \in DOMAIN s /\ j \in DOMAIN s
      BY <1>3, <1>4, <2>1, <2>2, <2>3
    <3> QED
      BY <1>4, <3>1, <3>2 DEF Rising
  <2>4. CASE i > m
    <3>1. (s \o t)[i] = t[i - m] /\ (s \o t)[j] = t[j - m]
      BY <1>2, <1>4, <2>1, <2>2, <2>4
    <3>2. i - m \in DOMAIN t /\ j - m \in DOMAIN t /\ i - m < j - m
      BY <1>3, <1>4, <2>1, <2>2, <2>4
    <3> QED
      BY <3>1, <3>2 DEF Rising
  <2>5. CASE i <= m /\ j > m
    <3>1. (s \o t)[i] = s[i] /\ (s \o t)[j] = t[j - m]
      BY <1>2, <1>4, <2>1, <2>2, <2>5
    <3>2. i \in DOMAIN s /\ j - m \in DOMAIN t
      BY <1>3, <1>4, <2>1, <2>2, <2>5
    <3> QED
      BY <3>1, <3>2 DEF Before
  <2> QED
    BY <2>1, <2>2, <2>3, <2>4, <2>5
<1> QED
  BY <1>1, <1>4 DEF Rising

(* What is before, after or up to two sequences is so for both together.   *)
LEMMA BoundsConcat ==
  ASSUME NEW s \in Seq(Nat), NEW t \in Seq(Nat), NEW u \in Seq(Nat), NEW n \in Nat
  PROVE  /\ Before(s, u) /\ Before(t, u) => Before(s \o t, u)
         /\ Before(u, s) /\ Before(u, t) => Before(u, s \o t)
         /\ UpTo(s, n) /\ UpTo(t, n) => UpTo(s \o t, n)
<1>1. s \o t \in Seq(Nat) /\ Len(s \o t) = Len(s) + Len(t)
  BY ConcatProperties
<1>2. \A i \in 1..(Len(s) + Len(t)) : (s \o t)[i] = IF i <= Len(s) THEN s[i] ELSE t[i - Len(s)]
  BY ConcatProperties
<1>3. DOMAIN (s \o t) = 1..(Len(s) + Len(t)) /\ DOMAIN s = 1..Len(s) /\ DOMAIN t = 1..Len(t)
  BY <1>1
<1>4. ASSUME NEW i \in DOMAIN (s \o t)
      PROVE  \/ i \in DOMAIN s /\ (s \o t)[i] = s[i]
             \/ i - Len(s) \in DOMAIN t /\ (s \o t)[i] = t[i - Len(s)]
  BY <1>2, <1>3, <1>4
<1>5. Before(s, u) /\ Before(t, u) => Before(s \o t, u)
  BY <1>4 DEF Before
<1>6. Before(u, s) /\ Before(u, t) => Before(u, s \o t)
  BY <1>4 DEF Before
<1>7. UpTo(s, n) /\ UpTo(t, n) => UpTo(s \o t, n)
  BY <1>4 DEF UpTo
<1> QED
  BY <1>5, <1>6, <1>7

(* A sample that is newer than all of a sequence may follow it.            *)
LEMMA AppendNewer ==
  ASSUME NEW s \in Seq(Nat), NEW n \in Nat, Rising(s), UpTo(s, n)
  PROVE  /\ Append(s, n + 1) \in Seq(Nat)
         /\ Rising(Append(s, n + 1)) /\ UpTo(Append(s, n + 1), n + 1)
         /\ \A u \in Seq(Nat) : Before(u, s) /\ UpTo(u, n) => Before(u, Append(s, n + 1))
<1> DEFINE r == Append(s, n + 1)
<1>1. r \in Seq(Nat) /\ Len(r) = Len(s) + 1 /\ DOMAIN r = 1..(Len(s) + 1) /\ DOMAIN s = 1..Len(s)
  BY AppendProperties
<1>2. \A i \in DOMAIN r : IF i = Len(s) + 1 THEN r[i] = n + 1 ELSE i \in DOMAIN s /\ r[i] = s[i]
  BY <1>1, AppendProperties
<1>3. \A i \in DOMAIN s : s[i] \in Nat /\ s[i] < n + 1 /\ i < Len(s) + 1
  BY <1>1 DEF UpTo
<1> HIDE DEF r
<1>4. Rising(r)
  BY <1>1, <1>2, <1>3, SMTT(30) DEF Rising
<1>5. UpTo(r, n + 1)
  BY <1>1, <1>2, <1>3 DEF UpTo
<1>6. ASSUME NEW u \in Seq(Nat), Before(u, s), UpTo(u, n)
      PROVE  Before(u, r)
  <2> SUFFICES ASSUME NEW i \in DOMAIN u, NEW j \in DOMAIN r PROVE u[i] < r[j]
    BY DEF Before
  <2>1. u[i] \in Nat /\ u[i] <= n /\ u[i] < n + 1
    BY <1>6 DEF UpTo
  <2>2. r[j] = n + 1 \/ (j \in DOMAIN s /\ r[j] = s[j])
    BY <1>2
  <2>3. j \in DOMAIN s => u[i] < s[j]
    BY <1>6 DEF Before
  <2> QED
    BY <2>1, <2>2, <2>3
<1> QED
  BY <1>1, <1>4, <1>5, <1>6 DEF r

(* The newest samples of a sequence are where the sequence was.            *)
LEMMA LatestKeeps ==
  ASSUME NEW s \in Seq(Nat), NEW k \in Nat
  PROVE  /\ Latest(s, k) \in Seq(Nat)
         /\ Rising(s) => Rising(Latest(s, k))
         /\ \A n \in Nat : UpTo(s, n) => UpTo(Latest(s, k), n)
         /\ \A u \in Seq(Nat) : Before(u, s) => Before(u, Latest(s, k))
<1>1. CASE Len(s) <= k
  BY <1>1 DEF Latest
<1>2. CASE ~(Len(s) <= k)
  <2> DEFINE d == Len(s) - k
             r == SubSeq(s, d + 1, Len(s))
  <2>1. d \in Nat /\ d + 1 \in 1..(Len(s) + 1) /\ Len(s) \in Nat
    BY <1>2
  <2>2. r \in Seq(Nat) /\ Len(r) = k /\ DOMAIN r = 1..k /\ DOMAIN s = 1..Len(s)
    BY <2>1, SubSeqProperties
  <2>3. \A i \in 1..k : r[i] = s[d + i]
    BY <2>1, SubSeqProperties
  <2>4. \A i \in DOMAIN r : i \in Nat /\ d + i \in DOMAIN s /\ r[i] = s[d + i]
    BY <2>1, <2>2, <2>3, SMTT(30)
  <2>5. Latest(s, k) = r
    BY <1>2 DEF Latest
  <2> HIDE DEF d, r
  <2>6. Rising(s) => Rising(r)
    <3> SUFFICES ASSUME Rising(s), NEW i \in DOMAIN r, NEW j \in DOMAIN r, i < j
                 PROVE  r[i] < r[j]
      BY DEF Rising
    <3>1. d + i < d + j
      BY <2>1, <2>4
    <3> QED
      BY <3>1, <2>4 DEF Rising
  <2>7. \A n \in Nat : UpTo(s, n) => UpTo(r, n)
    BY <2>4 DEF UpTo
  <2>8. \A u \in Seq(Nat) : Before(u, s) => Before(u, r)
    BY <2>4 DEF Before
  <2> QED
    BY <2>2, <2>5, <2>6, <2>7, <2>8
<1> QED
  BY <1>1, <1>2

(* Taking the first sample of t to the end of s changes no order.          *)
LEMMA MoveHead ==
  ASSUME NEW s \in Seq(Nat), NEW t \in Seq(Nat), t # <<>>,
         Rising(s), Rising(t), Before(s, t)
  PROVE  /\ Append(s, Head(t)) \in Seq(Nat) /\ Tail(t) \in Seq(Nat)
         /\ Rising(Append(s, Head(t))) /\ Rising(Tail(t)) /\ Before(Append(s, Head(t)), Tail(t))
         /\ \A u \in Seq(Nat) : Before(u, s) /\ Before(u, t)
                               => Before(u, Append(s, Head(t))) /\ Before(u, Tail(t))
         /\ \A n \in Nat : UpTo(s, n) /\ UpTo(t, n)
                           => UpTo(Append(s, Head(t)), n) /\ UpTo(Tail(t), n)
<1> DEFINE h == Head(t)
           r == Append(s, h)
           q == Tail(t)
<1>1. h = t[1] /\ 1 \in DOMAIN t /\ h \in Nat /\ Len(t) \in Nat /\ DOMAIN t = 1..Len(t)
  <2>1. Len(t) \in Nat /\ Len(t) > 0 /\ DOMAIN t = 1..Len(t)
    BY EmptySeq
  <2>2. 1 \in DOMAIN t /\ h = t[1]
    BY <2>1
  <2> QED
    BY <2>1, <2>2, ElementOfSeq
<1>2. q \in Seq(Nat) /\ Len(q) = Len(t) - 1 /\ DOMAIN q = 1..(Len(t) - 1)
  BY HeadTailProperties
<1>3. \A i \in DOMAIN q : i \in Nat /\ i + 1 \in DOMAIN t /\ q[i] = t[i + 1] /\ 1 < i + 1
  BY <1>1, <1>2, HeadTailProperties
<1>4. r \in Seq(Nat) /\ Len(s) \in Nat /\ DOMAIN r = 1..(Len(s) + 1) /\ DOMAIN s = 1..Len(s)
  BY <1>1, AppendProperties
<1>5. \A i \in DOMAIN r : IF i = Len(s) + 1 THEN r[i] = h ELSE i \in DOMAIN s /\ r[i] = s[i]
  BY <1>1, <1>4, AppendProperties
<1> HIDE DEF h, r, q
<1>6. \A i \in DOMAIN s : s[i] < h
  BY <1>1 DEF Before
<1>7. Rising(r)
  BY <1>4, <1>5, <1>6, SMTT(30) DEF Rising
<1>8. Rising(q)
  <2> SUFFICES ASSUME NEW i \in DOMAIN q, NEW j \in DOMAIN q, i < j
               PROVE  q[i] < q[j]
    BY DEF Rising
  <2>1. i + 1 < j + 1
    BY <1>3
  <2> QED
    BY <2>1, <1>3 DEF Rising
<1>9. Before(r, q)
  <2> SUFFICES ASSUME NEW i \in DOMAIN r, NEW j \in DOMAIN q
               PROVE  r[i] < q[j]
    BY DEF Before
  <2>1. j + 1 \in DOMAIN t /\ q[j] = t[j + 1] /\ 1 < j + 1
    BY <1>3
  <2>2. h < q[j]
    BY <1>1, <2>1 DEF Rising
  <2>3. i \in DOMAIN s => s[i] < q[j]
    BY <2>1 DEF Before
  <2> QED
    BY <2>2, <2>3, <1>5
<1>10. ASSUME NEW u \in Seq(Nat), Before(u, s), Before(u, t)
       PROVE  Before(u, r) /\ Before(u, q)
  BY <1>1, <1>3, <1>5, <1>10 DEF Before
<1>11. ASSUME NEW n \in Nat, UpTo(s, n), UpTo(t, n)
       PROVE  UpTo(r, n) /\ UpTo(q, n)
  BY <1>1, <1>3, <1>5, <1>11 DEF UpTo
<1> QED
  BY <1>2, <1>4, <1>7, <1>8, <1>9, <1>10, <1>11 DEF h, r, q

(* The empty sequence is in order with every other.                        *)
LEMMA NoSamples ==
  /\ <<>> \in Seq(Nat) /\ Rising(<<>>)
  /\ \A n \in Nat : UpTo(<<>>, n)
  /\ \A u \in Seq(Nat) : Before(u, <<>>) /\ Before(<<>>, u)
  /\ \A u \in Seq(Nat) : u \o <<>> = u /\ <<>> \o u = u
<1>1. <<>> \in Seq(Nat) /\ DOMAIN <<>> = {}
  OBVIOUS
<1>2. Rising(<<>>)
  BY <1>1 DEF Rising
<1>3. \A n \in Nat : UpTo(<<>>, n)
  BY <1>1 DEF UpTo
<1>4. \A u \in Seq(Nat) : Before(u, <<>>) /\ Before(<<>>, u)
  BY <1>1 DEF Before
<1> QED
  BY <1>1, <1>2, <1>3, <1>4, ConcatEmptySeq

-----------------------------------------------------------------------------
(* iceoryx2 *)

IceType ==
  /\ DOMAIN iceSub = {"mode", "slice", "graph", "thread", "running", "loops", "chan", "value", "given"}
  /\ DOMAIN icePub = {"pc", "cycles", "todo", "any", "sent", "longest"}
  /\ DOMAIN service = {"sub", "pub", "toSub", "fromPub", "buffer", "history", "lost", "signal"}
  /\ iceSub.given \in Seq(Nat) /\ iceSub.chan \in Seq(Nat)
  /\ service.buffer \in Seq(Nat) /\ service.history \in Seq(Nat)
  /\ icePub.sent \in Nat

\* What was given is older than what is in the channel, and that older than
\* what is in the buffer; nothing is newer than the last sample sent.
OrderInv ==
  /\ Rising(iceSub.given) /\ Rising(iceSub.chan) /\ Rising(service.buffer)
  /\ Before(iceSub.given, iceSub.chan)
  /\ Before(iceSub.given, service.buffer) /\ Before(iceSub.chan, service.buffer)
  /\ UpTo(iceSub.given, icePub.sent) /\ UpTo(iceSub.chan, icePub.sent)
  /\ UpTo(service.buffer, icePub.sent)

\* The history that a late subscriber gets.
HistoryInv == Rising(service.history) /\ UpTo(service.history, icePub.sent)

\* The subscriber has nothing before the publisher connects to it, so that the
\* history repeats no sample; a node that polls in its cycle has no channel.
FirstInv ==
  /\ service.toSub \/ (iceSub.given = <<>> /\ iceSub.chan = <<>> /\ service.buffer = <<>>)
  /\ iceSub.mode = "Spin" => iceSub.chan = <<>>

IceInv == IceType /\ OrderInv /\ HistoryInv /\ FirstInv

\* A node that polls in its cycle has no thread.
ModeInv == iceSub.mode = "Spin" => iceSub.thread = "none"

\* What IceInv speaks of.
SubPart == <<DOMAIN iceSub, iceSub.mode, iceSub.given, iceSub.chan>>
PubPart == <<DOMAIN icePub, icePub.sent>>
ServicePart == <<DOMAIN service, service.toSub, service.buffer, service.history>>

(* A step that changes no sample keeps IceInv. *)
LEMMA IceFrame ==
  ASSUME IceInv, SubPart' = SubPart, PubPart' = PubPart, ServicePart' = ServicePart
  PROVE  IceInv'
<1>1. /\ DOMAIN iceSub' = DOMAIN iceSub /\ iceSub'.mode = iceSub.mode
      /\ iceSub'.given = iceSub.given /\ iceSub'.chan = iceSub.chan
  BY DEF SubPart
<1>2. DOMAIN icePub' = DOMAIN icePub /\ icePub'.sent = icePub.sent
  BY DEF PubPart
<1>3. /\ DOMAIN service' = DOMAIN service /\ service'.toSub = service.toSub
      /\ service'.buffer = service.buffer /\ service'.history = service.history
  BY DEF ServicePart
<1>4. IceType'
  BY <1>1, <1>2, <1>3 DEF IceInv, IceType
<1>5. OrderInv' /\ HistoryInv'
  BY <1>1, <1>2, <1>3 DEF IceInv, OrderInv, HistoryInv
<1>6. FirstInv'
  BY <1>1, <1>2, <1>3 DEF IceInv, FirstInv
<1> QED
  BY <1>4, <1>5, <1>6 DEF IceInv

(* A port that is dropped takes the buffer or the history with it.         *)
LEMMA IceDrops ==
  ASSUME IceInv, SubPart' = SubPart, PubPart' = PubPart,
         DOMAIN service' = DOMAIN service, service'.toSub = service.toSub,
         service'.buffer = service.buffer \/ service'.buffer = <<>>,
         service'.history = service.history \/ service'.history = <<>>
  PROVE  IceInv'
<1>1. /\ DOMAIN iceSub' = DOMAIN iceSub /\ iceSub'.mode = iceSub.mode
      /\ iceSub'.given = iceSub.given /\ iceSub'.chan = iceSub.chan
  BY DEF SubPart
<1>2. DOMAIN icePub' = DOMAIN icePub /\ icePub'.sent = icePub.sent
  BY DEF PubPart
<1>3. /\ <<>> \in Seq(Nat) /\ Rising(<<>>) /\ UpTo(<<>>, icePub.sent)
      /\ Before(iceSub.given, <<>>) /\ Before(iceSub.chan, <<>>)
  BY NoSamples DEF IceInv, IceType
<1>4. IceType'
  BY <1>1, <1>2, <1>3 DEF IceInv, IceType
<1>5. OrderInv'
  BY <1>1, <1>2, <1>3 DEF IceInv, OrderInv
<1>6. HistoryInv'
  BY <1>2, <1>3 DEF IceInv, HistoryInv
<1>7. FirstInv'
  BY <1>1 DEF IceInv, FirstInv
<1> QED
  BY <1>4, <1>5, <1>6, <1>7 DEF IceInv

(* The port of the publisher is dropped. *)
LEMMA PubDroppedStep ==
  ASSUME IceInv, SubPart' = SubPart, PubPart' = PubPart, service' = PubDropped(service)
  PROVE  IceInv'
<1>1. DOMAIN service = {"sub", "pub", "toSub", "fromPub", "buffer", "history", "lost", "signal"}
  BY DEF IceInv, IceType
<1>2. /\ DOMAIN service' = DOMAIN service /\ service'.toSub = service.toSub
      /\ service'.buffer = service.buffer \/ service'.buffer = <<>>
      /\ service'.history = <<>>
  BY <1>1 DEF PubDropped, BufferLost
<1> QED
  BY <1>2, IceDrops

(* A publisher that connects sends its history, to a subscriber that has    *)
(* nothing yet.                                                            *)
LEMMA PubConnectsStep ==
  ASSUME IceInv, Iceoryx2Assumption, NEW s,
         DOMAIN s = DOMAIN service, s.toSub = service.toSub,
         s.buffer = service.buffer, s.history = service.history,
         SubPart' = SubPart, PubPart' = PubPart, service' = PubConnects(s)
  PROVE  IceInv'
<1>1. CASE s.pub /\ s.sub /\ ~s.toSub
  <2> DEFINE fresh == Latest(s.history, BufferSize)
  <2>1. BufferSize \in Nat
    BY DEF BufferSize, Iceoryx2Assumption
  <2>2. iceSub.given = <<>> /\ iceSub.chan = <<>> /\ service.buffer = <<>>
    BY <1>1 DEF IceInv, FirstInv
  <2>3. s.history \in Seq(Nat) /\ Rising(s.history) /\ UpTo(s.history, icePub.sent) /\ icePub.sent \in Nat
    BY DEF IceInv, IceType, HistoryInv
  <2>4. s.buffer \o s.history = s.history
    BY <2>2, <2>3, NoSamples
  <2>5. fresh \in Seq(Nat) /\ Rising(fresh) /\ UpTo(fresh, icePub.sent)
    BY <2>1, <2>3, LatestKeeps
  <2>6. service' = [Filled(s, s.history) EXCEPT !.toSub = TRUE]
    BY <1>1 DEF PubConnects
  <2>14. /\ DOMAIN Filled(s, s.history) = DOMAIN s /\ Filled(s, s.history).buffer = fresh
         /\ Filled(s, s.history).history = s.history
    BY <2>4 DEF Filled, IceInv, IceType
  <2> HIDE DEF fresh
  <2>7. /\ DOMAIN service' = DOMAIN service /\ service'.toSub = TRUE
        /\ service'.buffer = fresh /\ service'.history = service.history
    BY <2>6, <2>14 DEF IceInv, IceType
  <2>8. /\ DOMAIN iceSub' = DOMAIN iceSub /\ iceSub'.mode = iceSub.mode
        /\ iceSub'.given = <<>> /\ iceSub'.chan = <<>>
    BY <2>2 DEF SubPart
  <2>9. DOMAIN icePub' = DOMAIN icePub /\ icePub'.sent = icePub.sent
    BY DEF PubPart
  <2>10. IceType'
    BY <2>5, <2>7, <2>8, <2>9, NoSamples DEF IceInv, IceType
  <2>11. OrderInv'
    BY <2>3, <2>5, <2>7, <2>8, <2>9, NoSamples DEF OrderInv
  <2>12. HistoryInv'
    BY <2>7, <2>9 DEF IceInv, HistoryInv
  <2>13. FirstInv'
    BY <2>7, <2>8 DEF FirstInv
  <2> QED
    BY <2>10, <2>11, <2>12, <2>13 DEF IceInv
<1>2. CASE ~(s.pub /\ s.sub /\ ~s.toSub)
  BY <1>2, IceFrame DEF PubConnects, ServicePart
<1> QED
  BY <1>1, <1>2

(* A sample that is sent is the newest one. *)
LEMMA DeliverStep ==
  ASSUME IceInv, Iceoryx2Assumption, SubPart' = SubPart,
         DOMAIN icePub' = DOMAIN icePub, icePub'.sent = icePub.sent + 1,
         service' = Deliver(service, icePub.sent + 1)
  PROVE  IceInv'
<1> DEFINE n == icePub.sent
           g == iceSub.given
           c == iceSub.chan
           b == service.buffer
           h == Latest(Append(service.history, n + 1), IceHistory)
           f == Latest(Append(b, n + 1), BufferSize)
<1>1. n \in Nat /\ g \in Seq(Nat) /\ c \in Seq(Nat) /\ b \in Seq(Nat) /\ service.history \in Seq(Nat)
  BY DEF IceInv, IceType
<1>2. BufferSize \in Nat /\ IceHistory \in Nat
  BY DEF BufferSize, Iceoryx2Assumption
<1>3. h \in Seq(Nat) /\ Rising(h) /\ UpTo(h, n + 1)
  <2>1. Rising(service.history) /\ UpTo(service.history, n)
    BY DEF IceInv, HistoryInv
  <2>2. /\ Append(service.history, n + 1) \in Seq(Nat)
        /\ Rising(Append(service.history, n + 1)) /\ UpTo(Append(service.history, n + 1), n + 1)
    BY <1>1, <2>1, AppendNewer
  <2> DEFINE a == Append(service.history, n + 1)
             m == n + 1
  <2>3. m \in Nat /\ a \in Seq(Nat) /\ Rising(a) /\ UpTo(a, m)
    BY <1>1, <2>2
  <2> HIDE DEF a, m
  <2>4. /\ Latest(a, IceHistory) \in Seq(Nat) /\ Rising(Latest(a, IceHistory))
        /\ UpTo(Latest(a, IceHistory), m)
    BY <1>2, <2>3, LatestKeeps
  <2> QED
    BY <2>4 DEF a, m
<1>4. f \in Seq(Nat) /\ Rising(f) /\ UpTo(f, n + 1) /\ Before(g, f) /\ Before(c, f)
  <2>1. Rising(b) /\ UpTo(b, n) /\ UpTo(g, n) /\ UpTo(c, n) /\ Before(g, b) /\ Before(c, b)
    BY DEF IceInv, OrderInv
  <2>2. /\ Append(b, n + 1) \in Seq(Nat)
        /\ Rising(Append(b, n + 1)) /\ UpTo(Append(b, n + 1), n + 1)
        /\ Before(g, Append(b, n + 1)) /\ Before(c, Append(b, n + 1))
    BY <1>1, <2>1, AppendNewer
  <2> DEFINE a == Append(b, n + 1)
             m == n + 1
  <2>3. m \in Nat /\ a \in Seq(Nat) /\ Rising(a) /\ UpTo(a, m) /\ Before(g, a) /\ Before(c, a)
    BY <1>1, <2>2
  <2> HIDE DEF a, m
  <2>4. /\ Latest(a, BufferSize) \in Seq(Nat) /\ Rising(Latest(a, BufferSize))
        /\ UpTo(Latest(a, BufferSize), m)
        /\ Before(g, Latest(a, BufferSize)) /\ Before(c, Latest(a, BufferSize))
    BY <1>1, <1>2, <2>3, LatestKeeps
  <2> QED
    BY <2>4 DEF a, m
<1>5. /\ DOMAIN service' = DOMAIN service /\ service'.toSub = service.toSub
      /\ service'.history = h /\ service'.buffer = IF service.sub /\ service.toSub THEN f ELSE b
  <2> DEFINE filled == IF service.sub /\ service.toSub THEN Filled(service, <<n + 1>>) ELSE service
  <2>1. b \o <<n + 1>> = Append(b, n + 1)
    BY <1>1, AppendIsConcat
  <2>2. /\ DOMAIN filled = DOMAIN service /\ filled.toSub = service.toSub
        /\ filled.history = service.history
        /\ filled.buffer = IF service.sub /\ service.toSub THEN f ELSE b
    BY <2>1 DEF Filled, IceInv, IceType
  <2>3. service' = [filled EXCEPT !.history = Latest(Append(@, n + 1), IceHistory)]
    BY DEF Deliver
  <2> HIDE DEF filled, f
  <2> QED
    BY <2>2, <2>3 DEF IceInv, IceType
<1>6. \A s \in Seq(Nat) : UpTo(s, n) => UpTo(s, n + 1)
  <2> SUFFICES ASSUME NEW s \in Seq(Nat), UpTo(s, n), NEW i \in DOMAIN s
               PROVE  s[i] <= n + 1
    BY DEF UpTo
  <2>1. s[i] \in Nat /\ s[i] <= n
    BY DEF UpTo
  <2> QED
    BY <1>1, <2>1
<1> HIDE DEF h, f
<1>7. /\ DOMAIN iceSub' = DOMAIN iceSub /\ iceSub'.mode = iceSub.mode
      /\ iceSub'.given = g /\ iceSub'.chan = c
  BY DEF SubPart
<1>8. IceType'
  <2>1. service'.buffer \in Seq(Nat)
    BY <1>1, <1>4, <1>5
  <2> QED
    BY <1>1, <1>3, <1>5, <1>7, <2>1 DEF IceInv, IceType
<1>9. HistoryInv'
  BY <1>3, <1>5 DEF HistoryInv
<1>10. OrderInv'
  <2>1. /\ Rising(g) /\ Rising(c) /\ Rising(b) /\ Before(g, c) /\ Before(g, b) /\ Before(c, b)
        /\ UpTo(g, n + 1) /\ UpTo(c, n + 1) /\ UpTo(b, n + 1)
    BY <1>1, <1>6 DEF IceInv, OrderInv
  <2>2. CASE service.sub /\ service.toSub
    <3>1. service'.buffer = f
      BY <1>5, <2>2
    <3> QED
      BY <1>4, <1>7, <2>1, <3>1 DEF OrderInv
  <2>3. CASE ~(service.sub /\ service.toSub)
    <3>1. service'.buffer = b
      BY <1>5, <2>3
    <3> QED
      BY <1>7, <2>1, <3>1 DEF OrderInv
  <2> QED
    BY <2>2, <2>3
<1>11. FirstInv'
  BY <1>5, <1>7 DEF IceInv, FirstInv
<1> QED
  BY <1>8, <1>9, <1>10, <1>11 DEF IceInv

(* Starting and cycling, the publisher keeps IceInv. *)
LEMMA IcePublisherStep ==
  ASSUME IceInv, Iceoryx2Assumption, IcePublisher
  PROVE  IceInv'
<1> USE DEF IceInv, IceType
<1>0. DOMAIN icePub = {"pc", "cycles", "todo", "any", "sent", "longest"}
  OBVIOUS
<1>1. iceSub' = iceSub
  BY DEF IcePublisher, PubStart, PubStartSlice, PubSignal, PubCycle, PubCycleFails, PubSend,
         PubSendSlice, PubNotify, PubStop
<1>2. SubPart' = SubPart
  BY <1>1 DEF SubPart
<1>3. ASSUME UNCHANGED service, PubPart' = PubPart
      PROVE  IceInv'
  BY <1>2, <1>3, IceFrame DEF ServicePart
<1>4. ASSUME PubStart \/ PubStartSlice
      PROVE  IceInv'
  <2>1. PubPart' = PubPart
    BY <1>4 DEF PubStart, PubStartSlice, PubPart
  <2>2. service' = service \/ service' = PubConnects([service EXCEPT !.pub = TRUE])
    BY <1>4 DEF PubStart, PubStartSlice
  <2>3. CASE service' = PubConnects([service EXCEPT !.pub = TRUE])
    <3> DEFINE s == [service EXCEPT !.pub = TRUE]
    <3>1. /\ DOMAIN s = DOMAIN service /\ s.toSub = service.toSub
          /\ s.buffer = service.buffer /\ s.history = service.history
      OBVIOUS
    <3>2. service' = PubConnects(s)
      BY <2>3
    <3> HIDE DEF s
    <3> QED
      BY <1>2, <2>1, <3>1, <3>2, PubConnectsStep
  <2> QED
    BY <1>3, <2>1, <2>2, <2>3
<1>5. ASSUME PubSignal \/ PubCycleFails \/ PubStop
      PROVE  IceInv'
  <2>1. PubPart' = PubPart
    BY <1>5 DEF PubSignal, PubCycleFails, PubStop, PubPart
  <2>2. UNCHANGED service \/ service' = PubDropped(service)
    BY <1>5 DEF PubSignal, PubCycleFails, PubStop
  <2> QED
    BY <1>2, <1>3, <2>1, <2>2, PubDroppedStep
<1>6. ASSUME PubCycle
      PROVE  IceInv'
  <2>1. PubPart' = PubPart
    BY <1>6 DEF PubCycle, PubPart
  <2>2. service' = service \/ service' = PubConnects(service)
    BY <1>6 DEF PubCycle
  <2>3. CASE service' = PubConnects(service)
    BY <1>2, <2>1, <2>3, PubConnectsStep
  <2> QED
    BY <1>3, <2>1, <2>2, <2>3
<1>7. ASSUME PubSend \/ PubSendSlice
      PROVE  IceInv'
  <2>1. \/ icePub' = Sent /\ service' = Deliver(service, icePub.sent + 1)
        \/ icePub' = [icePub EXCEPT !.pc = "failed"] /\ UNCHANGED service
    BY <1>7 DEF PubSend, PubSendSlice
  <2>2. CASE icePub' = Sent /\ service' = Deliver(service, icePub.sent + 1)
    <3>1. DOMAIN icePub' = DOMAIN icePub /\ icePub'.sent = icePub.sent + 1
      BY <2>2 DEF Sent
    <3> QED
      BY <1>2, <2>2, <3>1, DeliverStep
  <2>3. CASE icePub' = [icePub EXCEPT !.pc = "failed"] /\ UNCHANGED service
    <3>1. PubPart' = PubPart
      BY <2>3 DEF PubPart
    <3> QED
      BY <1>3, <2>3, <3>1
  <2> QED
    BY <2>1, <2>2, <2>3
<1>8. ASSUME PubNotify
      PROVE  IceInv'
  <2>1. PubPart' = PubPart /\ ServicePart' = ServicePart
    BY <1>8 DEF PubNotify, PubPart, ServicePart
  <2> QED
    BY <1>2, <2>1, IceFrame
<1> QED
  BY <1>4, <1>5, <1>6, <1>7, <1>8 DEF IcePublisher

(* Connecting, the subscriber takes no sample. *)
LEMMA SubConnectsFrame ==
  ASSUME NEW s, DOMAIN s = {"sub", "pub", "toSub", "fromPub", "buffer", "history", "lost", "signal"}
  PROVE  /\ DOMAIN SubConnects(s) = DOMAIN s /\ SubConnects(s).toSub = s.toSub
         /\ SubConnects(s).buffer = s.buffer /\ SubConnects(s).history = s.history
BY DEF SubConnects

(* Whatever the graph hands on is what comes next. *)
LEMMA IceGraphStep ==
  ASSUME IceInv, IceGraph \/ IceStop
  PROVE  IceInv'
<1> DEFINE g == iceSub.given
           c == iceSub.chan
           b == service.buffer
           n == icePub.sent
           none == <<>>
<1>1. /\ DOMAIN iceSub = {"mode", "slice", "graph", "thread", "running", "loops", "chan", "value", "given"}
      /\ DOMAIN service = {"sub", "pub", "toSub", "fromPub", "buffer", "history", "lost", "signal"}
      /\ n \in Nat /\ g \in Seq(Nat) /\ c \in Seq(Nat) /\ b \in Seq(Nat)
  BY DEF IceInv, IceType
<1>2. icePub' = icePub /\ PubPart' = PubPart
  BY DEF IceGraph, IceSpinStart, ThreadStart, IceSpinCycle, ChannelCycle, IceJoin, IceStop, PubPart
<1>3. /\ Rising(g) /\ Rising(c) /\ Rising(b) /\ Before(g, c) /\ Before(g, b) /\ Before(c, b)
      /\ UpTo(g, n) /\ UpTo(c, n) /\ UpTo(b, n)
  BY DEF IceInv, OrderInv
<1>4. /\ none \in Seq(Nat) /\ Rising(none) /\ UpTo(none, n)
      /\ \A u \in Seq(Nat) : Before(u, none) /\ Before(none, u) /\ u \o none = u
  BY <1>1, NoSamples
<1> HIDE DEF none
<1>5. ASSUME IceSpinStart \/ ThreadStart \/ IceStop
      PROVE  IceInv'
  <2>1. SubPart' = SubPart
    BY <1>1, <1>5 DEF IceSpinStart, ThreadStart, IceStop, SubPart
  <2>2. ServicePart' = ServicePart
    BY <1>1, <1>5 DEF IceSpinStart, ThreadStart, IceStop, ServicePart, SubConnects
  <2> QED
    BY <1>2, <2>1, <2>2, IceFrame
<1>6. ASSUME IceSpinCycle
      PROVE  IceInv'
  <2> DEFINE now == IF (iceSub.loops + 1) % IceEvery = 0 THEN SubConnects(service) ELSE service
             value == IF now.fromPub THEN now.buffer ELSE <<>>
  <2>1. /\ iceSub' = [iceSub EXCEPT !.loops = (@ + 1) % IceEvery, !.value = value, !.given = @ \o value]
        /\ service' = IF now.fromPub THEN [now EXCEPT !.buffer = <<>>] ELSE now
    BY <1>6 DEF IceSpinCycle, Burst
  <2>2. /\ DOMAIN now = DOMAIN service /\ now.toSub = service.toSub
        /\ now.buffer = service.buffer /\ now.history = service.history
    BY <1>1, SubConnectsFrame
  <2> HIDE DEF now
  <2>3. c = none
    BY <1>6 DEF IceSpinCycle, Polling, IceInv, FirstInv, none
  <2>4. CASE now.fromPub
    <3>1. /\ DOMAIN iceSub' = DOMAIN iceSub /\ iceSub'.mode = iceSub.mode
          /\ iceSub'.given = g \o b /\ iceSub'.chan = c
      BY <1>1, <2>1, <2>2, <2>4
    <3>2. /\ DOMAIN service' = DOMAIN service /\ service'.toSub = service.toSub
          /\ service'.buffer = none /\ service'.history = service.history
      BY <1>1, <2>1, <2>2, <2>4 DEF none
    <3>3. g \o b \in Seq(Nat) /\ Rising(g \o b) /\ UpTo(g \o b, n)
      BY <1>1, <1>3, RisingConcat, BoundsConcat
    <3>4. IceType'
      BY <1>2, <1>4, <3>1, <3>2, <3>3 DEF IceInv, IceType
    <3>5. OrderInv'
      BY <1>2, <1>3, <1>4, <2>3, <3>1, <3>2, <3>3 DEF OrderInv
    <3>6. HistoryInv'
      BY <1>2, <3>2 DEF IceInv, HistoryInv
    <3>7. service.toSub \/ (g = none /\ b = none)
      BY DEF IceInv, FirstInv, none
    <3>8. FirstInv'
      BY <1>4, <2>3, <3>1, <3>2, <3>7 DEF FirstInv, none
    <3> QED
      BY <3>4, <3>5, <3>6, <3>8 DEF IceInv
  <2>5. CASE ~now.fromPub
    <3>1. iceSub' = [iceSub EXCEPT !.loops = (@ + 1) % IceEvery, !.value = none, !.given = g \o none]
      BY <2>1, <2>5 DEF none
    <3>2. SubPart' = SubPart
      BY <1>1, <1>4, <3>1 DEF SubPart
    <3>3. ServicePart' = ServicePart
      BY <2>1, <2>2, <2>5 DEF ServicePart
    <3> QED
      BY <1>2, <3>2, <3>3, IceFrame
  <2> QED
    BY <2>4, <2>5
<1>7. ASSUME ChannelCycle
      PROVE  IceInv'
  <2>1. /\ DOMAIN iceSub' = DOMAIN iceSub /\ iceSub'.mode = iceSub.mode
        /\ iceSub'.given = g \o c /\ iceSub'.chan = none /\ service' = service
    BY <1>1, <1>7 DEF ChannelCycle, Burst, none
  <2>2. g \o c \in Seq(Nat) /\ Rising(g \o c) /\ UpTo(g \o c, n) /\ Before(g \o c, b)
    BY <1>1, <1>3, RisingConcat, BoundsConcat
  <2>3. IceType'
    BY <1>2, <1>4, <2>1, <2>2 DEF IceInv, IceType
  <2>4. OrderInv'
    BY <1>1, <1>2, <1>3, <1>4, <2>1, <2>2 DEF OrderInv
  <2>5. HistoryInv'
    BY <1>2, <2>1 DEF IceInv, HistoryInv
  <2>6. service.toSub \/ (g = none /\ c = none /\ b = none)
    BY DEF IceInv, FirstInv, none
  <2>7. FirstInv'
    BY <1>4, <2>1, <2>6 DEF FirstInv, none
  <2> QED
    BY <2>3, <2>4, <2>5, <2>7 DEF IceInv
<1>8. ASSUME IceJoin
      PROVE  IceInv'
  <2>1. /\ DOMAIN iceSub' = DOMAIN iceSub /\ iceSub'.mode = iceSub.mode
        /\ iceSub'.given = g /\ iceSub'.chan = none
    BY <1>1, <1>8 DEF IceJoin, none
  <2>6. /\ DOMAIN service' = DOMAIN service /\ service'.toSub = service.toSub
        /\ service'.buffer = none /\ service'.history = service.history
    BY <1>1, <1>8 DEF IceJoin, SubDropped, none
  <2>2. IceType'
    BY <1>2, <1>4, <2>1, <2>6 DEF IceInv, IceType
  <2>3. OrderInv'
    BY <1>1, <1>2, <1>3, <1>4, <2>1, <2>6 DEF OrderInv
  <2>4. HistoryInv'
    BY <1>2, <2>6 DEF IceInv, HistoryInv
  <2>5. FirstInv'
    BY <2>1, <2>6 DEF IceInv, FirstInv, none
  <2> QED
    BY <2>2, <2>3, <2>4, <2>5 DEF IceInv
<1> QED
  BY <1>5, <1>6, <1>7, <1>8 DEF IceGraph

(* The thread moves the oldest sample of the buffer to the channel. *)
LEMMA IceThreadStep ==
  ASSUME IceInv, ModeInv, IceThread
  PROVE  IceInv'
<1> DEFINE g == iceSub.given
           c == iceSub.chan
           b == service.buffer
           n == icePub.sent
<1>1. /\ DOMAIN iceSub = {"mode", "slice", "graph", "thread", "running", "loops", "chan", "value", "given"}
      /\ DOMAIN service = {"sub", "pub", "toSub", "fromPub", "buffer", "history", "lost", "signal"}
      /\ n \in Nat /\ g \in Seq(Nat) /\ c \in Seq(Nat) /\ b \in Seq(Nat)
  BY DEF IceInv, IceType
<1>2. icePub' = icePub /\ PubPart' = PubPart
  BY DEF IceThread, ThreadOpen, SignalOpen, SignalWait, PollLoop, ThreadReceive, ThreadReceived,
         SignalDrain, ThreadEnds, PubPart
<1>3. ASSUME ThreadOpen \/ SignalOpen \/ SignalWait \/ PollLoop \/ ThreadReceived \/ SignalDrain \/ ThreadEnds
      PROVE  IceInv'
  <2>1. SubPart' = SubPart
    BY <1>1, <1>3 DEF ThreadOpen, SignalOpen, SignalWait, PollLoop, ThreadReceived, SignalDrain,
                      ThreadEnds, ThreadFails, SubPart
  <2>2. /\ DOMAIN service' = DOMAIN service /\ service'.toSub = service.toSub
        /\ service'.buffer = b \/ service'.buffer = <<>>
        /\ service'.history = service.history
    BY <1>1, <1>3 DEF ThreadOpen, SignalOpen, SignalWait, PollLoop, ThreadReceived, SignalDrain,
                      ThreadEnds, ThreadFails, SubConnects, SubDropped
  <2> QED
    BY <1>2, <2>1, <2>2, IceDrops
<1>4. ASSUME ThreadReceive
      PROVE  IceInv'
  <2>1. b # <<>> /\ iceSub.mode # "Spin"
    BY <1>4 DEF ThreadReceive, HasSample, ModeInv
  <2>2. service.toSub
    BY <2>1 DEF IceInv, FirstInv
  <2> DEFINE d == Append(c, Head(b))
             q == Tail(b)
  <2>3. /\ DOMAIN iceSub' = DOMAIN iceSub /\ iceSub'.mode = iceSub.mode
        /\ iceSub'.given = g /\ iceSub'.chan = d
    BY <1>1, <1>4 DEF ThreadReceive
  <2>4. /\ DOMAIN service' = DOMAIN service /\ service'.toSub = service.toSub
        /\ service'.buffer = q /\ service'.history = service.history
    BY <1>1, <1>4 DEF ThreadReceive
  <2>5. /\ Rising(g) /\ Rising(c) /\ Rising(b) /\ Before(g, c) /\ Before(g, b) /\ Before(c, b)
        /\ UpTo(g, n) /\ UpTo(c, n) /\ UpTo(b, n)
    BY DEF IceInv, OrderInv
  <2>6. /\ d \in Seq(Nat) /\ q \in Seq(Nat) /\ Rising(d) /\ Rising(q) /\ Before(d, q)
        /\ Before(g, d) /\ Before(g, q) /\ UpTo(d, n) /\ UpTo(q, n)
    BY <1>1, <2>1, <2>5, MoveHead
  <2> HIDE DEF d, q
  <2>7. IceType'
    BY <1>2, <2>3, <2>4, <2>6 DEF IceInv, IceType
  <2>8. OrderInv'
    BY <1>2, <2>3, <2>4, <2>5, <2>6 DEF OrderInv
  <2>9. HistoryInv'
    BY <1>2, <2>4 DEF IceInv, HistoryInv
  <2>10. FirstInv'
    BY <2>1, <2>2, <2>3, <2>4 DEF FirstInv
  <2> QED
    BY <2>7, <2>8, <2>9, <2>10 DEF IceInv
<1> QED
  BY <1>3, <1>4 DEF IceThread

(* A connection that is given up loses what is in the buffer. *)
LEMMA ConnectionLostStep ==
  ASSUME IceInv, ConnectionLost
  PROVE  IceInv'
<1>1. SubPart' = SubPart /\ PubPart' = PubPart
  BY DEF ConnectionLost, SubPart, PubPart
<1>2. DOMAIN service = {"sub", "pub", "toSub", "fromPub", "buffer", "history", "lost", "signal"}
  BY DEF IceInv, IceType
<1>3. /\ DOMAIN service' = DOMAIN service /\ service'.toSub = service.toSub
      /\ service'.buffer = <<>> /\ service'.history = service.history
  BY <1>2 DEF ConnectionLost, BufferLost
<1> QED
  BY <1>1, <1>3, IceDrops

(* Only start() of a threaded node makes a thread. *)
LEMMA ModeStep ==
  ASSUME IceType, ModeInv, IceNext
  PROVE  ModeInv'
<1>1. DOMAIN iceSub = {"mode", "slice", "graph", "thread", "running", "loops", "chan", "value", "given"}
  BY DEF IceType
<1>2. CASE IcePublisher
  BY <1>2 DEF ModeInv, IcePublisher, PubStart, PubStartSlice, PubSignal, PubCycle, PubCycleFails,
              PubSend, PubSendSlice, PubNotify, PubStop
<1>3. CASE IceGraph
  <2>1. CASE ThreadStart
    BY <1>1, <2>1 DEF ModeInv, ThreadStart, Polling
  <2>2. CASE IceSpinStart \/ IceSpinCycle \/ ChannelCycle \/ IceJoin
    BY <1>1, <2>2 DEF ModeInv, IceSpinStart, IceSpinCycle, ChannelCycle, IceJoin
  <2> QED
    BY <1>3, <2>1, <2>2 DEF IceGraph
<1>4. CASE IceStop
  BY <1>1, <1>4 DEF ModeInv, IceStop
<1>5. CASE IceThread
  <2>1. iceSub.mode # "Spin"
    BY <1>5 DEF IceThread, ThreadOpen, SignalOpen, SignalWait, PollLoop, ThreadReceive,
                ThreadReceived, SignalDrain, ThreadEnds, ModeInv
  <2>2. iceSub'.mode = iceSub.mode
    BY <1>1, <1>5 DEF IceThread, ThreadOpen, SignalOpen, SignalWait, PollLoop, ThreadReceive,
                      ThreadReceived, SignalDrain, ThreadEnds, ThreadFails
  <2> QED
    BY <2>1, <2>2 DEF ModeInv
<1>6. CASE ConnectionLost
  BY <1>6 DEF ModeInv, ConnectionLost
<1> QED
  BY <1>2, <1>3, <1>4, <1>5, <1>6 DEF IceNext

(* Before anything has started there is no sample. *)
LEMMA IceInitInv ==
  ASSUME IceInit
  PROVE  IceInv /\ ModeInv
<1>1. PICK mode \in IceModes, slice \in IceSlices : iceSub = IceSubOpts(mode, slice)
  BY DEF IceInit
<1>2. /\ DOMAIN iceSub = {"mode", "slice", "graph", "thread", "running", "loops", "chan", "value", "given"}
      /\ iceSub.given = <<>> /\ iceSub.chan = <<>> /\ iceSub.thread = "none"
  BY <1>1 DEF IceSubOpts
<1>3. DOMAIN icePub = {"pc", "cycles", "todo", "any", "sent", "longest"} /\ icePub.sent = 0
  BY DEF IceInit, IcePubOpts
<1>4. /\ DOMAIN service = {"sub", "pub", "toSub", "fromPub", "buffer", "history", "lost", "signal"}
      /\ service.buffer = <<>> /\ service.history = <<>>
  BY DEF IceInit
<1>5. 0 \in Nat
  OBVIOUS
<1>6. IceType
  BY <1>2, <1>3, <1>4, <1>5, NoSamples DEF IceType
<1>7. OrderInv /\ HistoryInv
  BY <1>2, <1>3, <1>4, <1>5, NoSamples, ZenonT(40) DEF OrderInv, HistoryInv
<1>8. FirstInv /\ ModeInv
  BY <1>2, <1>4 DEF FirstInv, ModeInv
<1> QED
  BY <1>6, <1>7, <1>8 DEF IceInv

(* Every behaviour keeps the samples in order, wherever they are. *)
LEMMA IceInvariant == Spec => [](IceInv /\ ModeInv)
<1>1. Init => IceInv /\ ModeInv
  BY IceInitInv DEF Init
<1>2. ASSUME IceInv, ModeInv, Next
      PROVE  IceInv' /\ ModeInv'
  <2>1. CASE IceTurn
    <3>1. IceNext
      BY <2>1 DEF IceTurn
    <3>2. IceInv'
      BY <1>2, <3>1, Iceoryx2Assumption, IcePublisherStep, IceGraphStep, IceThreadStep,
         ConnectionLostStep DEF IceNext
    <3>3. ModeInv'
      BY <1>2, <3>1, ModeStep DEF IceInv
    <3> QED
      BY <3>2, <3>3
  <2>2. CASE FixTurn \/ AeronTurn
    <3>1. UNCHANGED iceVars
      BY <2>2 DEF FixTurn, AeronTurn
    <3> QED
      BY <1>2, <3>1 DEF iceVars, IceInv, IceType, OrderInv, HistoryInv, FirstInv, ModeInv
  <2> QED
    BY <1>2, <2>1, <2>2 DEF Next
<1>3. ASSUME IceInv, ModeInv, UNCHANGED vars
      PROVE  IceInv' /\ ModeInv'
  BY <1>3 DEF vars, iceVars, IceInv, IceType, OrderInv, HistoryInv, FirstInv, ModeInv
<1>4. IceInv /\ ModeInv /\ [Next]_vars => (IceInv /\ ModeInv)'
  BY <1>2, <1>3
<1> QED
  BY <1>1, <1>4, PTL DEF Spec

(* In every mode, with every history and size of a buffer, a subscriber    *)
(* that comes late or falls behind gets the samples in the order of        *)
(* sending and none of them twice.                                         *)
THEOREM SamplesStayInOrder == Spec => []SamplesInOrder
<1>1. IceInv => SamplesInOrder
  <2> SUFFICES ASSUME IceInv PROVE SamplesInOrder
    OBVIOUS
  <2> DEFINE g == iceSub.given
             c == iceSub.chan
             b == service.buffer
  <2>1. g \in Seq(Nat) /\ c \in Seq(Nat) /\ b \in Seq(Nat) /\ icePub.sent \in Nat
    BY DEF IceInv, IceType
  <2>2. Rising(g) /\ Rising(c) /\ Rising(b) /\ Before(g, c) /\ Before(g, b) /\ Before(c, b)
    BY DEF IceInv, OrderInv
  <2>3. g \o c \in Seq(Nat) /\ Rising(g \o c) /\ Before(g \o c, b)
    BY <2>1, <2>2, RisingConcat, BoundsConcat
  <2>4. Rising((g \o c) \o b)
    BY <2>1, <2>2, <2>3, RisingConcat
  <2> QED
    BY <2>4 DEF Rising, SamplesInOrder
<1> QED
  BY <1>1, IceInvariant, PTL

-----------------------------------------------------------------------------
(* Aeron *)

\* AeronStatus, and "none" for an item that is a fragment.
Statuses == {"none", "Connected", "Disconnected", "BackPressured", "Closed"}

\* What the thread puts into the channel.
AeronItem == [data : Nat, status : Statuses]

(* A fragment comes at the end of the burst, a status changes nothing in it. *)
LEMMA DataOfAppend ==
  ASSUME NEW items \in Seq(AeronItem), NEW m \in AeronItem
  PROVE  /\ DataOf(items) \in Seq(Nat)
         /\ m.status = "none" => DataOf(Append(items, m)) = Append(DataOf(items), m.data)
         /\ m.status # "none" => DataOf(Append(items, m)) = DataOf(items)
         /\ DataOf(<<>>) = <<>>
<1> DEFINE piece(x) == IF x.status = "none" THEN <<x.data>> ELSE <<>>
           ss == [i \in DOMAIN items |-> piece(items[i])]
           more == Append(items, m)
           rr == [i \in DOMAIN more |-> piece(more[i])]
<1>1. \A x \in AeronItem : piece(x) \in Seq(Nat)
  BY DEF AeronItem
<1>2. ss \in Seq(Seq(Nat)) /\ Len(ss) = Len(items)
  <2>1. \A i \in DOMAIN items : items[i] \in AeronItem
    OBVIOUS
  <2>2. DOMAIN items = 1..Len(items) /\ Len(items) \in Nat
    OBVIOUS
  <2> HIDE DEF piece
  <2> QED
    BY <1>1, <2>1, <2>2
<1>3. rr = Append(ss, piece(m))
  <2>1. more \in Seq(AeronItem) /\ Len(more) = Len(items) + 1 /\ DOMAIN more = 1..(Len(items) + 1)
        /\ DOMAIN items = 1..Len(items) /\ Len(items) \in Nat
        /\ more[Len(items) + 1] = m /\ \A i \in 1..Len(items) : more[i] = items[i]
    BY AppendProperties
  <2> DEFINE n == Len(items)
  <2>2. piece(m) \in Seq(Nat)
    BY <1>1
  <2> HIDE DEF piece, more, n
  <2>3. DOMAIN rr = 1..(n + 1) /\ DOMAIN Append(ss, piece(m)) = 1..(n + 1)
    BY <1>2, <2>1, <2>2 DEF n
  <2>4. \A i \in 1..(n + 1) : rr[i] = Append(ss, piece(m))[i]
    BY <1>2, <2>1, <2>2 DEF n
  <2>5. rr = [i \in 1..(n + 1) |-> rr[i]]
    BY <2>1 DEF n
  <2>6. Append(ss, piece(m)) = [i \in 1..(n + 1) |-> Append(ss, piece(m))[i]]
    BY <1>2, <2>1, <2>2 DEF n
  <2> QED
    BY <2>4, <2>5, <2>6
<1>4. DataOf(items) = FlattenSeq(ss) /\ DataOf(more) = FlattenSeq(rr)
  BY DEF DataOf
<1>5. piece(m) \in Seq(Nat)
  BY <1>1
<1>6. FlattenSeq(ss) \in Seq(Nat) /\ FlattenSeq(rr) = FlattenSeq(ss) \o piece(m)
  <2> HIDE DEF ss, piece, rr
  <2> QED
    BY <1>2, <1>3, <1>5, FlattenAppend
<1>7. DataOf(<<>>) = <<>>
  <2>1. [i \in DOMAIN <<>> |-> piece(<<>>[i])] = <<>>
    OBVIOUS
  <2>2. DataOf(<<>>) = FlattenSeq(<<>>)
    BY <2>1, Zenon DEF DataOf
  <2> QED
    BY <2>2 DEF FlattenSeq
<1>8. ASSUME m.status = "none" PROVE DataOf(more) = Append(DataOf(items), m.data)
  <2>1. piece(m) = <<m.data>> /\ m.data \in Nat
    BY <1>8 DEF AeronItem
  <2>2. \A s \in Seq(Nat) : s \o <<m.data>> = Append(s, m.data)
    BY <2>1
  <2> QED
    BY <1>4, <1>6, <2>1, <2>2
<1>9. ASSUME m.status # "none" PROVE DataOf(more) = DataOf(items)
  <2>1. piece(m) = <<>>
    BY <1>9
  <2> QED
    BY <1>4, <1>6, <2>1, ConcatEmptySeq
<1> QED
  BY <1>4, <1>6, <1>7, <1>8, <1>9

\* f[1..i] is what has been recorded of the first i items.
Folds(f, base, items, n) ==
  f = [s \in SUBSET (1..n) |-> IF s = {} THEN base ELSE RecordItem(f[s \ {Max(s)}], items[Max(s)])]

(* The fold takes the items in their order. *)
LEMMA MaxOfPrefix ==
  ASSUME NEW n \in Nat, NEW s \in SUBSET (1..(n + 1)), n + 1 \in s
  PROVE  Max(s) = n + 1
<1>1. \A y \in s : n + 1 >= y /\ y \in Nat
  OBVIOUS
<1> DEFINE P(x) == \A y \in s : x >= y
<1>2. n + 1 \in s /\ P(n + 1)
  BY <1>1
<1>3. \A x \in s : P(x) => x = n + 1
  BY <1>1
<1>4. Max(s) = CHOOSE x \in s : P(x)
  BY DEF Max
<1> HIDE DEF P
<1> QED
  BY <1>2, <1>3, <1>4

(* FoldLeft is the recursion it is defined by. *)
LEMMA FoldDef ==
  ASSUME NEW base, NEW items, NEW n \in Nat
  PROVE  \E f : Folds(f, base, items, n)
<1> DEFINE P == {k \in Nat : \E f : Folds(f, base, items, k)}
<1>1. 0 \in P
  <2> DEFINE f == [s \in SUBSET (1..0) |-> base]
  <2>1. \A s \in SUBSET (1..0) : s = {}
    OBVIOUS
  <2>2. Folds(f, base, items, 0)
    BY <2>1 DEF Folds
  <2> QED
    BY <2>2
<1>2. ASSUME NEW k \in P PROVE k + 1 \in P
  <2>1. PICK f : Folds(f, base, items, k)
    OBVIOUS
  <2>2. \A s \in SUBSET (1..k) : f[s] = IF s = {} THEN base ELSE RecordItem(f[s \ {Max(s)}], items[Max(s)])
    BY <2>1, Zenon DEF Folds
  <2> DEFINE h == [s \in SUBSET (1..(k + 1)) |->
                     IF k + 1 \in s THEN RecordItem(f[s \ {k + 1}], items[k + 1]) ELSE f[s]]
             g(s) == IF s = {} THEN base ELSE RecordItem(h[s \ {Max(s)}], items[Max(s)])
  <2>3. ASSUME NEW s \in SUBSET (1..(k + 1)) PROVE h[s] = g(s)
    <3>0. k \in Nat /\ k + 1 \notin 1..k
      OBVIOUS
    <3>1. CASE k + 1 \in s
      <4>1. Max(s) = k + 1
        BY <3>0, <3>1, MaxOfPrefix
      <4>2. s \ {k + 1} \in SUBSET (1..(k + 1)) /\ k + 1 \notin s \ {k + 1}
        OBVIOUS
      <4>3. h[s \ {k + 1}] = f[s \ {k + 1}]
        BY <4>2
      <4>4. h[s] = RecordItem(f[s \ {k + 1}], items[k + 1]) /\ s # {}
        BY <3>1
      <4> HIDE DEF h
      <4> QED
        BY <4>1, <4>3, <4>4
    <3>2. CASE k + 1 \notin s
      <4>1. s \in SUBSET (1..k)
        BY <3>0, <3>2
      <4>2. h[s] = f[s]
        BY <3>2
      <4>3. \A r \in SUBSET s : h[r] = f[r]
        BY <3>2
      <4>4. s \ {Max(s)} \in SUBSET s
        OBVIOUS
      <4> HIDE DEF h
      <4> QED
        BY <2>2, <4>1, <4>2, <4>3, <4>4
    <3> QED
      BY <3>1, <3>2
  <2>4. h = [s \in SUBSET (1..(k + 1)) |-> h[s]]
    OBVIOUS
  <2>5. Folds(h, base, items, k + 1)
    <3> HIDE DEF h
    <3> QED
      BY <2>3, <2>4, Zenon DEF Folds
  <2> QED
    BY <2>5
<1>3. P = Nat
  <2> HIDE DEF P
  <2>1. P \in SUBSET Nat
    BY DEF P
  <2> QED
    BY <1>1, <1>2, <2>1, Inductive
<1> QED
  BY <1>3

\* No status comes twice in a row.
Distinct(out) == \A i \in 1..(Len(out) - 1) : out[i] # out[i + 1]

\* The status that was told last.
LastOf(out, before) == IF out = <<>> THEN before ELSE out[Len(out)]

\* The transitions of s go on from the status told before.
Continues(s, before) ==
  /\ DOMAIN s = {"last", "out"} /\ s = [last |-> s.last, out |-> s.out]
  /\ s.last \in Statuses /\ s.out \in Seq(Statuses)
  /\ Distinct(s.out) /\ s.last = LastOf(s.out, before)
  /\ s.out # <<>> => s.out[1] # before

(* One more status is recorded. *)
LEMMA RecordContinues ==
  ASSUME NEW s, NEW before \in Statuses, Continues(s, before), NEW new \in Statuses
  PROVE  Continues(RecordStatus(s, new), before)
<1>1. CASE new = s.last
  BY <1>1 DEF RecordStatus
<1>2. CASE new # s.last
  <2> DEFINE r == RecordStatus(s, new)
             o == s.out
             n == Len(o)
  <2>1. r = [last |-> new, out |-> Append(o, new)]
    BY <1>2 DEF RecordStatus
  <2>2. o \in Seq(Statuses) /\ n \in Nat /\ Append(o, new) \in Seq(Statuses) /\ Len(Append(o, new)) = n + 1
        /\ Append(o, new)[n + 1] = new /\ \A i \in 1..n : Append(o, new)[i] = o[i]
    BY AppendProperties DEF Continues
  <2>3. Append(o, new) # <<>>
    <3>1. Len(Append(o, new)) # 0
      BY <2>2
    <3> QED
      BY <2>2, <3>1, EmptySeq
  <2>4. n # 0 => s.last = o[n]
    BY <2>2 DEF Continues, LastOf
  <2>5. n = 0 => s.last = before
    BY <2>2, EmptySeq DEF Continues, LastOf
  <2>6. Distinct(Append(o, new))
    <3> SUFFICES ASSUME NEW i \in 1..n PROVE Append(o, new)[i] # Append(o, new)[i + 1]
      BY <2>2 DEF Distinct
    <3>1. CASE i = n
      BY <1>2, <2>2, <2>4, <3>1
    <3>2. CASE i # n
      <4>1. i \in 1..(n - 1) /\ i + 1 \in 1..n
        BY <2>2, <3>2
      <4>2. o[i] # o[i + 1]
        BY <4>1 DEF Continues, Distinct
      <4> QED
        BY <2>2, <4>1, <4>2
    <3> QED
      BY <3>1, <3>2
  <2>7. Append(o, new)[1] # before
    <3>1. CASE n = 0
      BY <1>2, <2>2, <2>5, <3>1
    <3>2. CASE n # 0
      <4>1. 1 \in 1..n /\ o # <<>>
        BY <2>2, <3>2
      <4> QED
        BY <2>2, <4>1 DEF Continues
    <3> QED
      BY <3>1, <3>2
  <2>8. r.last = new /\ r.out = Append(o, new) /\ DOMAIN r = {"last", "out"}
    BY <2>1
  <2>9. r = [last |-> r.last, out |-> r.out]
    BY <2>1, <2>8
  <2>10. LastOf(Append(o, new), before) = new
    BY <2>2, <2>3 DEF LastOf
  <2> HIDE DEF r, o
  <2> QED
    BY <2>2, <2>6, <2>7, <2>8, <2>9, <2>10 DEF Continues, r
<1> QED
  BY <1>1, <1>2

(* All the statuses of a burst are recorded. *)
LEMMA FoldContinues ==
  ASSUME NEW base, NEW before \in Statuses, Continues(base, before), NEW items \in Seq(AeronItem)
  PROVE  Continues(FoldLeft(RecordItem, base, items), before)
<1> DEFINE n == Len(items)
<1>1. n \in Nat /\ DOMAIN items = 1..n /\ \A i \in 1..n : items[i].status \in Statuses
  <2>1. n \in Nat /\ DOMAIN items = 1..n
    OBVIOUS
  <2>2. \A i \in 1..n : items[i] \in AeronItem
    BY <2>1, ElementOfSeq
  <2> QED
    BY <2>1, <2>2 DEF AeronItem
<1> DEFINE f == CHOOSE f : Folds(f, base, items, n)
<1>2. Folds(f, base, items, n)
  BY <1>1, FoldDef
<1>3. FoldLeft(RecordItem, base, items) = f[1..n]
  BY <1>1, Zenon DEF FoldLeft, MapThenFoldSet, Folds
<1> HIDE DEF f, n
<1>4. \A s \in SUBSET (1..n) : f[s] = IF s = {} THEN base ELSE RecordItem(f[s \ {Max(s)}], items[Max(s)])
  BY <1>2, Zenon DEF Folds
<1> DEFINE P == {k \in Nat : k <= n => Continues(f[1..k], before)}
<1>5. 0 \in P
  <2>1. 1..0 = {} /\ 1..0 \in SUBSET (1..n)
    OBVIOUS
  <2>2. f[1..0] = base
    BY <1>4, <2>1
  <2> QED
    BY <2>2
<1>6. ASSUME NEW k \in P PROVE k + 1 \in P
  <2>0. k + 1 \in Nat
    OBVIOUS
  <2> SUFFICES ASSUME k + 1 <= n PROVE Continues(f[1..(k + 1)], before)
    BY <2>0, Zenon
  <2>1. k \in Nat /\ Continues(f[1..k], before)
    BY <1>1
  <2>2. 1..(k + 1) \in SUBSET (1..n) /\ k + 1 \in 1..(k + 1) /\ (1..(k + 1)) \ {k + 1} = 1..k /\ k + 1 \in 1..n
    BY <1>1, <2>1
  <2>3. Max(1..(k + 1)) = k + 1
    BY <2>1, <2>2, MaxOfPrefix
  <2>4. f[1..(k + 1)] = RecordItem(f[1..k], items[k + 1])
    BY <1>4, <2>2, <2>3
  <2>5. items[k + 1].status \in Statuses
    BY <1>1, <2>2
  <2> QED
    BY <2>1, <2>4, <2>5, RecordContinues DEF RecordItem
<1>7. P = Nat
  <2> HIDE DEF P
  <2>1. P \in SUBSET Nat
    BY DEF P
  <2> QED
    BY <1>5, <1>6, <2>1, Inductive
<1>8. Continues(f[1..n], before)
  <2>1. n \in P
    BY <1>1, <1>7
  <2> QED
    BY <1>1, <2>1
<1> QED
  BY <1>3, <1>8

\* Whether s is an AeronStatusStream.
IsStatusStream(s) ==
  /\ DOMAIN s = {"last", "out"} /\ s = [last |-> s.last, out |-> s.out]
  /\ s.last \in Statuses /\ s.out \in Seq(Statuses)

AeronType ==
  /\ term \in Seq([state : {"data", "claimed", "padding"}, parse : {"some", "skip"}])
  /\ DOMAIN publisher = {"pc", "todo", "outcome", "cycles", "status", "told"}
  /\ DOMAIN poller = {"mode", "backend", "watch", "pc", "pos", "count", "stop", "chan", "last", "value",
                      "status", "told", "given"}
  /\ publisher.outcome \in Statuses /\ publisher.told \in Seq(Statuses) /\ IsStatusStream(publisher.status)
  /\ poller.told \in Seq(Statuses) /\ IsStatusStream(poller.status)
  /\ poller.pos \in Nat /\ poller.pos <= Len(term)
  /\ poller.given \in Seq(Nat) /\ poller.value \in Seq(Nat) /\ poller.chan \in Seq(AeronItem)

\* A slot is read only once it is settled, and the one that is claimed is the
\* last: what has been read does not change.
ClaimInv ==
  /\ \A i \in 1..poller.pos : term[i].state # "claimed"
  /\ publisher.pc = "claim" => Len(term) > 0 /\ term[Len(term)].state = "claimed"

\* What has been read and not yet given to the graph.
Pending ==
  IF Threaded THEN DataOf(poller.chan)
  ELSE IF poller.pc \in {"open", "top", "stopped"} THEN <<>> ELSE poller.value

Accepted == {i \in 1..poller.pos : term[i] = Slot("data", "some")}

FragmentInv ==
  /\ Pending \in Seq(Nat)
  /\ Rising(poller.given) /\ Rising(Pending) /\ Before(poller.given, Pending)
  /\ ToSet(poller.given) \cup ToSet(Pending) = Accepted
  /\ poller.pc = "open" => poller.value = <<>> /\ poller.chan = <<>>

\* What a status stream has told goes as far as what it has recorded.
Told(s) == Distinct(s.told) /\ s.status.last = LastOf(s.told, "Disconnected")

StatusInv ==
  /\ Told(publisher) /\ Told(poller)
  /\ publisher.pc = "offer" => publisher.status.out = <<>>
  /\ (~Threaded /\ poller.pc \in {"poll", "closed", "connected"}) => poller.status.out = <<>>

AeronInv == AeronType /\ ClaimInv /\ FragmentInv /\ StatusInv

(* What is told next follows what was told. *)
LEMMA TellMore ==
  ASSUME NEW told \in Seq(Statuses), NEW last \in Statuses, NEW s,
         Distinct(told), last = LastOf(told, "Disconnected"), Continues(s, last)
  PROVE  /\ told \o s.out \in Seq(Statuses) /\ Distinct(told \o s.out)
         /\ s.last = LastOf(told \o s.out, "Disconnected")
<1> DEFINE o == s.out
           m == Len(told)
           n == Len(o)
           all == told \o o
<1>1. o \in Seq(Statuses) /\ m \in Nat /\ n \in Nat
  BY DEF Continues
<1>2. all \in Seq(Statuses) /\ Len(all) = m + n
      /\ \A i \in 1..(m + n) : all[i] = IF i <= m THEN told[i] ELSE o[i - m]
  BY <1>1, ConcatProperties
<1>3. n = 0 => o = <<>> /\ all = told
  BY <1>1, EmptySeq, ConcatEmptySeq
<1>4. /\ Distinct(o) /\ s.last = LastOf(o, last) /\ (o # <<>> => o[1] # last)
  BY DEF Continues
<1>5. n # 0 => o # <<>>
  BY EmptySeq
<1>6. m # 0 => last = told[m]
  <2>1. m # 0 => told # <<>>
    BY EmptySeq
  <2> QED
    BY <2>1 DEF LastOf
<1> HIDE DEF all, m, n
<1>7. Distinct(all)
  <2> SUFFICES ASSUME NEW i \in 1..(Len(all) - 1) PROVE all[i] # all[i + 1]
    BY DEF Distinct
  <2>1. i \in 1..(m + n) /\ i + 1 \in 1..(m + n) /\ i < m + n
    BY <1>1, <1>2
  <2>2. CASE i < m
    <3>1. all[i] = told[i] /\ all[i + 1] = told[i + 1] /\ i \in 1..(m - 1)
      BY <1>1, <1>2, <2>1, <2>2
    <3> QED
      BY <3>1 DEF Distinct, m
  <2>3. CASE i = m
    <3>1. all[i] = told[m] /\ all[i + 1] = o[1] /\ n # 0 /\ m # 0
      BY <1>1, <1>2, <2>1, <2>3
    <3> QED
      BY <1>4, <1>5, <1>6, <3>1
  <2>4. CASE i > m
    <3>1. all[i] = o[i - m] /\ all[i + 1] = o[(i - m) + 1] /\ i - m \in 1..(n - 1)
      BY <1>1, <1>2, <2>1, <2>4
    <3> QED
      BY <1>4, <3>1 DEF Distinct, n
  <2> QED
    BY <1>1, <2>1, <2>2, <2>3, <2>4
<1>8. s.last = LastOf(all, "Disconnected")
  <2>1. CASE n = 0
    BY <1>3, <1>4, <2>1 DEF LastOf
  <2>2. CASE n # 0
    <3>1. Len(all) # 0 /\ Len(all) = m + n /\ all[m + n] = o[n]
      BY <1>1, <1>2, <2>2
    <3>2. all # <<>>
      BY <1>2, <3>1, EmptySeq
    <3>3. s.last = o[n]
      BY <1>4, <1>5, <2>2 DEF LastOf, n
    <3> QED
      BY <3>1, <3>2, <3>3 DEF LastOf
  <2> QED
    BY <2>1, <2>2
<1> QED
  BY <1>2, <1>7, <1>8 DEF all

(* A status stream that has been cleared goes on from its last status. *)
LEMMA ClearedContinues ==
  ASSUME NEW s, IsStatusStream(s)
  PROVE  /\ IsStatusStream(ClearStatus(s)) /\ ClearStatus(s).last = s.last /\ ClearStatus(s).out = <<>>
         /\ Continues(ClearStatus(s), s.last)
         /\ s.out = <<>> => Continues(s, s.last)
<1> DEFINE c == ClearStatus(s)
<1>1. c.last = s.last /\ c.out = <<>> /\ DOMAIN c = {"last", "out"} /\ c = [last |-> c.last, out |-> c.out]
  BY DEF ClearStatus, IsStatusStream
<1>2. Distinct(<<>>) /\ \A b : LastOf(<<>>, b) = b
  BY DEF Distinct, LastOf
<1>3. s.last \in Statuses /\ <<>> \in Seq(Statuses)
  BY DEF IsStatusStream
<1> HIDE DEF c
<1>4. IsStatusStream(c)
  BY <1>1, <1>3 DEF IsStatusStream
<1>5. Continues(c, s.last)
  BY <1>1, <1>2, <1>3 DEF Continues
<1>6. s.out = <<>> => Continues(s, s.last)
  BY <1>2, <1>3 DEF Continues, IsStatusStream
<1> QED
  BY <1>1, <1>4, <1>5, <1>6 DEF c

(* What goes on from a status is a status stream. *)
LEMMA ContinuesType ==
  ASSUME NEW s, NEW before \in Statuses, Continues(s, before)
  PROVE  IsStatusStream(s)
BY DEF Continues, IsStatusStream

(* The elements of sequences put together. *)
LEMMA ElementsOf ==
  ASSUME NEW s \in Seq(Nat), NEW t \in Seq(Nat), NEW e \in Nat
  PROVE  ToSet(s \o t) = ToSet(s) \cup ToSet(t) /\ ToSet(Append(s, e)) = ToSet(s) \cup {e} /\ ToSet(<<>>) = {}
<1>1. ToSet(s \o t) = ToSet(s) \cup ToSet(t)
  <2> DEFINE m == Len(s)
             n == Len(t)
             all == s \o t
  <2>1. m \in Nat /\ n \in Nat /\ DOMAIN s = 1..m /\ DOMAIN t = 1..n
    OBVIOUS
  <2>2. DOMAIN all = 1..(m + n) /\ \A i \in 1..(m + n) : all[i] = IF i <= m THEN s[i] ELSE t[i - m]
    BY ConcatProperties
  <2> HIDE DEF m, n, all
  <2>3. \A i \in 1..m : i \in DOMAIN all /\ all[i] = s[i]
    BY <2>1, <2>2
  <2>4. \A i \in 1..n : i + m \in DOMAIN all /\ all[i + m] = t[i]
    BY <2>1, <2>2
  <2>5. \A i \in DOMAIN all : (i \in 1..m /\ all[i] = s[i]) \/ (i - m \in 1..n /\ all[i] = t[i - m])
    BY <2>1, <2>2
  <2>6. ToSet(all) \subseteq ToSet(s) \cup ToSet(t)
    BY <2>1, <2>5 DEF ToSet
  <2>7. ToSet(s) \subseteq ToSet(all) /\ ToSet(t) \subseteq ToSet(all)
    BY <2>1, <2>3, <2>4 DEF ToSet
  <2> QED
    BY <2>6, <2>7 DEF all
<1>2. ToSet(Append(s, e)) = ToSet(s) \cup {e}
  <2> DEFINE m == Len(s)
             all == Append(s, e)
  <2>1. m \in Nat /\ DOMAIN s = 1..m /\ DOMAIN all = 1..(m + 1) /\ all[m + 1] = e /\ \A i \in 1..m : all[i] = s[i]
    BY AppendProperties
  <2> HIDE DEF m, all
  <2>2. \A i \in DOMAIN all : i \in 1..m \/ i = m + 1
    BY <2>1
  <2>3. m + 1 \in DOMAIN all /\ \A i \in 1..m : i \in DOMAIN all
    BY <2>1
  <2> QED
    BY <2>1, <2>2, <2>3 DEF ToSet, all
<1>3. ToSet(<<>>) = {}
  BY DEF ToSet
<1> QED
  BY <1>1, <1>2, <1>3

(* Nothing is read and nothing given. *)
LEMMA FragmentsSame ==
  ASSUME FragmentInv, poller'.given = poller.given, Pending' = Pending, Accepted' = Accepted,
         poller'.pc = "open" => poller'.value = <<>> /\ poller'.chan = <<>>
  PROVE  FragmentInv'
BY DEF FragmentInv

(* What has been read is given to the graph. *)
LEMMA FragmentsGiven ==
  ASSUME FragmentInv, AeronType, poller'.given = poller.given \o Pending, Pending' = <<>>, Accepted' = Accepted,
         poller'.pc # "open"
  PROVE  FragmentInv' /\ poller'.given \in Seq(Nat)
<1> DEFINE g == poller.given
           p == Pending
           none == <<>>
<1>1. g \in Seq(Nat) /\ p \in Seq(Nat) /\ Rising(g) /\ Rising(p) /\ Before(g, p)
  BY DEF FragmentInv, AeronType
<1>2. g \o p \in Seq(Nat) /\ Rising(g \o p) /\ ToSet(g \o p) = ToSet(g) \cup ToSet(p)
  BY <1>1, RisingConcat, ElementsOf
<1>3. none \in Seq(Nat) /\ Rising(none) /\ Before(g \o p, none) /\ ToSet(none) = {}
  BY <1>2, NoSamples, ElementsOf
<1>4. Pending' = none /\ poller'.given = g \o p
  OBVIOUS
<1>5. ToSet(poller'.given) \cup ToSet(Pending') = Accepted'
  <2>1. ToSet(g) \cup ToSet(p) = Accepted
    BY DEF FragmentInv
  <2> HIDE DEF g, p, none
  <2> QED
    BY <1>2, <1>3, <1>4, <2>1
<1> HIDE DEF g, p, none
<1>6. FragmentInv'
  BY <1>2, <1>3, <1>4, <1>5 DEF FragmentInv
<1> QED
  BY <1>2, <1>4, <1>6

(* The next fragment is read. *)
LEMMA FragmentsRead ==
  ASSUME FragmentInv, AeronType, term' = term, poller'.given = poller.given, poller'.pos = poller.pos + 1,
         poller'.pc # "open",
         IF term[poller.pos + 1] = Slot("data", "some") THEN Pending' = Append(Pending, poller.pos + 1)
         ELSE Pending' = Pending
  PROVE  FragmentInv'
<1> DEFINE g == poller.given
           p == Pending
           n == poller.pos
           x == Slot("data", "some")
<1>1. g \in Seq(Nat) /\ p \in Seq(Nat) /\ Rising(g) /\ Rising(p) /\ Before(g, p) /\ n \in Nat
  BY DEF FragmentInv, AeronType
<1>2. ToSet(g) \cup ToSet(p) = {i \in 1..n : term[i] = x}
  BY DEF FragmentInv, Accepted
<1>3. Accepted' = {i \in 1..(n + 1) : term[i] = x}
  BY DEF Accepted
<1> HIDE DEF x
<1>4. CASE term[n + 1] = x
  <2>1. Pending' = Append(p, n + 1)
    BY <1>4 DEF x
  <2>2. UpTo(g, n) /\ UpTo(p, n)
    <3>1. \A i \in DOMAIN g : g[i] \in ToSet(g)
      BY DEF ToSet
    <3>2. \A i \in DOMAIN p : p[i] \in ToSet(p)
      BY DEF ToSet
    <3> HIDE DEF g, p
    <3>3. \A i \in DOMAIN g : g[i] \in 1..n
      BY <1>2, <3>1
    <3>4. \A i \in DOMAIN p : p[i] \in 1..n
      BY <1>2, <3>2
    <3> QED
      BY <1>1, <3>3, <3>4 DEF UpTo
  <2>3. /\ Append(p, n + 1) \in Seq(Nat) /\ Rising(Append(p, n + 1)) /\ Before(g, Append(p, n + 1))
    BY <1>1, <2>2, AppendNewer
  <2>4. ToSet(Append(p, n + 1)) = ToSet(p) \cup {n + 1}
    <3>1. n + 1 \in Nat
      BY <1>1
    <3> HIDE DEF g, p, n
    <3> QED
      BY <1>1, <3>1, ElementsOf
  <2>5. ToSet(g) \cup ToSet(Pending') = Accepted'
    <3>1. {i \in 1..(n + 1) : term[i] = x} = {i \in 1..n : term[i] = x} \cup {n + 1}
      BY <1>1, <1>4
    <3> HIDE DEF g, p, n
    <3> QED
      BY <1>2, <1>3, <2>1, <2>4, <3>1
  <2> HIDE DEF p, n
  <2> QED
    BY <1>1, <2>1, <2>3, <2>5 DEF FragmentInv
<1>5. CASE term[n + 1] # x
  <2>1. Pending' = p
    BY <1>5 DEF x
  <2>2. {i \in 1..(n + 1) : term[i] = x} = {i \in 1..n : term[i] = x}
    BY <1>1, <1>5
  <2>3. ToSet(g) \cup ToSet(Pending') = Accepted'
    <3> HIDE DEF g, p, n
    <3> QED
      BY <1>2, <1>3, <2>1, <2>2
  <2> HIDE DEF p, n
  <2> QED
    BY <1>1, <2>1, <2>3 DEF FragmentInv
<1> QED
  BY <1>4, <1>5

\* The fields of a publisher that keeps what it has told.
IsPublisher(p) ==
  /\ DOMAIN p = {"pc", "todo", "outcome", "cycles", "status", "told"}
  /\ p.outcome \in Statuses /\ p.told \in Seq(Statuses) /\ IsStatusStream(p.status) /\ Told(p)

(* The end of a publisher's cycle tells the transition, if there is one. *)
LEMMA PublishedTells ==
  ASSUME NEW p, IsPublisher(p), p.status.out = <<>>, NEW status \in Statuses
  PROVE  IsPublisher(Published(p, status)) /\ Published(p, status).pc = "idle"
<1> DEFINE new == RecordStatus(p.status, status)
           r == Published(p, status)
           last == p.status.last
<1>1. last \in Statuses /\ p.told \in Seq(Statuses) /\ Distinct(p.told) /\ last = LastOf(p.told, "Disconnected")
  BY DEF IsPublisher, IsStatusStream, Told
<1>2. Continues(p.status, last)
  BY ClearedContinues DEF IsPublisher
<1>3. Continues(new, last)
  BY <1>1, <1>2, RecordContinues
<1>4. IsStatusStream(new)
  BY <1>1, <1>3, ContinuesType
<1> HIDE DEF new
<1>5. /\ p.told \o new.out \in Seq(Statuses) /\ Distinct(p.told \o new.out)
      /\ new.last = LastOf(p.told \o new.out, "Disconnected")
  <2> HIDE DEF last
  <2> QED
    BY <1>1, <1>3, TellMore
<1>6. /\ DOMAIN r = DOMAIN p /\ r.pc = "idle" /\ r.outcome = p.outcome /\ r.status = new
      /\ r.told = p.told \o new.out
  BY DEF Published, IsPublisher, new
<1> HIDE DEF r
<1> QED
  BY <1>4, <1>5, <1>6 DEF IsPublisher, Told, r

(* The publisher: what it adds comes after what has been read. *)
LEMMA AeronPublisherStep ==
  ASSUME AeronInv, PubOpen \/ PubBegin \/ PubOffer \/ PubEnd \/ TryClaim \/ Settle
  PROVE  AeronInv'
<1> DEFINE S == [state : {"data", "claimed", "padding"}, parse : {"some", "skip"}]
           last == publisher.status.last
<1>1. poller' = poller
  BY DEF PubOpen, PubBegin, PubOffer, PubEnd, TryClaim, Settle
<1>2. /\ term \in Seq(S) /\ poller.pos \in Nat /\ poller.pos <= Len(term) /\ Len(term) \in Nat
      /\ DOMAIN publisher = {"pc", "todo", "outcome", "cycles", "status", "told"}
      /\ publisher.outcome \in Statuses /\ publisher.told \in Seq(Statuses) /\ IsStatusStream(publisher.status)
      /\ last \in Statuses
  BY DEF AeronInv, AeronType, IsStatusStream
<1>3. \/ term' = term
      \/ publisher.pc # "claim" /\ \E x \in S : term' = Append(term, x)
      \/ publisher.pc = "claim" /\ \E v \in {"data", "padding"} : term' = SlotSettled(v)
  BY DEF PubOpen, PubBegin, PubOffer, PubEnd, TryClaim, Settle, Slot
<1>4. ASSUME publisher.pc = "claim" PROVE Len(term) > poller.pos
  BY <1>2, <1>4 DEF AeronInv, ClaimInv
<1>5. /\ term' \in Seq(S) /\ Len(term') >= Len(term)
      /\ \A i \in 1..poller.pos : term'[i] = term[i]
  <2>1. CASE term' = term
    BY <1>2, <2>1
  <2>2. ASSUME NEW x \in S, term' = Append(term, x)
        PROVE  term' \in Seq(S) /\ Len(term') >= Len(term) /\ \A i \in 1..poller.pos : term'[i] = term[i]
    <3> HIDE DEF S
    <3> QED
      BY <1>2, <2>2, AppendProperties
  <2>3. ASSUME NEW v \in {"data", "padding"}, term' = SlotSettled(v), publisher.pc = "claim"
        PROVE  term' \in Seq(S) /\ Len(term') >= Len(term) /\ \A i \in 1..poller.pos : term'[i] = term[i]
    <3> DEFINE n == Len(term)
    <3>1. n > poller.pos /\ n \in 1..n /\ DOMAIN term = 1..n
      BY <1>2, <1>4, <2>3
    <3>2. term' = [term EXCEPT ![n] = [term[n] EXCEPT !.state = v]]
      BY <2>3 DEF SlotSettled
    <3>3. term[n] \in S
      <4> HIDE DEF S
      <4> QED
        BY <1>2, <3>1, ElementOfSeq
    <3>4. [term[n] EXCEPT !.state = v] \in S
      BY <3>3
    <3>5. term' \in [1..n -> S] /\ \A i \in 1..poller.pos : term'[i] = term[i]
      <4> HIDE DEF S
      <4> QED
        BY <1>2, <3>1, <3>2, <3>4
    <3>6. term' \in Seq(S) /\ Len(term') = n
      <4> HIDE DEF S
      <4> QED
        BY <1>2, <3>5
    <3> QED
      BY <1>2, <3>5, <3>6
  <2> QED
    BY <1>3, <2>1, <2>2, <2>3
<1>6. Accepted' = Accepted
  BY <1>1, <1>5 DEF Accepted
<1>7. FragmentInv'
  <2>1. Pending' = Pending
    BY <1>1 DEF Pending, Threaded
  <2> QED
    BY <1>1, <1>6, <2>1, FragmentsSame DEF AeronInv, FragmentInv
<1>8. ClaimInv'
  <2>1. \A i \in 1..poller'.pos : term'[i].state # "claimed"
    BY <1>1, <1>5 DEF AeronInv, ClaimInv
  <2>2. ASSUME publisher'.pc = "claim" PROVE Len(term') > 0 /\ term'[Len(term')].state = "claimed"
    <3>1. TryClaim
      BY <1>2, <2>2 DEF PubOpen, PubBegin, PubOffer, PubEnd, TryClaim, Settle, Published
    <3>2. term' = Append(term, Slot("claimed", "some")) /\ Slot("claimed", "some") \in S
      BY <3>1 DEF TryClaim, Slot
    <3>3. Len(term') = Len(term) + 1 /\ term'[Len(term) + 1] = Slot("claimed", "some")
      <4> HIDE DEF S
      <4> QED
        BY <1>2, <3>2, AppendProperties
    <3>4. Slot("claimed", "some").state = "claimed"
      BY DEF Slot
    <3> QED
      BY <1>2, <3>3, <3>4
  <2> QED
    BY <2>1, <2>2 DEF ClaimInv
<1>0. {"none", "Connected", "Disconnected", "BackPressured", "Closed"} \subseteq Statuses
  BY DEF Statuses
<1>9. IsPublisher(publisher) /\ (publisher.pc = "offer" => publisher.status.out = <<>>)
  BY <1>2 DEF AeronInv, StatusInv, IsPublisher
<1>10. IsPublisher(publisher') /\ (publisher'.pc = "offer" => publisher'.status.out = <<>>)
  <2>1. CASE PubOpen \/ TryClaim \/ Settle
    <3>1. /\ DOMAIN publisher' = DOMAIN publisher /\ publisher'.pc # "offer"
          /\ publisher'.outcome = publisher.outcome /\ publisher'.status = publisher.status
          /\ publisher'.told = publisher.told
      BY <1>2, <2>1 DEF PubOpen, TryClaim, Settle
    <3> QED
      BY <1>9, <3>1 DEF IsPublisher, Told
  <2>2. CASE PubBegin
    <3> DEFINE p == [publisher EXCEPT !.status = ClearStatus(@), !.outcome = "none", !.cycles = @ + 1]
    <3>1. \/ publisher' = Published(p, "Closed")
          \/ \E n \in 0..MaxBurst : publisher' = [p EXCEPT !.pc = "offer", !.todo = n]
      BY <2>2 DEF PubBegin
    <3>2. /\ DOMAIN p = {"pc", "todo", "outcome", "cycles", "status", "told"}
          /\ p.outcome = "none" /\ p.told = publisher.told /\ p.status = ClearStatus(publisher.status)
      BY <1>2
    <3> HIDE DEF p
    <3>3. IsPublisher(p) /\ p.status.out = <<>>
      BY <1>0, <1>9, <3>2, ClearedContinues DEF IsPublisher, Told
    <3>4. CASE publisher' = Published(p, "Closed")
      BY <1>0, <3>3, <3>4, PublishedTells
    <3>5. ASSUME NEW n \in 0..MaxBurst, publisher' = [p EXCEPT !.pc = "offer", !.todo = n]
          PROVE  IsPublisher(publisher') /\ publisher'.status.out = <<>>
      <4>1. /\ DOMAIN publisher' = DOMAIN p /\ publisher'.outcome = p.outcome
            /\ publisher'.status = p.status /\ publisher'.told = p.told
        BY <3>2, <3>5
      <4> QED
        BY <3>3, <4>1 DEF IsPublisher, Told
    <3> QED
      BY <3>1, <3>4, <3>5
  <2>3. CASE PubOffer
    <3>1. publisher.status.out = <<>>
      BY <1>9, <2>3 DEF PubOffer
    <3>2. \/ publisher' = [publisher EXCEPT !.todo = @ - 1, !.outcome = "Connected"]
          \/ publisher' = Published(publisher, "BackPressured")
          \/ publisher' = [publisher EXCEPT !.pc = "failed"]
      BY <2>3 DEF PubOffer
    <3>3. CASE publisher' = Published(publisher, "BackPressured")
      BY <1>0, <1>9, <3>1, <3>3, PublishedTells
    <3>4. CASE \/ publisher' = [publisher EXCEPT !.todo = @ - 1, !.outcome = "Connected"]
               \/ publisher' = [publisher EXCEPT !.pc = "failed"]
      <4>1. /\ DOMAIN publisher' = DOMAIN publisher /\ publisher'.outcome \in Statuses
            /\ publisher'.status = publisher.status /\ publisher'.told = publisher.told
        BY <1>0, <1>2, <3>4
      <4> QED
        BY <1>9, <3>1, <4>1 DEF IsPublisher, Told
    <3> QED
      BY <3>2, <3>3, <3>4
  <2>4. CASE PubEnd
    <3> DEFINE v == IF publisher.outcome # "none" THEN publisher.outcome
                    ELSE IF IsConnected THEN "Connected" ELSE "Disconnected"
    <3>1. publisher.status.out = <<>> /\ publisher' = Published(publisher, v)
      BY <1>9, <2>4 DEF PubEnd
    <3>2. v \in Statuses
      BY <1>0, <1>2
    <3> HIDE DEF v
    <3> QED
      BY <1>9, <3>1, <3>2, PublishedTells
  <2> QED
    BY <2>1, <2>2, <2>3, <2>4
<1>11. AeronType'
  <2>1. Len(term') \in Nat /\ poller'.pos <= Len(term')
    BY <1>1, <1>2, <1>5
  <2> QED
    BY <1>1, <1>5, <1>10, <2>1 DEF AeronInv, AeronType, IsPublisher
<1>12. StatusInv'
  BY <1>1, <1>10 DEF AeronInv, StatusInv, IsPublisher, Threaded, Told
<1> QED
  BY <1>7, <1>8, <1>11, <1>12 DEF AeronInv

(* A step of the subscriber keeps AeronInv if what it says of the poller is kept. *)
LEMMA PollerFrame ==
  ASSUME AeronInv, UNCHANGED <<term, publisher>>, DOMAIN poller' = DOMAIN poller,
         poller'.pos = poller.pos,
         poller'.given \in Seq(Nat), poller'.value \in Seq(Nat), poller'.chan \in Seq(AeronItem),
         poller'.told \in Seq(Statuses), IsStatusStream(poller'.status), Told(poller'),
         FragmentInv',
         (~Threaded' /\ poller'.pc \in {"poll", "closed", "connected"}) => poller'.status.out = <<>>
  PROVE  AeronInv'
<1>1. AeronType'
  BY DEF AeronInv, AeronType
<1>2. ClaimInv'
  BY DEF AeronInv, ClaimInv
<1>3. StatusInv'
  BY DEF AeronInv, StatusInv, Told
<1> QED
  BY <1>1, <1>2, <1>3 DEF AeronInv

(* Neither the stream nor the status moves. *)
LEMMA PollerMoves ==
  ASSUME AeronInv, UNCHANGED <<term, publisher>>, DOMAIN poller' = DOMAIN poller,
         poller'.mode = poller.mode, poller'.pos = poller.pos, poller'.given = poller.given,
         poller'.value \in Seq(Nat), poller'.chan \in Seq(AeronItem),
         poller'.told = poller.told, poller'.status = poller.status, Pending' = Pending,
         poller'.pc # "open",
         Threaded \/ poller'.pc \notin {"poll", "closed", "connected"} \/ poller.status.out = <<>>
  PROVE  AeronInv'
<1>1. Accepted' = Accepted
  BY DEF Accepted
<1>2. FragmentInv'
  BY <1>1, FragmentsSame DEF AeronInv
<1>3. Told(poller') /\ IsStatusStream(poller'.status) /\ poller'.told \in Seq(Statuses) /\ poller'.given \in Seq(Nat)
  BY DEF AeronInv, AeronType, StatusInv, Told
<1>4. Threaded' <=> Threaded
  BY DEF Threaded
<1> QED
  BY <1>2, <1>3, <1>4, PollerFrame

(* The end of a cycle in spin mode: the burst and the transition go out. *)
LEMMA SpinDoneStep ==
  ASSUME AeronInv, UNCHANGED <<term, publisher>>, ~Threaded, poller.pc \in {"poll", "closed", "connected"},
         NEW status, Continues(status, poller.status.last), poller' = SpinDone(poller, status)
  PROVE  AeronInv'
<1> DEFINE last == poller.status.last
           none == <<>>
<1>1. /\ DOMAIN poller = {"mode", "backend", "watch", "pc", "pos", "count", "stop", "chan", "last", "value",
                          "status", "told", "given"}
      /\ last \in Statuses /\ poller.told \in Seq(Statuses) /\ poller.value \in Seq(Nat)
      /\ poller.chan \in Seq(AeronItem) /\ poller.given \in Seq(Nat)
  BY DEF AeronInv, AeronType, IsStatusStream
<1>2. Distinct(poller.told) /\ last = LastOf(poller.told, "Disconnected")
  BY DEF AeronInv, StatusInv, Told
<1>3. Pending = poller.value
  BY DEF Pending
<1>4. IsStatusStream(status)
  BY <1>1, ContinuesType
<1>5. /\ poller.told \o status.out \in Seq(Statuses) /\ Distinct(poller.told \o status.out)
      /\ status.last = LastOf(poller.told \o status.out, "Disconnected")
  <2>1. Continues(status, last)
    OBVIOUS
  <2> HIDE DEF last
  <2> QED
    BY <1>1, <1>2, <2>1, TellMore
<1>6. /\ DOMAIN poller' = DOMAIN poller /\ poller'.pc = "top" /\ poller'.mode = poller.mode
      /\ poller'.pos = poller.pos /\ poller'.value = poller.value /\ poller'.chan = poller.chan
      /\ poller'.status = status
  BY <1>1 DEF SpinDone
<1>7. ~Threaded'
  BY <1>6 DEF Threaded
<1>8. Pending' = none /\ Accepted' = Accepted
  BY <1>6, <1>7 DEF Pending, Accepted
<1>9. CASE Ticks(poller.value, status.out)
  <2>1. poller'.given = poller.given \o poller.value /\ poller'.told = poller.told \o status.out
    BY <1>1, <1>9 DEF SpinDone
  <2>2. FragmentInv' /\ poller'.given \in Seq(Nat)
    BY <1>3, <1>6, <1>8, <2>1, FragmentsGiven DEF AeronInv
  <2>3. Told(poller')
    BY <1>5, <1>6, <2>1 DEF Told
  <2> QED
    BY <1>1, <1>4, <1>5, <1>6, <2>1, <2>2, <2>3, PollerFrame
<1>10. CASE ~Ticks(poller.value, status.out)
  <2>1. poller.value = none /\ status.out = none
    BY <1>10 DEF Ticks
  <2>2. poller'.given = poller.given /\ poller'.told = poller.told
    BY <1>1, <1>10 DEF SpinDone
  <2>3. FragmentInv'
    BY <1>3, <1>6, <1>8, <2>1, <2>2, FragmentsSame DEF AeronInv
  <2>4. status.last = last
    BY <2>1 DEF Continues, LastOf
  <2>5. Told(poller')
    BY <1>2, <1>6, <2>2, <2>4 DEF Told
  <2> QED
    BY <1>1, <1>4, <1>6, <2>2, <2>3, <2>5, PollerFrame
<1> QED
  BY <1>9, <1>10

(* The status of a poll. *)
LEMMA ObservedStep ==
  ASSUME AeronInv, UNCHANGED <<term, publisher>>, poller.pc \in {"closed", "connected"},
         NEW status \in Statuses \ {"none"}, poller' = Observed(status)
  PROVE  AeronInv'
<1>1. /\ DOMAIN poller = {"mode", "backend", "watch", "pc", "pos", "count", "stop", "chan", "last", "value",
                          "status", "told", "given"}
      /\ IsStatusStream(poller.status) /\ poller.value \in Seq(Nat) /\ poller.chan \in Seq(AeronItem)
  BY DEF AeronInv, AeronType
<1>2. CASE ~Threaded
  <2>1. poller.status.out = <<>>
    BY <1>2 DEF AeronInv, StatusInv
  <2>2. Continues(poller.status, poller.status.last) /\ poller.status.last \in Statuses
    BY <1>1, <2>1, ClearedContinues DEF IsStatusStream
  <2>3. Continues(RecordStatus(poller.status, status), poller.status.last)
    BY <2>2, RecordContinues
  <2>4. poller' = SpinDone(poller, RecordStatus(poller.status, status))
    BY <1>2 DEF Observed
  <2> QED
    BY <1>2, <2>3, <2>4, SpinDoneStep
<1>3. CASE Threaded
  <2> DEFINE m == [data |-> 0, status |-> status]
  <2>1. /\ DOMAIN poller' = DOMAIN poller /\ poller'.pc = "top" /\ poller'.mode = poller.mode
        /\ poller'.pos = poller.pos /\ poller'.given = poller.given /\ poller'.value = poller.value
        /\ poller'.told = poller.told /\ poller'.status = poller.status
        /\ (poller'.chan = poller.chan \/ poller'.chan = Append(poller.chan, m))
    BY <1>1, <1>3 DEF Observed
  <2>2. m \in AeronItem /\ m.status # "none"
    BY DEF AeronItem
  <2> HIDE DEF m
  <2>3. poller'.chan \in Seq(AeronItem) /\ DataOf(poller'.chan) = DataOf(poller.chan)
    <3>1. Append(poller.chan, m) \in Seq(AeronItem) /\ DataOf(Append(poller.chan, m)) = DataOf(poller.chan)
      BY <1>1, <2>2, DataOfAppend, AppendProperties
    <3> QED
      BY <1>1, <2>1, <3>1
  <2>4. Pending' = Pending
    BY <1>3, <2>1, <2>3 DEF Pending, Threaded
  <2> QED
    BY <1>1, <1>3, <2>1, <2>3, <2>4, PollerMoves
<1> QED
  BY <1>2, <1>3

(* Each step of the poll loop, or of a cycle. *)
LEMMA AeronSubscriberStep ==
  ASSUME AeronInv, SubOpen \/ SubStep \/ SubFails \/ SubCycle \/ SubStop
  PROVE  AeronInv'
<1>1. /\ DOMAIN poller = {"mode", "backend", "watch", "pc", "pos", "count", "stop", "chan", "last", "value",
                          "status", "told", "given"}
      /\ IsStatusStream(poller.status) /\ poller.value \in Seq(Nat) /\ poller.chan \in Seq(AeronItem)
      /\ poller.given \in Seq(Nat) /\ poller.told \in Seq(Statuses) /\ poller.pos \in Nat
      /\ poller.pos <= Len(term) /\ Len(term) \in Nat
  BY DEF AeronInv, AeronType
<1>2. UNCHANGED <<term, publisher>>
  BY DEF SubOpen, SubStep, SubBegin, SubFragment, SubPolled, SubIsClosed, SubIsConnected, SubFails,
         SubCycle, SubStop
<1>3. /\ poller.pc = "open" => poller.value = <<>> /\ poller.chan = <<>>
      /\ (~Threaded /\ poller.pc \in {"poll", "closed", "connected"}) => poller.status.out = <<>>
  BY DEF AeronInv, FragmentInv, StatusInv
<1>4. CASE SubOpen \/ SubFails \/ SubStop
  <2>1. /\ DOMAIN poller' = DOMAIN poller /\ poller'.mode = poller.mode /\ poller'.pos = poller.pos
        /\ poller'.given = poller.given /\ poller'.value = poller.value /\ poller'.chan = poller.chan
        /\ poller'.told = poller.told /\ poller'.status = poller.status
    BY <1>1, <1>4 DEF SubOpen, SubFails, SubStop
  <2>2. \/ poller.pc = "open" /\ poller'.pc \in {"top", "failed"}
        \/ poller.pc = "poll" /\ poller'.pc = "failed"
        \/ poller.pc # "open" /\ poller'.pc = poller.pc
    BY <1>1, <1>4 DEF SubOpen, SubFails, SubStop
  <2>3. Pending' = Pending
    BY <1>3, <2>1, <2>2 DEF Pending, Threaded
  <2> QED
    BY <1>1, <1>2, <1>3, <2>1, <2>2, <2>3, PollerMoves
<1>5. CASE SubBegin
  <2>1. /\ DOMAIN poller' = DOMAIN poller /\ poller'.mode = poller.mode /\ poller'.pos = poller.pos
        /\ poller'.given = poller.given /\ poller'.chan = poller.chan /\ poller'.told = poller.told
        /\ poller.pc = "top" /\ poller'.pc \in {"stopped", "poll"}
    BY <1>1, <1>5 DEF SubBegin
  <2>2. CASE poller'.pc = "stopped" \/ Threaded
    <3>1. poller'.value = poller.value /\ poller'.status = poller.status
      BY <1>1, <1>5, <2>2 DEF SubBegin
    <3>2. Pending' = Pending
      BY <2>1, <2>2, <3>1 DEF Pending, Threaded
    <3> QED
      BY <1>1, <1>2, <2>1, <2>2, <3>1, <3>2, PollerMoves
  <2>3. CASE poller'.pc = "poll" /\ ~Threaded
    <3>1. poller'.value = <<>> /\ poller'.status = ClearStatus(poller.status)
      BY <1>1, <1>5, <2>3 DEF SubBegin
    <3>2. Pending' = Pending /\ Accepted' = Accepted
      BY <1>2, <2>1, <2>3, <3>1 DEF Pending, Threaded, Accepted
    <3>3. FragmentInv'
      BY <2>1, <2>3, <3>2, FragmentsSame DEF AeronInv
    <3>4. IsStatusStream(poller'.status) /\ poller'.status.out = <<>> /\ poller'.status.last = poller.status.last
      BY <1>1, <3>1, ClearedContinues
    <3>5. Told(poller')
      BY <2>1, <3>4 DEF AeronInv, StatusInv, Told
    <3>6. poller'.value \in Seq(Nat)
      BY <3>1, NoSamples
    <3> QED
      BY <1>1, <1>2, <2>1, <3>3, <3>4, <3>5, <3>6, PollerFrame
  <2> QED
    BY <2>1, <2>2, <2>3
<1>6. CASE SubPolled
  <2>1. \/ poller' = [poller EXCEPT !.pc = "closed"]
        \/ Threaded /\ poller' = [poller EXCEPT !.pc = "top"]
        \/ ~Threaded /\ poller' = SpinDone(poller, poller.status)
    BY <1>6, Zenon DEF SubPolled
  <2>2. poller.pc = "poll"
    BY <1>6 DEF SubPolled
  <2>3. CASE \/ poller' = [poller EXCEPT !.pc = "closed"]
             \/ Threaded /\ poller' = [poller EXCEPT !.pc = "top"]
    <3>1. /\ DOMAIN poller' = DOMAIN poller /\ poller'.mode = poller.mode /\ poller'.pos = poller.pos
          /\ poller'.given = poller.given /\ poller'.value = poller.value /\ poller'.chan = poller.chan
          /\ poller'.told = poller.told /\ poller'.status = poller.status
      BY <1>1, <2>3
    <3>2. poller'.pc = "closed" \/ (Threaded /\ poller'.pc = "top")
      BY <1>1, <2>3
    <3>3. Pending' = Pending
      BY <2>2, <3>1, <3>2 DEF Pending, Threaded
    <3> QED
      BY <1>1, <1>2, <1>3, <2>2, <3>1, <3>2, <3>3, PollerMoves
  <2>4. CASE ~Threaded /\ poller' = SpinDone(poller, poller.status)
    <3>1. Continues(poller.status, poller.status.last)
      BY <1>1, <1>3, <2>2, <2>4, ClearedContinues
    <3> QED
      BY <1>2, <2>2, <2>4, <3>1, SpinDoneStep
  <2> QED
    BY <2>1, <2>3, <2>4
<1>7. CASE SubIsClosed \/ SubIsConnected
  <2>1. \/ \E status \in Statuses \ {"none"} : poller' = Observed(status)
        \/ poller.pc = "closed" /\ poller' = [poller EXCEPT !.pc = "connected"]
    BY <1>7 DEF SubIsClosed, SubIsConnected, Statuses
  <2>2. poller.pc \in {"closed", "connected"}
    BY <1>7 DEF SubIsClosed, SubIsConnected
  <2>3. CASE \E status \in Statuses \ {"none"} : poller' = Observed(status)
    BY <1>2, <2>2, <2>3, ObservedStep
  <2>4. CASE poller.pc = "closed" /\ poller' = [poller EXCEPT !.pc = "connected"]
    <3>1. /\ DOMAIN poller' = DOMAIN poller /\ poller'.mode = poller.mode /\ poller'.pos = poller.pos
          /\ poller'.given = poller.given /\ poller'.value = poller.value /\ poller'.chan = poller.chan
          /\ poller'.told = poller.told /\ poller'.status = poller.status /\ poller'.pc = "connected"
      BY <1>1, <2>4
    <3>2. Pending' = Pending
      BY <2>4, <3>1 DEF Pending, Threaded
    <3> QED
      BY <1>1, <1>2, <1>3, <2>4, <3>1, <3>2, PollerMoves
  <2> QED
    BY <2>1, <2>3, <2>4
<1>8. CASE SubFragment
  <2> DEFINE id == poller.pos + 1
             slot == term[id]
             some == slot = Slot("data", "some")
             m == [data |-> id, status |-> "none"]
  <2>1. /\ DOMAIN poller' = DOMAIN poller /\ poller'.mode = poller.mode /\ poller'.pos = id
        /\ poller'.given = poller.given /\ poller'.told = poller.told /\ poller'.status = poller.status
        /\ poller'.pc = "poll" /\ poller.pc = "poll"
        /\ poller'.chan = (IF some /\ Threaded THEN Append(poller.chan, m) ELSE poller.chan)
        /\ poller'.value = (IF some /\ ~Threaded THEN Append(poller.value, id) ELSE poller.value)
    BY <1>1, <1>8 DEF SubFragment
  <2>2. poller.pos < Len(term) /\ slot.state # "claimed"
    BY <1>8 DEF SubFragment, Available
  <2>3. id \in Nat /\ id <= Len(term) /\ m \in AeronItem /\ m.status = "none" /\ m.data = id
    BY <1>1, <2>2 DEF AeronItem, Statuses
  <2> HIDE DEF m, id
  <2>4. /\ Append(poller.chan, m) \in Seq(AeronItem)
        /\ DataOf(Append(poller.chan, m)) = Append(DataOf(poller.chan), id)
        /\ Append(poller.value, id) \in Seq(Nat)
    BY <1>1, <2>3, DataOfAppend, AppendProperties
  <2>5. poller'.chan \in Seq(AeronItem) /\ poller'.value \in Seq(Nat)
    BY <1>1, <2>1, <2>4
  <2>6. IF some THEN Pending' = Append(Pending, id) ELSE Pending' = Pending
    BY <2>1, <2>4 DEF Pending, Threaded
  <2>7. FragmentInv'
    BY <1>2, <2>1, <2>6, FragmentsRead DEF AeronInv, id
  <2>8. AeronType'
    BY <1>2, <2>1, <2>3, <2>5 DEF AeronInv, AeronType
  <2>9. \A i \in 1..id : i \in 1..poller.pos \/ i = id
    BY <1>1 DEF id
  <2>10. ClaimInv'
    BY <1>2, <2>1, <2>2, <2>9 DEF AeronInv, ClaimInv
  <2>11. StatusInv'
    BY <1>2, <2>1 DEF AeronInv, StatusInv, Told, Threaded
  <2> QED
    BY <2>7, <2>8, <2>10, <2>11 DEF AeronInv
<1>9. CASE SubCycle
  <2> DEFINE status == FoldLeft(RecordItem, ClearStatus(poller.status), poller.chan)
             value == DataOf(poller.chan)
             last == poller.status.last
             none == <<>>
  <2>1. last \in Statuses /\ Distinct(poller.told) /\ last = LastOf(poller.told, "Disconnected")
    BY <1>1 DEF AeronInv, StatusInv, Told, IsStatusStream
  <2>2. Continues(ClearStatus(poller.status), last)
    BY <1>1, ClearedContinues
  <2>3. Continues(status, last)
    BY <1>1, <2>1, <2>2, FoldContinues
  <2>4. IsStatusStream(status)
    BY <2>1, <2>3, ContinuesType
  <2>5. DataOf(none) = none /\ none \in Seq(AeronItem) /\ value \in Seq(Nat)
    <3>1. [data |-> 0, status |-> "none"] \in AeronItem
      BY DEF AeronItem, Statuses
    <3> QED
      BY <1>1, <3>1, DataOfAppend
  <2> HIDE DEF status, none
  <2>6. /\ poller.told \o status.out \in Seq(Statuses) /\ Distinct(poller.told \o status.out)
        /\ status.last = LastOf(poller.told \o status.out, "Disconnected")
    <3> HIDE DEF last
    <3> QED
      BY <1>1, <2>1, <2>3, TellMore
  <2>7. (IF Ticks(value, status.out) THEN status.out ELSE <<>>) = status.out
    BY DEF Ticks
  <2>8. /\ Threaded
        /\ poller' = [poller EXCEPT !.chan = none, !.value = value, !.status = status,
                                    !.given = @ \o value, !.told = @ \o status.out]
    BY <1>9, <2>7 DEF SubCycle, status, none
  <2>9. /\ DOMAIN poller' = DOMAIN poller /\ poller'.mode = poller.mode /\ poller'.pos = poller.pos
        /\ poller'.given = poller.given \o value /\ poller'.chan = none /\ poller'.value = value
        /\ poller'.told = poller.told \o status.out /\ poller'.status = status /\ poller'.pc = poller.pc
    BY <1>1, <2>8
  <2>10. Pending = value /\ Pending' = none /\ Accepted' = Accepted /\ Threaded'
    BY <1>2, <2>5, <2>8, <2>9 DEF Pending, Threaded, Accepted
  <2>11. poller.pc # "open"
    BY <1>3, <1>9 DEF SubCycle
  <2>12. FragmentInv' /\ poller'.given \in Seq(Nat)
    BY <2>9, <2>10, <2>11, FragmentsGiven DEF AeronInv, none
  <2>13. Told(poller')
    BY <2>6, <2>9 DEF Told
  <2> HIDE DEF value
  <2> QED
    BY <1>2, <2>4, <2>5, <2>6, <2>9, <2>10, <2>12, <2>13, PollerFrame
<1> QED
  BY <1>4, <1>5, <1>6, <1>7, <1>8, <1>9 DEF SubStep

(* Before anything has happened. *)
LEMMA AeronInitInv ==
  ASSUME AeronInit
  PROVE  AeronInv
<1> DEFINE S == [state : {"data", "claimed", "padding"}, parse : {"some", "skip"}]
           none == <<>>
<1>1. PICK s \in AeronSubs : poller = NewPoller(EffectiveMode(s.requested, s.backend), s.backend, s.watch)
  BY DEF AeronInit
<1>2. /\ DOMAIN poller = {"mode", "backend", "watch", "pc", "pos", "count", "stop", "chan", "last", "value",
                          "status", "told", "given"}
      /\ poller.pc = "open" /\ poller.pos = 0 /\ poller.chan = none /\ poller.value = none
      /\ poller.status = StatusStream /\ poller.told = none /\ poller.given = none
  BY <1>1 DEF NewPoller
<1>3. /\ DOMAIN publisher = {"pc", "todo", "outcome", "cycles", "status", "told"}
      /\ publisher.pc = "open" /\ publisher.outcome = "none" /\ publisher.status = StatusStream
      /\ publisher.told = none /\ term = none
  BY DEF AeronInit, NewPublisher
<1>4. /\ none \in Seq(S) /\ none \in Seq(Statuses) /\ none \in Seq(AeronItem) /\ none \in Seq(Nat) /\ Len(none) = 0
  OBVIOUS
<1>5. /\ StatusStream.last = "Disconnected" /\ StatusStream.out = none
      /\ DOMAIN StatusStream = {"last", "out"}
      /\ StatusStream = [last |-> StatusStream.last, out |-> StatusStream.out]
  BY DEF StatusStream
<1>6. IsStatusStream(StatusStream)
  BY <1>4, <1>5 DEF IsStatusStream, Statuses
<1>7. Distinct(none) /\ LastOf(none, "Disconnected") = "Disconnected"
  BY DEF Distinct, LastOf
<1>8. DataOf(none) = none
  <2>1. [data |-> 0, status |-> "none"] \in AeronItem
    BY DEF AeronItem, Statuses
  <2> QED
    BY <1>4, <2>1, DataOfAppend
<1> HIDE DEF none
<1>9. AeronType
  BY <1>2, <1>3, <1>4, <1>6 DEF AeronType, Statuses
<1>10. ClaimInv
  BY <1>2, <1>3 DEF ClaimInv
<1>11. FragmentInv
  <2>1. Pending = none
    BY <1>2, <1>8 DEF Pending, none
  <2>2. Rising(none) /\ Before(none, none) /\ ToSet(none) = {}
    BY NoSamples, ElementsOf DEF none
  <2>3. Accepted = {}
    BY <1>2 DEF Accepted
  <2> QED
    BY <1>2, <1>4, <2>1, <2>2, <2>3 DEF FragmentInv, none
<1>12. StatusInv
  BY <1>2, <1>3, <1>5, <1>7 DEF StatusInv, Told
<1> QED
  BY <1>9, <1>10, <1>11, <1>12 DEF AeronInv

(* Every behaviour keeps the stream whole, wherever its fragments are. *)
LEMMA AeronInvariant == Spec => []AeronInv
<1>1. Init => AeronInv
  BY AeronInitInv DEF Init
<1>2. ASSUME AeronInv, UNCHANGED <<term, publisher, poller>>
      PROVE  AeronInv'
  <2>1. AeronType' /\ ClaimInv'
    BY <1>2 DEF AeronInv, AeronType, ClaimInv
  <2>2. Pending' = Pending /\ Accepted' = Accepted
    BY <1>2 DEF Pending, Accepted, Threaded
  <2>3. FragmentInv'
    BY <1>2, <2>2 DEF AeronInv, FragmentInv
  <2>4. StatusInv'
    BY <1>2 DEF AeronInv, StatusInv, Told, Threaded
  <2> QED
    BY <2>1, <2>3, <2>4 DEF AeronInv
<1>3. ASSUME AeronInv, Next
      PROVE  AeronInv'
  <2>1. CASE AeronTurn
    <3>1. CASE DriverStep
      BY <1>2, <1>3, <3>1 DEF DriverStep
    <3>2. CASE PubOpen \/ PubBegin \/ PubOffer \/ PubEnd \/ TryClaim \/ Settle
      BY <1>3, <3>2, AeronPublisherStep
    <3>3. CASE SubOpen \/ SubStep \/ SubFails \/ SubCycle \/ SubStop
      BY <1>3, <3>3, AeronSubscriberStep
    <3> QED
      BY <2>1, <3>1, <3>2, <3>3 DEF AeronTurn, AeronNext
  <2>2. CASE FixTurn \/ IceTurn
    BY <1>2, <1>3, <2>2 DEF FixTurn, IceTurn, aeronVars
  <2> QED
    BY <1>3, <2>1, <2>2 DEF Next
<1>4. AeronInv /\ [Next]_vars => AeronInv'
  BY <1>2, <1>3 DEF vars, aeronVars
<1> QED
  BY <1>1, <1>4, PTL DEF Spec

(* For every fragment limit, window and number of fragments, on the thread *)
(* or in the cycle: the graph is given every fragment the parser takes, in *)
(* order and once, and every transition of the status, once.               *)
THEOREM SubscribersStayExact == Spec => []SubscriberExact
<1>1. AeronInv => SubscriberExact
  <2> SUFFICES ASSUME AeronInv PROVE SubscriberExact
    OBVIOUS
  <2> DEFINE g == poller.given
             p == Pending
             all == g \o p
  <2>1. g \in Seq(Nat) /\ p \in Seq(Nat) /\ Rising(g) /\ Rising(p) /\ Before(g, p)
        /\ ToSet(g) \cup ToSet(p) = Accepted
    BY DEF AeronInv, AeronType, FragmentInv
  <2>2. Rising(all) /\ ToSet(all) = Accepted
    BY <2>1, RisingConcat, ElementsOf
  <2>3. FragmentsInOrder
    BY <2>2 DEF FragmentsInOrder, Rising, Accepted, Pending
  <2>4. Told(publisher) /\ Told(poller)
    BY DEF AeronInv, StatusInv
  <2>5. StatusExact
    BY <2>4 DEF StatusExact, Told, Distinct, LastOf
  <2> QED
    BY <2>3, <2>5 DEF SubscriberExact
<1> QED
  BY <1>1, AeronInvariant, PTL

-----------------------------------------------------------------------------
(* FIX *)

Fragment == [kind : FixKinds \cup {"logon", "rest"}, id : Nat, part : {"whole", "first", "rest"}]
SessionStatus == {"LoggingIn", "LoggedIn", "LoggedOut"}
FixEvent == [status : SessionStatus \cup {"Disconnected", "Error", "End", "Data"}, id : Nat]
SentKind == {"logon", "logout", "heartbeat", "data"} \cup FixSymbols
OutMessage == [kind : SentKind, seq : Nat]

NodeState ==
  [role : {"spin_init", "spin_acc", "thread_init", "thread_tls", "thread_acc", "sender"},
   pc : {"top", "connect", "store", "logon", "read", "closed", "exit", "gone"},
   sock : BOOLEAN, handle : BOOLEAN, shut : BOOLEAN, stop : BOOLEAN, late : BOOLEAN,
   buf : Seq(Fragment), seq : Nat, chan : Seq(FixEvent), inject : Seq(FixSymbols)]
VenueState ==
  [n : Nat, open : BOOLEAN, in : Seq(Fragment), out : Seq(OutMessage), half : Nat,
   logged : BOOLEAN, subs : SUBSET FixSymbols, told : Nat, jump : BOOLEAN]
HostState ==
  [pc : {"start", "running", "failed", "flagged", "joining", "stopped"},
   given : Seq(FixEvent), frags : Nat]
MarksState ==
  [pending : SUBSET FixSymbols, sent : SUBSET FixSymbols, wanted : SUBSET FixSymbols,
   logged_in : BOOLEAN]

FixType ==
  /\ fix \in NodeState /\ venue \in VenueState /\ host \in HostState /\ marks \in MarksState
  /\ ~ FixThreaded => fix.chan = <<>>

(* The numbers: what is on its way continues what the counterparty has     *)
(* read, up to the number of the session, while the node speaks on the     *)
(* connection; a connection that has no session yet has seen no message.   *)
NumbersInv ==
  fix.role # "spin_acc" =>
    /\ ~ venue.jump
    /\ venue.open => \A i \in 1..Len(venue.out) : venue.out[i].seq = venue.told + i
    /\ (venue.open /\ (FixThreaded => fix.pc \in {"logon", "read"})) =>
         fix.seq = venue.told + Len(venue.out)
    /\ (venue.open /\ FixThreaded /\ fix.pc \in {"connect", "store", "logon"}) =>
         venue.told = 0 /\ Len(venue.out) = 0
    /\ FixThreaded /\ fix.pc = "top" => ~ venue.open

(* What the node has told the graph, taken or not, and what it has yet to  *)
(* decode.                                                                 *)
FixLog == host.given \o fix.chan
FixBytes == fix.buf \o venue.in

(* The data told comes before the data to be decoded, in the order sent. *)
FixDataInv(log, bytes, frags) ==
  /\ \A i, j \in 1..Len(log) :
       i < j /\ log[i].status = "Data" /\ log[j].status = "Data" => log[i].id < log[j].id
  /\ \A i, j \in 1..Len(bytes) :
       i < j /\ bytes[i].kind = "data" /\ bytes[j].kind = "data" => bytes[i].id < bytes[j].id
  /\ \A i \in 1..Len(log), j \in 1..Len(bytes) :
       log[i].status = "Data" /\ bytes[j].kind = "data" => log[i].id < bytes[j].id
  /\ \A i \in 1..Len(log) : log[i].status = "Data" => log[i].id <= frags
  /\ \A i \in 1..Len(bytes) : bytes[i].kind = "data" => bytes[i].id <= frags

(* The status stream of a log, and the last status in it. *)
ToldOf(s) ==
  \A i, j \in 1..Len(s) : Neighbours(s, i, j) =>
    /\ s[i].status \in SessionStatus => s[j].status # "LoggingIn"
    /\ s[i].status = "Disconnected" => s[j].status \in {"LoggingIn", "Error", "End"}
LastIn(s, S) ==
  \A i \in 1..Len(s) :
    (s[i].status # "Data" /\ \A k \in (i + 1)..Len(s) : s[k].status = "Data") => s[i].status \in S

(* A session that is spoken in has been announced, one that has ended has  *)
(* been reported.                                                          *)
FixStatusInv ==
  /\ ToldOf(FixLog)
  /\ FixThreaded =>
       /\ fix.pc \in {"top", "connect", "store", "logon"} => LastIn(FixLog, {"Disconnected", "Error"})
       /\ fix.pc = "read" => LastIn(FixLog, SessionStatus)
       /\ fix.pc = "closed" => LastIn(FixLog, SessionStatus \cup {"Error"})
  /\ ~ FixThreaded =>
       /\ host.pc = "start" => Len(FixLog) = 0
       /\ fix.sock => LastIn(FixLog, SessionStatus)
       /\ ~ fix.sock /\ host.pc \in {"start", "running"} => LastIn(FixLog, {"Disconnected"})

(* A symbol the graph has asked for is pending until the logon and counts  *)
(* as sent afterwards.  In the first session its request is in the inject  *)
(* queue, on its way behind the Logon, or subscribed; the queue never      *)
(* holds a symbol twice, and so has room.                                  *)
Injected == {fix.inject[i] : i \in 1..Len(fix.inject)}
OnItsWay == {venue.out[i].kind : i \in 1..Len(venue.out)}

SymbolsInv ==
  /\ marks.wanted \subseteq marks.pending \cup marks.sent
  /\ marks.logged_in => marks.pending = {}
  /\ Injected \subseteq marks.sent
  /\ \A i, j \in 1..Len(fix.inject) : fix.inject[i] = fix.inject[j] => i = j
  /\ (fix.role = "thread_tls" /\ fix.pc \in {"store", "logon", "read", "closed"}) => venue.n > 0
  /\ (fix.role = "thread_tls" /\ Cardinality(FixSymbols) <= InjectCapacity) =>
       /\ venue.n = 0 \/ (venue.n = 1 /\ fix.pc \in {"store", "logon"}) => marks.sent \subseteq Injected
       /\ venue.n = 1 /\ venue.open /\ fix.pc = "read" =>
            marks.sent \subseteq Injected \cup OnItsWay \cup venue.subs
  /\ (venue.open /\ fix.role = "thread_tls" /\ fix.pc = "read" /\ ~ venue.logged) =>
       Len(venue.out) > 0 /\ venue.out[1].kind = "logon"

FixInv ==
  /\ FixType /\ NumbersInv /\ FixDataInv(FixLog, FixBytes, host.frags) /\ FixStatusInv
  /\ SymbolsInv

(* A sequence of sequences of at most one element, joined, is a selection  *)
(* of their elements, in their order.                                      *)
Selects(r, F, p) ==
  /\ p \in [1..Len(r) -> 1..Len(F)]
  /\ \A i \in 1..Len(r) : F[p[i]] = <<r[i]>>
  /\ \A i, j \in 1..Len(r) : i < j => p[i] < p[j]

LEMMA SelectMore ==
  ASSUME NEW S, NEW ss \in Seq(Seq(S)), NEW t \in Seq(S), Len(t) \in {0, 1},
         NEW r \in Seq(S), NEW p, Selects(r, ss, p)
  PROVE  \E q : Selects(r \o t, Append(ss, t), q)
<1> DEFINE n == Len(ss)
           m == Len(r)
           tt == Append(ss, t)
<1>1. /\ n \in Nat /\ m \in Nat /\ Len(tt) = n + 1 /\ tt[n + 1] = t
      /\ \A i \in 1..n : tt[i] = ss[i]
  BY AppendProperties, LenProperties
<1>3. /\ \A i \in 1..m : p[i] \in 1..n /\ ss[p[i]] = <<r[i]>>
      /\ \A i, j \in 1..m : i < j => p[i] < p[j]
      /\ p \in [1..m -> 1..n]
  BY DEF Selects
<1>4. CASE Len(t) = 0
  <2>1. r \o t = r
    BY <1>4, EmptySeq, ConcatEmptySeq
  <2>2. /\ p \in [1..m -> 1..(n + 1)] /\ \A i \in 1..m : tt[p[i]] = <<r[i]>>
    BY <1>1, <1>3
  <2> HIDE DEF tt, n
  <2>3. Selects(r, tt, p)
    BY <1>1, <1>3, <2>2 DEF Selects
  <2> QED
    BY <2>1, <2>3 DEF tt
<1>5. CASE Len(t) = 1
  <2> DEFINE q == [i \in 1..(m + 1) |-> IF i <= m THEN p[i] ELSE n + 1]
             u == r \o t
  <2>1. /\ Len(u) = m + 1 /\ u[m + 1] = t[1] /\ \A i \in 1..m : u[i] = r[i]
    <3>1. \A i \in 1..(Len(r) + Len(t)) : (r \o t)[i] = IF i <= Len(r) THEN r[i] ELSE t[i - Len(r)]
      BY ConcatProperties
    <3>2. Len(r \o t) = Len(r) + Len(t)
      BY ConcatProperties
    <3> QED
      BY <1>1, <1>5, <3>1, <3>2
  <2>2. t = <<t[1]>>
    BY <1>5
  <2>3. q \in [1..(m + 1) -> 1..(n + 1)]
    BY <1>1, <1>3
  <2>4. /\ \A i \in 1..m : q[i] = p[i]
        /\ q[m + 1] = n + 1
    BY <1>1
  <2> HIDE DEF q, u, tt, n, m
  <2>5. ASSUME NEW i \in 1..(m + 1) PROVE tt[q[i]] = <<u[i]>>
    <3>1. CASE i \in 1..m
      <4>1. q[i] = p[i] /\ u[i] = r[i]
        BY <2>1, <2>4, <3>1
      <4>2. tt[p[i]] = ss[p[i]] /\ ss[p[i]] = <<r[i]>>
        BY <1>1, <1>3, <3>1
      <4> QED
        BY <4>1, <4>2
    <3>2. CASE i = m + 1
      <4>1. q[i] = n + 1 /\ u[i] = t[1] /\ tt[n + 1] = t
        BY <1>1, <2>1, <2>4, <3>2
      <4> QED
        BY <2>2, <4>1
    <3> QED
      BY <1>1, <3>1, <3>2
  <2>6. ASSUME NEW i \in 1..(m + 1), NEW j \in 1..(m + 1), i < j PROVE q[i] < q[j]
    <3>1. i \in 1..m /\ (j \in 1..m \/ j = m + 1)
      BY <1>1, <2>6
    <3>2. q[i] = p[i] /\ p[i] \in 1..n
      BY <1>3, <2>4, <3>1
    <3>3. CASE j \in 1..m
      <4>1. q[j] = p[j] /\ p[i] < p[j]
        BY <1>3, <2>4, <2>6, <3>1, <3>3
      <4> QED
        BY <3>2, <4>1
    <3>4. CASE j = m + 1
      BY <1>1, <2>4, <3>2, <3>4
    <3> QED
      BY <3>1, <3>3, <3>4
  <2>7. Selects(u, tt, q)
    BY <1>1, <2>1, <2>3, <2>5, <2>6 DEF Selects
  <2> QED
    BY <2>7 DEF u, tt
<1> HIDE DEF n, m, tt
<1> QED
  BY <1>4, <1>5

LEMMA Selected ==
  ASSUME NEW S, NEW F \in Seq(Seq(S)), \A k \in 1..Len(F) : Len(F[k]) \in {0, 1}
  PROVE  FlattenSeq(F) \in Seq(S) /\ \E p : Selects(FlattenSeq(F), F, p)
<1> DEFINE G(k) == SubSeq(F, 1, k)
           n == Len(F)
           P == {k \in Nat : k <= n => FlattenSeq(G(k)) \in Seq(S) /\ \E p : Selects(FlattenSeq(G(k)), G(k), p)}
<1>1. n \in Nat
  BY LenProperties
<1>2. ASSUME NEW k \in Nat, k <= n
      PROVE  G(k) \in Seq(Seq(S)) /\ Len(G(k)) = k /\ \A i \in 1..k : G(k)[i] = F[i]
  BY <1>1, <1>2, SubSeqProperties
<1>3. 0 \in P
  <2>1. Len(G(0)) = 0 /\ G(0) \in Seq(Seq(S))
    BY <1>1, <1>2
  <2>2. G(0) = <<>>
    BY <2>1, EmptySeq
  <2>3. FlattenSeq(<<>>) = <<>>
    BY DEF FlattenSeq
  <2>4. Len(<<>>) = 0 /\ <<>> \in Seq(S)
    BY EmptySeq
  <2>5. \E p : Selects(<<>>, <<>>, p)
    <3> DEFINE none == <<>>
               p == [i \in 1..0 |-> 0]
    <3>1. p \in [1..0 -> 1..0] /\ 1..0 = {} /\ Len(none) = 0
      OBVIOUS
    <3> HIDE DEF none, p
    <3>2. Selects(none, none, p)
      BY <3>1 DEF Selects
    <3> QED
      BY <3>2 DEF none
  <2> QED
    BY <2>2, <2>3, <2>4, <2>5
<1>4. ASSUME NEW k \in P PROVE k + 1 \in P
  <2> SUFFICES ASSUME k + 1 <= n
               PROVE  FlattenSeq(G(k + 1)) \in Seq(S)
                      /\ \E p : Selects(FlattenSeq(G(k + 1)), G(k + 1), p)
    OBVIOUS
  <2>1. k \in Nat /\ k <= n /\ k + 1 \in 1..n
    BY <1>1
  <2>2. FlattenSeq(G(k)) \in Seq(S) /\ \E p : Selects(FlattenSeq(G(k)), G(k), p)
    BY <2>1
  <2> DEFINE t == F[k + 1]
             g == G(k)
             h == G(k + 1)
  <2>3. t \in Seq(S) /\ Len(t) \in {0, 1}
    BY <2>1
  <2>4. g \in Seq(Seq(S)) /\ Len(g) = k /\ \A i \in 1..k : g[i] = F[i]
    BY <1>2, <2>1
  <2>5. h \in Seq(Seq(S)) /\ Len(h) = k + 1 /\ \A i \in 1..(k + 1) : h[i] = F[i]
    BY <1>2, <2>1
  <2> HIDE DEF g, h, t
  <2>6. h = Append(g, t)
    <3>1. /\ Append(g, t) \in Seq(Seq(S)) /\ Len(Append(g, t)) = k + 1
          /\ Append(g, t)[k + 1] = t /\ \A i \in 1..k : Append(g, t)[i] = g[i]
      BY <2>3, <2>4, AppendProperties
    <3>2. ASSUME NEW i \in 1..(k + 1) PROVE Append(g, t)[i] = h[i]
      <4>1. i \in 1..k \/ i = k + 1
        BY <2>1
      <4>2. h[i] = F[i]
        BY <2>5
      <4> QED
        BY <2>4, <3>1, <4>1, <4>2 DEF t
    <3> QED
      BY <2>5, <3>1, <3>2, SeqEqual
  <2>7. FlattenSeq(h) = FlattenSeq(g) \o t
    BY <2>3, <2>4, <2>6, FlattenAppend
  <2>8. FlattenSeq(g) \in Seq(S) /\ \E p : Selects(FlattenSeq(g), g, p)
    BY <2>2 DEF g
  <2>9. FlattenSeq(h) \in Seq(S)
    BY <2>3, <2>7, <2>8, ConcatProperties
  <2>10. \E p : Selects(FlattenSeq(h), h, p)
    BY <2>3, <2>4, <2>6, <2>7, <2>8, SelectMore
  <2> QED
    BY <2>9, <2>10 DEF h
<1>5. n \in P
  <2> HIDE DEF P
  <2>1. P \in SUBSET Nat
    BY DEF P
  <2> QED
    BY <1>1, <1>3, <1>4, <2>1, Inductive
<1>6. G(n) = F
  <2>1. G(n) \in Seq(Seq(S)) /\ Len(G(n)) = n /\ \A i \in 1..n : G(n)[i] = F[i]
    BY <1>1, <1>2
  <2> QED
    BY <2>1, SeqEqual
<1>7. FlattenSeq(G(n)) \in Seq(S) /\ \E p : Selects(FlattenSeq(G(n)), G(n), p)
  BY <1>1, <1>5
<1> HIDE DEF G, n, P
<1> QED
  BY <1>6, <1>7

(* The messages of a buffer end at ascending places in it: the rank of a   *)
(* place among the ends is an injection into as many numbers, and so is    *)
(* onto them.                                                              *)
RankIn(E, i) == Cardinality({j \in E : j <= i})

LEMMA Ranks ==
  ASSUME NEW n \in Nat, NEW E \in SUBSET (1..n)
  PROVE  /\ Cardinality(E) \in Nat
         /\ \A k \in 1..Cardinality(E) : \E i \in E : RankIn(E, i) = k
         /\ \A i, j \in E : RankIn(E, i) < RankIn(E, j) => i < j
<1> DEFINE c == Cardinality(E)
           U(i) == {j \in E : j <= i}
           f == [i \in E |-> RankIn(E, i)]
<1>1. IsFiniteSet(E) /\ c \in Nat
  <2>1. 1 \in Int /\ n \in Int
    OBVIOUS
  <2>2. IsFiniteSet(1..n)
    BY <2>1, FS_Interval
  <2> QED
    BY <2>2, FS_Subset, FS_CardinalityType
<1>2. ASSUME NEW i \in E
      PROVE  /\ IsFiniteSet(U(i)) /\ RankIn(E, i) = Cardinality(U(i))
             /\ RankIn(E, i) \in 1..c
  <2>1. U(i) \in SUBSET E /\ i \in U(i)
    OBVIOUS
  <2>2. IsFiniteSet(U(i)) /\ Cardinality(U(i)) <= c
    BY <1>1, <2>1, FS_Subset
  <2>3. Cardinality(U(i)) \in Nat /\ Cardinality(U(i)) # 0
    BY <2>1, <2>2, FS_CardinalityType, FS_EmptySet
  <2>4. RankIn(E, i) = Cardinality(U(i))
    BY DEF RankIn
  <2> HIDE DEF U
  <2> QED
    BY <1>1, <2>2, <2>3, <2>4
<1>3. ASSUME NEW i \in E, NEW j \in E, i < j PROVE RankIn(E, i) < RankIn(E, j)
  <2>0. i \in Int /\ j \in Int /\ \A x \in E : x \in Int
    OBVIOUS
  <2>1. U(i) \in SUBSET U(j) /\ j \in U(j) /\ j \notin U(i)
    <3>1. \A x \in E : x <= i => x <= j
      BY <1>3, <2>0
    <3>2. j <= j /\ ~(j <= i)
      BY <1>3, <2>0
    <3> QED
      BY <3>1, <3>2
  <2>2. IsFiniteSet(U(j)) /\ RankIn(E, i) = Cardinality(U(i)) /\ RankIn(E, j) = Cardinality(U(j))
        /\ RankIn(E, i) \in 1..c /\ RankIn(E, j) \in 1..c
    BY <1>2
  <2>3. Cardinality(U(i)) <= Cardinality(U(j)) /\ (Cardinality(U(j)) = Cardinality(U(i)) => U(j) = U(i))
    BY <2>1, <2>2, FS_Subset
  <2>4. U(j) # U(i)
    BY <2>1
  <2> HIDE DEF U
  <2> QED
    BY <1>1, <2>2, <2>3, <2>4
<1>4. ASSUME NEW i \in E, NEW j \in E, ~(i < j) PROVE ~(RankIn(E, i) < RankIn(E, j))
  <2>1. i = j \/ j < i
    BY <1>4
  <2>2. RankIn(E, i) \in Int /\ RankIn(E, j) \in Int
    <3>1. RankIn(E, i) \in 1..c /\ RankIn(E, j) \in 1..c
      BY <1>2
    <3> HIDE DEF c
    <3> QED
      BY <1>1, <3>1
  <2>3. CASE i = j
    BY <2>2, <2>3
  <2>4. CASE j < i
    <3>1. RankIn(E, j) < RankIn(E, i)
      BY <1>3, <2>4
    <3> QED
      BY <2>2, <3>1
  <2> QED
    BY <2>1, <2>3, <2>4
<1>5. ASSUME NEW i \in E, NEW j \in E, RankIn(E, i) = RankIn(E, j) PROVE i = j
  <2>1. i = j \/ i < j \/ j < i
    OBVIOUS
  <2>2. RankIn(E, i) \in Int /\ RankIn(E, j) \in Int
    <3>1. RankIn(E, i) \in 1..c /\ RankIn(E, j) \in 1..c
      BY <1>2
    <3> HIDE DEF c
    <3> QED
      BY <1>1, <3>1
  <2>3. ~(i < j) /\ ~(j < i)
    BY <1>3, <1>5, <2>2
  <2> QED
    BY <2>1, <2>3
<1>6. f \in Injection(E, 1..c)
  BY <1>2, <1>5 DEF Injection, IsInjective
<1>7. IsFiniteSet(1..c) /\ Cardinality(1..c) = c
  <2>1. 1 \in Int /\ c \in Int
    BY <1>1
  <2> HIDE DEF c
  <2>2. IsFiniteSet(1..c) /\ Cardinality(1..c) = IF 1 > c THEN 0 ELSE c - 1 + 1
    BY <2>1, FS_Interval
  <2> QED
    BY <1>1, <2>2
<1>8. f \in Surjection(E, 1..c)
  BY <1>6, <1>7, FS_Injection
<1>9. \A k \in 1..c : \E i \in E : f[i] = k
  BY <1>8 DEF Surjection
<1> QED
  BY <1>1, <1>4, <1>9

LEMMA EndsAscend ==
  ASSUME NEW buf \in Seq(Fragment), NEW ends, ends = MessageEnds(buf)
  PROVE  /\ ends \in Seq(Nat) /\ DOMAIN ends = 1..Len(ends) /\ Len(ends) \in Nat
         /\ \A i \in 1..Len(ends) : ends[i] \in 1..Len(buf)
         /\ \A i, j \in 1..Len(ends) : i < j => ends[i] < ends[j]
<1> DEFINE E == {i \in DOMAIN buf : buf[i].part # "first"}
           n == Len(buf)
           c == Cardinality(E)
<1>1. n \in Nat /\ E \in SUBSET (1..n)
  BY LenProperties
<1>2. ends = [k \in 1..c |-> CHOOSE i \in E : RankIn(E, i) = k]
  BY DEF MessageEnds, RankIn
<1> HIDE DEF E, n, c
<1>3. /\ c \in Nat /\ \A k \in 1..c : \E i \in E : RankIn(E, i) = k
      /\ \A i, j \in E : RankIn(E, i) < RankIn(E, j) => i < j
  BY <1>1, Ranks DEF c
<1>4. ASSUME NEW k \in 1..c PROVE ends[k] \in E /\ RankIn(E, ends[k]) = k /\ ends[k] \in 1..n
  <2>1. ends[k] = CHOOSE i \in E : RankIn(E, i) = k
    BY <1>2
  <2>2. \E i \in E : RankIn(E, i) = k
    BY <1>3
  <2> QED
    BY <1>1, <2>1, <2>2
<1>5. ends \in Seq(Nat) /\ Len(ends) = c /\ DOMAIN ends = 1..c
  BY <1>1, <1>2, <1>3, <1>4
<1>6. \A i, j \in 1..c : i < j => ends[i] < ends[j]
  BY <1>3, <1>4
<1> QED
  BY <1>3, <1>4, <1>5, <1>6 DEF n

(* The place where the k-th message of a buffer begins. *)
StartOf(ends, k) == IF k = 1 THEN 1 ELSE ends[k - 1] + 1

LEMMA StartsAscend ==
  ASSUME NEW buf \in Seq(Fragment), NEW ends, ends = MessageEnds(buf)
  PROVE  /\ Decoded(buf) \in Seq(Fragment) /\ Len(Decoded(buf)) = Len(ends)
         /\ \A k \in 1..Len(ends) : /\ Decoded(buf)[k] = buf[StartOf(ends, k)]
                                    /\ StartOf(ends, k) \in 1..ends[Len(ends)]
         /\ \A i, j \in 1..Len(ends) : i < j => StartOf(ends, i) < StartOf(ends, j)
<1>1. /\ ends \in Seq(Nat) /\ DOMAIN ends = 1..Len(ends) /\ Len(ends) \in Nat
      /\ \A i \in 1..Len(ends) : ends[i] \in 1..Len(buf)
      /\ \A i, j \in 1..Len(ends) : i < j => ends[i] < ends[j]
  BY EndsAscend
<1>2. Len(buf) \in Nat
  BY LenProperties
<1>3. ASSUME NEW k \in 1..Len(ends)
      PROVE  StartOf(ends, k) \in 1..ends[k] /\ ends[k] <= ends[Len(ends)] /\ ends[k] <= Len(buf)
  <2>1. ends[k] \in 1..Len(buf) /\ Len(ends) \in 1..Len(ends) /\ ends[Len(ends)] \in 1..Len(buf)
    BY <1>1
  <2>2. ends[k] <= ends[Len(ends)]
    <3>1. CASE k = Len(ends)
      BY <2>1, <3>1
    <3>2. CASE k < Len(ends)
      <4>1. ends[k] < ends[Len(ends)]
        BY <1>1, <2>1, <3>2
      <4> QED
        BY <2>1, <4>1
    <3>3. k = Len(ends) \/ k < Len(ends)
      <4> DEFINE n == Len(ends)
      <4>1. n \in Nat /\ k \in 1..n
        BY <1>1
      <4> HIDE DEF n
      <4>2. k = n \/ k < n
        BY <4>1
      <4> QED
        BY <4>2 DEF n
    <3> QED
      BY <3>1, <3>2, <3>3
  <2>3. StartOf(ends, k) \in 1..ends[k]
    <3>1. CASE k = 1
      BY <2>1, <3>1 DEF StartOf
    <3>2. CASE k # 1
      <4>1. k - 1 \in 1..Len(ends) /\ k - 1 < k
        BY <1>1, <3>2
      <4>2. ends[k - 1] \in 1..Len(buf) /\ ends[k - 1] < ends[k]
        BY <1>1, <4>1
      <4> QED
        BY <2>1, <3>2, <4>2 DEF StartOf
    <3> QED
      BY <3>1, <3>2
  <2> QED
    BY <2>1, <2>2, <2>3
<1>4. Decoded(buf) = [k \in 1..Len(ends) |-> buf[StartOf(ends, k)]]
  BY <1>1 DEF Decoded, StartOf
<1>5. ASSUME NEW k \in 1..Len(ends)
      PROVE  StartOf(ends, k) \in 1..ends[Len(ends)] /\ StartOf(ends, k) \in 1..Len(buf)
  <2>1. ends[k] \in Nat /\ ends[Len(ends)] \in Nat
    BY <1>1
  <2> QED
    BY <1>2, <1>3, <2>1
<1>6. \A k \in 1..Len(ends) : buf[StartOf(ends, k)] \in Fragment
  BY <1>5
<1>7. Decoded(buf) \in Seq(Fragment) /\ Len(Decoded(buf)) = Len(ends)
      /\ \A k \in 1..Len(ends) : Decoded(buf)[k] = buf[StartOf(ends, k)]
  BY <1>1, <1>4, <1>6
<1>8. ASSUME NEW i \in 1..Len(ends), NEW j \in 1..Len(ends), i < j
      PROVE  StartOf(ends, i) < StartOf(ends, j)
  <2>1. j # 1 /\ j - 1 \in 1..Len(ends) /\ StartOf(ends, j) = ends[j - 1] + 1
    BY <1>1, <1>8 DEF StartOf
  <2>2. ends[i] <= ends[j - 1]
    <3>1. i = j - 1 \/ i < j - 1
      BY <1>8
    <3>2. ends[i] \in Nat /\ ends[j - 1] \in Nat
      BY <1>1, <2>1
    <3> QED
      BY <1>1, <2>1, <3>1, <3>2
  <2>3. StartOf(ends, i) \in 1..ends[i] /\ ends[i] \in Nat /\ ends[j - 1] \in Nat
    BY <1>1, <1>3, <2>1, SMTT(30)
  <2> QED
    BY <2>1, <2>2, <2>3
<1> QED
  BY <1>5, <1>7, <1>8

(* r is a part of s, from the place after d on. *)
Within(r, s, d) == \A i \in 1..Len(r) : i + d \in 1..Len(s) /\ r[i] = s[i + d]

(* What is left of a buffer, from some place on. *)
LEMMA UndecodedIsLeft ==
  ASSUME NEW buf \in Seq(Fragment), NEW ends, ends = MessageEnds(buf),
         NEW d, d = IF ends = <<>> THEN 0 ELSE ends[Len(ends)]
  PROVE  /\ d \in Nat /\ d <= Len(buf)
         /\ Undecoded(buf) \in Seq(Fragment) /\ Within(Undecoded(buf), buf, d)
         /\ Len(ends) > 0 => d = ends[Len(ends)]
<1>1. /\ ends \in Seq(Nat) /\ Len(ends) \in Nat
      /\ \A i \in 1..Len(ends) : ends[i] \in 1..Len(buf)
  BY EndsAscend
<1>2. Len(buf) \in Nat /\ \A i \in 1..Len(buf) : buf[i] \in Fragment
  BY LenProperties
<1>3. CASE ends = <<>>
  <2>1. Undecoded(buf) = buf /\ d = 0 /\ Len(ends) = 0
    BY <1>3 DEF Undecoded
  <2> QED
    BY <1>2, <2>1 DEF Within
<1>4. CASE ends # <<>>
  <2>1. Len(ends) > 0 /\ d = ends[Len(ends)] /\ d \in 1..Len(buf)
    BY <1>1, <1>4, EmptySeq
  <2>2. Undecoded(buf) = SubSeq(buf, d + 1, Len(buf))
    BY <1>4, <2>1 DEF Undecoded
  <2> DEFINE r == SubSeq(buf, d + 1, Len(buf))
  <2>3. /\ r \in Seq(Fragment)
        /\ Len(r) = IF d + 1 <= Len(buf) THEN Len(buf) - (d + 1) + 1 ELSE 0
        /\ \A i \in 1..(Len(buf) - (d + 1) + 1) : r[i] = buf[(d + 1) + i - 1]
    <3>1. d + 1 \in Int /\ Len(buf) \in Int /\ \A i \in (d + 1)..Len(buf) : buf[i] \in Fragment
      BY <1>2, <2>1
    <3> QED
      BY <3>1, SubSeqProperties
  <2> HIDE DEF r
  <2>4. ASSUME NEW i \in 1..Len(r) PROVE i + d \in 1..Len(buf) /\ r[i] = buf[i + d]
    <3>1. i \in 1..(Len(buf) - (d + 1) + 1) /\ (d + 1) + i - 1 = i + d
      BY <1>2, <2>1, <2>3
    <3>2. i + d \in 1..Len(buf)
      BY <1>2, <2>1, <3>1
    <3> QED
      BY <2>3, <3>1, <3>2
  <2> QED
    BY <1>2, <2>1, <2>2, <2>3, <2>4 DEF Within, r
<1> QED
  BY <1>3, <1>4

(* What is told of the messages of a buffer. *)
Drained == {e \in FixEvent : e.status \in {"LoggedIn", "LoggedOut", "Data"}}

LEMMA EventsOf ==
  ASSUME NEW m \in Fragment
  PROVE  /\ EventOf(m) \in Seq(Drained) /\ Len(EventOf(m)) \in {0, 1}
         /\ \A e : EventOf(m) = <<e>> /\ e.status = "Data" => m.kind = "data" /\ e.id = m.id
<1>1. m.kind \in {"data", "test", "logout", "heartbeat", "logon", "rest"} /\ m.id \in Nat
  BY FixAssumption DEF Fragment
<1> DEFINE in == [status |-> "LoggedIn", id |-> 0]
           out == [status |-> "LoggedOut", id |-> 0]
           data == [status |-> "Data", id |-> m.id]
<1>2. in \in Drained /\ out \in Drained /\ data \in Drained
  BY <1>1 DEF Drained, FixEvent, SessionStatus
<1>3. in.status = "LoggedIn" /\ out.status = "LoggedOut" /\ data.id = m.id
  OBVIOUS
<1>4. \/ m.kind = "logon" /\ EventOf(m) = <<in>>
      \/ m.kind = "logout" /\ EventOf(m) = <<out>>
      \/ m.kind = "data" /\ EventOf(m) = <<data>>
      \/ EventOf(m) = <<>>
  BY <1>1 DEF EventOf
<1> HIDE DEF in, out, data
<1>7. ASSUME NEW e \in Drained PROVE <<e>> \in Seq(Drained) /\ Len(<<e>>) = 1
  OBVIOUS
<1>8. <<>> \in Seq(Drained) /\ Len(<<>>) = 0
  BY EmptySeq
<1>5. EventOf(m) \in Seq(Drained) /\ Len(EventOf(m)) \in {0, 1}
  BY <1>2, <1>4, <1>7, <1>8
<1>6. ASSUME NEW e, EventOf(m) = <<e>>, e.status = "Data" PROVE m.kind = "data" /\ e.id = m.id
  BY <1>3, <1>4, <1>6
<1> QED
  BY <1>5, <1>6

(* Each event comes from the beginning of its message, in their order. *)
Comes(events, buf, d, q) ==
  /\ \A i \in 1..Len(events) : q[i] \in 1..d
  /\ \A i \in 1..Len(events) : events[i].status = "Data" =>
       buf[q[i]].kind = "data" /\ events[i].id = buf[q[i]].id
  /\ \A i, j \in 1..Len(events) : i < j => q[i] < q[j]

LEMMA EventsCome ==
  ASSUME NEW buf \in Seq(Fragment)
  PROVE  /\ DrainedEvents(buf) \in Seq(Drained) /\ Undecoded(buf) \in Seq(Fragment)
         /\ \E d \in Nat : \E q : /\ d <= Len(buf) /\ Within(Undecoded(buf), buf, d)
                                 /\ Comes(DrainedEvents(buf), buf, d, q)
<1> DEFINE ends == MessageEnds(buf)
           ms == Decoded(buf)
           d == IF ends = <<>> THEN 0 ELSE ends[Len(ends)]
           F == [k \in DOMAIN ms |-> EventOf(ms[k])]
           events == FlattenSeq(F)
<1> HIDE DEF ends
<1>1. ends = MessageEnds(buf) /\ events = DrainedEvents(buf)
  BY DEF ends, DrainedEvents
<1> HIDE DEF d, ms
<1>2. /\ d \in Nat /\ d <= Len(buf)
      /\ Undecoded(buf) \in Seq(Fragment) /\ Within(Undecoded(buf), buf, d)
      /\ Len(ends) > 0 => d = ends[Len(ends)]
  BY <1>1, UndecodedIsLeft DEF d
<1>3. /\ ms \in Seq(Fragment) /\ Len(ms) = Len(ends)
      /\ \A k \in 1..Len(ends) : /\ ms[k] = buf[StartOf(ends, k)]
                                 /\ StartOf(ends, k) \in 1..ends[Len(ends)]
      /\ \A i, j \in 1..Len(ends) : i < j => StartOf(ends, i) < StartOf(ends, j)
  BY <1>1, StartsAscend DEF ms
<1>4. Len(ends) \in Nat /\ DOMAIN ms = 1..Len(ms)
  BY <1>1, <1>3, EndsAscend
<1>5. \A k \in 1..Len(ms) : ms[k] \in Fragment /\ F[k] = EventOf(ms[k])
  BY <1>3, <1>4
<1>6. \A k \in 1..Len(ms) : F[k] \in Seq(Drained) /\ Len(F[k]) \in {0, 1}
  BY <1>5, EventsOf
<1>7. F \in Seq(Seq(Drained)) /\ Len(F) = Len(ms)
  BY <1>3, <1>4, <1>6
<1> HIDE DEF F
<1>8. events \in Seq(Drained) /\ \E p : Selects(events, F, p)
  BY <1>6, <1>7, Selected
<1> HIDE DEF events
<1>9. PICK p : Selects(events, F, p)
  BY <1>8
<1>10. /\ \A i \in 1..Len(events) : p[i] \in 1..Len(ms) /\ F[p[i]] = <<events[i]>>
       /\ \A i, j \in 1..Len(events) : i < j => p[i] < p[j]
  BY <1>7, <1>9 DEF Selects
<1> DEFINE q == [i \in 1..Len(events) |-> StartOf(ends, p[i])]
<1>11. \A i \in 1..Len(events) : q[i] = StartOf(ends, p[i]) /\ p[i] \in 1..Len(ends)
  BY <1>3, <1>10
<1> HIDE DEF q
<1>12. ASSUME NEW i \in 1..Len(events) PROVE q[i] \in 1..d
  <2>1. p[i] \in 1..Len(ends) /\ Len(ends) > 0
    BY <1>4, <1>11
  <2> QED
    BY <1>2, <1>3, <1>11, <2>1
<1>13. ASSUME NEW i \in 1..Len(events), events[i].status = "Data"
       PROVE  buf[q[i]].kind = "data" /\ events[i].id = buf[q[i]].id
  <2>1. ms[p[i]] = buf[q[i]] /\ ms[p[i]] \in Fragment /\ EventOf(ms[p[i]]) = <<events[i]>>
    BY <1>3, <1>5, <1>10, <1>11
  <2> QED
    BY <1>13, <2>1, EventsOf
<1>14. ASSUME NEW i \in 1..Len(events), NEW j \in 1..Len(events), i < j PROVE q[i] < q[j]
  BY <1>3, <1>10, <1>11, <1>14
<1>15. Comes(events, buf, d, q)
  BY <1>12, <1>13, <1>14 DEF Comes
<1> QED
  BY <1>1, <1>2, <1>8, <1>15

(* What is answered to them. *)
LEMMA AnswersOf ==
  ASSUME NEW buf \in Seq(Fragment)
  PROVE  DrainedAnswers(buf) \in Seq({"logon", "heartbeat"})
<1> DEFINE K == {"logon", "heartbeat"}
           ms == Decoded(buf)
           F == [k \in DOMAIN ms |-> Answers(ms[k])]
           ends == MessageEnds(buf)
<1> HIDE DEF ends, ms
<1>1. ends = MessageEnds(buf)
  BY DEF ends
<1>2. ms \in Seq(Fragment) /\ DOMAIN ms = 1..Len(ms) /\ Len(ms) \in Nat
  BY <1>1, StartsAscend DEF ms
<1>3. \A k \in 1..Len(ms) : F[k] \in {<<>>, <<"logon">>, <<"heartbeat">>}
  BY <1>2 DEF Answers
<1>8. /\ <<>> \in Seq(K) /\ <<"logon">> \in Seq(K) /\ <<"heartbeat">> \in Seq(K)
      /\ Len(<<>>) = 0 /\ Len(<<"logon">>) = 1 /\ Len(<<"heartbeat">>) = 1
  BY EmptySeq
<1>4. \A k \in 1..Len(ms) : F[k] \in Seq(K) /\ Len(F[k]) \in {0, 1}
  BY <1>3, <1>8, Zenon
<1>5. F \in Seq(Seq(K)) /\ Len(F) = Len(ms)
  BY <1>2, <1>4
<1>6. DrainedAnswers(buf) = FlattenSeq(F)
  BY DEF DrainedAnswers, ms
<1> HIDE DEF F, K
<1>7. FlattenSeq(F) \in Seq(K)
  BY <1>4, <1>5, Selected
<1> QED
  BY <1>6, <1>7 DEF K

(* Two sequences, joined. *)
Joined(s, e, u) ==
  /\ Len(s) \in Nat /\ Len(e) \in Nat /\ Len(u) = Len(s) + Len(e)
  /\ \A i \in 1..Len(s) : u[i] = s[i]
  /\ \A i \in 1..Len(u) : i > Len(s) => i - Len(s) \in 1..Len(e) /\ u[i] = e[i - Len(s)]

LEMMA EventsJoin ==
  ASSUME NEW s \in Seq(FixEvent), NEW e \in Seq(FixEvent)
  PROVE  s \o e \in Seq(FixEvent) /\ Joined(s, e, s \o e)
<1>1. /\ Len(s) \in Nat /\ Len(e) \in Nat /\ s \o e \in Seq(FixEvent) /\ Len(s \o e) = Len(s) + Len(e)
      /\ \A i \in 1..(Len(s) + Len(e)) : (s \o e)[i] = IF i <= Len(s) THEN s[i] ELSE e[i - Len(s)]
  BY ConcatProperties, LenProperties
<1> HIDE DEF Joined
<1>2. \A i \in 1..Len(s) : (s \o e)[i] = s[i]
  BY <1>1
<1>3. \A i \in 1..(Len(s) + Len(e)) : i > Len(s) => i - Len(s) \in 1..Len(e) /\ (s \o e)[i] = e[i - Len(s)]
  BY <1>1
<1> QED
  BY <1>1, <1>2, <1>3 DEF Joined

LEMMA BytesJoin ==
  ASSUME NEW s \in Seq(Fragment), NEW e \in Seq(Fragment)
  PROVE  s \o e \in Seq(Fragment) /\ Joined(s, e, s \o e)
<1>1. /\ Len(s) \in Nat /\ Len(e) \in Nat /\ s \o e \in Seq(Fragment) /\ Len(s \o e) = Len(s) + Len(e)
      /\ \A i \in 1..(Len(s) + Len(e)) : (s \o e)[i] = IF i <= Len(s) THEN s[i] ELSE e[i - Len(s)]
  BY ConcatProperties, LenProperties
<1> HIDE DEF Joined
<1>2. \A i \in 1..Len(s) : (s \o e)[i] = s[i]
  BY <1>1
<1>3. \A i \in 1..(Len(s) + Len(e)) : i > Len(s) => i - Len(s) \in 1..Len(e) /\ (s \o e)[i] = e[i - Len(s)]
  BY <1>1
<1> QED
  BY <1>1, <1>2, <1>3 DEF Joined

(* Telling a status does not touch the data. *)
LEMMA DataTold ==
  ASSUME NEW log, NEW e, NEW u, Joined(log, e, u), NEW bytes, NEW frags,
         FixDataInv(log, bytes, frags), \A i \in 1..Len(e) : e[i].status # "Data"
  PROVE  FixDataInv(u, bytes, frags)
<1>1. ASSUME NEW i \in 1..Len(u), u[i].status = "Data" PROVE i \in 1..Len(log) /\ u[i] = log[i]
  <2>1. ~ (i > Len(log))
    BY <1>1 DEF Joined
  <2>2. Len(log) \in Nat /\ Len(u) \in Nat
    BY DEF Joined
  <2>3. i \in 1..Len(log)
    BY <2>1, <2>2
  <2> QED
    BY <2>3 DEF Joined
<1> QED
  BY <1>1 DEF FixDataInv

(* Nor does losing bytes at either end. *)
LEMMA DataKept ==
  ASSUME NEW log, NEW bytes, NEW rest, NEW d \in Nat, Within(rest, bytes, d), Len(rest) \in Nat,
         NEW frags, FixDataInv(log, bytes, frags)
  PROVE  FixDataInv(log, rest, frags)
<1>1. \A i \in 1..Len(rest) : i + d \in 1..Len(bytes) /\ rest[i] = bytes[i + d]
  BY DEF Within
<1>2. \A i, j \in 1..Len(rest) : i < j => i + d < j + d
  OBVIOUS
<1>3. \A i, j \in 1..Len(rest) :
        i < j /\ rest[i].kind = "data" /\ rest[j].kind = "data" => rest[i].id < rest[j].id
  BY <1>1, <1>2 DEF FixDataInv
<1> QED
  BY <1>1, <1>3 DEF FixDataInv

(* A dispatched message moves from the bytes to the log. *)
LEMMA DataDecoded ==
  ASSUME NEW log, NEW e, NEW u, Joined(log, e, u), NEW bytes, NEW rest, NEW frags,
         FixDataInv(log, bytes, frags), Len(rest) \in Nat, Len(bytes) \in Nat,
         NEW d \in Nat, d <= Len(bytes), Within(rest, bytes, d), NEW q, Comes(e, bytes, d, q)
  PROVE  FixDataInv(u, rest, frags)
<1>1. /\ Len(log) \in Nat /\ Len(e) \in Nat /\ Len(u) = Len(log) + Len(e)
      /\ \A i \in 1..Len(log) : u[i] = log[i]
      /\ \A i \in 1..Len(u) : i > Len(log) => i - Len(log) \in 1..Len(e) /\ u[i] = e[i - Len(log)]
  BY DEF Joined
<1>2. FixDataInv(log, rest, frags)
  BY DataKept
<1>3. ASSUME NEW i \in 1..Len(e) PROVE q[i] \in 1..d /\ q[i] \in 1..Len(bytes)
  BY <1>3 DEF Comes
<1>4. ASSUME NEW i \in 1..Len(u), NEW j \in 1..Len(u), i < j,
             u[i].status = "Data", u[j].status = "Data"
      PROVE  u[i].id < u[j].id
  <2>1. CASE j <= Len(log)
    <3>1. i \in 1..Len(log) /\ j \in 1..Len(log) /\ u[i] = log[i] /\ u[j] = log[j]
      BY <1>1, <1>4, <2>1
    <3> QED
      BY <1>4, <3>1 DEF FixDataInv
  <2>2. CASE ~(j <= Len(log)) /\ i <= Len(log)
    <3> DEFINE y == j - Len(log)
    <3>1. i \in 1..Len(log) /\ u[i] = log[i] /\ y \in 1..Len(e) /\ u[j] = e[y]
      BY <1>1, <1>4, <2>2
    <3> HIDE DEF y
    <3>2. q[y] \in 1..Len(bytes) /\ bytes[q[y]].kind = "data" /\ e[y].id = bytes[q[y]].id
      BY <1>3, <1>4, <3>1 DEF Comes
    <3> QED
      BY <1>4, <3>1, <3>2 DEF FixDataInv
  <2>3. CASE ~(j <= Len(log)) /\ ~(i <= Len(log))
    <3> DEFINE x == i - Len(log)
               y == j - Len(log)
    <3>1. x \in 1..Len(e) /\ u[i] = e[x] /\ y \in 1..Len(e) /\ u[j] = e[y] /\ x < y
      BY <1>1, <1>4, <2>3
    <3> HIDE DEF x, y
    <3>2. /\ q[y] \in 1..Len(bytes) /\ bytes[q[y]].kind = "data" /\ e[y].id = bytes[q[y]].id
          /\ q[x] \in 1..Len(bytes) /\ bytes[q[x]].kind = "data" /\ e[x].id = bytes[q[x]].id
          /\ q[x] < q[y]
      BY <1>3, <1>4, <3>1 DEF Comes
    <3> QED
      BY <3>1, <3>2 DEF FixDataInv
  <2> QED
    BY <2>1, <2>2, <2>3
<1>5. ASSUME NEW i \in 1..Len(u), u[i].status = "Data"
      PROVE  \/ i \in 1..Len(log) /\ u[i] = log[i]
             \/ \E x \in 1..d : x \in 1..Len(bytes) /\ bytes[x].kind = "data" /\ u[i].id = bytes[x].id
  <2>1. CASE i <= Len(log)
    BY <1>1, <2>1
  <2>2. CASE ~(i <= Len(log))
    <3> DEFINE x == i - Len(log)
    <3>1. x \in 1..Len(e) /\ u[i] = e[x]
      BY <1>1, <2>2
    <3> HIDE DEF x
    <3>2. q[x] \in 1..d /\ q[x] \in 1..Len(bytes) /\ bytes[q[x]].kind = "data" /\ e[x].id = bytes[q[x]].id
      BY <1>3, <1>5, <3>1 DEF Comes
    <3> QED
      BY <3>1, <3>2
  <2> QED
    BY <2>1, <2>2
<1>6. ASSUME NEW i \in 1..Len(u), NEW j \in 1..Len(rest), u[i].status = "Data", rest[j].kind = "data"
      PROVE  u[i].id < rest[j].id
  <2>1. CASE i \in 1..Len(log) /\ u[i] = log[i]
    BY <1>2, <1>6, <2>1 DEF FixDataInv
  <2>2. ASSUME NEW x \in 1..d, x \in 1..Len(bytes), bytes[x].kind = "data", u[i].id = bytes[x].id
        PROVE  u[i].id < rest[j].id
    <3>1. j + d \in 1..Len(bytes) /\ rest[j] = bytes[j + d] /\ x < j + d
      BY DEF Within
    <3> QED
      BY <1>6, <2>2, <3>1 DEF FixDataInv
  <2> QED
    BY <1>5, <1>6, <2>1, <2>2
<1>7. ASSUME NEW i \in 1..Len(u), u[i].status = "Data" PROVE u[i].id <= frags
  BY <1>5, <1>7 DEF FixDataInv
<1> QED
  BY <1>2, <1>4, <1>6, <1>7 DEF FixDataInv

(* A fragment that arrives is the last one sent. *)
LEMMA DataSent ==
  ASSUME NEW log \in Seq(FixEvent), NEW bytes \in Seq(Fragment), NEW f \in Fragment,
         NEW frags \in Nat, FixDataInv(log, bytes, frags), NEW n \in {frags, frags + 1},
         f.kind = "data" => f.id = n /\ n = frags + 1
  PROVE  FixDataInv(log, Append(bytes, f), n)
<1> DEFINE r == Append(bytes, f)
<1>1. /\ Len(bytes) \in Nat /\ Len(r) = Len(bytes) + 1 /\ r[Len(bytes) + 1] = f
      /\ \A i \in 1..Len(bytes) : r[i] = bytes[i]
  BY AppendProperties, LenProperties
<1> HIDE DEF r
<1>2. \A i \in 1..Len(r) : (i \in 1..Len(bytes) /\ r[i] = bytes[i]) \/ r[i] = f
  BY <1>1
<1>8. \A i \in 1..Len(log) : log[i] \in FixEvent
  BY ElementOfSeq
<1>9. \A i \in 1..Len(bytes) : bytes[i] \in Fragment
  BY ElementOfSeq
<1>3. /\ \A i \in 1..Len(log) : log[i].id \in Nat
      /\ \A i \in 1..Len(bytes) : bytes[i].id \in Nat
  BY <1>8, <1>9 DEF Fragment, FixEvent
<1>4. /\ \A i \in 1..Len(log) : log[i].status = "Data" => log[i].id <= n /\ log[i].id < frags + 1
      /\ \A i \in 1..Len(bytes) : bytes[i].kind = "data" => bytes[i].id <= n /\ bytes[i].id < frags + 1
  BY <1>3 DEF FixDataInv
<1>5. ASSUME NEW i \in 1..Len(r), NEW j \in 1..Len(r), i < j, r[i].kind = "data", r[j].kind = "data"
      PROVE  r[i].id < r[j].id
  <2>1. i \in 1..Len(bytes) /\ r[i] = bytes[i]
    BY <1>1, <1>5
  <2> QED
    BY <1>2, <1>4, <1>5, <2>1 DEF FixDataInv
<1>6. ASSUME NEW i \in 1..Len(log), NEW j \in 1..Len(r), log[i].status = "Data", r[j].kind = "data"
      PROVE  log[i].id < r[j].id
  BY <1>2, <1>4, <1>6 DEF FixDataInv
<1>7. ASSUME NEW i \in 1..Len(r), r[i].kind = "data" PROVE r[i].id <= n
  BY <1>2, <1>4, <1>7
<1> QED
  BY <1>4, <1>5, <1>6, <1>7 DEF FixDataInv, r

(* A log that is longer tells the same in its first part. *)
LEMMA NeighboursKeep ==
  ASSUME NEW s, NEW e, NEW u, Joined(s, e, u), NEW i \in 1..Len(s), NEW j \in 1..Len(s),
         Neighbours(u, i, j)
  PROVE  Neighbours(s, i, j)
<1>1. Len(s) \in Nat /\ u[i] = s[i] /\ u[j] = s[j]
  BY DEF Joined
<1>2. ASSUME NEW k \in (i + 1)..(j - 1) PROVE s[k].status = "Data"
  <2>1. k \in 1..Len(s)
    BY <1>1
  <2> QED
    BY <2>1 DEF Neighbours, Joined
<1> QED
  BY <1>1, <1>2 DEF Neighbours

LEMMA LastKeeps ==
  ASSUME NEW s, NEW e, NEW u, Joined(s, e, u), NEW i \in 1..Len(s), NEW j \in 1..(Len(u) + 1),
         j > Len(s), u[i].status # "Data", \A k \in (i + 1)..(j - 1) : u[k].status = "Data",
         NEW S, LastIn(s, S)
  PROVE  u[i].status \in S
<1>1. Len(s) \in Nat /\ u[i] = s[i] /\ Len(u) \in Nat
  BY DEF Joined
<1>2. ASSUME NEW k \in (i + 1)..Len(s) PROVE s[k].status = "Data"
  <2>1. k \in 1..Len(s) /\ k \in (i + 1)..(j - 1)
    BY <1>1
  <2> QED
    BY <2>1 DEF Joined
<1> QED
  BY <1>1, <1>2 DEF LastIn

(* The messages of a session continue it. *)
LEMMA ToldDrained ==
  ASSUME NEW s, NEW e \in Seq(Drained), NEW u, Joined(s, e, u), ToldOf(s), LastIn(s, SessionStatus)
  PROVE  ToldOf(u) /\ LastIn(u, SessionStatus)
<1>1. Len(s) \in Nat /\ Len(e) \in Nat /\ Len(u) = Len(s) + Len(e)
  BY DEF Joined
<1>2. ASSUME NEW i \in 1..Len(u), i > Len(s), u[i].status # "Data"
      PROVE  u[i].status \in {"LoggedIn", "LoggedOut"}
  <2>1. i - Len(s) \in 1..Len(e) /\ u[i] = e[i - Len(s)]
    BY <1>2 DEF Joined
  <2>2. e[i - Len(s)] \in Drained
    BY <2>1, ElementOfSeq
  <2> QED
    BY <1>2, <2>1, <2>2 DEF Drained
<1>3. ASSUME NEW i \in 1..Len(u), NEW j \in 1..Len(u), Neighbours(u, i, j)
      PROVE  /\ u[i].status \in SessionStatus => u[j].status # "LoggingIn"
             /\ u[i].status = "Disconnected" => u[j].status \in {"LoggingIn", "Error", "End"}
  <2>1. CASE j <= Len(s)
    <3>1. i \in 1..Len(s) /\ j \in 1..Len(s)
      BY <1>1, <1>3, <2>1 DEF Neighbours
    <3>2. Neighbours(s, i, j) /\ u[i] = s[i] /\ u[j] = s[j]
      BY <1>3, <3>1, NeighboursKeep DEF Joined
    <3> QED
      BY <3>1, <3>2 DEF ToldOf
  <2>2. CASE ~(j <= Len(s)) /\ i <= Len(s)
    <3>1. i \in 1..Len(s) /\ j > Len(s) /\ j \in 1..(Len(u) + 1)
      BY <1>1, <2>2
    <3>2. u[i].status \in SessionStatus
      BY <1>3, <3>1, LastKeeps DEF Neighbours
    <3>3. u[j].status \in {"LoggedIn", "LoggedOut"}
      BY <1>2, <1>3, <3>1 DEF Neighbours
    <3> QED
      BY <3>2, <3>3 DEF SessionStatus
  <2>3. CASE ~(j <= Len(s)) /\ ~(i <= Len(s))
    <3>1. i > Len(s) /\ j > Len(s)
      BY <1>1, <2>3
    <3>2. u[j].status \in {"LoggedIn", "LoggedOut"} /\ u[i].status \in {"LoggedIn", "LoggedOut"}
      BY <1>2, <1>3, <3>1 DEF Neighbours
    <3> QED
      BY <3>2
  <2> QED
    BY <2>1, <2>2, <2>3
<1>4. ASSUME NEW i \in 1..Len(u), u[i].status # "Data", \A k \in (i + 1)..Len(u) : u[k].status = "Data"
      PROVE  u[i].status \in SessionStatus
  <2>1. CASE i <= Len(s)
    <3> DEFINE j == Len(u) + 1
    <3>1. i \in 1..Len(s) /\ j \in 1..(Len(u) + 1) /\ j > Len(s) /\ j - 1 = Len(u)
      BY <1>1, <2>1
    <3> HIDE DEF j
    <3> QED
      BY <1>4, <3>1, LastKeeps
  <2>2. CASE ~(i <= Len(s))
    <3>1. i > Len(s)
      BY <1>1, <2>2
    <3> QED
      BY <1>2, <1>4, <3>1 DEF SessionStatus
  <2> QED
    BY <2>1, <2>2
<1>5. ToldOf(u)
  BY <1>3 DEF ToldOf
<1>6. LastIn(u, SessionStatus)
  BY <1>4 DEF LastIn
<1> QED
  BY <1>5, <1>6

(* A status is told when the one before allows it. *)
LEMMA ToldOne ==
  ASSUME NEW s, NEW x \in FixEvent, NEW u, Joined(s, <<x>>, u), ToldOf(s),
         x.status \in {"LoggingIn", "Disconnected", "Error", "End"},
         x.status = "LoggingIn" => LastIn(s, {"Disconnected", "Error"}),
         x.status = "Disconnected" => LastIn(s, SessionStatus \cup {"Error"})
  PROVE  ToldOf(u) /\ LastIn(u, {x.status})
<1> DEFINE e == <<x>>
<1>0. Len(e) = 1 /\ e[1] = x
  OBVIOUS
<1>1. /\ Len(s) \in Nat /\ Len(u) = Len(s) + 1 /\ u[Len(s) + 1] = x
      /\ \A i \in 1..Len(u) : i \in 1..Len(s) \/ i = Len(s) + 1
      /\ \A i \in 1..Len(s) : u[i] = s[i] /\ i \in 1..Len(u)
  <2>1. /\ Len(s) \in Nat /\ Len(u) = Len(s) + 1
        /\ \A i \in 1..Len(s) : u[i] = s[i]
        /\ \A i \in 1..Len(u) : i > Len(s) => i - Len(s) \in 1..1 /\ u[i] = e[i - Len(s)]
    BY <1>0 DEF Joined
  <2>2. Len(s) + 1 \in 1..Len(u) /\ (Len(s) + 1) - Len(s) = 1 /\ Len(s) + 1 > Len(s)
    BY <2>1
  <2>3. u[Len(s) + 1] = x
    BY <1>0, <2>1, <2>2
  <2> QED
    BY <2>1, <2>3
<1>2. Joined(s, e, u)
  OBVIOUS
<1> HIDE DEF e
<1>3. ASSUME NEW i \in 1..Len(u), NEW j \in 1..Len(u), Neighbours(u, i, j)
      PROVE  /\ u[i].status \in SessionStatus => u[j].status # "LoggingIn"
             /\ u[i].status = "Disconnected" => u[j].status \in {"LoggingIn", "Error", "End"}
  <2>1. i < j /\ i \in 1..Len(s)
    BY <1>1, <1>3 DEF Neighbours
  <2>2. CASE j \in 1..Len(s)
    <3>1. Neighbours(s, i, j) /\ u[i] = s[i] /\ u[j] = s[j]
      BY <1>2, <1>3, <2>1, <2>2, NeighboursKeep DEF Joined
    <3> QED
      BY <2>1, <2>2, <3>1 DEF ToldOf
  <2>3. CASE j = Len(s) + 1
    <3>1. j > Len(s) /\ j \in 1..(Len(u) + 1) /\ u[j] = x
      BY <1>1, <2>3
    <3>2. ASSUME NEW S, LastIn(s, S) PROVE u[i].status \in S
      BY <1>2, <1>3, <2>1, <3>1, <3>2, LastKeeps DEF Neighbours
    <3>3. CASE x.status = "LoggingIn"
      <4>1. u[i].status \in {"Disconnected", "Error"}
        BY <3>2, <3>3
      <4> QED
        BY <3>1, <3>3, <4>1 DEF SessionStatus
    <3>4. CASE x.status = "Disconnected"
      <4>1. u[i].status \in SessionStatus \cup {"Error"}
        BY <3>2, <3>4
      <4> QED
        BY <3>1, <3>4, <4>1 DEF SessionStatus
    <3>5. CASE x.status \in {"Error", "End"}
      BY <3>1, <3>5
    <3> QED
      BY <3>3, <3>4, <3>5
  <2> QED
    BY <1>1, <2>2, <2>3
<1>4. ASSUME NEW i \in 1..Len(u), u[i].status # "Data", \A k \in (i + 1)..Len(u) : u[k].status = "Data"
      PROVE  u[i].status \in {x.status}
  <2>1. CASE i \in 1..Len(s)
    <3>1. Len(s) + 1 \in (i + 1)..Len(u)
      BY <1>1, <2>1
    <3> QED
      BY <1>1, <1>4, <3>1
  <2> QED
    BY <1>1, <2>1
<1>5. ToldOf(u)
  BY <1>3 DEF ToldOf
<1>6. LastIn(u, {x.status})
  BY <1>4 DEF LastIn
<1> QED
  BY <1>5, <1>6

LEMMA FixTyped ==
  ASSUME FixType
  PROVE  /\ fix \in NodeState /\ venue \in VenueState /\ host \in HostState /\ marks \in MarksState
         /\ fix.buf \in Seq(Fragment) /\ venue.in \in Seq(Fragment) /\ venue.out \in Seq(OutMessage)
         /\ fix.chan \in Seq(FixEvent) /\ host.given \in Seq(FixEvent)
         /\ fix.inject \in Seq(FixSymbols) /\ fix.seq \in Nat /\ venue.told \in Nat /\ venue.n \in Nat
         /\ host.frags \in Nat /\ Len(venue.out) \in Nat /\ Len(fix.inject) \in Nat
         /\ FixLog \in Seq(FixEvent) /\ FixBytes \in Seq(Fragment)
<1>1. /\ fix \in NodeState /\ venue \in VenueState /\ host \in HostState /\ marks \in MarksState
  BY DEF FixType
<1>2. /\ fix.buf \in Seq(Fragment) /\ fix.chan \in Seq(FixEvent) /\ fix.inject \in Seq(FixSymbols)
      /\ fix.seq \in Nat
  BY <1>1 DEF NodeState
<1>3. /\ venue.in \in Seq(Fragment) /\ venue.out \in Seq(OutMessage) /\ venue.told \in Nat
      /\ venue.n \in Nat
  BY <1>1 DEF VenueState
<1>4. host.given \in Seq(FixEvent) /\ host.frags \in Nat
  BY <1>1 DEF HostState
<1>5. FixLog \in Seq(FixEvent) /\ FixBytes \in Seq(Fragment)
  BY <1>2, <1>3, <1>4, EventsJoin, BytesJoin DEF FixLog, FixBytes
<1> QED
  BY <1>1, <1>2, <1>3, <1>4, <1>5, LenProperties

LEMMA EventsAssociate ==
  ASSUME NEW a \in Seq(FixEvent), NEW b \in Seq(FixEvent), NEW c \in Seq(FixEvent)
  PROVE  (a \o b) \o c = a \o (b \o c)
  BY ConcatAssociative

(* What a report adds to the log, and what a cycle of the graph takes. *)
LEMMA LogReports ==
  ASSUME FixType, NEW e \in Seq(FixEvent), host'.given = host.given, fix'.chan = fix.chan \o e
  PROVE  FixLog' = FixLog \o e /\ Joined(FixLog, e, FixLog')
<1>1. fix.chan \in Seq(FixEvent) /\ host.given \in Seq(FixEvent) /\ FixLog \in Seq(FixEvent)
  BY FixTyped
<1>2. FixLog' = FixLog \o e
  <2>1. (host.given \o fix.chan) \o e = host.given \o (fix.chan \o e)
    BY <1>1, EventsAssociate
  <2> QED
    BY <2>1 DEF FixLog
<1> QED
  BY <1>1, <1>2, EventsJoin

LEMMA LogGiven ==
  ASSUME FixType, ~ FixThreaded, NEW e \in Seq(FixEvent), host'.given = host.given \o e,
         fix'.chan = fix.chan
  PROVE  FixLog' = FixLog \o e /\ Joined(FixLog, e, FixLog')
<1>1. fix.chan = <<>> /\ host.given \in Seq(FixEvent) /\ FixLog \in Seq(FixEvent)
  BY FixTyped DEF FixType
<1>2. host.given \o e \in Seq(FixEvent)
  BY <1>1, EventsJoin
<1>3. FixLog = host.given /\ FixLog' = host.given \o e
  BY <1>1, <1>2, ConcatEmptySeq DEF FixLog
<1> QED
  BY <1>1, <1>3, EventsJoin

LEMMA LogTaken ==
  ASSUME FixType, host'.given = host.given \o fix.chan, fix'.chan = <<>>
  PROVE  FixLog' = FixLog
<1>1. host.given \o fix.chan \in Seq(FixEvent)
  BY FixTyped, EventsJoin
<1> QED
  BY <1>1, ConcatEmptySeq DEF FixLog

(* A status is told. *)
LEMMA Tells ==
  ASSUME FixInv, NEW s, Joined(FixLog, <<Status(s)>>, FixLog'),
         s \in {"LoggingIn", "Disconnected", "Error", "End"},
         s = "LoggingIn" => LastIn(FixLog, {"Disconnected", "Error"}),
         s = "Disconnected" => LastIn(FixLog, SessionStatus \cup {"Error"})
  PROVE  /\ ToldOf(FixLog') /\ LastIn(FixLog', {s})
         /\ FixDataInv(FixLog', FixBytes, host.frags)
<1> DEFINE x == Status(s)
           e == <<x>>
<1>1. x \in FixEvent /\ x.status = s /\ x.status # "Data"
  BY DEF Status, FixEvent, SessionStatus
<1>2. Len(e) = 1 /\ e[1] = x
  OBVIOUS
<1>3. Joined(FixLog, <<x>>, FixLog') /\ ToldOf(FixLog) /\ FixDataInv(FixLog, FixBytes, host.frags)
  BY DEF FixInv, FixStatusInv
<1> HIDE DEF x
<1>4. ToldOf(FixLog') /\ LastIn(FixLog', {x.status})
  <2> DEFINE log == FixLog
             more == FixLog'
  <2> HIDE DEF log, more
  <2>1. Joined(log, <<x>>, more) /\ ToldOf(log)
    BY <1>3 DEF log, more
  <2>2. /\ x.status = "LoggingIn" => LastIn(log, {"Disconnected", "Error"})
        /\ x.status = "Disconnected" => LastIn(log, SessionStatus \cup {"Error"})
    BY <1>1 DEF log
  <2>3. ToldOf(more) /\ LastIn(more, {x.status})
    BY <1>1, <2>1, <2>2, ToldOne
  <2> QED
    BY <2>3 DEF more
<1>5. FixDataInv(FixLog', FixBytes, host.frags)
  <2>1. \A i \in 1..Len(e) : e[i].status # "Data"
    BY <1>1, <1>2
  <2> HIDE DEF e
  <2>2. Joined(FixLog, e, FixLog')
    BY <1>3 DEF e
  <2> QED
    BY <1>3, <2>1, <2>2, DataTold
<1> QED
  BY <1>1, <1>4, <1>5

(* Steps that only move the thread, the socket or the graph on. *)
LEMMA ControlStep ==
  ASSUME FixInv, venue' = venue, marks' = marks, fix' \in NodeState, host' \in HostState,
         fix'.role = fix.role, fix'.buf = fix.buf, fix'.seq = fix.seq, fix'.chan = fix.chan,
         fix'.inject = fix.inject, host'.given = host.given, host'.frags = host.frags,
         \/ fix'.pc = fix.pc
         \/ fix.pc = "top" /\ fix'.pc \in {"connect", "exit"}
         \/ fix.pc = "read" /\ fix'.pc = "closed"
         \/ fix.pc = "connect" /\ fix'.pc = "store" /\ fix.role = "thread_acc",
         ~ FixThreaded => /\ fix'.sock \/ host'.pc \in {"start", "running"} => fix'.sock = fix.sock
                          /\ host'.pc \in {"start", "running"} => host.pc \in {"start", "running"}
                          /\ host'.pc = "start" => host.pc = "start"
  PROVE  FixInv'
<1>1. FixType /\ FixLog' = FixLog /\ FixBytes' = FixBytes /\ (FixThreaded' <=> FixThreaded)
  BY DEF FixInv, FixLog, FixBytes, FixThreaded
<1>2. FixType'
  BY <1>1 DEF FixType
<1>3. NumbersInv'
  BY <1>1 DEF FixInv, NumbersInv
<1>4. FixDataInv(FixLog, FixBytes, host.frags)'
  BY <1>1 DEF FixInv
<1>5. FixStatusInv'
  <2>1. ASSUME LastIn(FixLog, SessionStatus) PROVE LastIn(FixLog, SessionStatus \cup {"Error"})
    BY <2>1 DEF LastIn
  <2>2. fix.sock \in BOOLEAN /\ fix'.sock \in BOOLEAN
    BY <1>1, FixTyped DEF NodeState
  <2> QED
    BY <1>1, <2>1, <2>2 DEF FixInv, FixStatusInv
<1>6. SymbolsInv'
  BY <1>1 DEF FixInv, SymbolsInv, Injected, OnItsWay
<1> QED
  BY <1>2, <1>3, <1>4, <1>5, <1>6 DEF FixInv

LEMMA SimpleStep ==
  ASSUME FixInv, ThreadTop \/ ThreadEof \/ ThreadSetup \/ StopFlag \/ StopShutdown \/ StopJoin
  PROVE  FixInv'
<1>1. FixType
  BY DEF FixInv
<1>2. fix \in NodeState /\ host \in HostState
  BY <1>1, FixTyped
<1>3. CASE ThreadTop
  <2>1. /\ FixThreaded /\ venue' = venue /\ marks' = marks /\ host' = host
        /\ fix.pc = "top" /\ fix'.pc \in {"connect", "exit"} /\ fix' \in NodeState
        /\ fix'.role = fix.role /\ fix'.buf = fix.buf /\ fix'.seq = fix.seq /\ fix'.chan = fix.chan
        /\ fix'.inject = fix.inject
    BY <1>2, <1>3 DEF ThreadTop, ThreadAt, NodeState
  <2> QED
    BY <1>2, <2>1, ControlStep
<1>4. CASE ThreadEof
  <2>1. /\ FixThreaded /\ venue' = venue /\ marks' = marks /\ host' = host
        /\ fix.pc = "read" /\ fix'.pc = "closed" /\ fix' \in NodeState
        /\ fix'.role = fix.role /\ fix'.buf = fix.buf /\ fix'.seq = fix.seq /\ fix'.chan = fix.chan
        /\ fix'.inject = fix.inject
    BY <1>2, <1>4 DEF ThreadEof, ThreadAt, NodeState
  <2> QED
    BY <1>2, <2>1, ControlStep
<1>5. CASE ThreadSetup
  <2>1. /\ FixThreaded /\ venue' = venue /\ marks' = marks /\ fix' = fix
        /\ host' \in HostState /\ host'.given = host.given /\ host'.frags = host.frags
    BY <1>2, <1>5 DEF ThreadSetup, HostState
  <2> QED
    BY <1>2, <2>1, ControlStep
<1>6. CASE StopFlag
  <2>1. /\ FixThreaded /\ venue' = venue /\ marks' = marks
        /\ host' \in HostState /\ host'.given = host.given /\ host'.frags = host.frags
        /\ fix'.pc = fix.pc /\ fix' \in NodeState
        /\ fix'.role = fix.role /\ fix'.buf = fix.buf /\ fix'.seq = fix.seq /\ fix'.chan = fix.chan
        /\ fix'.inject = fix.inject
    BY <1>2, <1>6 DEF StopFlag, HostState, NodeState
  <2> QED
    BY <1>2, <2>1, ControlStep
<1>7. CASE StopShutdown
  <2>1. /\ venue' = venue /\ marks' = marks
        /\ host' \in HostState /\ host'.given = host.given /\ host'.frags = host.frags
        /\ host'.pc = "joining"
    BY <1>2, <1>7 DEF StopShutdown, HostState
  <2>2. fix.handle \in BOOLEAN
    BY <1>2 DEF NodeState
  <2>3. /\ fix'.pc = fix.pc /\ fix' \in NodeState /\ fix'.sock = fix.sock
        /\ fix'.role = fix.role /\ fix'.buf = fix.buf /\ fix'.seq = fix.seq /\ fix'.chan = fix.chan
        /\ fix'.inject = fix.inject
    BY <1>2, <1>7, <2>2 DEF StopShutdown, NodeState
  <2> QED
    BY <1>2, <2>1, <2>3, ControlStep
<1>8. CASE StopJoin
  <2>1. /\ venue' = venue /\ marks' = marks /\ fix' = fix
        /\ host' \in HostState /\ host'.given = host.given /\ host'.frags = host.frags
        /\ host'.pc = "stopped"
    BY <1>2, <1>8 DEF StopJoin, HostState
  <2> QED
    BY <1>2, <2>1, ControlStep
<1> QED
  BY <1>3, <1>4, <1>5, <1>6, <1>7, <1>8

LEMMA ReportTyped ==
  ASSUME FixType, NEW s \in SessionStatus \cup {"Disconnected", "Error", "End"}
  PROVE  /\ Status(s) \in FixEvent /\ <<Status(s)>> \in Seq(FixEvent)
         /\ fix.chan \o <<Status(s)>> \in Seq(FixEvent)
<1>1. Status(s) \in FixEvent
  BY DEF Status, FixEvent
<1>2. <<Status(s)>> \in Seq(FixEvent)
  BY <1>1
<1> QED
  BY <1>1, <1>2, FixTyped, EventsJoin

(* The thread reports and leaves the venue and the queue alone. *)
LEMMA ReportStep ==
  ASSUME FixInv, FixThreaded, venue' = venue, marks' = marks, host' = host, fix' \in NodeState,
         fix'.role = fix.role, fix'.buf = fix.buf, fix'.seq = fix.seq, fix'.inject = fix.inject,
         NEW s, fix'.chan = fix.chan \o <<Status(s)>>,
         \/ s = "Error" /\ fix'.pc = "exit"
         \/ s = "End" /\ fix'.pc = "gone"
         \/ s = "Error" /\ fix'.pc = "top" /\ ~ venue.open /\ fix.role = "thread_acc"
         \/ s = "LoggingIn" /\ fix.pc = "logon" /\ fix'.pc = "read" /\ fix.role = "thread_acc"
  PROVE  FixInv'
<1> DEFINE e == <<Status(s)>>
<1>0. FixType /\ (FixThreaded' <=> FixThreaded) /\ FixBytes' = FixBytes
  BY DEF FixInv, FixThreaded, FixBytes
<1>1. e \in Seq(FixEvent)
  BY DEF Status, FixEvent, SessionStatus
<1>2. FixLog' = FixLog \o e /\ Joined(FixLog, e, FixLog')
  BY <1>0, <1>1, LogReports
<1>3. s = "LoggingIn" => LastIn(FixLog, {"Disconnected", "Error"})
  BY DEF FixInv, FixStatusInv
<1>4. /\ ToldOf(FixLog') /\ LastIn(FixLog', {s})
      /\ FixDataInv(FixLog', FixBytes, host.frags)
  BY <1>2, <1>3, Tells
<1>5. FixType'
  BY <1>0 DEF FixType
<1>6. NumbersInv'
  BY <1>0 DEF FixInv, NumbersInv
<1>7. FixDataInv(FixLog, FixBytes, host.frags)'
  BY <1>0, <1>4
<1>8. FixStatusInv'
  <2>1. /\ s = "Error" => LastIn(FixLog', {"Disconnected", "Error"})
        /\ s = "LoggingIn" => LastIn(FixLog', SessionStatus)
    BY <1>4 DEF LastIn, SessionStatus
  <2> QED
    BY <1>0, <1>4, <2>1 DEF FixStatusInv
<1>9. SymbolsInv'
  BY <1>0 DEF FixInv, SymbolsInv, Injected, OnItsWay
<1> QED
  BY <1>5, <1>6, <1>7, <1>8, <1>9 DEF FixInv

LEMMA ReportingStep ==
  ASSUME FixInv, ThreadAccept \/ TlsConnectFails \/ ThreadExit
  PROVE  FixInv'
<1>1. fix \in NodeState /\ host \in HostState
  BY FixTyped DEF FixInv
<1>2. CASE ThreadAccept
  <2>1. FixThreaded /\ venue' = venue /\ marks' = marks /\ host' = host /\ fix.role = "thread_acc"
        /\ fix.pc = "connect"
    BY <1>2 DEF ThreadAccept, ThreadAt
  <2>2. CASE fix' = [fix EXCEPT !.pc = "store", !.sock = TRUE]
    <3>1. /\ fix'.pc = "store" /\ fix' \in NodeState
          /\ fix'.role = fix.role /\ fix'.buf = fix.buf /\ fix'.seq = fix.seq /\ fix'.chan = fix.chan
          /\ fix'.inject = fix.inject
      BY <1>1, <2>2 DEF NodeState
    <3> QED
      BY <1>1, <2>1, <3>1, ControlStep
  <2>3. CASE ~ venue.open /\ fix' = [fix EXCEPT !.pc = "top", !.chan = Report(<<Status("Error")>>)]
    <3> DEFINE c == Report(<<Status("Error")>>)
    <3>1. c = fix.chan \o <<Status("Error")>> /\ c \in Seq(FixEvent)
      BY ReportTyped DEF Report, FixInv
    <3> HIDE DEF c
    <3>2. /\ fix'.pc = "top" /\ fix' \in NodeState
          /\ fix'.role = fix.role /\ fix'.buf = fix.buf /\ fix'.seq = fix.seq /\ fix'.chan = c
          /\ fix'.inject = fix.inject
      BY <1>1, <2>3, <3>1 DEF NodeState, c
    <3> QED
      BY <2>1, <2>3, <3>1, <3>2, ReportStep
  <2> QED
    BY <1>2, <2>2, <2>3 DEF ThreadAccept
<1>3. CASE TlsConnectFails
  <2> DEFINE c == Report(<<Status("Error")>>)
  <2>1. c = fix.chan \o <<Status("Error")>> /\ c \in Seq(FixEvent)
    BY ReportTyped DEF Report, FixInv
  <2>2. /\ FixThreaded /\ venue' = venue /\ marks' = marks /\ host' = host
        /\ fix' = [fix EXCEPT !.pc = "exit", !.chan = c]
    BY <1>3 DEF TlsConnectFails, ThreadAt
  <2> HIDE DEF c
  <2>3. /\ fix'.pc = "exit" /\ fix' \in NodeState
        /\ fix'.role = fix.role /\ fix'.buf = fix.buf /\ fix'.seq = fix.seq /\ fix'.chan = c
        /\ fix'.inject = fix.inject
    BY <1>1, <2>1, <2>2 DEF NodeState
  <2> QED
    BY <2>1, <2>2, <2>3, ReportStep
<1>4. CASE ThreadExit
  <2> DEFINE c == Report(<<Status("End")>>)
  <2>1. c = fix.chan \o <<Status("End")>> /\ c \in Seq(FixEvent)
    BY ReportTyped DEF Report, FixInv
  <2>2. /\ FixThreaded /\ venue' = venue /\ marks' = marks /\ host' = host
        /\ fix' = [fix EXCEPT !.pc = "gone", !.chan = c]
    BY <1>4 DEF ThreadExit, ThreadAt
  <2> HIDE DEF c
  <2>3. /\ fix'.pc = "gone" /\ fix' \in NodeState
        /\ fix'.role = fix.role /\ fix'.buf = fix.buf /\ fix'.seq = fix.seq /\ fix'.chan = c
        /\ fix'.inject = fix.inject
    BY <1>1, <2>1, <2>2 DEF NodeState
  <2> QED
    BY <2>1, <2>2, <2>3, ReportStep
<1> QED
  BY <1>2, <1>3, <1>4

(* Parts of the bytes, when a buffer or what has arrived is dropped. *)
LEMMA PartsWithin ==
  ASSUME NEW a, NEW b, NEW c, Joined(a, b, c)
  PROVE  Within(a, c, 0) /\ Within(b, c, Len(a))
<1> DEFINE m == Len(a)
           n == Len(b)
<1>1. /\ m \in Nat /\ n \in Nat /\ Len(c) = m + n
      /\ \A i \in 1..m : c[i] = a[i]
      /\ \A i \in 1..(m + n) : i > m => i - m \in 1..n /\ c[i] = b[i - m]
  BY DEF Joined
<1> HIDE DEF m, n
<1>2. ASSUME NEW i \in 1..m PROVE i + 0 \in 1..(m + n) /\ a[i] = c[i + 0]
  <2>1. i + 0 = i /\ i \in 1..(m + n)
    BY <1>1
  <2> QED
    BY <1>1, <2>1
<1>3. ASSUME NEW i \in 1..n PROVE i + m \in 1..(m + n) /\ b[i] = c[i + m]
  <2>1. i + m \in 1..(m + n) /\ i + m > m /\ (i + m) - m = i
    BY <1>1
  <2> QED
    BY <1>1, <2>1
<1> QED
  BY <1>1, <1>2, <1>3 DEF Within, m, n

LEMMA BytesDropped ==
  ASSUME FixInv, NEW log, FixDataInv(log, FixBytes, host.frags)
  PROVE  /\ FixDataInv(log, fix.buf, host.frags) /\ FixDataInv(log, venue.in, host.frags)
<1>1. fix.buf \in Seq(Fragment) /\ venue.in \in Seq(Fragment)
  BY FixTyped DEF FixInv
<1>2. Joined(fix.buf, venue.in, FixBytes)
  BY <1>1, BytesJoin DEF FixBytes
<1>3. Len(fix.buf) \in Nat /\ Len(venue.in) \in Nat
  BY <1>2 DEF Joined
<1>4. Within(fix.buf, FixBytes, 0) /\ Within(venue.in, FixBytes, Len(fix.buf))
  BY <1>2, PartsWithin
<1>5. FixDataInv(log, fix.buf, host.frags)
  BY <1>3, <1>4, DataKept
<1>6. FixDataInv(log, venue.in, host.frags)
  BY <1>3, <1>4, DataKept
<1> QED
  BY <1>5, <1>6

LEMMA BytesWithout ==
  ASSUME FixInv
  PROVE  fix.buf \o <<>> = fix.buf /\ <<>> \o venue.in = venue.in
  BY FixTyped, ConcatEmptySeq DEF FixInv

(* Messages are numbered from the number of the session on. *)
LEMMA NumberedAfter ==
  ASSUME NEW out \in Seq(OutMessage), NEW kinds \in Seq(SentKind), NEW seq \in Nat
  PROVE  /\ out \o Numbered(seq, kinds) \in Seq(OutMessage)
         /\ Len(out \o Numbered(seq, kinds)) = Len(out) + Len(kinds)
         /\ \A i \in 1..Len(out) : (out \o Numbered(seq, kinds))[i] = out[i]
         /\ \A i \in 1..Len(kinds) :
              (out \o Numbered(seq, kinds))[Len(out) + i] = [kind |-> kinds[i], seq |-> seq + i]
<1> DEFINE r == Numbered(seq, kinds)
           m == Len(out)
           k == Len(kinds)
<1>1. m \in Nat /\ k \in Nat /\ DOMAIN kinds = 1..k
  BY LenProperties
<1>2. \A i \in 1..k : kinds[i] \in SentKind
  BY <1>1, ElementOfSeq
<1>3. r = [i \in 1..k |-> [kind |-> kinds[i], seq |-> seq + i]]
  BY <1>1 DEF Numbered
<1>4. \A i \in 1..k : [kind |-> kinds[i], seq |-> seq + i] \in OutMessage
  BY <1>1, <1>2 DEF OutMessage
<1>5. r \in Seq(OutMessage) /\ Len(r) = k /\ \A i \in 1..k : r[i] = [kind |-> kinds[i], seq |-> seq + i]
  BY <1>1, <1>3, <1>4
<1> HIDE DEF r
<1>6. /\ out \o r \in Seq(OutMessage) /\ Len(out \o r) = m + k
      /\ \A i \in 1..(m + k) : (out \o r)[i] = IF i <= m THEN out[i] ELSE r[i - m]
  <2>1. /\ out \o r \in Seq(OutMessage) /\ Len(out \o r) = Len(out) + Len(r)
        /\ \A i \in 1..(Len(out) + Len(r)) :
             (out \o r)[i] = IF i <= Len(out) THEN out[i] ELSE r[i - Len(out)]
    BY <1>5, ConcatProperties, ZenonT(40)
  <2>2. Len(r) = k /\ Len(out) = m
    BY <1>5
  <2> HIDE DEF m, k
  <2> QED
    BY <2>1, <2>2
<1> HIDE DEF m, k
<1>7. \A i \in 1..m : (out \o r)[i] = out[i]
  BY <1>1, <1>6
<1>8. ASSUME NEW i \in 1..k PROVE (out \o r)[m + i] = r[i]
  <2>1. m + i \in 1..(m + k) /\ ~(m + i <= m) /\ (m + i) - m = i
    BY <1>1
  <2> QED
    BY <1>6, <2>1
<1> QED
  BY <1>5, <1>6, <1>7, <1>8 DEF r, m, k

Consecutive(out, told, seq) ==
  (\A i \in 1..Len(out) : out[i].seq = told + i) /\ seq = told + Len(out)

LEMMA NumbersContinue ==
  ASSUME NEW out \in Seq(OutMessage), NEW kinds \in Seq(SentKind), NEW seq \in Nat, NEW told \in Nat,
         Consecutive(out, told, seq)
  PROVE  Consecutive(out \o Numbered(seq, kinds), told, seq + Len(kinds))
<1> DEFINE m == Len(out)
           k == Len(kinds)
           u == out \o Numbered(seq, kinds)
<1>1. m \in Nat /\ k \in Nat
  BY LenProperties
<1>2. /\ Len(u) = m + k /\ \A i \in 1..m : u[i] = out[i]
      /\ \A i \in 1..k : u[m + i] = [kind |-> kinds[i], seq |-> seq + i]
  BY NumberedAfter
<1>3. seq = told + m /\ Len(out) = m /\ \A i \in 1..m : out[i].seq = told + i
  BY DEF Consecutive
<1> HIDE DEF m, k, u
<1>6. \A i \in 1..m : u[i].seq = out[i].seq
  BY <1>2
<1>4. ASSUME NEW i \in 1..k PROVE u[m + i].seq = seq + i
  <2>1. u[m + i] = [kind |-> kinds[i], seq |-> seq + i]
    BY <1>2
  <2> QED
    BY <2>1
<1>5. /\ \A i \in 1..Len(u) : u[i].seq = told + i
      /\ seq + k = told + Len(u)
  <2>1. Len(u) = m + k
    BY <1>2
  <2>2. ASSUME NEW i \in 1..(m + k) PROVE u[i].seq = told + i
    <3>1. CASE i <= m
      <4>1. i \in 1..m
        BY <1>1, <3>1
      <4> QED
        BY <1>3, <1>6, <4>1
    <3>2. CASE ~(i <= m)
      <4>1. i - m \in 1..k /\ i = m + (i - m)
        BY <1>1, <3>2
      <4>2. PICK x \in 1..k : i = m + x
        BY <4>1
      <4>3. u[m + x].seq = seq + x
        BY <1>4
      <4>4. seq + x = told + (m + x)
        BY <1>1, <1>3
      <4> QED
        BY <4>2, <4>3, <4>4
    <3> QED
      BY <3>1, <3>2
  <2>3. seq + k = told + (m + k)
    BY <1>1, <1>3
  <2> QED
    BY <2>1, <2>2, <2>3
<1> QED
  BY <1>5 DEF k, u, Consecutive

LEMMA ThreadConnectStep ==
  ASSUME FixInv, ThreadConnect
  PROVE  FixInv'
<1>1. /\ FixType /\ fix \in NodeState /\ venue \in VenueState /\ host \in HostState
      /\ venue.n \in Nat
  BY FixTyped DEF FixInv
<1>2. /\ FixThreaded /\ marks' = marks /\ host' = host /\ fix.role # "thread_acc" /\ fix.pc = "connect"
  BY DEF ThreadConnect, ThreadAt, FixAcceptor
<1>3. CASE fix' = [fix EXCEPT !.pc = "exit", !.chan = Report(<<Status("Error")>>)] /\ venue' = venue
  <2> DEFINE c == Report(<<Status("Error")>>)
  <2>1. c = fix.chan \o <<Status("Error")>> /\ c \in Seq(FixEvent)
    BY ReportTyped DEF Report, FixInv
  <2>2. fix' = [fix EXCEPT !.pc = "exit", !.chan = c] /\ venue' = venue
    BY <1>3
  <2> HIDE DEF c
  <2>3. /\ fix'.pc = "exit" /\ fix' \in NodeState
        /\ fix'.role = fix.role /\ fix'.buf = fix.buf /\ fix'.seq = fix.seq /\ fix'.chan = c
        /\ fix'.inject = fix.inject
    BY <1>1, <2>1, <2>2 DEF NodeState
  <2> QED
    BY <1>2, <2>1, <2>2, <2>3, ReportStep
<1>4. CASE /\ venue' = [NoConnection EXCEPT !.n = venue.n + 1, !.open = TRUE, !.jump = venue.jump]
           /\ fix' = [fix EXCEPT !.pc = "store", !.sock = TRUE]
  <2> DEFINE none == <<>>
  <2>0. none \in Seq(Fragment) /\ none \in Seq(OutMessage) /\ Len(none) = 0
    BY EmptySeq
  <2>1. /\ venue'.n = venue.n + 1 /\ venue'.open = TRUE /\ venue'.in = none /\ venue'.out = none
        /\ venue'.half = 0 /\ venue'.logged = FALSE /\ venue'.subs = {} /\ venue'.told = 0
        /\ venue'.jump = venue.jump
    BY <1>4 DEF NoConnection
  <2>2. venue' \in VenueState
    <3>1. venue.jump \in BOOLEAN
      BY <1>1 DEF VenueState
    <3>2. venue' = [n |-> venue.n + 1, open |-> TRUE, in |-> none, out |-> none, half |-> 0,
                    logged |-> FALSE, subs |-> {}, told |-> 0, jump |-> venue.jump]
      BY <1>4 DEF NoConnection
    <3> HIDE DEF none
    <3> QED
      BY <1>1, <2>0, <3>1, <3>2 DEF VenueState
  <2>3. /\ fix'.pc = "store" /\ fix' \in NodeState
        /\ fix'.role = fix.role /\ fix'.buf = fix.buf /\ fix'.seq = fix.seq /\ fix'.chan = fix.chan
        /\ fix'.inject = fix.inject
    BY <1>1, <1>4 DEF NodeState
  <2>4. FixLog' = FixLog /\ FixBytes' = fix.buf /\ (FixThreaded' <=> FixThreaded)
    BY <1>2, <2>1, <2>3, BytesWithout DEF FixLog, FixBytes, FixThreaded
  <2> HIDE DEF none
  <2>5. FixType'
    BY <1>1, <1>2, <2>2, <2>3, <2>4 DEF FixType
  <2>6. NumbersInv'
    <3>1. Len(venue'.out) = 0 /\ venue'.told = 0 /\ fix'.pc = "store" /\ FixThreaded'
      BY <1>2, <2>0, <2>1, <2>3, <2>4
    <3>2. fix'.role # "spin_acc" => ~ venue'.jump
      BY <2>1, <2>3 DEF FixInv, NumbersInv
    <3> QED
      BY <3>1, <3>2 DEF NumbersInv
  <2>7. FixDataInv(FixLog, FixBytes, host.frags)'
    BY <1>2, <2>4, BytesDropped DEF FixInv
  <2>8. FixStatusInv'
    BY <1>2, <2>3, <2>4 DEF FixInv, FixStatusInv
  <2>9. SymbolsInv'
    BY <1>1, <1>2, <2>1, <2>3 DEF FixInv, SymbolsInv, Injected, OnItsWay
  <2> QED
    BY <2>5, <2>6, <2>7, <2>8, <2>9 DEF FixInv
<1> QED
  BY <1>3, <1>4 DEF ThreadConnect

LEMMA ThreadStoreStep ==
  ASSUME FixInv, ThreadStore
  PROVE  FixInv'
<1>1. /\ FixType /\ fix \in NodeState
  BY FixTyped DEF FixInv
<1> DEFINE none == <<>>
<1>2. /\ FixThreaded /\ marks' = marks /\ host' = host /\ venue' = venue /\ fix.pc = "store"
      /\ fix' = [fix EXCEPT !.pc = "logon", !.handle = TRUE, !.seq = 0, !.buf = none,
                            !.late = fix.late \/ host.pc = "joining"]
  BY DEF ThreadStore, ThreadAt
<1>3. none \in Seq(Fragment) /\ none \o venue.in = venue.in
  BY BytesWithout, EmptySeq
<1> HIDE DEF none
<1>11. (fix.late \/ host.pc = "joining") \in BOOLEAN
  BY <1>1 DEF NodeState
<1>4. /\ fix'.pc = "logon" /\ fix' \in NodeState /\ fix'.seq = 0 /\ fix'.buf = none
      /\ fix'.role = fix.role /\ fix'.chan = fix.chan /\ fix'.inject = fix.inject
  BY <1>1, <1>2, <1>3, <1>11 DEF NodeState
<1>5. FixLog' = FixLog /\ FixBytes' = venue.in /\ (FixThreaded' <=> FixThreaded)
  BY <1>2, <1>3, <1>4 DEF FixLog, FixBytes, FixThreaded
<1>6. FixType'
  BY <1>1, <1>2, <1>4, <1>5 DEF FixType
<1>7. NumbersInv'
  BY <1>2, <1>4, <1>5 DEF FixInv, NumbersInv
<1>8. FixDataInv(FixLog, FixBytes, host.frags)'
  BY <1>2, <1>5, BytesDropped DEF FixInv
<1>9. FixStatusInv'
  BY <1>2, <1>4, <1>5 DEF FixInv, FixStatusInv
<1>10. SymbolsInv'
  BY <1>2, <1>4 DEF FixInv, SymbolsInv, Injected, OnItsWay
<1> QED
  BY <1>6, <1>7, <1>8, <1>9, <1>10 DEF FixInv

(* The connection is dropped, and that is reported. *)
LEMMA DropStep ==
  ASSUME FixInv, ThreadStoreFails \/ ThreadClosed
  PROVE  FixInv'
<1>1. /\ FixType /\ fix \in NodeState /\ venue \in VenueState
      /\ fix.role \in {"thread_init", "thread_tls", "thread_acc"}
  BY FixTyped DEF FixInv, ThreadStoreFails, ThreadClosed, ThreadAt, FixThreaded
<1> DEFINE none == <<>>
           s == IF ThreadClosed THEN "Disconnected" ELSE "Error"
           c == fix.chan \o <<Status(s)>>
<1>2. none \in Seq(Fragment) /\ fix.buf \o none = fix.buf
  BY BytesWithout, EmptySeq
<1>3. /\ FixThreaded /\ marks' = marks /\ host' = host
      /\ venue' = [venue EXCEPT !.open = FALSE, !.in = none]
  BY DEF ThreadStoreFails, ThreadClosed, ThreadAt
<1>4. c \in Seq(FixEvent) /\ <<Status(s)>> \in Seq(FixEvent)
  BY <1>1, ReportTyped
<1>5. \/ fix.pc = "closed" /\ s = "Disconnected"
         /\ fix' = [fix EXCEPT !.pc = "top", !.handle = FALSE, !.sock = FALSE, !.chan = c]
      \/ fix.pc = "store" /\ s = "Error"
         /\ \/ fix' = [fix EXCEPT !.pc = "top", !.sock = FALSE, !.chan = c]
            \/ fix' = [fix EXCEPT !.pc = "exit", !.sock = FALSE, !.chan = c]
  BY DEF ThreadStoreFails, ThreadClosed, ThreadAt, Report
<1> HIDE DEF none, s, c
<1>6. /\ fix' \in NodeState /\ fix'.seq = fix.seq /\ fix'.buf = fix.buf /\ fix'.chan = c
      /\ fix'.role = fix.role /\ fix'.inject = fix.inject
      /\ \/ fix'.pc \in {"top", "exit"} /\ s = "Error"
         \/ fix'.pc = "top" /\ fix.pc = "closed" /\ s = "Disconnected"
  BY <1>1, <1>4, <1>5 DEF NodeState
<1>7. /\ venue' \in VenueState /\ venue'.open = FALSE /\ venue'.in = none /\ venue'.out = venue.out
      /\ venue'.n = venue.n /\ venue'.jump = venue.jump
  BY <1>1, <1>2, <1>3 DEF VenueState
<1>8. FixLog' = FixLog \o <<Status(s)>> /\ Joined(FixLog, <<Status(s)>>, FixLog')
  BY <1>1, <1>3, <1>4, <1>6, LogReports DEF c
<1>9. FixBytes' = fix.buf /\ (FixThreaded' <=> FixThreaded)
  BY <1>2, <1>6, <1>7 DEF FixBytes, FixThreaded
<1>10. s = "Disconnected" => LastIn(FixLog, SessionStatus \cup {"Error"})
  BY <1>3, <1>6 DEF FixInv, FixStatusInv
<1>11. /\ ToldOf(FixLog') /\ LastIn(FixLog', {s}) /\ FixDataInv(FixLog', FixBytes, host.frags)
  BY <1>6, <1>8, <1>10, Tells
<1>12. FixType'
  BY <1>1, <1>3, <1>6, <1>7, <1>9 DEF FixType
<1>13. NumbersInv'
  BY <1>3, <1>6, <1>7, <1>9 DEF FixInv, NumbersInv
<1>14. FixDataInv(FixLog, FixBytes, host.frags)'
  BY <1>3, <1>9, <1>11, BytesDropped
<1>15. FixStatusInv'
  <2>1. LastIn(FixLog', {"Disconnected", "Error"})
    BY <1>6, <1>11 DEF LastIn
  <2> QED
    BY <1>3, <1>6, <1>9, <1>11, <2>1 DEF FixStatusInv
<1>16. SymbolsInv'
  BY <1>3, <1>6, <1>7 DEF FixInv, SymbolsInv, Injected, OnItsWay
<1> QED
  BY <1>12, <1>13, <1>14, <1>15, <1>16 DEF FixInv

LEMMA ThreadLogonStep ==
  ASSUME FixInv, ThreadLogon
  PROVE  FixInv'
<1>1. /\ FixType /\ fix \in NodeState /\ venue \in VenueState /\ fix.seq \in Nat /\ venue.told \in Nat
      /\ venue.out \in Seq(OutMessage) /\ Len(venue.out) \in Nat
  BY FixTyped DEF FixInv
<1>2. FixThreaded /\ marks' = marks /\ host' = host /\ fix.pc = "logon"
  BY DEF ThreadLogon, ThreadAt
<1> DEFINE e == <<Status("LoggingIn")>>
           c == fix.chan \o e
<1>3. c \in Seq(FixEvent) /\ e \in Seq(FixEvent)
  BY <1>1, ReportTyped DEF SessionStatus
<1>4. LastIn(FixLog, {"Disconnected", "Error"})
  BY <1>2 DEF FixInv, FixStatusInv
<1>5. CASE FixAcceptor
  <2>1. venue' = venue /\ fix' = [fix EXCEPT !.pc = "read", !.chan = c] /\ fix.role = "thread_acc"
    BY <1>2, <1>5 DEF ThreadLogon, Report, FixAcceptor, FixThreaded
  <2>2. c = fix.chan \o <<Status("LoggingIn")>>
    OBVIOUS
  <2> HIDE DEF c
  <2>3. /\ fix'.pc = "read" /\ fix' \in NodeState
        /\ fix'.role = fix.role /\ fix'.buf = fix.buf /\ fix'.seq = fix.seq /\ fix'.chan = c
        /\ fix'.inject = fix.inject
    BY <1>1, <1>3, <2>1 DEF NodeState
  <2> QED
    BY <1>2, <2>1, <2>2, <2>3, ReportStep
<1>6. CASE /\ fix' = [fix EXCEPT !.pc = "read", !.seq = fix.seq + 1, !.chan = c]
           /\ venue' = [venue EXCEPT !.out = @ \o Numbered(fix.seq, LogonMessage)]
  <2> DEFINE kinds == <<"logon">>
             out == venue.out
             seq == fix.seq
             u == out \o Numbered(seq, kinds)
  <2>1. kinds \in Seq(SentKind) /\ Len(kinds) = 1 /\ kinds[1] = "logon"
    BY DEF SentKind
  <2>2. venue' = [venue EXCEPT !.out = u]
    BY <1>6 DEF LogonMessage
  <2>3. out \in Seq(OutMessage) /\ seq \in Nat
    BY <1>1
  <2> HIDE DEF kinds, seq, out
  <2>4. /\ u \in Seq(OutMessage) /\ Len(u) = Len(out) + Len(kinds)
        /\ \A i \in 1..Len(out) : u[i] = out[i]
        /\ \A i \in 1..Len(kinds) : u[Len(out) + i] = [kind |-> kinds[i], seq |-> seq + i]
    BY <2>1, <2>3, NumberedAfter
  <2>5. ASSUME \A i \in 1..Len(out) : out[i].seq = venue.told + i, seq = venue.told + Len(out)
        PROVE  (\A i \in 1..Len(u) : u[i].seq = venue.told + i) /\ seq + 1 = venue.told + Len(u)
    <3> DEFINE told == venue.told
    <3>1. told \in Nat /\ Consecutive(out, told, seq)
      BY <1>1, <2>5 DEF Consecutive
    <3> HIDE DEF told
    <3>2. Consecutive(u, told, seq + Len(kinds))
      BY <2>1, <2>3, <3>1, NumbersContinue
    <3> QED
      BY <2>1, <3>2 DEF told, Consecutive
  <2> HIDE DEF c, u
  <2>6. /\ fix'.pc = "read" /\ fix' \in NodeState /\ fix'.seq = seq + 1 /\ fix'.chan = c
        /\ fix'.role = fix.role /\ fix'.buf = fix.buf /\ fix'.inject = fix.inject
    <3> DEFINE next == fix.seq + 1
    <3>1. next \in Nat /\ next = seq + 1 /\ fix' = [fix EXCEPT !.pc = "read", !.seq = next, !.chan = c]
      BY <1>1, <1>6 DEF seq, c
    <3> HIDE DEF next
    <3> QED
      BY <1>1, <1>3, <3>1 DEF NodeState
  <2>7. /\ venue' \in VenueState /\ venue'.out = u /\ venue'.open = venue.open /\ venue'.in = venue.in
        /\ venue'.told = venue.told /\ venue'.jump = venue.jump /\ venue'.n = venue.n
        /\ venue'.logged = venue.logged /\ venue'.subs = venue.subs
    BY <1>1, <2>2, <2>4 DEF VenueState
  <2>8. Joined(FixLog, e, FixLog')
    BY <1>1, <1>2, <1>3, <2>6, LogReports DEF c
  <2>9. FixBytes' = FixBytes /\ (FixThreaded' <=> FixThreaded)
    BY <2>6, <2>7 DEF FixBytes, FixThreaded
  <2>10. /\ ToldOf(FixLog') /\ LastIn(FixLog', {"LoggingIn"}) /\ FixDataInv(FixLog', FixBytes, host.frags)
    BY <1>4, <2>8, Tells
  <2>11. FixType'
    BY <1>1, <1>2, <2>6, <2>7, <2>9 DEF FixType
  <2>12. NumbersInv'
    BY <1>2, <2>5, <2>6, <2>7, <2>9 DEF FixInv, NumbersInv, seq, out
  <2>13. FixDataInv(FixLog, FixBytes, host.frags)'
    BY <1>2, <2>9, <2>10
  <2>14. FixStatusInv'
    <3>1. LastIn(FixLog', SessionStatus)
      BY <2>10 DEF LastIn, SessionStatus
    <3> QED
      BY <1>2, <2>6, <2>9, <2>10, <3>1 DEF FixStatusInv
  <2>15. SymbolsInv'
    <3>1. venue.open /\ fix.role = "thread_tls" => Len(out) = 0
      BY <1>2 DEF FixInv, NumbersInv, out
    <3>2. venue.open /\ fix.role = "thread_tls" => Len(u) > 0 /\ u[1].kind = "logon"
      <4> SUFFICES ASSUME Len(out) = 0 PROVE Len(u) > 0 /\ u[1].kind = "logon"
        BY <3>1
      <4>1. 1 \in 1..Len(kinds) /\ Len(out) + 1 = 1
        BY <2>1
      <4>2. u[1] = [kind |-> kinds[1], seq |-> seq + 1]
        BY <2>4, <4>1
      <4> QED
        BY <2>1, <2>4, <4>2
    <3> QED
      BY <1>2, <2>6, <2>7, <3>2 DEF FixInv, SymbolsInv, Injected
  <2> QED
    BY <2>11, <2>12, <2>13, <2>14, <2>15 DEF FixInv
<1>7. CASE /\ fix' = [fix EXCEPT !.pc = "closed", !.seq = fix.seq + 1,
                                 !.chan = fix.chan \o <<Status("LoggingIn"), Status("Error")>>]
           /\ venue' = venue
  <2> DEFINE f == <<Status("Error")>>
             g == <<Status("LoggingIn"), Status("Error")>>
             d == fix.chan \o g
             log == FixLog \o e
  <2>1. f \in Seq(FixEvent) /\ g \in Seq(FixEvent) /\ g = e \o f
    BY DEF Status, FixEvent, SessionStatus
  <2>2. d \in Seq(FixEvent) /\ FixLog \in Seq(FixEvent)
    BY <1>1, <2>1, FixTyped, EventsJoin
  <2>3. fix' = [fix EXCEPT !.pc = "closed", !.seq = fix.seq + 1, !.chan = d]
    BY <1>7
  <2> HIDE DEF g, d, c
  <2>4. /\ fix'.pc = "closed" /\ fix' \in NodeState /\ fix'.chan = d
        /\ fix'.role = fix.role /\ fix'.buf = fix.buf /\ fix'.inject = fix.inject
    <3> DEFINE next == fix.seq + 1
    <3>1. next \in Nat /\ fix' = [fix EXCEPT !.pc = "closed", !.seq = next, !.chan = d]
      BY <1>1, <2>3
    <3> HIDE DEF next
    <3> QED
      BY <1>1, <2>2, <3>1 DEF NodeState
  <2>5. FixLog' = FixLog \o g
    BY <1>1, <1>2, <2>1, <2>4, LogReports DEF d
  <2>6. FixLog' = log \o f
    BY <1>3, <2>1, <2>2, <2>5, EventsAssociate
  <2>7. Joined(FixLog, e, log) /\ Joined(log, f, FixLog')
    BY <1>3, <2>1, <2>2, <2>6, EventsJoin
  <2> HIDE DEF log
  <2>8. Status("LoggingIn") \in FixEvent /\ Status("LoggingIn").status = "LoggingIn"
        /\ Status("Error") \in FixEvent /\ Status("Error").status = "Error"
    BY DEF Status, FixEvent, SessionStatus
  <2>9. ToldOf(FixLog) /\ FixDataInv(FixLog, FixBytes, host.frags)
    BY DEF FixInv, FixStatusInv
  <2>10. ToldOf(log)
    BY <1>4, <2>7, <2>8, <2>9, ToldOne
  <2>11. ToldOf(FixLog') /\ LastIn(FixLog', {"Error"})
    <3> DEFINE more == FixLog'
               x == Status("Error")
    <3> HIDE DEF more, x
    <3>1. Joined(log, <<x>>, more) /\ x \in FixEvent /\ x.status = "Error"
      BY <2>7, <2>8 DEF more, x
    <3>2. ToldOf(more) /\ LastIn(more, {x.status})
      BY <2>10, <3>1, ToldOne
    <3> QED
      BY <3>1, <3>2 DEF more
  <2>12. FixDataInv(FixLog', FixBytes, host.frags)
    <3>1. (\A i \in 1..Len(e) : e[i].status # "Data") /\ (\A i \in 1..Len(f) : f[i].status # "Data")
      BY <2>8
    <3> HIDE DEF e, f
    <3>2. FixDataInv(log, FixBytes, host.frags)
      BY <2>7, <2>9, <3>1, DataTold
    <3> QED
      BY <2>7, <3>1, <3>2, DataTold
  <2>13. FixBytes' = FixBytes /\ (FixThreaded' <=> FixThreaded)
    BY <1>7, <2>4 DEF FixBytes, FixThreaded
  <2>14. FixType'
    BY <1>1, <1>2, <1>7, <2>4, <2>13 DEF FixType
  <2>15. NumbersInv'
    BY <1>2, <1>7, <2>4, <2>13 DEF FixInv, NumbersInv
  <2>16. FixDataInv(FixLog, FixBytes, host.frags)'
    BY <1>2, <2>12, <2>13
  <2>17. FixStatusInv'
    <3>1. LastIn(FixLog', SessionStatus \cup {"Error"})
      BY <2>11 DEF LastIn
    <3> QED
      BY <1>2, <2>4, <2>11, <2>13, <3>1 DEF FixStatusInv
  <2>18. SymbolsInv'
    BY <1>2, <1>7, <2>4 DEF FixInv, SymbolsInv, Injected, OnItsWay
  <2> QED
    BY <2>14, <2>15, <2>16, <2>17, <2>18 DEF FixInv
<1> QED
  <2> SUFFICES ASSUME ~ FixAcceptor PROVE FixInv'
    BY <1>5
  <2>1. PICK ok \in BOOLEAN :
          /\ fix' = [fix EXCEPT !.pc = IF ok THEN "read" ELSE "closed", !.seq = @ + 1,
                       !.chan = Report(IF ok THEN <<Status("LoggingIn")>>
                                       ELSE <<Status("LoggingIn"), Status("Error")>>)]
          /\ IF ok THEN Send(LogonMessage) ELSE UNCHANGED venue
    BY DEF ThreadLogon, Writes
  <2>2. CASE ok
    BY <1>6, <2>1, <2>2 DEF Report, Send
  <2>3. CASE ~ ok
    BY <1>7, <2>1, <2>3 DEF Report
  <2> QED
    BY <2>2, <2>3

LEMMA KindsTyped ==
  ASSUME NEW a \in Seq({"logon", "heartbeat"}), NEW b \in Seq(FixSymbols)
  PROVE  /\ a \o b \in Seq(SentKind) /\ Len(a \o b) = Len(a) + Len(b)
         /\ Len(a) \in Nat /\ Len(b) \in Nat
         /\ \A i \in 1..Len(b) : Len(a) + i \in 1..Len(a \o b) /\ (a \o b)[Len(a) + i] = b[i]
<1> DEFINE m == Len(a)
           n == Len(b)
<1>1. m \in Nat /\ n \in Nat
  BY LenProperties
<1>2. \A i \in 1..m : a[i] \in {"logon", "heartbeat"}
  BY ElementOfSeq
<1>3. \A i \in 1..n : b[i] \in FixSymbols
  BY ElementOfSeq
<1>4. \A i \in 1..m : a[i] \in SentKind
  BY <1>2 DEF SentKind
<1>5. \A i \in 1..n : b[i] \in SentKind
  BY <1>3 DEF SentKind
<1>6. a \in Seq(SentKind) /\ b \in Seq(SentKind)
  BY <1>1, <1>4, <1>5
<1>7. /\ a \o b \in Seq(SentKind) /\ Len(a \o b) = m + n
      /\ \A i \in 1..(m + n) : (a \o b)[i] = IF i <= m THEN a[i] ELSE b[i - m]
  BY <1>6, ConcatProperties
<1> HIDE DEF m, n
<1>8. ASSUME NEW i \in 1..n PROVE m + i \in 1..(m + n) /\ (a \o b)[m + i] = b[i]
  <2>1. m + i \in 1..(m + n) /\ ~(m + i <= m) /\ (m + i) - m = i
    BY <1>1
  <2> QED
    BY <1>7, <2>1
<1> QED
  BY <1>1, <1>7, <1>8 DEF m, n

(* What is left of the inject queue. *)
LEMMA InjectLeft ==
  ASSUME NEW q \in Seq(FixSymbols), NEW taken \in 0..Len(q)
  PROVE  /\ SubSeq(q, taken + 1, Len(q)) \in Seq(FixSymbols)
         /\ Len(SubSeq(q, taken + 1, Len(q))) = Len(q) - taken
         /\ Within(SubSeq(q, taken + 1, Len(q)), q, taken)
<1> DEFINE r == SubSeq(q, taken + 1, Len(q))
           n == Len(q)
<1>1. n \in Nat /\ taken \in Nat /\ taken <= n /\ \A i \in 1..n : q[i] \in FixSymbols
  BY LenProperties, ElementOfSeq
<1>2. /\ r \in Seq(FixSymbols) /\ Len(r) = IF taken + 1 <= n THEN n - (taken + 1) + 1 ELSE 0
      /\ \A i \in 1..(n - (taken + 1) + 1) : r[i] = q[(taken + 1) + i - 1]
  <2>1. taken + 1 \in Int /\ n \in Int /\ \A i \in (taken + 1)..n : q[i] \in FixSymbols
    BY <1>1
  <2> HIDE DEF n
  <2> QED
    BY <2>1, SubSeqProperties DEF n
<1> HIDE DEF r, n
<1>3. Len(r) = n - taken
  BY <1>1, <1>2
<1>4. ASSUME NEW i \in 1..(n - taken) PROVE i + taken \in 1..n /\ r[i] = q[i + taken]
  <2>1. i \in 1..(n - (taken + 1) + 1) /\ (taken + 1) + i - 1 = i + taken
    BY <1>1
  <2> QED
    BY <1>1, <1>2, <2>1
<1> QED
  BY <1>2, <1>3, <1>4 DEF Within, r, n

LEMMA ThreadReadStep ==
  ASSUME FixInv, ThreadRead
  PROVE  FixInv'
<1>1. /\ FixType /\ fix \in NodeState /\ venue \in VenueState /\ fix.seq \in Nat /\ venue.told \in Nat
      /\ venue.out \in Seq(OutMessage) /\ Len(venue.out) \in Nat /\ FixBytes \in Seq(Fragment)
      /\ fix.inject \in Seq(FixSymbols) /\ FixLog \in Seq(FixEvent)
  BY FixTyped DEF FixInv
<1>2. FixThreaded /\ marks' = marks /\ host' = host /\ fix.pc = "read"
  BY DEF ThreadRead, ThreadAt
<1> DEFINE bytes == FixBytes
           answers == DrainedAnswers(bytes)
           inject == fix.inject
           kinds == answers \o inject
           left == Undecoded(bytes)
           events == DrainedEvents(bytes)
           out == venue.out
           seq == fix.seq
           u == out \o Numbered(seq, kinds)
           none == <<>>
           next == seq + Len(kinds)
           c == fix.chan \o events
<1>a. PICK ok \in (IF kinds = <<>> THEN {TRUE} ELSE Writes) :
        \E taken \in (IF ok THEN Len(inject) ELSE IF answers = <<>> THEN 1 ELSE 0) .. Len(inject) :
          /\ fix' = [fix EXCEPT !.buf = left, !.seq = @ + Len(kinds),
                                !.inject = SubSeq(@, taken + 1, Len(@)),
                                !.pc = IF ok THEN "read" ELSE "closed",
                                !.chan = IF ok THEN Report(events) ELSE @]
          /\ venue' = [venue EXCEPT !.in = none, !.out = IF ok THEN @ \o Numbered(seq, kinds) ELSE @]
  BY DEF ThreadRead, FixBytes
<1>b. PICK taken \in (IF ok THEN Len(inject) ELSE IF answers = <<>> THEN 1 ELSE 0) .. Len(inject) :
          /\ fix' = [fix EXCEPT !.buf = left, !.seq = @ + Len(kinds),
                                !.inject = SubSeq(@, taken + 1, Len(@)),
                                !.pc = IF ok THEN "read" ELSE "closed",
                                !.chan = IF ok THEN Report(events) ELSE @]
          /\ venue' = [venue EXCEPT !.in = none, !.out = IF ok THEN @ \o Numbered(seq, kinds) ELSE @]
  BY <1>a
<1>c. ok \in BOOLEAN /\ taken \in 0..Len(inject)
  <2>1. Len(inject) \in Nat
    BY <1>1, LenProperties
  <2>2. ok \in BOOLEAN
    BY <1>a DEF Writes
  <2> DEFINE low == IF ok THEN Len(inject) ELSE IF answers = <<>> THEN 1 ELSE 0
  <2>3. low \in Nat /\ taken \in low..Len(inject)
    BY <1>b, <2>1
  <2> HIDE DEF low
  <2> QED
    BY <2>1, <2>2, <2>3
<1>3. LET rest == SubSeq(inject, taken + 1, Len(inject))
      IN  /\ fix' = [fix EXCEPT !.buf = left, !.seq = next, !.inject = rest,
                                !.pc = IF ok THEN "read" ELSE "closed",
                                !.chan = IF ok THEN c ELSE fix.chan]
          /\ venue' = [venue EXCEPT !.in = none, !.out = IF ok THEN u ELSE out]
  BY <1>b DEF Report
<1> DEFINE rest == SubSeq(inject, taken + 1, Len(inject))
<1>4. answers \in Seq({"logon", "heartbeat"})
  BY <1>1, AnswersOf
<1>5. /\ events \in Seq(Drained) /\ left \in Seq(Fragment)
      /\ \E d \in Nat : \E q : /\ d <= Len(bytes) /\ Within(left, bytes, d) /\ Comes(events, bytes, d, q)
  BY <1>1, EventsCome
<1>6. inject \in Seq(FixSymbols) /\ out \in Seq(OutMessage) /\ seq \in Nat /\ bytes \in Seq(Fragment)
  BY <1>1
<1> HIDE DEF answers, inject, left, events, out, seq
<1>7. /\ kinds \in Seq(SentKind) /\ Len(kinds) = Len(answers) + Len(inject)
      /\ Len(answers) \in Nat /\ Len(inject) \in Nat
      /\ \A i \in 1..Len(inject) :
           Len(answers) + i \in 1..Len(kinds) /\ kinds[Len(answers) + i] = inject[i]
  BY <1>4, <1>6, KindsTyped
<1> HIDE DEF kinds
<1>8. /\ u \in Seq(OutMessage) /\ Len(u) = Len(out) + Len(kinds)
      /\ \A i \in 1..Len(out) : u[i] = out[i]
      /\ \A i \in 1..Len(kinds) : u[Len(out) + i] = [kind |-> kinds[i], seq |-> seq + i]
  BY <1>6, <1>7, NumberedAfter
<1>9. ASSUME \A i \in 1..Len(out) : out[i].seq = venue.told + i, seq = venue.told + Len(out)
      PROVE  (\A i \in 1..Len(u) : u[i].seq = venue.told + i) /\ next = venue.told + Len(u)
  <2> DEFINE told == venue.told
  <2>1. told \in Nat /\ Consecutive(out, told, seq)
    BY <1>1, <1>9 DEF Consecutive
  <2> HIDE DEF told
  <2>2. Consecutive(u, told, seq + Len(kinds))
    BY <1>6, <1>7, <2>1, NumbersContinue
  <2> QED
    BY <2>2 DEF told, Consecutive
<1>10. /\ rest \in Seq(FixSymbols) /\ Len(rest) = Len(inject) - taken /\ Within(rest, inject, taken)
  BY <1>6, <1>c, InjectLeft
<1>11. events \in Seq(FixEvent) /\ c \in Seq(FixEvent)
  <2>1. \A i \in 1..Len(events) : events[i] \in FixEvent
    BY <1>5, ElementOfSeq DEF Drained
  <2>2. events \in Seq(FixEvent)
    BY <1>5, <2>1, LenProperties
  <2> QED
    BY <1>1, <2>2, FixTyped, EventsJoin
<1>12. next \in Nat /\ none \in Seq(Fragment) /\ left \o none = left
  BY <1>5, <1>6, <1>7, EmptySeq, ConcatEmptySeq
<1> HIDE DEF u, next, c, rest, none
<1>13. /\ fix' \in NodeState /\ fix'.role = fix.role /\ fix'.buf = left /\ fix'.seq = next
       /\ fix'.inject = rest /\ fix'.pc = (IF ok THEN "read" ELSE "closed")
       /\ fix'.chan = (IF ok THEN c ELSE fix.chan)
  BY <1>1, <1>3, <1>5, <1>10, <1>11, <1>12 DEF NodeState, rest
<1>14. /\ venue' \in VenueState /\ venue'.in = none /\ venue'.out = (IF ok THEN u ELSE out)
       /\ venue'.open = venue.open /\ venue'.told = venue.told /\ venue'.jump = venue.jump
       /\ venue'.n = venue.n /\ venue'.logged = venue.logged /\ venue'.subs = venue.subs
  BY <1>1, <1>3, <1>8, <1>12 DEF VenueState, out
<1>15. FixBytes' = left /\ (FixThreaded' <=> FixThreaded)
  BY <1>12, <1>13, <1>14 DEF FixBytes, FixThreaded
<1>16. FixType'
  BY <1>1, <1>2, <1>13, <1>14, <1>15 DEF FixType
<1>17. NumbersInv'
  <2>1. /\ venue.open => \A i \in 1..Len(out) : out[i].seq = venue.told + i
        /\ venue.open => seq = venue.told + Len(out)
        /\ ~ venue.jump
    BY <1>2 DEF FixInv, NumbersInv, FixThreaded, out, seq
  <2>2. FixThreaded' /\ fix'.pc \notin {"top", "connect", "store", "logon"} /\ ~ venue'.jump
    BY <1>2, <1>13, <1>14, <1>15, <2>1
  <2>3. CASE ok
    <3>1. venue.open => (\A i \in 1..Len(u) : u[i].seq = venue.told + i) /\ next = venue.told + Len(u)
      BY <1>9, <2>1
    <3>2. venue'.out = u
      BY <1>14, <2>3
    <3> QED
      BY <1>13, <1>14, <2>2, <3>1, <3>2 DEF NumbersInv
  <2>4. CASE ~ ok
    <3>1. venue'.out = out /\ fix'.pc = "closed"
      BY <1>13, <1>14, <2>4
    <3> QED
      BY <1>14, <2>1, <2>2, <3>1 DEF NumbersInv
  <2> QED
    BY <1>c, <2>3, <2>4
<1>18. PICK d \in Nat : \E q : /\ d <= Len(bytes) /\ Within(left, bytes, d) /\ Comes(events, bytes, d, q)
  BY <1>5
<1>19. PICK q : Comes(events, bytes, d, q)
  BY <1>18
<1>20. d <= Len(bytes) /\ Within(left, bytes, d) /\ Len(left) \in Nat /\ Len(bytes) \in Nat
  BY <1>5, <1>6, <1>18, LenProperties
<1>21. FixDataInv(FixLog, bytes, host.frags) /\ ToldOf(FixLog) /\ LastIn(FixLog, SessionStatus)
  BY <1>2 DEF FixInv, FixStatusInv
<1>22. FixDataInv(FixLog, FixBytes, host.frags)' /\ FixStatusInv'
  <2>1. CASE ok
    <3>1. Joined(FixLog, events, FixLog')
      BY <1>1, <1>2, <1>11, <1>13, <2>1, LogReports DEF c
    <3>2. FixDataInv(FixLog', left, host.frags)
      BY <1>19, <1>20, <1>21, <3>1, DataDecoded
    <3>3. ToldOf(FixLog') /\ LastIn(FixLog', SessionStatus)
      BY <1>5, <1>21, <3>1, ToldDrained
    <3> QED
      BY <1>2, <1>13, <1>15, <2>1, <3>2, <3>3 DEF FixStatusInv
  <2>2. CASE ~ ok
    <3>1. FixLog' = FixLog
      BY <1>2, <1>13, <2>2 DEF FixLog
    <3>2. FixDataInv(FixLog, left, host.frags)
      BY <1>20, <1>21, DataKept
    <3>3. LastIn(FixLog, SessionStatus \cup {"Error"})
      BY <1>21 DEF LastIn
    <3> QED
      BY <1>2, <1>13, <1>15, <1>21, <2>2, <3>1, <3>2, <3>3 DEF FixStatusInv
  <2> QED
    BY <2>1, <2>2
<1>23. SymbolsInv'
  <2>1. /\ Injected = {inject[i] : i \in 1..Len(inject)}
        /\ OnItsWay = {out[i].kind : i \in 1..Len(out)}
        /\ Injected' = {rest[i] : i \in 1..Len(rest)}
        /\ ok => OnItsWay' = {u[i].kind : i \in 1..Len(u)}
    BY <1>13, <1>14 DEF Injected, OnItsWay, inject, out
  <2> DEFINE m == Len(out)
             k == Len(kinds)
  <2>l. m \in Nat /\ k \in Nat /\ Len(u) = m + k
    BY <1>1, <1>7, <1>8 DEF out
  <2> HIDE DEF m, k
  <2>p. 1..m \subseteq 1..Len(u) /\ \A x \in 1..k : m + x \in 1..Len(u)
    BY <2>l
  <2>2. \A i \in 1..Len(rest) : i + taken \in 1..Len(inject) /\ rest[i] = inject[i + taken]
    BY <1>10 DEF Within
  <2>3. Injected' \subseteq Injected
    BY <2>1, <2>2
  <2>4. \A i, j \in 1..Len(rest) : rest[i] = rest[j] => i = j
    <3> SUFFICES ASSUME NEW i \in 1..Len(rest), NEW j \in 1..Len(rest), rest[i] = rest[j] PROVE i = j
      OBVIOUS
    <3>1. i + taken = j + taken
      BY <2>2 DEF FixInv, SymbolsInv, inject
    <3> QED
      BY <3>1
  <2>5. ASSUME ok PROVE Injected \subseteq OnItsWay' /\ OnItsWay \subseteq OnItsWay'
    <3>1. \A i \in 1..Len(out) : i \in 1..Len(u) /\ u[i] = out[i]
      BY <1>8, <2>p DEF m
    <3>2. ASSUME NEW i \in 1..Len(inject) PROVE inject[i] \in OnItsWay'
      <4> DEFINE x == Len(answers) + i
      <4>1. x \in 1..Len(kinds) /\ kinds[x] = inject[i]
        BY <1>7
      <4> HIDE DEF x
      <4>2. u[Len(out) + x] = [kind |-> kinds[x], seq |-> seq + x]
        BY <1>8, <4>1
      <4>3. Len(out) + x \in 1..Len(u)
        BY <2>p, <4>1 DEF m, k
      <4>4. u[Len(out) + x].kind = inject[i]
        BY <4>1, <4>2
      <4> QED
        BY <2>1, <2>5, <4>3, <4>4
    <3> QED
      BY <2>1, <2>5, <3>1, <3>2
  <2>6. ok => (Len(out) > 0 => Len(u) > 0 /\ u[1] = out[1])
    <3>1. m > 0 => Len(u) > 0 /\ 1 \in 1..m
      BY <2>l
    <3> QED
      BY <1>8, <3>1 DEF m
  <2>7. /\ marks.wanted \subseteq marks.pending \cup marks.sent
        /\ marks.logged_in => marks.pending = {}
        /\ Injected \subseteq marks.sent
    BY DEF FixInv, SymbolsInv
  <2>8. (fix.role = "thread_tls" /\ Cardinality(FixSymbols) <= InjectCapacity) =>
          /\ venue.n # 0
          /\ venue.n = 1 /\ venue.open => marks.sent \subseteq Injected \cup OnItsWay \cup venue.subs
    BY <1>1, <1>2, FixTyped DEF FixInv, SymbolsInv
  <2>9. (venue.open /\ fix.role = "thread_tls" /\ ~ venue.logged) =>
          Len(out) > 0 /\ out[1].kind = "logon"
    BY <1>2 DEF FixInv, SymbolsInv, out
  <2>10. fix.role = "thread_tls" => venue.n > 0
    BY <1>2 DEF FixInv, SymbolsInv
  <2>11. /\ marks'.wanted \subseteq marks'.pending \cup marks'.sent
         /\ marks'.logged_in => marks'.pending = {}
         /\ Injected' \subseteq marks'.sent
         /\ \A i, j \in 1..Len(fix'.inject) : fix'.inject[i] = fix'.inject[j] => i = j
         /\ fix'.role = "thread_tls" => venue'.n > 0
    BY <1>2, <1>13, <1>14, <2>3, <2>4, <2>7, <2>10
  <2>12. CASE ok
    <3>1. venue'.out = u /\ fix'.pc = "read"
      BY <1>13, <1>14, <2>12
    <3>2. (fix.role = "thread_tls" /\ Cardinality(FixSymbols) <= InjectCapacity) =>
            (venue.n = 1 /\ venue.open => marks.sent \subseteq OnItsWay' \cup venue.subs)
      BY <2>5, <2>8, <2>12
    <3>3. (venue.open /\ fix.role = "thread_tls" /\ ~ venue.logged) => Len(u) > 0 /\ u[1].kind = "logon"
      BY <2>6, <2>9, <2>12
    <3> QED
      BY <1>2, <1>13, <1>14, <2>8, <2>11, <3>1, <3>2, <3>3 DEF SymbolsInv
  <2>13. CASE ~ ok
    <3>1. fix'.pc = "closed"
      BY <1>13, <2>13
    <3> QED
      BY <1>2, <1>13, <1>14, <2>8, <2>11, <3>1 DEF SymbolsInv
  <2> QED
    BY <1>c, <2>12, <2>13
<1> QED
  BY <1>16, <1>17, <1>22, <1>23 DEF FixInv

-----------------------------------------------------------------------------
(* The inject queue holds a symbol once, and so has room for all of them. *)

NoneTwice(q) == \A i, j \in 1..Len(q) : q[i] = q[j] => i = j
Elements(q) == {q[i] : i \in 1..Len(q)}

LEMMA DistinctCount ==
  ASSUME NEW q \in Seq(FixSymbols), NoneTwice(q)
  PROVE  IsFiniteSet(Elements(q)) /\ Cardinality(Elements(q)) = Len(q) /\ Elements(q) \subseteq FixSymbols
<1> DEFINE n == Len(q)
           R == Elements(q)
<1>1. n \in Nat /\ q = [i \in 1..n |-> q[i]] /\ \A i \in 1..n : q[i] \in FixSymbols
  BY LenProperties, ElementOfSeq
<1>2. R = {q[i] : i \in 1..n} /\ \A i, j \in 1..n : q[i] = q[j] => i = j
  BY DEF Elements, NoneTwice
<1> HIDE DEF n, R
<1>3. q \in [1..n -> R]
  BY <1>1, <1>2
<1>4. q \in Bijection(1..n, R)
  BY <1>2, <1>3 DEF Bijection, Injection, Surjection, IsInjective
<1>5. ExistsBijection(1..n, R)
  BY <1>4 DEF ExistsBijection
<1>6. IsFiniteSet(R) /\ Cardinality(R) = n
  BY <1>1, <1>5, FS_NatBijection, FS_CountingElements
<1> QED
  BY <1>1, <1>2, <1>6 DEF n, R

(* One request for each symbol. *)
LEMMA RequestsListed ==
  ASSUME NEW S \in SUBSET FixSymbols
  PROVE  /\ MarketDataRequests(S) \in Seq(FixSymbols) /\ IsFiniteSet(S)
         /\ Len(MarketDataRequests(S)) = Cardinality(S) /\ Cardinality(S) \in Nat
         /\ NoneTwice(MarketDataRequests(S)) /\ Elements(MarketDataRequests(S)) = S
<1> DEFINE n == Cardinality(S)
           q == SetToSeq(S)
<1>1. IsFiniteSet(S)
  BY FixAssumption, FS_Subset
<1>2. n \in Nat /\ ExistsBijection(1..n, S)
  BY <1>1, FS_CardinalityType
<1>3. \E f \in [1..n -> S] : IsInjective(f)
  BY <1>2 DEF ExistsBijection, Bijection, Injection
<1>4. q \in [1..n -> S] /\ IsInjective(q)
  BY <1>3 DEF SetToSeq
<1> HIDE DEF n, q
<1>5. IsFiniteSet(1..n) /\ Cardinality(1..n) = n
  <2>1. 1 \in Int /\ n \in Int
    BY <1>2
  <2>2. IsFiniteSet(1..n) /\ Cardinality(1..n) = IF 1 > n THEN 0 ELSE n - 1 + 1
    BY <2>1, FS_Interval
  <2> QED
    BY <1>2, <2>2
<1>6. q \in Injection(1..n, S)
  BY <1>4 DEF Injection
<1>7. q \in Surjection(1..n, S)
  BY <1>1, <1>5, <1>6, FS_Injection DEF n
<1>8. q \in Seq(FixSymbols) /\ Len(q) = n /\ \A i \in 1..n : q[i] \in S
  BY <1>2, <1>4
<1>9. NoneTwice(q)
  BY <1>4, <1>8 DEF NoneTwice, IsInjective
<1>10. Elements(q) = S
  <2>1. \A x \in S : \E i \in 1..n : q[i] = x
    BY <1>7 DEF Surjection
  <2> QED
    BY <1>8, <2>1 DEF Elements
<1> QED
  BY <1>1, <1>2, <1>8, <1>9, <1>10 DEF n, q, MarketDataRequests

LEMMA FirstOf ==
  ASSUME NEW q \in Seq(FixSymbols), NEW k \in Int, k <= Len(q)
  PROVE  /\ SubSeq(q, 1, k) \in Seq(FixSymbols)
         /\ \A i \in 1..Len(SubSeq(q, 1, k)) : i \in 1..Len(q) /\ SubSeq(q, 1, k)[i] = q[i]
         /\ k = Len(q) => Len(SubSeq(q, 1, k)) = Len(q)
<1> DEFINE r == SubSeq(q, 1, k)
           n == Len(q)
<1>1. n \in Nat /\ \A i \in 1..n : q[i] \in FixSymbols
  BY LenProperties, ElementOfSeq
<1>2. /\ r \in Seq(FixSymbols) /\ Len(r) = IF 1 <= k THEN k - 1 + 1 ELSE 0
      /\ \A i \in 1..(k - 1 + 1) : r[i] = q[1 + i - 1]
  <2>1. \A i \in 1..k : q[i] \in FixSymbols
    BY <1>1
  <2> QED
    BY <2>1, SubSeqProperties
<1> HIDE DEF r, n
<1>3. k <= n
  BY DEF n
<1>4. ASSUME NEW i \in 1..Len(r) PROVE i \in 1..n /\ r[i] = q[i]
  <2>1. i \in 1..n /\ i \in 1..(k - 1 + 1) /\ 1 + i - 1 = i
    BY <1>1, <1>2, <1>3
  <2> QED
    BY <1>2, <2>1
<1>5. k = n => Len(r) = n
  BY <1>1, <1>2
<1> QED
  BY <1>2, <1>4, <1>5 DEF r, n

LEMMA SymbolsJoin ==
  ASSUME NEW a \in Seq(FixSymbols), NEW b \in Seq(FixSymbols), NoneTwice(a), NoneTwice(b),
         Elements(a) \cap Elements(b) = {}
  PROVE  /\ a \o b \in Seq(FixSymbols) /\ NoneTwice(a \o b)
         /\ Elements(a \o b) = Elements(a) \cup Elements(b)
<1> DEFINE m == Len(a)
           n == Len(b)
           u == a \o b
<1>1. /\ m \in Nat /\ n \in Nat /\ u \in Seq(FixSymbols) /\ Len(u) = m + n
      /\ \A i \in 1..(m + n) : u[i] = IF i <= m THEN a[i] ELSE b[i - m]
  BY ConcatProperties, LenProperties
<1>2. /\ Elements(a) = {a[i] : i \in 1..m} /\ Elements(b) = {b[i] : i \in 1..n}
      /\ Elements(u) = {u[i] : i \in 1..(m + n)}
  BY <1>1 DEF Elements
<1>3. /\ \A i, j \in 1..m : a[i] = a[j] => i = j
      /\ \A i, j \in 1..n : b[i] = b[j] => i = j
  BY DEF NoneTwice
<1> HIDE DEF m, n, u
<1>4. ASSUME NEW i \in 1..(m + n)
      PROVE  \/ i \in 1..m /\ u[i] = a[i]
             \/ i - m \in 1..n /\ u[i] = b[i - m] /\ i > m
  <2>1. CASE i <= m
    BY <1>1, <2>1
  <2>2. CASE ~(i <= m)
    <3>1. i - m \in 1..n
      BY <1>1, <2>2
    <3> QED
      BY <1>1, <2>2, <3>1
  <2> QED
    BY <2>1, <2>2
<1>5. \A i \in 1..m : i \in 1..(m + n) /\ u[i] = a[i]
  BY <1>1
<1>6. ASSUME NEW i \in 1..n PROVE m + i \in 1..(m + n) /\ u[m + i] = b[i]
  <2>1. m + i \in 1..(m + n) /\ ~(m + i <= m) /\ (m + i) - m = i
    BY <1>1
  <2> QED
    BY <1>1, <2>1
<1>7. ASSUME NEW i \in 1..(m + n), NEW j \in 1..(m + n), u[i] = u[j] PROVE i = j
  <2>1. CASE i \in 1..m /\ u[i] = a[i] /\ j \in 1..m /\ u[j] = a[j]
    BY <1>3, <1>7, <2>1
  <2>2. CASE i \in 1..m /\ u[i] = a[i] /\ j - m \in 1..n /\ u[j] = b[j - m]
    <3>1. a[i] \in Elements(a) /\ b[j - m] \in Elements(b) /\ a[i] = b[j - m]
      BY <1>2, <1>7, <2>2
    <3> QED
      BY <3>1
  <2>3. CASE j \in 1..m /\ u[j] = a[j] /\ i - m \in 1..n /\ u[i] = b[i - m]
    <3>1. a[j] \in Elements(a) /\ b[i - m] \in Elements(b) /\ a[j] = b[i - m]
      BY <1>2, <1>7, <2>3
    <3> QED
      BY <3>1
  <2>4. CASE i - m \in 1..n /\ u[i] = b[i - m] /\ j - m \in 1..n /\ u[j] = b[j - m]
    <3>1. i - m = j - m
      BY <1>3, <1>7, <2>4
    <3> QED
      BY <1>1, <3>1
  <2> QED
    BY <1>4, <2>1, <2>2, <2>3, <2>4
<1>8. NoneTwice(u)
  BY <1>1, <1>7 DEF NoneTwice
<1>9. Elements(u) \subseteq Elements(a) \cup Elements(b)
  BY <1>2, <1>4
<1>10. Elements(a) \subseteq Elements(u) /\ Elements(b) \subseteq Elements(u)
  BY <1>2, <1>5, <1>6
<1> QED
  BY <1>1, <1>8, <1>9, <1>10 DEF u

(* Every request is queued when the queue is as long as there are symbols. *)
LEMMA RequestsQueued ==
  ASSUME NEW queue \in Seq(FixSymbols), NoneTwice(queue), NEW todo \in SUBSET FixSymbols,
         Elements(queue) \cap todo = {}
  PROVE  LET r == SendOrLog(queue, MarketDataRequests(todo))
         IN  /\ r \in Seq(FixSymbols) /\ NoneTwice(r)
             /\ Elements(queue) \subseteq Elements(r) /\ Elements(r) \subseteq Elements(queue) \cup todo
             /\ Cardinality(FixSymbols) <= InjectCapacity => todo \subseteq Elements(r)
<1> DEFINE msgs == MarketDataRequests(todo)
           R == Elements(queue)
           n == Len(queue)
           t == Len(msgs)
           k == IF n + t > InjectCapacity THEN InjectCapacity - n ELSE t
           head == SubSeq(msgs, 1, k)
<1>1. /\ msgs \in Seq(FixSymbols) /\ IsFiniteSet(todo) /\ t = Cardinality(todo) /\ t \in Nat
      /\ NoneTwice(msgs) /\ Elements(msgs) = todo
  BY RequestsListed
<1>2. IsFiniteSet(R) /\ Cardinality(R) = n /\ R \subseteq FixSymbols /\ n \in Nat
  BY DistinctCount, LenProperties
<1>3. Cardinality(FixSymbols) <= InjectCapacity => k = t
  <2> DEFINE c == Cardinality(FixSymbols)
  <2>1. c \in Nat
    BY FixAssumption, FS_CardinalityType
  <2>2. R \cap todo = {} /\ Cardinality({}) = 0
    BY FS_EmptySet
  <2>3. Cardinality(R \cup todo) = Cardinality(R) + Cardinality(todo) - Cardinality(R \cap todo)
    BY <1>1, <1>2, FS_Union
  <2>4. R \cup todo \in SUBSET FixSymbols
    BY <1>2
  <2>5. Cardinality(R \cup todo) <= c
    BY <2>4, FixAssumption, FS_Subset
  <2>6. n + t <= c
    <3>1. Cardinality(R \cap todo) = 0
      BY <2>2
    <3> DEFINE w == Cardinality(R \cup todo)
    <3>2. w = n + t - 0 /\ w <= c
      BY <1>1, <1>2, <2>3, <2>5, <3>1
    <3> HIDE DEF w, n, t, c
    <3> QED
      BY <1>1, <1>2, <2>1, <3>2
  <2> HIDE DEF n, t, c
  <2> QED
    BY <1>1, <1>2, <2>1, <2>6, FixAssumption DEF c
<1>4. k \in Int /\ k <= t
  <2> HIDE DEF n, t
  <2> QED
    BY <1>1, <1>2, FixAssumption
<1> HIDE DEF k, msgs
<1>5. /\ head \in Seq(FixSymbols)
      /\ \A i \in 1..Len(head) : i \in 1..t /\ head[i] = msgs[i]
      /\ k = t => Len(head) = t
  BY <1>1, <1>4, FirstOf
<1> HIDE DEF head
<1>6. NoneTwice(head) /\ Elements(head) \subseteq todo
  BY <1>1, <1>5 DEF NoneTwice, Elements
<1>7. k = t => todo \subseteq Elements(head)
  BY <1>1, <1>5 DEF Elements
<1>8. R \cap Elements(head) = {}
  BY <1>6
<1>9. /\ queue \o head \in Seq(FixSymbols) /\ NoneTwice(queue \o head)
      /\ Elements(queue \o head) = R \cup Elements(head)
  BY <1>5, <1>6, <1>8, SymbolsJoin
<1>10. SendOrLog(queue, MarketDataRequests(todo)) = queue \o head
  BY DEF SendOrLog, head, k, msgs
<1> QED
  BY <1>3, <1>6, <1>7, <1>9, <1>10

(* A cycle of the graph: what the thread reported is taken, what may be     *)
(* asked for is queued.                                                    *)
LEMMA SubscribeStep ==
  ASSUME FixInv, FixThreaded, venue' = venue, host' \in HostState, host'.given = host.given \o fix.chan,
         host'.frags = host.frags, NEW m \in MarksState, NEW fresh \in SUBSET FixSymbols,
         m.pending = marks.pending, m.sent = marks.sent, m.wanted \subseteq marks.wanted \cup fresh,
         marks.logged_in => m.logged_in, Subscribe(m, fresh)
  PROVE  FixInv'
<1> DEFINE todo == (m.pending \cup fresh) \ m.sent
           none == <<>>
           queue == fix.inject
           r == SendOrLog(queue, MarketDataRequests(todo))
<1>1. FixType /\ fix \in NodeState /\ marks \in MarksState /\ fix.inject \in Seq(FixSymbols)
  BY FixTyped DEF FixInv
<1>2. /\ m.pending \in SUBSET FixSymbols /\ m.sent \in SUBSET FixSymbols /\ m.wanted \in SUBSET FixSymbols
      /\ m.logged_in \in BOOLEAN
  BY DEF MarksState
<1>3. none \in Seq(FixEvent)
  BY EmptySeq
<1>4. /\ marks.wanted \subseteq marks.pending \cup marks.sent
      /\ Elements(queue) \subseteq marks.sent /\ NoneTwice(queue)
  BY DEF FixInv, SymbolsInv, Injected, Elements, NoneTwice
<1>5. /\ r \in Seq(FixSymbols) /\ NoneTwice(r)
      /\ Elements(queue) \subseteq Elements(r) /\ Elements(r) \subseteq Elements(queue) \cup todo
      /\ Cardinality(FixSymbols) <= InjectCapacity => todo \subseteq Elements(r)
  <2>1. Elements(queue) \cap todo = {} /\ todo \in SUBSET FixSymbols
    BY <1>2, <1>4
  <2>2. queue \in Seq(FixSymbols)
    BY <1>1
  <2> HIDE DEF todo, queue
  <2> QED
    BY <1>4, <2>1, <2>2, RequestsQueued
<1>6. \/ /\ m.logged_in /\ marks' = [m EXCEPT !.pending = {}, !.sent = @ \cup todo]
         /\ fix' = [fix EXCEPT !.chan = none, !.inject = r]
      \/ /\ ~ m.logged_in /\ marks' = [m EXCEPT !.pending = @ \cup fresh]
         /\ fix' = [fix EXCEPT !.chan = none]
  BY DEF Subscribe
<1> HIDE DEF none, r
<1>7. /\ fix' \in NodeState /\ fix'.role = fix.role /\ fix'.pc = fix.pc /\ fix'.buf = fix.buf
      /\ fix'.seq = fix.seq /\ fix'.chan = none /\ fix'.sock = fix.sock
      /\ \/ m.logged_in /\ fix'.inject = r
         \/ ~ m.logged_in /\ fix'.inject = queue
  BY <1>1, <1>3, <1>5, <1>6 DEF NodeState
<1>8. /\ marks' \in MarksState /\ marks'.wanted = m.wanted /\ marks'.logged_in = m.logged_in
      /\ \/ m.logged_in /\ marks'.pending = {} /\ marks'.sent = m.sent \cup todo
         \/ ~ m.logged_in /\ marks'.pending = m.pending \cup fresh /\ marks'.sent = m.sent
  BY <1>2, <1>6 DEF MarksState
<1>9. FixLog' = FixLog /\ FixBytes' = FixBytes /\ (FixThreaded' <=> FixThreaded)
  BY <1>1, <1>7, LogTaken DEF FixBytes, FixThreaded, none
<1>10. FixType'
  BY <1>1, <1>7, <1>8, <1>9 DEF FixType
<1>11. NumbersInv'
  BY <1>7, <1>9 DEF FixInv, NumbersInv
<1>12. FixDataInv(FixLog, FixBytes, host.frags)'
  BY <1>9 DEF FixInv
<1>13. FixStatusInv'
  BY <1>7, <1>9 DEF FixInv, FixStatusInv
<1>14. SymbolsInv'
  <2>1. OnItsWay' = OnItsWay /\ Injected' = Elements(fix'.inject) /\ Injected = Elements(queue)
    BY DEF OnItsWay, Injected, Elements
  <2>2. /\ (fix.role = "thread_tls" /\ fix.pc \in {"store", "logon", "read", "closed"}) => venue.n > 0
        /\ (fix.role = "thread_tls" /\ Cardinality(FixSymbols) <= InjectCapacity) =>
             /\ venue.n = 0 \/ (venue.n = 1 /\ fix.pc \in {"store", "logon"}) => marks.sent \subseteq Elements(queue)
             /\ venue.n = 1 /\ venue.open /\ fix.pc = "read" =>
                  marks.sent \subseteq Elements(queue) \cup OnItsWay \cup venue.subs
        /\ (venue.open /\ fix.role = "thread_tls" /\ fix.pc = "read" /\ ~ venue.logged) =>
             Len(venue.out) > 0 /\ venue.out[1].kind = "logon"
    BY <2>1 DEF FixInv, SymbolsInv
  <2>3. CASE m.logged_in
    <3>1. /\ marks'.pending = {} /\ marks'.sent = marks.sent \cup todo /\ fix'.inject = r
      BY <1>7, <1>8, <2>3
    <3>2. marks'.wanted \subseteq marks'.sent /\ Elements(r) \subseteq marks'.sent
      BY <1>4, <1>5, <1>8, <3>1
    <3>3. \A i, j \in 1..Len(r) : r[i] = r[j] => i = j
      BY <1>5 DEF NoneTwice
    <3>4. (fix.role = "thread_tls" /\ Cardinality(FixSymbols) <= InjectCapacity) =>
             /\ venue.n = 0 \/ (venue.n = 1 /\ fix.pc \in {"store", "logon"}) => marks'.sent \subseteq Elements(r)
             /\ venue.n = 1 /\ venue.open /\ fix.pc = "read" =>
                  marks'.sent \subseteq Elements(r) \cup OnItsWay \cup venue.subs
      <4> HIDE DEF todo
      <4> QED
        BY <1>5, <2>2, <3>1
    <3> HIDE DEF todo, queue
    <3> QED
      BY <1>7, <2>1, <2>2, <3>1, <3>2, <3>3, <3>4 DEF SymbolsInv
  <2>4. CASE ~ m.logged_in
    <3>1. /\ marks'.pending = marks.pending \cup fresh /\ marks'.sent = marks.sent /\ fix'.inject = queue
          /\ ~ marks'.logged_in
      BY <1>7, <1>8, <2>4
    <3>2. marks'.wanted \subseteq marks'.pending \cup marks'.sent
      BY <1>4, <1>8, <3>1
    <3>3. \A i, j \in 1..Len(queue) : queue[i] = queue[j] => i = j
      BY <1>4 DEF NoneTwice
    <3> HIDE DEF todo, queue
    <3> QED
      BY <1>4, <1>7, <2>1, <2>2, <3>1, <3>2, <3>3 DEF SymbolsInv
  <2> QED
    BY <1>2, <2>3, <2>4
<1> QED
  BY <1>10, <1>11, <1>12, <1>13, <1>14 DEF FixInv

LEMMA GraphStep ==
  ASSUME FixInv, GraphCycle \/ NewSymbol
  PROVE  FixInv'
<1>1. FixType /\ host \in HostState /\ marks \in MarksState /\ host.given \in Seq(FixEvent)
      /\ fix.chan \in Seq(FixEvent)
  BY FixTyped DEF FixInv
<1>2. marks.wanted \in SUBSET FixSymbols /\ marks.logged_in \in BOOLEAN
  BY <1>1 DEF MarksState
<1>3. CASE GraphCycle
  <2> DEFINE any == \E i \in DOMAIN fix.chan : fix.chan[i].status = "LoggedIn"
             b == marks.logged_in \/ any
             m == [marks EXCEPT !.logged_in = b]
             g == host.given \o fix.chan
  <2>1. /\ FixThreaded /\ venue' = venue /\ host' = [host EXCEPT !.given = g]
        /\ Subscribe(m, {})
    BY <1>3 DEF GraphCycle
  <2>2. b \in BOOLEAN
    OBVIOUS
  <2>3. g \in Seq(FixEvent)
    BY <1>1, EventsJoin
  <2> HIDE DEF g, any
  <2>4. host' \in HostState /\ host'.given = g /\ host'.frags = host.frags
    BY <1>1, <2>1, <2>3 DEF HostState
  <2>5. marks.logged_in => b
    OBVIOUS
  <2> HIDE DEF b
  <2>6. /\ m \in MarksState /\ m.pending = marks.pending /\ m.sent = marks.sent
        /\ m.wanted = marks.wanted /\ m.logged_in = b
    BY <1>1, <2>2 DEF MarksState
  <2> HIDE DEF m
  <2>7. host'.given = host.given \o fix.chan /\ m.wanted \subseteq marks.wanted \cup {}
        /\ (marks.logged_in => m.logged_in)
    BY <2>4, <2>5, <2>6 DEF g
  <2> QED
    BY <2>1, <2>4, <2>6, <2>7, SubscribeStep
<1>4. CASE NewSymbol
  <2>1. PICK s \in FixSymbols \ marks.wanted : Subscribe([marks EXCEPT !.wanted = @ \cup {s}], {s})
    BY <1>4 DEF NewSymbol
  <2>2. FixThreaded /\ venue' = venue /\ host' = host /\ fix.chan = <<>>
    BY <1>4 DEF NewSymbol, FixThreaded
  <2>3. host'.given = host.given \o fix.chan
    BY <1>1, <2>2, ConcatEmptySeq
  <2> DEFINE m == [marks EXCEPT !.wanted = @ \cup {s}]
  <2>4. /\ m \in MarksState /\ m.pending = marks.pending /\ m.sent = marks.sent
        /\ m.wanted = marks.wanted \cup {s} /\ m.logged_in = marks.logged_in
    BY <1>1, <1>2 DEF MarksState
  <2>5. Subscribe(m, {s}) /\ {s} \in SUBSET FixSymbols
    BY <2>1
  <2> HIDE DEF m
  <2> QED
    BY <1>1, <2>2, <2>3, <2>4, <2>5, SubscribeStep
<1> QED
  BY <1>3, <1>4

-----------------------------------------------------------------------------
(* The counterparty. *)

LEMMA BytesAssociate ==
  ASSUME NEW a \in Seq(Fragment), NEW b \in Seq(Fragment), NEW c \in Seq(Fragment)
  PROVE  (a \o b) \o c = a \o (b \o c)
  BY ConcatAssociative

LEMMA BytesSent ==
  ASSUME FixType, NEW f \in Fragment, fix'.buf = fix.buf, venue'.in = Append(venue.in, f)
  PROVE  FixBytes' = Append(FixBytes, f)
<1>1. fix.buf \in Seq(Fragment) /\ venue.in \in Seq(Fragment) /\ FixBytes \in Seq(Fragment)
  BY FixTyped
<1> DEFINE e == <<f>>
<1>2. e \in Seq(Fragment)
  OBVIOUS
<1>3. Append(venue.in, f) = venue.in \o e /\ Append(FixBytes, f) = FixBytes \o e
  BY <1>1, AppendIsConcat
<1> HIDE DEF e
<1>4. fix.buf \o (venue.in \o e) = (fix.buf \o venue.in) \o e
  BY <1>1, <1>2, BytesAssociate
<1> QED
  BY <1>3, <1>4 DEF FixBytes

LogonFragment == [kind |-> "logon", id |-> 0, part |-> "whole"]

LEMMA PeerConnectsStep ==
  ASSUME FixInv, PeerConnects
  PROVE  FixInv'
<1>1. /\ FixType /\ fix \in NodeState /\ venue \in VenueState /\ fix.buf \in Seq(Fragment)
      /\ venue.n \in Nat /\ FixLog \in Seq(FixEvent) /\ host.frags \in Nat
  BY FixTyped DEF FixInv
<1>2. /\ fix' = fix /\ host' = host /\ marks' = marks /\ fix.role \in {"spin_acc", "thread_acc"}
      /\ fix.role = "thread_acc" => fix.pc = "connect"
  BY DEF PeerConnects, FixAcceptor, FixThreaded
<1> DEFINE none == <<>>
           f == LogonFragment
           in == <<f>>
           n == venue.n + 1
<1>3. f \in Fragment /\ in \in Seq(Fragment) /\ none \in Seq(OutMessage) /\ Len(none) = 0 /\ n \in Nat
  BY <1>1, EmptySeq DEF LogonFragment, Fragment
<1>4. venue' = [n |-> n, open |-> TRUE, in |-> in, out |-> none, half |-> 0, logged |-> FALSE,
                subs |-> {}, told |-> 0, jump |-> venue.jump]
  BY DEF PeerConnects, NoConnection, LogonFragment
<1>5. venue.jump \in BOOLEAN
  BY <1>1 DEF VenueState
<1>6. FixDataInv(FixLog, Append(fix.buf, f), host.frags)
  <2>1. FixDataInv(FixLog, fix.buf, host.frags)
    BY BytesDropped DEF FixInv
  <2>2. f.kind # "data"
    BY DEF LogonFragment
  <2> HIDE DEF f
  <2> QED
    BY <1>1, <1>3, <2>1, <2>2, DataSent
<1>7. Append(fix.buf, f) = fix.buf \o in
  BY <1>1, <1>3, AppendIsConcat
<1> HIDE DEF none, f, in, n
<1>8. /\ venue' \in VenueState /\ venue'.in = in /\ venue'.out = none /\ venue'.told = 0
      /\ venue'.jump = venue.jump /\ venue'.open
  BY <1>3, <1>4, <1>5 DEF VenueState
<1>9. FixLog' = FixLog /\ FixBytes' = fix.buf \o in /\ (FixThreaded' <=> FixThreaded)
  BY <1>2, <1>8 DEF FixLog, FixBytes, FixThreaded
<1>10. FixType'
  BY <1>1, <1>2, <1>8, <1>9 DEF FixType
<1>11. NumbersInv'
  <2>1. Len(venue'.out) = 0 /\ venue'.told = 0
    BY <1>3, <1>8
  <2> QED
    BY <1>2, <1>8, <1>9, <2>1 DEF FixInv, NumbersInv, FixThreaded
<1>12. FixDataInv(FixLog, FixBytes, host.frags)'
  BY <1>2, <1>6, <1>7, <1>9
<1>13. FixStatusInv'
  BY <1>2, <1>9 DEF FixInv, FixStatusInv
<1>14. SymbolsInv'
  BY <1>2 DEF FixInv, SymbolsInv, Injected
<1> QED
  BY <1>10, <1>11, <1>12, <1>13, <1>14 DEF FixInv

LEMMA PeerReadsStep ==
  ASSUME FixInv, PeerReads
  PROVE  FixInv'
<1>1. /\ FixType /\ fix \in NodeState /\ venue \in VenueState /\ venue.in \in Seq(Fragment)
      /\ venue.out \in Seq(OutMessage) /\ venue.told \in Nat
      /\ FixLog \in Seq(FixEvent) /\ FixBytes \in Seq(Fragment) /\ host.frags \in Nat
  BY FixTyped DEF FixInv
<1> DEFINE out == venue.out
           m == Head(out)
           rest == Tail(out)
           f == LogonFragment
           in == IF m.kind = "logon" /\ ~ FixAcceptor THEN Append(venue.in, f) ELSE venue.in
           subs == IF venue.logged /\ m.kind \in FixSymbols THEN venue.subs \cup {m.kind} ELSE venue.subs
           jump == venue.jump \/ m.seq # venue.told + 1
           logged == venue.logged \/ m.kind = "logon"
<1>2. /\ fix' = fix /\ host' = host /\ marks' = marks /\ venue.open /\ out # <<>>
      /\ venue' = [venue EXCEPT !.out = rest, !.told = m.seq, !.jump = jump, !.logged = logged,
                                !.subs = subs, !.in = in]
  BY DEF PeerReads, LogonFragment
<1>3. /\ m = out[1] /\ m \in OutMessage /\ rest \in Seq(OutMessage) /\ Len(out) \in Nat
      /\ Len(out) > 0 /\ Len(rest) = Len(out) - 1 /\ \A i \in 1..Len(rest) : rest[i] = out[i + 1]
  BY <1>1, <1>2, HeadTailProperties, EmptySeq, LenProperties
<1>4. f \in Fragment /\ in \in Seq(Fragment)
  <2>1. f \in Fragment
    BY DEF LogonFragment, Fragment
  <2> HIDE DEF f
  <2>2. Append(venue.in, f) \in Seq(Fragment)
    BY <1>1, <2>1, AppendProperties
  <2> QED
    BY <1>1, <2>1, <2>2
<1>5. m.seq \in Nat /\ m.kind \in SentKind
  BY <1>3 DEF OutMessage
<1>6. venue.jump \in BOOLEAN /\ venue.logged \in BOOLEAN /\ venue.subs \in SUBSET FixSymbols
  BY <1>1 DEF VenueState
<1>7. subs \in SUBSET FixSymbols /\ jump \in BOOLEAN /\ logged \in BOOLEAN
  BY <1>6
<1> HIDE DEF out, m, rest, in, subs, jump, logged, f
<1>8. /\ venue' \in VenueState /\ venue'.out = rest /\ venue'.told = m.seq /\ venue'.jump = jump
      /\ venue'.logged = logged /\ venue'.subs = subs /\ venue'.in = in /\ venue'.n = venue.n
      /\ venue'.open = venue.open
  BY <1>1, <1>2, <1>3, <1>4, <1>5, <1>7 DEF VenueState
<1>9. FixLog' = FixLog /\ (FixThreaded' <=> FixThreaded)
  BY <1>2 DEF FixLog, FixThreaded
<1>10. FixType'
  BY <1>1, <1>2, <1>8, <1>9 DEF FixType
<1>11. NumbersInv'
  <2> SUFFICES ASSUME fix.role # "spin_acc" PROVE NumbersInv'
    BY <1>2 DEF NumbersInv
  <2> DEFINE told == venue.told
             n == Len(rest)
  <2>1. /\ ~ venue.jump /\ \A i \in 1..Len(out) : out[i].seq = told + i
        /\ (FixThreaded => fix.pc \in {"logon", "read"}) => fix.seq = told + Len(out)
        /\ FixThreaded => fix.pc \notin {"connect", "store", "logon", "top"}
    BY <1>2, <1>3 DEF FixInv, NumbersInv, out
  <2>2. told \in Nat /\ n \in Nat /\ Len(out) = n + 1 /\ m.seq = told + 1
    BY <1>1, <1>3, <2>1
  <2>3. ~ jump
    BY <2>1, <2>2 DEF jump, told
  <2> HIDE DEF told, n
  <2>4. ASSUME NEW i \in 1..n PROVE rest[i].seq = (told + 1) + i
    <3>1. i + 1 \in 1..Len(out) /\ told + (i + 1) = (told + 1) + i
      BY <2>2
    <3>2. rest[i] = out[i + 1]
      BY <1>3 DEF n
    <3> QED
      BY <2>1, <3>1, <3>2
  <2>5. fix.seq = told + Len(out) => fix.seq = (told + 1) + n
    BY <2>2
  <2>6. venue'.told = told + 1 /\ Len(venue'.out) = n /\ venue'.out = rest /\ ~ venue'.jump
    BY <1>8, <2>2, <2>3 DEF n
  <2> QED
    BY <1>2, <1>9, <2>1, <2>4, <2>5, <2>6 DEF NumbersInv
<1>12. FixDataInv(FixLog, FixBytes, host.frags)'
  <2>1. FixDataInv(FixLog, FixBytes, host.frags)
    BY DEF FixInv
  <2>2. CASE in = venue.in
    <3>1. FixBytes' = FixBytes
      BY <1>2, <1>8, <2>2 DEF FixBytes
    <3> QED
      BY <1>2, <1>9, <2>1, <3>1
  <2>3. CASE in = Append(venue.in, f)
    <3>1. FixBytes' = Append(FixBytes, f)
      BY <1>1, <1>2, <1>4, <1>8, <2>3, BytesSent
    <3>2. f.kind # "data"
      BY DEF f, LogonFragment
    <3>3. FixDataInv(FixLog, Append(FixBytes, f), host.frags)
      BY <1>1, <1>4, <2>1, <3>2, DataSent
    <3> QED
      BY <1>2, <1>9, <3>1, <3>3
  <2> QED
    BY <2>2, <2>3 DEF in
<1>13. FixStatusInv'
  BY <1>2, <1>9 DEF FixInv, FixStatusInv
<1>14. SymbolsInv'
  <2> SUFFICES ASSUME fix.role = "thread_tls" PROVE SymbolsInv'
    BY <1>2, <1>8 DEF FixInv, SymbolsInv, Injected
  <2>1. fix.pc = "read" /\ ~ venue.logged => m.kind = "logon"
    BY <1>2, <1>3 DEF FixInv, SymbolsInv, out
  <2>2. fix.pc = "read" => logged
    BY <1>6, <2>1 DEF logged
  <2>3. m.kind \in FixSymbols => m.kind # "logon"
    BY FixAssumption
  <2>4. fix.pc = "read" /\ m.kind \in FixSymbols => m.kind \in subs
    BY <1>6, <2>1, <2>3 DEF subs
  <2>5. venue.subs \subseteq subs
    BY DEF subs
  <2>6. OnItsWay \subseteq OnItsWay' \cup {m.kind}
    <3> SUFFICES ASSUME NEW i \in 1..Len(out) PROVE out[i].kind \in OnItsWay' \cup {m.kind}
      BY DEF OnItsWay, out
    <3>1. CASE i = 1
      BY <1>3, <3>1
    <3>2. CASE i # 1
      <4>1. i - 1 \in 1..Len(rest) /\ (i - 1) + 1 = i
        BY <1>3, <3>2
      <4>2. rest[i - 1] = out[i]
        BY <1>3, <4>1
      <4> QED
        BY <1>8, <4>1, <4>2 DEF OnItsWay
    <3> QED
      BY <3>1, <3>2
  <2>7. marks.sent \subseteq FixSymbols
    BY <1>1, FixTyped DEF MarksState
  <2>8. (Cardinality(FixSymbols) <= InjectCapacity /\ venue.n = 1 /\ fix.pc = "read") =>
          marks.sent \subseteq Injected \cup OnItsWay' \cup subs
    <3>1. (Cardinality(FixSymbols) <= InjectCapacity /\ venue.n = 1 /\ fix.pc = "read") =>
            marks.sent \subseteq Injected \cup OnItsWay \cup venue.subs
      BY <1>2 DEF FixInv, SymbolsInv
    <3> QED
      BY <2>4, <2>5, <2>6, <2>7, <3>1
  <2>9. Injected' = Injected
    BY <1>2 DEF Injected
  <2> QED
    BY <1>2, <1>8, <2>2, <2>8, <2>9 DEF FixInv, SymbolsInv
<1> QED
  BY <1>10, <1>11, <1>12, <1>13, <1>14 DEF FixInv

LEMMA PeerSendsStep ==
  ASSUME FixInv, PeerSends
  PROVE  FixInv'
<1>1. /\ FixType /\ venue \in VenueState /\ host \in HostState /\ venue.in \in Seq(Fragment)
      /\ FixLog \in Seq(FixEvent) /\ FixBytes \in Seq(Fragment) /\ host.frags \in Nat
  BY FixTyped DEF FixInv
<1> DEFINE n == host.frags + 1
<1>2. n \in Nat /\ fix' = fix /\ marks' = marks /\ host' = [host EXCEPT !.frags = n]
  <2>1. n \in Nat
    BY <1>1
  <2>2. fix' = fix /\ marks' = marks /\ host' = [host EXCEPT !.frags = n]
    BY DEF PeerSends
  <2> QED
    BY <2>1, <2>2
<1>3. venue.half \in Nat
  BY <1>1 DEF VenueState
<1>4. \E f \in Fragment : \E h \in Nat :
        /\ venue' = [venue EXCEPT !.in = Append(venue.in, f), !.half = h]
        /\ f.kind = "data" => f.id = n
  <2>1. CASE venue.half = 0
    <3>1. PICK k \in FixKinds, part \in {"whole", "first"} :
            venue' = [venue EXCEPT
               !.in = Append(@, [kind |-> k, id |-> host.frags + 1, part |-> part]),
               !.half = IF part = "first" THEN host.frags + 1 ELSE 0]
      BY <2>1 DEF PeerSends
    <3> DEFINE f == [kind |-> k, id |-> n, part |-> part]
               h == IF part = "first" THEN n ELSE 0
    <3>2. f \in Fragment /\ h \in Nat /\ f.id = n
      BY <1>2 DEF Fragment
    <3>3. venue' = [venue EXCEPT !.in = Append(venue.in, f), !.half = h]
      BY <3>1
    <3> QED
      BY <3>2, <3>3
  <2>2. CASE venue.half # 0
    <3> DEFINE f == [kind |-> "rest", id |-> venue.half, part |-> "rest"]
    <3>1. f \in Fragment /\ f.kind # "data"
      BY <1>3 DEF Fragment
    <3>2. venue' = [venue EXCEPT !.in = Append(venue.in, f), !.half = 0]
      BY <2>2 DEF PeerSends
    <3> QED
      BY <3>1, <3>2
  <2> QED
    BY <2>1, <2>2
<1>5. PICK f \in Fragment : \E h \in Nat :
        /\ venue' = [venue EXCEPT !.in = Append(venue.in, f), !.half = h]
        /\ f.kind = "data" => f.id = n
  BY <1>4
<1>6. PICK h \in Nat :
        /\ venue' = [venue EXCEPT !.in = Append(venue.in, f), !.half = h]
        /\ f.kind = "data" => f.id = n
  BY <1>5
<1> DEFINE in == Append(venue.in, f)
<1>7. in \in Seq(Fragment) /\ venue' = [venue EXCEPT !.in = in, !.half = h]
  BY <1>1, <1>6, AppendProperties
<1>8. FixDataInv(FixLog, Append(FixBytes, f), n)
  <2>1. FixDataInv(FixLog, FixBytes, host.frags)
    BY DEF FixInv
  <2> QED
    BY <1>1, <1>6, <2>1, DataSent
<1> HIDE DEF in, n
<1>9. /\ venue' \in VenueState /\ venue'.in = in /\ venue'.out = venue.out /\ venue'.open = venue.open
      /\ venue'.told = venue.told /\ venue'.jump = venue.jump /\ venue'.n = venue.n
      /\ venue'.logged = venue.logged /\ venue'.subs = venue.subs
  BY <1>1, <1>7 DEF VenueState
<1>10. /\ host' \in HostState /\ host'.given = host.given /\ host'.pc = host.pc /\ host'.frags = n
  BY <1>1, <1>2 DEF HostState
<1>11. FixBytes' = Append(FixBytes, f)
  BY <1>1, <1>2, <1>9, BytesSent DEF in
<1>12. FixLog' = FixLog /\ (FixThreaded' <=> FixThreaded)
  BY <1>2, <1>10 DEF FixLog, FixThreaded
<1>13. FixType'
  BY <1>1, <1>2, <1>9, <1>10, <1>12 DEF FixType
<1>14. NumbersInv'
  BY <1>2, <1>9, <1>12 DEF FixInv, NumbersInv
<1>15. FixDataInv(FixLog, FixBytes, host.frags)'
  BY <1>8, <1>10, <1>11, <1>12
<1>16. FixStatusInv'
  BY <1>2, <1>10, <1>12 DEF FixInv, FixStatusInv
<1>17. SymbolsInv'
  BY <1>2, <1>9 DEF FixInv, SymbolsInv, Injected, OnItsWay
<1> QED
  BY <1>13, <1>14, <1>15, <1>16, <1>17 DEF FixInv

LEMMA PeerClosesStep ==
  ASSUME FixInv, PeerCloses
  PROVE  FixInv'
<1> DEFINE none == <<>>
<1>1. /\ FixType /\ venue \in VenueState /\ none \in Seq(OutMessage)
  BY FixTyped, EmptySeq DEF FixInv
<1>2. /\ fix' = fix /\ host' = host /\ marks' = marks
      /\ venue' = [venue EXCEPT !.open = FALSE, !.half = 0, !.out = none, !.logged = FALSE]
  BY DEF PeerCloses
<1> HIDE DEF none
<1>3. /\ venue' \in VenueState /\ venue'.open = FALSE /\ venue'.in = venue.in
      /\ venue'.jump = venue.jump /\ venue'.n = venue.n
  BY <1>1, <1>2 DEF VenueState
<1>4. FixLog' = FixLog /\ FixBytes' = FixBytes /\ (FixThreaded' <=> FixThreaded)
  BY <1>2, <1>3 DEF FixLog, FixBytes, FixThreaded
<1>5. FixType'
  BY <1>1, <1>2, <1>3, <1>4 DEF FixType
<1>6. NumbersInv'
  BY <1>2, <1>3, <1>4 DEF FixInv, NumbersInv
<1>7. FixDataInv(FixLog, FixBytes, host.frags)'
  BY <1>2, <1>4 DEF FixInv
<1>8. FixStatusInv'
  BY <1>2, <1>4 DEF FixInv, FixStatusInv
<1>9. SymbolsInv'
  BY <1>2, <1>3 DEF FixInv, SymbolsInv, Injected
<1> QED
  BY <1>5, <1>6, <1>7, <1>8, <1>9 DEF FixInv

-----------------------------------------------------------------------------
(* The polling nodes. *)

LEMMA NumbersSent ==
  ASSUME FixInv, ~ FixThreaded, NEW kinds \in Seq(SentKind), fix'.role = fix.role,
         venue'.out = venue.out \o Numbered(fix.seq, kinds), venue'.told = venue.told,
         venue'.jump = venue.jump, venue'.open = venue.open, fix'.seq = fix.seq + Len(kinds)
  PROVE  NumbersInv'
<1> DEFINE out == venue.out
           told == venue.told
           seq == fix.seq
           u == out \o Numbered(seq, kinds)
<1>1. out \in Seq(OutMessage) /\ told \in Nat /\ seq \in Nat
  BY FixTyped DEF FixInv
<1>2. ~ FixThreaded'
  BY DEF FixThreaded
<1>3. fix.role # "spin_acc" => ~ venue.jump /\ (venue.open => Consecutive(out, told, seq))
  BY DEF FixInv, NumbersInv, Consecutive
<1>4. venue'.out = u /\ fix'.seq = seq + Len(kinds) /\ venue'.told = told
  OBVIOUS
<1> HIDE DEF out, told, seq
<1>5. Consecutive(out, told, seq) => Consecutive(u, told, seq + Len(kinds))
  BY <1>1, NumbersContinue
<1> HIDE DEF u
<1> QED
  BY <1>2, <1>3, <1>4, <1>5 DEF NumbersInv, Consecutive

LEMMA SpinStartStep ==
  ASSUME FixInv, FixSpinStart
  PROVE  FixInv'
<1>1. /\ FixType /\ fix \in NodeState /\ host \in HostState /\ fix.buf \in Seq(Fragment)
  BY FixTyped DEF FixInv
<1>2. ~ FixThreaded /\ host.pc = "start" /\ marks' = marks
  BY DEF FixSpinStart, FixThreaded
<1>3. CASE fix' = fix /\ venue' = venue /\ \E p \in {"running", "failed"} : host' = [host EXCEPT !.pc = p]
  <2>1. PICK p \in {"running", "failed"} : host' = [host EXCEPT !.pc = p]
    BY <1>3
  <2>2. host' \in HostState /\ host'.pc = p /\ host'.given = host.given /\ host'.frags = host.frags
    BY <1>1, <2>1 DEF HostState
  <2> QED
    BY <1>1, <1>2, <1>3, <2>2, ControlStep
<1>4. CASE /\ host' = [host EXCEPT !.pc = "running"]
           /\ venue' = [NoConnection EXCEPT !.n = 1, !.open = TRUE, !.out = Numbered(0, LogonMessage)]
           /\ fix' = [fix EXCEPT !.sock = TRUE, !.seq = 1]
  <2> DEFINE none == <<>>
             out == Numbered(0, LogonMessage)
  <2>1. none \in Seq(Fragment) /\ fix.buf \o none = fix.buf
    BY BytesWithout, EmptySeq
  <2>2. out \in Seq(OutMessage) /\ Len(out) = 1 /\ out[1].seq = 1
    BY DEF Numbered, LogonMessage, OutMessage, SentKind
  <2>3. venue' = [n |-> 1, open |-> TRUE, in |-> none, out |-> out, half |-> 0, logged |-> FALSE,
                  subs |-> {}, told |-> 0, jump |-> FALSE]
    BY <1>4 DEF NoConnection
  <2> HIDE DEF none, out
  <2>4. /\ venue' \in VenueState /\ venue'.in = none /\ venue'.out = out /\ venue'.told = 0
        /\ venue'.jump = FALSE
    BY <2>1, <2>2, <2>3 DEF VenueState
  <2>5. /\ fix' \in NodeState /\ fix'.role = fix.role /\ fix'.buf = fix.buf /\ fix'.seq = 1
        /\ fix'.chan = fix.chan /\ fix'.inject = fix.inject
    BY <1>1, <1>4 DEF NodeState
  <2>6. host' \in HostState /\ host'.pc = "running" /\ host'.given = host.given /\ host'.frags = host.frags
    BY <1>1, <1>4 DEF HostState
  <2>7. FixLog' = FixLog /\ FixBytes' = fix.buf /\ (FixThreaded' <=> FixThreaded)
    BY <2>1, <2>4, <2>5, <2>6 DEF FixLog, FixBytes, FixThreaded
  <2>8. FixType'
    BY <1>1, <1>2, <2>4, <2>5, <2>6, <2>7 DEF FixType
  <2>9. NumbersInv'
    <3>1. \A i \in 1..1 : out[i].seq = 0 + i
      BY <2>2
    <3>2. /\ \A i \in 1..Len(venue'.out) : venue'.out[i].seq = venue'.told + i
          /\ fix'.seq = venue'.told + Len(venue'.out) /\ ~ venue'.jump
      <4> DEFINE told == venue'.told
                 n == Len(venue'.out)
                 seq == fix'.seq
      <4>1. told = 0 /\ n = 1 /\ seq = 1 /\ ~ venue'.jump /\ venue'.out = out
        BY <2>2, <2>4, <2>5
      <4> HIDE DEF told, n, seq
      <4>2. (\A i \in 1..n : out[i].seq = told + i) /\ seq = told + n
        BY <3>1, <4>1
      <4> QED
        BY <4>1, <4>2 DEF told, n, seq
    <3> QED
      BY <1>2, <2>7, <3>2 DEF NumbersInv
  <2>10. FixDataInv(FixLog, FixBytes, host.frags)'
    BY <2>6, <2>7, BytesDropped DEF FixInv
  <2>11. FixStatusInv'
    <3>1. Len(FixLog) = 0 /\ ToldOf(FixLog)
      BY <1>2 DEF FixInv, FixStatusInv
    <3>2. LastIn(FixLog, SessionStatus) /\ LastIn(FixLog, {"Disconnected"})
      BY <3>1 DEF LastIn
    <3> QED
      BY <1>2, <2>6, <2>7, <3>1, <3>2 DEF FixStatusInv
  <2>12. SymbolsInv'
    BY <1>2, <2>5 DEF FixInv, SymbolsInv, Injected, FixThreaded
  <2> QED
    BY <2>8, <2>9, <2>10, <2>11, <2>12 DEF FixInv
<1> QED
  BY <1>3, <1>4 DEF FixSpinStart

LEMMA SpinAcceptStep ==
  ASSUME FixInv, SpinAccept
  PROVE  FixInv'
<1> DEFINE x == Status("LoggingIn")
           e == <<x>>
           given == Append(host.given, x)
<1>1. /\ FixType /\ fix \in NodeState /\ host \in HostState /\ host.given \in Seq(FixEvent)
  BY FixTyped DEF FixInv
<1>2. /\ ~ FixThreaded /\ host.pc = "running" /\ ~ fix.sock /\ fix.role = "spin_acc"
      /\ venue' = venue /\ marks' = marks /\ fix' = [fix EXCEPT !.sock = TRUE]
      /\ host' = [host EXCEPT !.given = given]
  BY DEF SpinAccept, FixThreaded
<1>3. x \in FixEvent /\ e \in Seq(FixEvent)
  BY DEF Status, FixEvent, SessionStatus
<1> HIDE DEF x
<1>4. given = host.given \o e /\ given \in Seq(FixEvent)
  BY <1>1, <1>3, AppendIsConcat, AppendProperties
<1> HIDE DEF given
<1>5. host' \in HostState /\ host'.given = given /\ host'.pc = host.pc /\ host'.frags = host.frags
  BY <1>1, <1>2, <1>4 DEF HostState
<1>6. /\ fix' \in NodeState /\ fix'.role = fix.role /\ fix'.buf = fix.buf /\ fix'.seq = fix.seq
      /\ fix'.chan = fix.chan /\ fix'.inject = fix.inject /\ fix'.sock = TRUE
  BY <1>1, <1>2 DEF NodeState
<1>7. Joined(FixLog, e, FixLog')
  BY <1>1, <1>2, <1>3, <1>4, <1>5, <1>6, LogGiven
<1>8. LastIn(FixLog, {"Disconnected", "Error"})
  <2>1. LastIn(FixLog, {"Disconnected"})
    BY <1>2 DEF FixInv, FixStatusInv
  <2> QED
    BY <2>1 DEF LastIn
<1>9. ToldOf(FixLog') /\ LastIn(FixLog', {"LoggingIn"}) /\ FixDataInv(FixLog', FixBytes, host.frags)
  BY <1>7, <1>8, Tells DEF x
<1>10. FixBytes' = FixBytes /\ (FixThreaded' <=> FixThreaded)
  BY <1>2, <1>6 DEF FixBytes, FixThreaded
<1>11. FixType'
  BY <1>1, <1>2, <1>5, <1>6, <1>10 DEF FixType
<1>12. NumbersInv'
  BY <1>2, <1>6 DEF NumbersInv
<1>13. FixDataInv(FixLog, FixBytes, host.frags)'
  BY <1>5, <1>9, <1>10
<1>14. FixStatusInv'
  <2>1. LastIn(FixLog', SessionStatus)
    BY <1>9 DEF LastIn, SessionStatus
  <2> QED
    BY <1>2, <1>5, <1>6, <1>9, <1>10, <2>1 DEF FixStatusInv
<1>15. SymbolsInv'
  BY <1>2, <1>6 DEF FixInv, SymbolsInv, Injected
<1> QED
  BY <1>11, <1>12, <1>13, <1>14, <1>15 DEF FixInv

LEMMA UndecodedKept ==
  ASSUME FixInv
  PROVE  Undecoded(FixBytes) \in Seq(Fragment) /\ FixDataInv(FixLog, Undecoded(FixBytes), host.frags)
<1> DEFINE bytes == FixBytes
           rest == Undecoded(bytes)
<1>1. bytes \in Seq(Fragment) /\ FixDataInv(FixLog, bytes, host.frags)
  BY FixTyped DEF FixInv
<1>2. rest \in Seq(Fragment) /\ \E d \in Nat : Within(rest, bytes, d)
  BY <1>1, EventsCome
<1> HIDE DEF bytes, rest
<1>3. Len(rest) \in Nat
  BY <1>2, LenProperties
<1>4. PICK d \in Nat : Within(rest, bytes, d)
  BY <1>2
<1>5. FixDataInv(FixLog, rest, host.frags)
  BY <1>1, <1>3, <1>4, DataKept
<1> QED
  BY <1>2, <1>5 DEF bytes, rest

(* A cycle of a polling node on which `left` stays when the stream ends. *)
LEMMA SpinCycleStep ==
  ASSUME FixInv, NEW role \in {"spin_init", "spin_acc"}, NEW left \in Seq(Fragment),
         FixDataInv(FixLog, left, host.frags), SpinCycle(role, left)
  PROVE  FixInv'
<1>1. /\ FixType /\ fix \in NodeState /\ venue \in VenueState /\ host \in HostState
      /\ host.given \in Seq(FixEvent) /\ FixBytes \in Seq(Fragment) /\ fix.seq \in Nat
      /\ venue.out \in Seq(OutMessage)
  BY FixTyped DEF FixInv
<1>2. /\ ~ FixThreaded /\ fix.role = role /\ host.pc = "running" /\ fix.sock /\ marks' = marks
  BY DEF SpinCycle, FixThreaded
<1>3. /\ LastIn(FixLog, SessionStatus) /\ ToldOf(FixLog) /\ FixDataInv(FixLog, FixBytes, host.frags)
  BY <1>2 DEF FixInv, FixStatusInv
<1> DEFINE none == <<>>
           bytes == FixBytes
           answers == DrainedAnswers(bytes)
           events == DrainedEvents(bytes)
           rest == Undecoded(bytes)
<1>4. none \in Seq(Fragment) /\ left \o none = left /\ fix.buf \o none = fix.buf
  BY BytesWithout, EmptySeq, ConcatEmptySeq
<1>5. CASE /\ ~ venue.open
           /\ fix' = [fix EXCEPT !.sock = FALSE, !.buf = left]
           /\ venue' = [venue EXCEPT !.in = none]
           /\ host' = [host EXCEPT !.given = Append(@, Status("Disconnected"))]
  <2> DEFINE x == Status("Disconnected")
             e == <<x>>
             given == Append(host.given, x)
  <2>1. x \in FixEvent /\ e \in Seq(FixEvent) /\ x.status = "Disconnected"
    BY DEF Status, FixEvent, SessionStatus
  <2> HIDE DEF x
  <2>2. given = host.given \o e /\ given \in Seq(FixEvent)
    BY <1>1, <2>1, AppendIsConcat, AppendProperties
  <2>3. host' = [host EXCEPT !.given = given]
    BY <1>5 DEF x
  <2> HIDE DEF given, none
  <2>4. host' \in HostState /\ host'.given = given /\ host'.pc = host.pc /\ host'.frags = host.frags
    BY <1>1, <2>2, <2>3 DEF HostState
  <2>5. /\ fix' \in NodeState /\ fix'.role = fix.role /\ fix'.buf = left /\ fix'.seq = fix.seq
        /\ fix'.chan = fix.chan /\ fix'.inject = fix.inject /\ fix'.sock = FALSE
    BY <1>1, <1>5 DEF NodeState
  <2>6. /\ venue' \in VenueState /\ venue'.in = none /\ venue'.open = venue.open /\ venue'.jump = venue.jump
    BY <1>1, <1>4, <1>5 DEF VenueState
  <2>7. Joined(FixLog, e, FixLog')
    BY <1>1, <1>2, <2>1, <2>2, <2>4, <2>5, LogGiven
  <2>8. LastIn(FixLog, SessionStatus \cup {"Error"})
    BY <1>3 DEF LastIn
  <2>9. ToldOf(FixLog') /\ LastIn(FixLog', {"Disconnected"})
    BY <2>7, <2>8, Tells DEF x
  <2>10. FixDataInv(FixLog', left, host.frags)
    <3>1. \A i \in 1..Len(e) : e[i].status # "Data"
      BY <2>1
    <3> HIDE DEF e
    <3> QED
      BY <2>7, <3>1, DataTold
  <2>11. FixBytes' = left /\ (FixThreaded' <=> FixThreaded)
    BY <1>4, <2>5, <2>6 DEF FixBytes, FixThreaded
  <2>12. FixType'
    BY <1>1, <1>2, <2>4, <2>5, <2>6, <2>11 DEF FixType
  <2>13. NumbersInv'
    BY <1>2, <1>5, <2>5, <2>6, <2>11 DEF FixInv, NumbersInv
  <2>14. FixDataInv(FixLog, FixBytes, host.frags)'
    BY <2>4, <2>10, <2>11
  <2>15. FixStatusInv'
    BY <1>2, <2>4, <2>5, <2>9, <2>11 DEF FixStatusInv
  <2>16. SymbolsInv'
    BY <1>2, <2>5 DEF FixInv, SymbolsInv, Injected
  <2> QED
    BY <2>12, <2>13, <2>14, <2>15, <2>16 DEF FixInv
<1>6. CASE /\ fix' = [fix EXCEPT !.buf = rest, !.seq = @ + Len(answers)]
           /\ venue' = [venue EXCEPT !.in = none, !.out = @ \o Numbered(fix.seq, answers)]
           /\ host' = [host EXCEPT !.given = @ \o events]
  <2> DEFINE next == fix.seq + Len(answers)
             u == venue.out \o Numbered(fix.seq, answers)
             given == host.given \o events
  <2>1. answers \in Seq(SentKind)
    <3>1. answers \in Seq({"logon", "heartbeat"})
      BY <1>1, AnswersOf
    <3>2. none \in Seq(FixSymbols) /\ answers \o none = answers
      BY <3>1, EmptySeq, ConcatEmptySeq
    <3>3. answers \o none \in Seq(SentKind)
      BY <3>1, <3>2, KindsTyped
    <3> QED
      BY <3>2, <3>3
  <2>2. /\ events \in Seq(Drained) /\ rest \in Seq(Fragment)
        /\ \E d \in Nat : \E q : /\ d <= Len(bytes) /\ Within(rest, bytes, d) /\ Comes(events, bytes, d, q)
    BY <1>1, EventsCome
  <2> HIDE DEF answers, events, rest
  <2>3. events \in Seq(FixEvent)
    <3>1. \A i \in 1..Len(events) : events[i] \in FixEvent
      BY <2>2, ElementOfSeq DEF Drained
    <3> QED
      BY <2>2, <3>1, LenProperties
  <2>4. next \in Nat /\ u \in Seq(OutMessage) /\ given \in Seq(FixEvent)
    <3> DEFINE out == venue.out
               seq == fix.seq
    <3>1. out \in Seq(OutMessage) /\ seq \in Nat
      BY <1>1
    <3> HIDE DEF out, seq
    <3>2. out \o Numbered(seq, answers) \in Seq(OutMessage)
      BY <2>1, <3>1, NumberedAfter
    <3> QED
      BY <1>1, <2>1, <2>3, <3>2, LenProperties, EventsJoin DEF out, seq
  <2> HIDE DEF next, u, given, none
  <2>5. host' \in HostState /\ host'.given = given /\ host'.pc = host.pc /\ host'.frags = host.frags
    BY <1>1, <1>6, <2>4 DEF HostState, given
  <2>6. /\ fix' \in NodeState /\ fix'.role = fix.role /\ fix'.buf = rest /\ fix'.seq = next
        /\ fix'.chan = fix.chan /\ fix'.inject = fix.inject /\ fix'.sock = fix.sock
    <3>1. fix' = [fix EXCEPT !.buf = rest, !.seq = next]
      BY <1>6 DEF next
    <3> QED
      BY <1>1, <2>2, <2>4, <3>1 DEF NodeState
  <2>7. /\ venue' \in VenueState /\ venue'.in = none /\ venue'.out = u /\ venue'.open = venue.open
        /\ venue'.told = venue.told /\ venue'.jump = venue.jump
    <3>1. venue' = [venue EXCEPT !.in = none, !.out = u]
      BY <1>6 DEF u
    <3> QED
      BY <1>1, <1>4, <2>4, <3>1 DEF VenueState
  <2>8. Joined(FixLog, events, FixLog')
    BY <1>1, <1>2, <2>3, <2>5, <2>6, LogGiven DEF given
  <2>9. rest \o none = rest
    BY <2>2, ConcatEmptySeq DEF none
  <2>10. FixBytes' = rest /\ (FixThreaded' <=> FixThreaded)
    BY <2>6, <2>7, <2>9 DEF FixBytes, FixThreaded
  <2>11. FixDataInv(FixLog', rest, host.frags)
    <3>1. PICK d \in Nat : \E q : /\ d <= Len(bytes) /\ Within(rest, bytes, d) /\ Comes(events, bytes, d, q)
      BY <2>2
    <3>2. PICK q : Comes(events, bytes, d, q)
      BY <3>1
    <3>3. d <= Len(bytes) /\ Within(rest, bytes, d) /\ Len(rest) \in Nat /\ Len(bytes) \in Nat
      BY <1>1, <2>2, <3>1, LenProperties
    <3>4. FixDataInv(FixLog, bytes, host.frags)
      BY <1>3
    <3> QED
      BY <2>8, <3>2, <3>3, <3>4, DataDecoded
  <2>12. ToldOf(FixLog') /\ LastIn(FixLog', SessionStatus)
    BY <1>3, <2>2, <2>8, ToldDrained
  <2>13. FixType'
    BY <1>1, <1>2, <2>5, <2>6, <2>7, <2>10 DEF FixType
  <2>14. NumbersInv'
    BY <1>2, <2>1, <2>6, <2>7, NumbersSent DEF next, u
  <2>15. FixDataInv(FixLog, FixBytes, host.frags)'
    BY <2>5, <2>10, <2>11
  <2>16. FixStatusInv'
    BY <1>2, <2>5, <2>6, <2>10, <2>12 DEF FixStatusInv
  <2>17. SymbolsInv'
    BY <1>2, <2>6 DEF FixInv, SymbolsInv, Injected
  <2> QED
    BY <2>13, <2>14, <2>15, <2>16, <2>17 DEF FixInv
<1>7. CASE /\ host' = [host EXCEPT !.pc = "failed"]
           /\ fix' = [fix EXCEPT !.sock = ~ venue.open]
           /\ venue' = [venue EXCEPT !.open = FALSE, !.in = none]
  <2> HIDE DEF none
  <2>1. host' \in HostState /\ host'.given = host.given /\ host'.pc = "failed" /\ host'.frags = host.frags
    BY <1>1, <1>7 DEF HostState
  <2>2. /\ fix' \in NodeState /\ fix'.role = fix.role /\ fix'.buf = fix.buf
        /\ fix'.chan = fix.chan /\ fix'.inject = fix.inject
    BY <1>1, <1>7 DEF NodeState
  <2>3. /\ venue' \in VenueState /\ venue'.in = none /\ venue'.open = FALSE /\ venue'.jump = venue.jump
    BY <1>1, <1>4, <1>7 DEF VenueState
  <2>4. FixLog' = FixLog /\ FixBytes' = fix.buf /\ (FixThreaded' <=> FixThreaded)
    BY <1>4, <2>1, <2>2, <2>3 DEF FixLog, FixBytes, FixThreaded
  <2>5. FixType'
    BY <1>1, <1>2, <2>1, <2>2, <2>3, <2>4 DEF FixType
  <2>6. NumbersInv'
    BY <1>2, <2>2, <2>3, <2>4 DEF FixInv, NumbersInv
  <2>7. FixDataInv(FixLog, FixBytes, host.frags)'
    BY <1>3, <2>1, <2>4, BytesDropped
  <2>8. FixStatusInv'
    BY <1>2, <1>3, <2>1, <2>4 DEF FixStatusInv
  <2>9. SymbolsInv'
    BY <1>2, <2>2 DEF FixInv, SymbolsInv, Injected
  <2> QED
    BY <2>5, <2>6, <2>7, <2>8, <2>9 DEF FixInv
<1> QED
  BY <1>5, <1>6, <1>7 DEF SpinCycle, FixBytes

LEMMA SpinStep ==
  ASSUME FixInv, SpinInitiatorCycle \/ SpinAcceptorCycle
  PROVE  FixInv'
<1>1. FixBytes \in Seq(Fragment) /\ FixDataInv(FixLog, FixBytes, host.frags)
  BY FixTyped DEF FixInv
<1>2. CASE SpinInitiatorCycle
  <2>1. SpinCycle("spin_init", FixBytes)
    BY <1>2 DEF SpinInitiatorCycle, FixBytes
  <2> QED
    BY <1>1, <2>1, SpinCycleStep
<1>3. CASE SpinAcceptorCycle
  <2>1. SpinCycle("spin_acc", Undecoded(FixBytes))
    BY <1>3 DEF SpinAcceptorCycle, FixBytes
  <2> QED
    BY <1>1, <2>1, UndecodedKept, SpinCycleStep
<1> QED
  BY <1>2, <1>3

LEMMA SenderStep ==
  ASSUME FixInv, FixSenderCycle
  PROVE  FixInv'
<1>1. /\ FixType /\ fix \in NodeState /\ venue \in VenueState /\ host \in HostState
      /\ FixBytes \in Seq(Fragment) /\ fix.seq \in Nat /\ venue.out \in Seq(OutMessage)
      /\ FixDataInv(FixLog, FixBytes, host.frags)
  BY FixTyped DEF FixInv
<1>2. /\ ~ FixThreaded /\ fix.role = "sender" /\ host.pc = "running" /\ marks' = marks
  BY DEF FixSenderCycle, FixThreaded
<1> DEFINE none == <<>>
           bytes == FixBytes
           answers == DrainedAnswers(bytes)
           kinds == answers \o <<"data">>
           rest == Undecoded(bytes)
<1>3. CASE /\ fix' = [fix EXCEPT !.buf = rest, !.seq = @ + Len(kinds)]
           /\ venue' = [venue EXCEPT !.in = none, !.out = @ \o Numbered(fix.seq, kinds)]
           /\ host' = host
  <2> DEFINE next == fix.seq + Len(kinds)
             u == venue.out \o Numbered(fix.seq, kinds)
             sent == <<"data">>
  <2>1. kinds \in Seq(SentKind)
    <3>1. answers \in Seq({"logon", "heartbeat"})
      BY <1>1, AnswersOf
    <3>2. none \in Seq(FixSymbols) /\ answers \o none = answers
      BY <3>1, EmptySeq, ConcatEmptySeq
    <3>3. answers \in Seq(SentKind)
      BY <3>1, <3>2, KindsTyped
    <3>4. sent \in Seq(SentKind)
      BY DEF SentKind
    <3> HIDE DEF answers, sent
    <3>5. answers \o sent \in Seq(SentKind)
      BY <3>3, <3>4, ConcatProperties
    <3> QED
      BY <3>5 DEF sent
  <2>2. rest \in Seq(Fragment) /\ FixDataInv(FixLog, rest, host.frags)
    BY <1>1, UndecodedKept
  <2> HIDE DEF kinds, rest
  <2>3. next \in Nat /\ u \in Seq(OutMessage)
    <3> DEFINE out == venue.out
               seq == fix.seq
    <3>1. out \in Seq(OutMessage) /\ seq \in Nat
      BY <1>1
    <3> HIDE DEF out, seq
    <3>2. out \o Numbered(seq, kinds) \in Seq(OutMessage)
      BY <2>1, <3>1, NumberedAfter
    <3> QED
      BY <1>1, <2>1, <3>2, LenProperties DEF out, seq
  <2>4. none \in Seq(Fragment) /\ rest \o none = rest
    BY <2>2, EmptySeq, ConcatEmptySeq
  <2> HIDE DEF next, u, none
  <2>5. /\ fix' \in NodeState /\ fix'.role = fix.role /\ fix'.buf = rest /\ fix'.seq = next
        /\ fix'.chan = fix.chan /\ fix'.inject = fix.inject /\ fix'.sock = fix.sock
    <3>1. fix' = [fix EXCEPT !.buf = rest, !.seq = next]
      BY <1>3 DEF next
    <3> QED
      BY <1>1, <2>2, <2>3, <3>1 DEF NodeState
  <2>6. /\ venue' \in VenueState /\ venue'.in = none /\ venue'.out = u /\ venue'.open = venue.open
        /\ venue'.told = venue.told /\ venue'.jump = venue.jump
    <3>1. venue' = [venue EXCEPT !.in = none, !.out = u]
      BY <1>3 DEF u
    <3> QED
      BY <1>1, <2>3, <2>4, <3>1 DEF VenueState
  <2>7. FixLog' = FixLog /\ FixBytes' = rest /\ (FixThreaded' <=> FixThreaded)
    BY <1>3, <2>4, <2>5, <2>6 DEF FixLog, FixBytes, FixThreaded
  <2>8. FixType'
    BY <1>1, <1>2, <1>3, <2>5, <2>6, <2>7 DEF FixType
  <2>9. NumbersInv'
    BY <1>2, <2>1, <2>5, <2>6, NumbersSent DEF next, u
  <2>10. FixDataInv(FixLog, FixBytes, host.frags)'
    BY <1>3, <2>2, <2>7
  <2>11. FixStatusInv'
    BY <1>2, <1>3, <2>5, <2>7 DEF FixInv, FixStatusInv
  <2>12. SymbolsInv'
    BY <1>2, <2>5 DEF FixInv, SymbolsInv, Injected
  <2> QED
    BY <2>8, <2>9, <2>10, <2>11, <2>12 DEF FixInv
<1>4. CASE /\ host' = [host EXCEPT !.pc = "failed"] /\ fix' = [fix EXCEPT !.sock = FALSE]
           /\ venue' = venue
  <2>1. host' \in HostState /\ host'.given = host.given /\ host'.pc = "failed" /\ host'.frags = host.frags
    BY <1>1, <1>4 DEF HostState
  <2>2. /\ fix' \in NodeState /\ fix'.role = fix.role /\ fix'.buf = fix.buf /\ fix'.seq = fix.seq
        /\ fix'.chan = fix.chan /\ fix'.inject = fix.inject /\ fix'.pc = fix.pc /\ ~ fix'.sock
    BY <1>1, <1>4 DEF NodeState
  <2> QED
    BY <1>2, <1>4, <2>1, <2>2, ControlStep
<1> QED
  BY <1>3, <1>4 DEF FixSenderCycle, FixBytes

LEMMA SpinStopStep ==
  ASSUME FixInv, SpinStop
  PROVE  FixInv'
<1>1. /\ FixType /\ fix \in NodeState /\ venue \in VenueState /\ host \in HostState
      /\ fix.seq \in Nat /\ venue.out \in Seq(OutMessage) /\ fix.sock \in BOOLEAN
  BY FixTyped DEF FixInv, NodeState
<1>2. /\ ~ FixThreaded /\ marks' = marks /\ host' = [host EXCEPT !.pc = "stopped"]
  BY DEF SpinStop
<1>3. host' \in HostState /\ host'.given = host.given /\ host'.pc = "stopped" /\ host'.frags = host.frags
  BY <1>1, <1>2 DEF HostState
<1>4. CASE ~ fix.sock
  <2>1. venue' = venue /\ fix' = [fix EXCEPT !.sock = FALSE, !.seq = fix.seq]
    BY <1>4 DEF SpinStop
  <2>2. /\ fix' \in NodeState /\ fix'.role = fix.role /\ fix'.buf = fix.buf /\ fix'.seq = fix.seq
        /\ fix'.chan = fix.chan /\ fix'.inject = fix.inject /\ fix'.pc = fix.pc /\ ~ fix'.sock
    BY <1>1, <2>1 DEF NodeState
  <2> QED
    BY <1>2, <1>3, <2>1, <2>2, ControlStep
<1>5. CASE fix.sock
  <2> DEFINE kinds == LogoutMessage
             next == fix.seq + 1
             u == venue.out \o Numbered(fix.seq, kinds)
  <2>1. kinds \in Seq(SentKind) /\ Len(kinds) = 1
    BY DEF LogoutMessage, SentKind
  <2>2. venue' = [venue EXCEPT !.out = u] /\ fix' = [fix EXCEPT !.sock = FALSE, !.seq = next]
    BY <1>5 DEF SpinStop, Send
  <2> HIDE DEF kinds
  <2>3. next \in Nat /\ u \in Seq(OutMessage)
    <3> DEFINE out == venue.out
               seq == fix.seq
    <3>1. out \in Seq(OutMessage) /\ seq \in Nat
      BY <1>1
    <3> HIDE DEF out, seq
    <3>2. out \o Numbered(seq, kinds) \in Seq(OutMessage)
      BY <2>1, <3>1, NumberedAfter
    <3> QED
      BY <1>1, <3>2 DEF out, seq
  <2> HIDE DEF next, u
  <2>4. /\ fix' \in NodeState /\ fix'.role = fix.role /\ fix'.buf = fix.buf /\ fix'.seq = next
        /\ fix'.chan = fix.chan /\ fix'.inject = fix.inject /\ ~ fix'.sock
    BY <1>1, <2>2, <2>3 DEF NodeState
  <2>5. /\ venue' \in VenueState /\ venue'.out = u /\ venue'.open = venue.open /\ venue'.in = venue.in
        /\ venue'.told = venue.told /\ venue'.jump = venue.jump
    BY <1>1, <2>2, <2>3 DEF VenueState
  <2>6. FixLog' = FixLog /\ FixBytes' = FixBytes /\ (FixThreaded' <=> FixThreaded)
    BY <1>3, <2>4, <2>5 DEF FixLog, FixBytes, FixThreaded
  <2>7. FixType'
    BY <1>1, <1>2, <1>3, <2>4, <2>5, <2>6 DEF FixType
  <2>8. NumbersInv'
    BY <1>2, <2>1, <2>4, <2>5, NumbersSent DEF next, u
  <2>9. FixDataInv(FixLog, FixBytes, host.frags)'
    BY <1>3, <2>6 DEF FixInv
  <2>10. FixStatusInv'
    BY <1>2, <1>3, <2>4, <2>6 DEF FixInv, FixStatusInv
  <2>11. SymbolsInv'
    BY <1>2, <2>4 DEF FixInv, SymbolsInv, Injected, FixThreaded
  <2> QED
    BY <2>7, <2>8, <2>9, <2>10, <2>11 DEF FixInv
<1> QED
  BY <1>1, <1>4, <1>5

LEMMA FixInitInv ==
  ASSUME FixInit
  PROVE  FixInv
<1> DEFINE none == <<>>
<1>1. /\ none \in Seq(Fragment) /\ none \in Seq(OutMessage) /\ none \in Seq(FixEvent)
      /\ none \in Seq(FixSymbols) /\ Len(none) = 0 /\ none \o none = none
  BY EmptySeq, ConcatEmptySeq
<1>2. PICK factory \in FixFactories, mode \in {"AlwaysSpin", "Threaded"} :
        fix = [role |-> FixNode(factory, mode), pc |-> "top", sock |-> FALSE, buf |-> none, seq |-> 0,
               handle |-> FALSE, shut |-> FALSE, stop |-> FALSE, late |-> FALSE,
               chan |-> none, inject |-> none]
  BY DEF FixInit
<1> DEFINE role == FixNode(factory, mode)
<1>3. role \in {"spin_init", "spin_acc", "thread_init", "thread_tls", "thread_acc", "sender"}
  BY FixAssumption DEF FixNode
<1>4. /\ venue = [n |-> 0, open |-> FALSE, in |-> none, out |-> none, half |-> 0, logged |-> FALSE,
                  subs |-> {}, told |-> 0, jump |-> FALSE]
      /\ host = [pc |-> "start", given |-> none, frags |-> 0]
      /\ marks = [pending |-> {}, sent |-> {}, logged_in |-> FALSE, wanted |-> {}]
  BY DEF FixInit, NoConnection, FixSub
<1> HIDE DEF none, role
<1>5. /\ fix \in NodeState /\ fix.pc = "top" /\ fix.sock = FALSE /\ fix.buf = none /\ fix.chan = none
      /\ fix.inject = none
  BY <1>1, <1>2, <1>3 DEF NodeState, role
<1>6. /\ venue \in VenueState /\ venue.n = 0 /\ venue.open = FALSE /\ venue.in = none /\ venue.jump = FALSE
  BY <1>1, <1>4 DEF VenueState
<1>7. host \in HostState /\ host.pc = "start" /\ host.given = none
  BY <1>1, <1>4 DEF HostState
<1>8. marks \in MarksState /\ marks.wanted = {} /\ marks.sent = {} /\ marks.logged_in = FALSE
  BY <1>4 DEF MarksState
<1>9. FixLog = none /\ FixBytes = none /\ Len(FixLog) = 0 /\ Len(FixBytes) = 0
  BY <1>1, <1>5, <1>6, <1>7 DEF FixLog, FixBytes
<1>10. FixType
  BY <1>5, <1>6, <1>7, <1>8 DEF FixType, none
<1>11. NumbersInv
  BY <1>5, <1>6 DEF NumbersInv
<1>12. FixDataInv(FixLog, FixBytes, host.frags)
  BY <1>9 DEF FixDataInv
<1>13. FixStatusInv
  BY <1>5, <1>7, <1>9 DEF FixStatusInv, ToldOf, LastIn
<1>14. SymbolsInv
  <2>1. Len(fix.inject) = 0
    BY <1>1, <1>5
  <2> QED
    BY <1>5, <1>6, <1>8, <2>1 DEF SymbolsInv, Injected
<1> QED
  BY <1>10, <1>11, <1>12, <1>13, <1>14 DEF FixInv

LEMMA FixInvStep ==
  ASSUME FixInv, FixNext
  PROVE  FixInv'
<1>1. CASE FixThread
  BY <1>1, SimpleStep, ReportingStep, ThreadConnectStep, ThreadStoreStep, DropStep, ThreadLogonStep,
     ThreadReadStep DEF FixThread
<1>2. CASE FixStopping \/ ThreadSetup \/ StopFlag
  BY <1>2, SimpleStep DEF FixStopping
<1>3. CASE FixSpinStart \/ SpinAccept \/ SpinInitiatorCycle \/ SpinAcceptorCycle \/ FixSenderCycle \/ SpinStop
  BY <1>3, SpinStartStep, SpinAcceptStep, SpinStep, SenderStep, SpinStopStep
<1>4. CASE GraphCycle \/ NewSymbol \/ PeerConnects \/ PeerReads \/ PeerSends \/ PeerCloses
  BY <1>4, GraphStep, PeerConnectsStep, PeerReadsStep, PeerSendsStep, PeerClosesStep
<1> QED
  BY <1>1, <1>2, <1>3, <1>4 DEF FixNext

(* What is given to the graph is a part of what was told. *)
LEMMA FixInvHolds ==
  ASSUME FixInv
  PROVE  FixSessions
<1>1. /\ FixType /\ host.given \in Seq(FixEvent) /\ fix.chan \in Seq(FixEvent)
      /\ venue.out \in Seq(OutMessage)
  BY FixTyped DEF FixInv
<1> DEFINE given == host.given
           n == Len(given)
<1>2. n \in Nat /\ DOMAIN given = 1..n
  BY <1>1, LenProperties
<1>3. Joined(given, fix.chan, FixLog)
  BY <1>1, EventsJoin DEF FixLog
<1>4. n <= Len(FixLog) /\ \A i \in 1..n : i \in 1..Len(FixLog) /\ FixLog[i] = given[i]
  <2>1. Len(fix.chan) \in Nat /\ Len(FixLog) = n + Len(fix.chan) /\ \A i \in 1..n : FixLog[i] = given[i]
    BY <1>3 DEF Joined
  <2> HIDE DEF n
  <2> QED
    BY <1>2, <2>1
<1>5. SequenceNumbersRestart
  BY DEF FixInv, NumbersInv, SequenceNumbersRestart
<1>6. DataInOrder
  <2> SUFFICES ASSUME NEW i \in 1..n, NEW j \in 1..n, i < j, given[i].status = "Data", given[j].status = "Data"
               PROVE  given[i].id < given[j].id
    BY <1>2 DEF DataInOrder
  <2>1. /\ i \in 1..Len(FixLog) /\ j \in 1..Len(FixLog) /\ FixLog[i] = given[i] /\ FixLog[j] = given[j]
    BY <1>4
  <2> QED
    BY <2>1 DEF FixInv, FixDataInv
<1>7. SessionsTold
  <2> SUFFICES ASSUME NEW i \in 1..n, NEW j \in 1..n, Neighbours(given, i, j)
               PROVE  /\ given[i].status \in SessionStatus => given[j].status # "LoggingIn"
                      /\ given[i].status = "Disconnected" => given[j].status \in {"LoggingIn", "Error", "End"}
    BY <1>2 DEF SessionsTold, SessionStatus
  <2>1. /\ i \in 1..Len(FixLog) /\ j \in 1..Len(FixLog) /\ FixLog[i] = given[i] /\ FixLog[j] = given[j]
    BY <1>4
  <2>2. Neighbours(FixLog, i, j)
    <3>1. ASSUME NEW k \in (i + 1)..(j - 1) PROVE FixLog[k].status = "Data"
      <4>1. k \in 1..n
        BY <1>2
      <4> QED
        BY <1>4, <4>1 DEF Neighbours
    <3> QED
      BY <2>1, <3>1 DEF Neighbours
  <2>3. ToldOf(FixLog)
    BY DEF FixInv, FixStatusInv
  <2> QED
    BY <2>1, <2>2, <2>3 DEF ToldOf
<1>8. SymbolsSubscribed
  <2> SUFFICES ASSUME FixQuiet, venue.n = 1, Cardinality(FixSymbols) <= InjectCapacity
               PROVE  marks.wanted \subseteq venue.subs
    BY DEF SymbolsSubscribed
  <2>1. /\ fix.role = "thread_tls" /\ fix.pc = "read" /\ fix.inject = <<>> /\ venue.out = <<>>
        /\ venue.open /\ marks.logged_in
    BY DEF FixQuiet
  <2>2. Injected = {} /\ OnItsWay = {}
    <3>1. Len(fix.inject) = 0 /\ Len(venue.out) = 0
      BY <2>1, EmptySeq
    <3> QED
      BY <3>1 DEF Injected, OnItsWay
  <2>3. marks.sent \subseteq Injected \cup OnItsWay \cup venue.subs
    BY <2>1 DEF FixInv, SymbolsInv
  <2>4. marks.wanted \subseteq marks.sent
    BY <2>1 DEF FixInv, SymbolsInv
  <2> QED
    BY <2>2, <2>3, <2>4
<1> QED
  BY <1>5, <1>6, <1>7, <1>8 DEF FixSessions

(* The invariant of the node, its thread and its counterparty: types, the  *)
(* numbers on the way, the data told and the bytes to be decoded, the      *)
(* status stream, and where each symbol that was asked for is.             *)
THEOREM FixInvariant == Spec => []FixInv
<1>1. Init => FixInv
  BY FixInitInv DEF Init
<1>2. FixInv /\ [Next]_vars => FixInv'
  <2> SUFFICES ASSUME FixInv, [Next]_vars PROVE FixInv'
    OBVIOUS
  <2>1. CASE FixNext
    BY <2>1, FixInvStep
  <2>2. CASE UNCHANGED fixVars
    <3>1. fix' = fix /\ venue' = venue /\ host' = host /\ marks' = marks
      BY <2>2 DEF fixVars
    <3>2. fix' \in NodeState /\ host' \in HostState
      BY <3>1, FixTyped DEF FixInv
    <3> QED
      BY <3>1, <3>2, ControlStep
  <2> QED
    BY <2>1, <2>2 DEF Next, FixTurn, AeronTurn, IceTurn, vars
<1> QED
  BY <1>1, <1>2, PTL DEF Spec

(* A FIX session is one session, whichever node runs it: the numbers the   *)
(* counterparty reads restart with each connection and never jump (the     *)
(* polling acceptor keeps its session and is excepted), the graph is given *)
(* application messages in the order sent and a status stream that tells   *)
(* one session from the next, and in the first session every symbol asked  *)
(* for is subscribed once nothing is under way.                            *)
THEOREM FixSessionsStayApart == Spec => []FixSessions
<1>1. FixInv => FixSessions
  BY FixInvHolds
<1> QED
  BY <1>1, FixInvariant, PTL

=============================================================================
