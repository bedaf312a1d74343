------------------------- MODULE GraphWorkersProofs -------------------------
(***************************************************************************)
(* Proofs about a graph with a worker thread: in a replay a value from the *)
(* other thread is seen at its own time, in order and once, and a mapper   *)
(* is in lock step with its worker, for every source, every filter and     *)
(* every bound of the run.                                                 *)
(***************************************************************************)
EXTENDS GraphWorkers, SequenceTheorems, WellFoundedInduction, TLAPS

-----------------------------------------------------------------------------
(* Recursion.  What is true of 0, and of n + 1 when it is of n, is stated   *)
(* as a set of numbers.                                                     *)

(* A set of numbers that is not empty has a least one. *)
LEMMA LeastOf ==
  ASSUME NEW T \in SUBSET Nat, T # {}
  PROVE  \E x \in T : \A y \in T : x <= y
<1>1. IsWellFoundedOn(OpToRel(<, Nat), Nat)
  BY NatLessThanWellFounded
<1>2. \E x \in T : \A y \in T : ~(<<y, x>> \in OpToRel(<, Nat))
  BY <1>1, WFMin
<1>3. ASSUME NEW x \in Nat, NEW y \in Nat, ~(<<y, x>> \in OpToRel(<, Nat)) PROVE x <= y
  BY <1>3 DEF OpToRel
<1> QED
  BY <1>2, <1>3

(* Induction: a set with 0 that has with each number the next one is Nat.  *)
LEMMA Inductive ==
  ASSUME NEW P \in SUBSET Nat, 0 \in P, \A n \in P : n + 1 \in P
  PROVE  P = Nat
<1> SUFFICES ASSUME P # Nat PROVE FALSE
  OBVIOUS
<1>1. Nat \ P # {} /\ Nat \ P \in SUBSET Nat
  OBVIOUS
<1>2. PICK x \in Nat \ P : \A y \in Nat \ P : x <= y
  BY <1>1, LeastOf
<1>3. x - 1 \in Nat /\ ~(x <= x - 1)
  BY <1>2
<1>4. x - 1 \in P
  BY <1>2, <1>3
<1>5. x = (x - 1) + 1
  BY <1>2
<1> QED
  BY <1>2, <1>4, <1>5

\* g[i] is the first i sequences, joined.
Joins(g, seqs, n) == g = [i \in 1..n |-> IF i = 1 THEN seqs[i] ELSE g[i-1] \o seqs[i]]

(* FlattenSeq is the recursion it is defined by. *)
LEMMA FlattenDef ==
  ASSUME NEW seqs, Len(seqs) \in Nat \ {0}
  PROVE  \E g : Joins(g, seqs, Len(seqs)) /\ FlattenSeq(seqs) = g[Len(seqs)]
<1> DEFINE P == {n \in Nat : \E g : Joins(g, seqs, n)}
<1>1. 0 \in P
  <2>1. Joins([i \in 1..0 |-> 0], seqs, 0)
    BY DEF Joins
  <2> QED
    BY <2>1
<1>2. ASSUME NEW n \in P PROVE n + 1 \in P
  <2>1. PICK g : Joins(g, seqs, n)
    OBVIOUS
  <2> DEFINE h == [i \in 1..(n+1) |-> IF i <= n THEN g[i] ELSE IF i = 1 THEN seqs[i] ELSE g[i-1] \o seqs[i]]
  <2>2. \A i \in 1..n : g[i] = IF i = 1 THEN seqs[i] ELSE g[i-1] \o seqs[i]
    BY <2>1, Zenon DEF Joins
  <2>3. \A i \in 1..(n+1) : h[i] = IF i = 1 THEN seqs[i] ELSE h[i-1] \o seqs[i]
    <3> SUFFICES ASSUME NEW i \in 1..(n+1) PROVE h[i] = IF i = 1 THEN seqs[i] ELSE h[i-1] \o seqs[i]
      OBVIOUS
    <3>1. i # 1 => i - 1 \in 1..(n+1) /\ i - 1 <= n /\ h[i-1] = g[i-1]
      OBVIOUS
    <3>2. CASE i <= n
      <4>1. h[i] = g[i] /\ i \in 1..n
        BY <3>2
      <4> QED BY <4>1, <3>1, <2>2
    <3>3. CASE ~(i <= n)
      <4>1. h[i] = IF i = 1 THEN seqs[i] ELSE g[i-1] \o seqs[i]
        BY <3>3
      <4> HIDE DEF h
      <4> QED BY <4>1, <3>1
    <3> QED BY <3>2, <3>3
  <2>4. Joins(h, seqs, n + 1)
    <3>1. h = [i \in 1..(n+1) |-> h[i]]
      OBVIOUS
    <3> HIDE DEF h
    <3> QED BY <3>1, <2>3, Zenon DEF Joins
  <2> QED
    BY <2>4
<1>3. P = Nat
  <2> HIDE DEF P
  <2>1. P \in SUBSET Nat
    BY DEF P
  <2> QED BY <1>1, <1>2, <2>1, Inductive
<1>4. \E g : Joins(g, seqs, Len(seqs))
  BY <1>3
<1> DEFINE f == CHOOSE g : Joins(g, seqs, Len(seqs))
<1>5. Joins(f, seqs, Len(seqs))
  BY <1>4
<1>6. FlattenSeq(seqs) = f[Len(seqs)]
  BY Zenon DEF FlattenSeq, Joins
<1> QED
  BY <1>5, <1>6

(* Joining one more sequence puts it at the end. *)
LEMMA FlattenAppend ==
  ASSUME NEW S, NEW ss \in Seq(Seq(S)), NEW t \in Seq(S)
  PROVE  FlattenSeq(ss) \in Seq(S) /\ FlattenSeq(Append(ss, t)) = FlattenSeq(ss) \o t
<1> DEFINE tt == Append(ss, t)
           n == Len(ss)
<1>1. /\ n \in Nat /\ tt \in Seq(Seq(S)) /\ Len(tt) = n + 1 /\ tt[n + 1] = t
      /\ \A i \in 1..n : tt[i] = ss[i] /\ ss[i] \in Seq(S)
  BY AppendProperties
<1>2. PICK h : Joins(h, tt, n + 1) /\ FlattenSeq(tt) = h[n + 1]
  <2>1. Len(tt) \in Nat \ {0} /\ Len(tt) = n + 1
    BY <1>1
  <2> HIDE DEF tt, n
  <2>2. \E h : Joins(h, tt, Len(tt)) /\ FlattenSeq(tt) = h[Len(tt)]
    BY <2>1, FlattenDef
  <2> QED
    BY <2>1, <2>2
<1>3. \A i \in 1..(n + 1) : h[i] = IF i = 1 THEN tt[i] ELSE h[i - 1] \o tt[i]
  BY <1>2, Zenon DEF Joins
<1> HIDE DEF tt
<1>4. CASE n = 0
  <2>1. ss = <<>>
    BY <1>4, EmptySeq
  <2>2. FlattenSeq(ss) = <<>>
    BY <2>1 DEF FlattenSeq
  <2>3. FlattenSeq(tt) = t
    BY <1>1, <1>2, <1>3, <1>4
  <2> QED
    BY <2>2, <2>3, ConcatEmptySeq DEF tt
<1>5. CASE n # 0
  <2>1. PICK g : Joins(g, ss, n) /\ FlattenSeq(ss) = g[n]
    BY <1>1, <1>5, FlattenDef
  <2>2. \A i \in 1..n : g[i] = IF i = 1 THEN ss[i] ELSE g[i - 1] \o ss[i]
    BY <2>1, Zenon DEF Joins
  <2> DEFINE P == {k \in Nat : k \in 1..n => g[k] \in Seq(S) /\ h[k] = g[k]}
  <2>3. 0 \in P
    OBVIOUS
  <2>4. ASSUME NEW k \in P PROVE k + 1 \in P
    <3> SUFFICES ASSUME k + 1 \in 1..n PROVE g[k + 1] \in Seq(S) /\ h[k + 1] = g[k + 1]
      OBVIOUS
    <3>1. k + 1 \in 1..(n + 1) /\ k \in Nat /\ (k + 1) - 1 = k /\ tt[k + 1] = ss[k + 1] /\ ss[k + 1] \in Seq(S)
      BY <1>1
    <3>2. CASE k = 0
      <4>1. k + 1 = 1
        BY <3>2
      <4> QED
        BY <1>3, <2>2, <3>1, <4>1
    <3>3. CASE k # 0
      <4>1. g[k] \in Seq(S) /\ h[k] = g[k]
        BY <3>1, <3>3
      <4>2. k + 1 # 1
        BY <3>1, <3>3
      <4>3. g[k + 1] = g[k] \o ss[k + 1] /\ h[k + 1] = h[k] \o tt[k + 1]
        BY <1>3, <2>2, <3>1, <4>2
      <4> QED
        BY <3>1, <4>1, <4>3, ConcatProperties
    <3> QED
      BY <3>2, <3>3
  <2>5. P = Nat
    <3> HIDE DEF P
    <3>1. P \in SUBSET Nat
      BY DEF P
    <3> QED
      BY <2>3, <2>4, <3>1, Inductive
  <2>6. g[n] \in Seq(S) /\ h[n] = g[n]
    <3>1. n \in P /\ n \in 1..n
      BY <1>1, <1>5, <2>5
    <3> QED
      BY <3>1
  <2>7. h[n + 1] = h[n] \o t
    <3>1. n + 1 \in 1..(n + 1) /\ n + 1 # 1 /\ (n + 1) - 1 = n
      BY <1>1, <1>5
    <3> QED
      BY <1>1, <1>3, <3>1
  <2> QED
    BY <1>2, <2>1, <2>6, <2>7 DEF tt
<1> QED
  BY <1>4, <1>5

(* Joining no, one and two sequences. *)
LEMMA FlattenFew ==
  ASSUME NEW S, NEW s \in Seq(S), NEW t \in Seq(S)
  PROVE  FlattenSeq(<<>>) = <<>> /\ FlattenSeq(<<s>>) = s /\ FlattenSeq(<<s, t>>) = s \o t
<1>1. FlattenSeq(<<>>) = <<>>
  BY DEF FlattenSeq
<1>2. <<>> \in Seq(Seq(S)) /\ <<s>> \in Seq(Seq(S)) /\ Append(<<>>, s) = <<s>> /\ Append(<<s>>, t) = <<s, t>>
  <2> DEFINE D == Seq(S)
  <2>1. s \in D /\ t \in D
    OBVIOUS
  <2> HIDE DEF D
  <2>2. <<>> \in Seq(D) /\ <<s>> \in Seq(D)
    BY <2>1
  <2>3. Append(<<>>, s) = <<s>>
    OBVIOUS
  <2>4. Append(<<s>>, t) = <<s, t>>
    <3>1. <<s>> \in Seq(D) /\ <<s, t>> \in Seq(D) /\ Len(<<s>>) = 1 /\ Len(<<s, t>>) = 2
      BY <2>1
    <3>2. /\ Append(<<s>>, t) \in Seq(D) /\ Len(Append(<<s>>, t)) = 2
          /\ Append(<<s>>, t)[1] = s /\ Append(<<s>>, t)[2] = t
      BY <2>1, <3>1, AppendProperties
    <3>3. \A i \in 1..2 : Append(<<s>>, t)[i] = <<s, t>>[i]
      BY <3>2
    <3> QED
      BY <3>1, <3>2, <3>3, SeqEqual
  <2> QED
    BY <2>2, <2>3, <2>4 DEF D
<1>3. FlattenSeq(Append(<<>>, s)) = FlattenSeq(<<>>) \o s
  BY <1>2, FlattenAppend
<1>4. FlattenSeq(<<s>>) = s
  BY <1>1, <1>2, <1>3, ConcatEmptySeq
<1>5. FlattenSeq(Append(<<s>>, t)) = FlattenSeq(<<s>>) \o t
  BY <1>2, FlattenAppend
<1> QED
  BY <1>1, <1>2, <1>4, <1>5

-----------------------------------------------------------------------------
(* Values in sequences of messages *)

\* The values of a sequence of messages.
Elements(s) == {s[i] : i \in DOMAIN s}
ValuesOf(ms) == UNION {Elements(ms[i].value) : i \in DOMAIN ms}
Rising(s) == \A i, j \in DOMAIN s : i < j => s[i] < s[j]
Ordered(ms) ==
  /\ \A i \in DOMAIN ms : Rising(ms[i].value)
  /\ \A i, j \in DOMAIN ms : i < j => \A a \in DOMAIN ms[i].value, b \in DOMAIN ms[j].value : ms[i].value[a] < ms[j].value[b]

(* The elements of a sequence, by position. *)
LEMMA InElements ==
  ASSUME NEW s, NEW v
  PROVE  v \in Elements(s) <=> \E i \in DOMAIN s : v = s[i]
BY DEF Elements

(* The values of a sequence of messages, by position. *)
LEMMA InValues ==
  ASSUME NEW ms, NEW v
  PROVE  v \in ValuesOf(ms) <=> \E i \in DOMAIN ms : v \in Elements(ms[i].value)
BY DEF ValuesOf

(* Empty sequences hold nothing. *)
LEMMA NoValues == Elements(<<>>) = {} /\ ValuesOf(<<>>) = {}
BY DEF Elements, ValuesOf

(* A sequence of one value. *)
LEMMA OneValue == \A v : Elements(<<v>>) = {v}
BY DEF Elements

(* Sequences that follow each other. *)
LEMMA ElementsConcat ==
  ASSUME NEW S, NEW s \in Seq(S), NEW t \in Seq(S)
  PROVE  s \o t \in Seq(S) /\ Elements(s \o t) = Elements(s) \cup Elements(t)
<1>1. s \o t \in Seq(S) /\ Len(s \o t) = Len(s) + Len(t) /\ Len(s) \in Nat /\ Len(t) \in Nat
  BY ConcatProperties
<1>2. \A i \in 1..(Len(s) + Len(t)) : (s \o t)[i] = IF i <= Len(s) THEN s[i] ELSE t[i - Len(s)]
  BY ConcatProperties
<1>3. DOMAIN (s \o t) = 1..(Len(s) + Len(t)) /\ DOMAIN s = 1..Len(s) /\ DOMAIN t = 1..Len(t)
  BY <1>1
<1> DEFINE m == Len(s)
           n == Len(t)
           u == s \o t
<1> HIDE DEF m, n, u
<1>4. ASSUME NEW v \in Elements(u) PROVE v \in Elements(s) \cup Elements(t)
  <2>1. PICK i \in 1..(m + n) : v = u[i]
    BY <1>3, <1>4, InElements DEF m, n, u
  <2>2. i <= m => i \in DOMAIN s /\ v = s[i]
    BY <1>1, <1>2, <1>3, <2>1 DEF m, n, u
  <2>3. i > m => i - m \in DOMAIN t /\ v = t[i - m]
    BY <1>1, <1>2, <1>3, <2>1 DEF m, n, u
  <2>4. i <= m \/ i > m
    BY <1>1, <2>1 DEF m, n
  <2> QED
    BY <2>2, <2>3, <2>4, InElements
<1>5. ASSUME NEW v \in Elements(s) PROVE v \in Elements(u)
  <2>1. PICK i \in 1..m : v = s[i]
    BY <1>3, <1>5, InElements DEF m
  <2>2. i \in DOMAIN u /\ v = u[i]
    BY <1>1, <1>2, <1>3, <2>1 DEF m, n, u
  <2> QED
    BY <2>2, InElements
<1>6. ASSUME NEW v \in Elements(t) PROVE v \in Elements(u)
  <2>1. PICK i \in 1..n : v = t[i]
    BY <1>3, <1>6, InElements DEF n
  <2>2. m + i \in DOMAIN u /\ v = u[m + i]
    BY <1>1, <1>2, <1>3, <2>1 DEF m, n, u
  <2> QED
    BY <2>2, InElements
<1> QED
  BY <1>1, <1>4, <1>5, <1>6 DEF u

(* Two rising sequences, the first below the second, rise together. *)
LEMMA RisingConcat ==
  ASSUME NEW s \in Seq(Nat), NEW t \in Seq(Nat), Rising(s), Rising(t),
         \A a \in Elements(s), b \in Elements(t) : a < b
  PROVE  Rising(s \o t)
<1>1. Len(s \o t) = Len(s) + Len(t) /\ Len(s) \in Nat /\ Len(t) \in Nat
  BY ConcatProperties
<1>2. \A i \in 1..(Len(s) + Len(t)) : (s \o t)[i] = IF i <= Len(s) THEN s[i] ELSE t[i - Len(s)]
  BY ConcatProperties
<1>3. DOMAIN (s \o t) = 1..(Len(s) + Len(t)) /\ DOMAIN s = 1..Len(s) /\ DOMAIN t = 1..Len(t)
  BY <1>1, ConcatProperties
<1>4. \A i \in DOMAIN s, j \in DOMAIN t : s[i] < t[j]
  BY InElements
<1> DEFINE m == Len(s)
           n == Len(t)
           u == s \o t
<1> HIDE DEF m, n, u
<1>5. SUFFICES ASSUME NEW i \in 1..(m + n), NEW j \in 1..(m + n), i < j PROVE u[i] < u[j]
  BY <1>3 DEF Rising, m, n, u
<1>6. CASE j <= m
  <2>1. i \in DOMAIN s /\ j \in DOMAIN s /\ u[i] = s[i] /\ u[j] = s[j]
    BY <1>1, <1>2, <1>3, <1>5, <1>6 DEF m, n, u
  <2> QED
    BY <1>5, <2>1 DEF Rising
<1>7. CASE i > m
  <2>1. i - m \in DOMAIN t /\ j - m \in DOMAIN t /\ u[i] = t[i - m] /\ u[j] = t[j - m] /\ i - m < j - m
    BY <1>1, <1>2, <1>3, <1>5, <1>7 DEF m, n, u
  <2> QED
    BY <2>1 DEF Rising
<1>8. CASE i <= m /\ j > m
  <2>1. i \in DOMAIN s /\ j - m \in DOMAIN t /\ u[i] = s[i] /\ u[j] = t[j - m]
    BY <1>1, <1>2, <1>3, <1>5, <1>8 DEF m, n, u
  <2> QED
    BY <1>4, <2>1
<1> QED
  BY <1>1, <1>5, <1>6, <1>7, <1>8 DEF m, n

(* Messages are ordered when each rises and lies before the next ones. *)
LEMMA OrderedDef ==
  ASSUME NEW ms
  PROVE  Ordered(ms) <=>
           /\ \A i \in DOMAIN ms : Rising(ms[i].value)
           /\ \A i, j \in DOMAIN ms : i < j =>
                \A a \in Elements(ms[i].value), b \in Elements(ms[j].value) : a < b
<1>1. \A s, t : (\A a \in DOMAIN s, b \in DOMAIN t : s[a] < t[b])
                <=> (\A a \in Elements(s), b \in Elements(t) : a < b)
  BY InElements
<1> QED
  BY <1>1, Zenon DEF Ordered

(* A message that is pushed to a channel adds its values, at the end of    *)
(* the order.                                                              *)
LEMMA AppendValues ==
  ASSUME NEW ms \in Seq(Message), NEW m \in Message
  PROVE  /\ ValuesOf(Append(ms, m)) = ValuesOf(ms) \cup Elements(m.value)
         /\ (/\ Ordered(ms) /\ Rising(m.value)
             /\ \A a \in ValuesOf(ms), b \in Elements(m.value) : a < b) => Ordered(Append(ms, m))
<1> DEFINE n == Len(ms)
           u == Append(ms, m)
<1>1. /\ n \in Nat /\ DOMAIN ms = 1..n /\ DOMAIN u = 1..(n + 1)
      /\ u[n + 1] = m /\ \A i \in 1..n : u[i] = ms[i]
  BY AppendProperties
<1> HIDE DEF n, u
<1>2. ValuesOf(u) = ValuesOf(ms) \cup Elements(m.value)
  <2>1. ASSUME NEW v PROVE v \in ValuesOf(u) <=> v \in ValuesOf(ms) \/ v \in Elements(m.value)
    <3>1. (\E i \in 1..(n + 1) : v \in Elements(u[i].value))
            <=> (\E i \in 1..n : v \in Elements(u[i].value)) \/ v \in Elements(u[n + 1].value)
      BY <1>1
    <3> QED
      BY <1>1, <3>1, InValues
  <2> QED
    BY <2>1
<1>3. ASSUME Ordered(ms), Rising(m.value), \A a \in ValuesOf(ms), b \in Elements(m.value) : a < b
      PROVE  Ordered(u)
  <2>1. \A i \in DOMAIN u : Rising(u[i].value)
    BY <1>1, <1>3, OrderedDef
  <2>2. ASSUME NEW i \in DOMAIN u, NEW j \in DOMAIN u, i < j,
               NEW a \in Elements(u[i].value), NEW b \in Elements(u[j].value)
        PROVE  a < b
    <3>1. i \in 1..n /\ u[i] = ms[i] /\ a \in ValuesOf(ms)
      BY <1>1, <2>2, InValues
    <3>2. CASE j = n + 1
      BY <1>1, <1>3, <2>2, <3>1, <3>2
    <3>3. CASE j # n + 1
      <4>1. j \in 1..n /\ u[j] = ms[j]
        BY <1>1, <2>2, <3>3
      <4> QED
        BY <1>1, <1>3, <2>2, <3>1, <4>1, OrderedDef
    <3> QED
      BY <3>2, <3>3
  <2> QED
    BY <2>1, <2>2, OrderedDef
<1> QED
  BY <1>2, <1>3 DEF u

(* A message that is taken from a channel takes its values, the first ones *)
(* of the order.                                                           *)
LEMMA TailValues ==
  ASSUME NEW ms \in Seq(Message), ms # <<>>
  PROVE  /\ Head(ms) \in Message /\ Tail(ms) \in Seq(Message) /\ Head(ms) = ms[1]
         /\ 1 \in DOMAIN ms
         /\ ValuesOf(ms) = Elements(Head(ms).value) \cup ValuesOf(Tail(ms))
         /\ \A i \in DOMAIN Tail(ms) : i + 1 \in DOMAIN ms /\ Tail(ms)[i] = ms[i + 1]
         /\ Len(Tail(ms)) = Len(ms) - 1
         /\ Ordered(ms) => /\ Ordered(Tail(ms)) /\ Rising(Head(ms).value)
                           /\ \A a \in Elements(Head(ms).value), b \in ValuesOf(Tail(ms)) : a < b
<1> DEFINE n == Len(ms)
           u == Tail(ms)
           h == Head(ms)
<1>1. /\ n \in Nat /\ n # 0 /\ DOMAIN ms = 1..n /\ DOMAIN u = 1..(n - 1) /\ Len(u) = n - 1
      /\ h = ms[1] /\ h \in Message /\ u \in Seq(Message)
      /\ \A i \in 1..(n - 1) : u[i] = ms[i + 1]
  BY HeadTailProperties, EmptySeq
<1> HIDE DEF n, u, h
<1>2. \A i \in 1..n : i = 1 \/ (i - 1 \in 1..(n - 1) /\ ms[i] = u[i - 1])
  BY <1>1
<1>3. \A i \in 1..(n - 1) : i + 1 \in 1..n /\ 1 < i + 1
  BY <1>1
<1>4. ASSUME NEW v PROVE v \in ValuesOf(ms) <=> v \in Elements(h.value) \/ v \in ValuesOf(u)
  <2>1. 1 \in 1..n
    BY <1>1
  <2>2. ASSUME v \in ValuesOf(ms) PROVE v \in Elements(h.value) \/ v \in ValuesOf(u)
    <3>1. PICK i \in 1..n : v \in Elements(ms[i].value)
      BY <1>1, <2>2, InValues
    <3> QED
      BY <1>1, <1>2, <3>1, InValues
  <2>3. ASSUME v \in ValuesOf(u) PROVE v \in ValuesOf(ms)
    <3>1. PICK i \in 1..(n - 1) : v \in Elements(u[i].value)
      BY <1>1, <2>3, InValues
    <3> QED
      BY <1>1, <1>3, <3>1, InValues
  <2>4. v \in Elements(h.value) => v \in ValuesOf(ms)
    BY <1>1, <2>1, InValues
  <2> QED
    BY <2>2, <2>3, <2>4
<1>5. ASSUME Ordered(ms)
      PROVE  /\ Ordered(u) /\ Rising(h.value)
             /\ \A a \in Elements(h.value), b \in ValuesOf(u) : a < b
  <2>1. \A i, j \in 1..(n - 1) : i < j => i + 1 < j + 1
    BY <1>1
  <2>2. /\ \A i \in DOMAIN u : Rising(u[i].value)
        /\ \A i, j \in DOMAIN u : i < j => \A a \in Elements(u[i].value), b \in Elements(u[j].value) : a < b
    BY <1>1, <1>3, <1>5, <2>1, OrderedDef
  <2>3. 1 \in 1..n
    BY <1>1
  <2>4. \A a \in Elements(h.value), b \in ValuesOf(u) : a < b
    <3> SUFFICES ASSUME NEW a \in Elements(h.value), NEW b \in ValuesOf(u) PROVE a < b
      OBVIOUS
    <3>1. PICK i \in 1..(n - 1) : b \in Elements(u[i].value)
      BY <1>1, InValues
    <3>2. i + 1 \in DOMAIN ms /\ 1 < i + 1 /\ u[i] = ms[i + 1] /\ 1 \in DOMAIN ms
      BY <1>1, <1>3, <2>3, <3>1
    <3> QED
      BY <1>1, <1>5, <3>1, <3>2, OrderedDef
  <2> QED
    BY <1>1, <1>5, <2>2, <2>3, <2>4, OrderedDef
<1>6. 1 \in 1..n /\ 1 \in DOMAIN ms
  BY <1>1
<1> QED
  BY <1>1, <1>3, <1>4, <1>5, <1>6 DEF u, h, n

-----------------------------------------------------------------------------
(* What a burst and a filter are *)

\* What the function of a mapper leaves of a burst.
Pick(s) == FlattenSeq([k \in DOMAIN s |-> IF s[k] \in Filtered THEN <<>> ELSE <<s[k]>>])

(* The function drops the values of Filtered and keeps the order. *)
LEMMA PickFilters ==
  ASSUME NEW s \in Seq(Nat), Rising(s)
  PROVE  Pick(s) \in Seq(Nat) /\ Rising(Pick(s)) /\ Elements(Pick(s)) = Elements(s) \ Filtered
<1> DEFINE f(k) == IF s[k] \in Filtered THEN <<>> ELSE <<s[k]>>
           pre(n) == [k \in 1..n |-> f(k)]
           upto(n) == {s[k] : k \in 1..n}
           Q(n) == /\ FlattenSeq(pre(n)) \in Seq(Nat) /\ Rising(FlattenSeq(pre(n)))
                   /\ Elements(FlattenSeq(pre(n))) = upto(n) \ Filtered
           P == {n \in Nat : n <= Len(s) => Q(n)}
<1>1. Len(s) \in Nat /\ DOMAIN s = 1..Len(s) /\ \A k \in 1..Len(s) : s[k] \in Nat
  OBVIOUS
<1>2. \A k \in 1..Len(s) : /\ f(k) \in Seq(Nat) /\ Elements(f(k)) = {s[k]} \ Filtered
                           /\ Rising(f(k))
  <2> SUFFICES ASSUME NEW k \in 1..Len(s)
               PROVE  f(k) \in Seq(Nat) /\ Elements(f(k)) = {s[k]} \ Filtered /\ Rising(f(k))
    OBVIOUS
  <2>1. Rising(<<>>) /\ \A v : Rising(<<v>>)
    BY DEF Rising
  <2>2. CASE s[k] \in Filtered
    BY <2>1, <2>2, NoValues
  <2>3. CASE s[k] \notin Filtered
    BY <1>1, <2>1, <2>3, OneValue
  <2> QED
    BY <2>2, <2>3
<1>3. \A n \in Nat : n <= Len(s) => pre(n) \in Seq(Seq(Nat)) /\ Len(pre(n)) = n
  <2> SUFFICES ASSUME NEW n \in Nat, n <= Len(s) PROVE pre(n) \in Seq(Seq(Nat)) /\ Len(pre(n)) = n
    OBVIOUS
  <2>1. \A k \in 1..n : f(k) \in Seq(Nat)
    BY <1>1, <1>2
  <2> DEFINE D == Seq(Nat)
  <2> HIDE DEF f, D
  <2>2. \A k \in 1..n : f(k) \in D
    BY <2>1 DEF D
  <2>3. pre(n) \in Seq(D)
    BY <2>2, IsASeq
  <2>4. DOMAIN pre(n) = 1..n
    OBVIOUS
  <2> HIDE DEF pre
  <2> QED
    BY <2>3, <2>4, LenProperties DEF D
<1>4. 0 \in P
  <2>1. pre(0) = <<>> /\ upto(0) = {}
    OBVIOUS
  <2>2. FlattenSeq(<<>>) = <<>>
    BY DEF FlattenSeq
  <2>3. Rising(<<>>) /\ <<>> \in Seq(Nat)
    BY DEF Rising
  <2> HIDE DEF pre, upto
  <2> QED
    BY <2>1, <2>2, <2>3, NoValues
<1>5. ASSUME NEW n \in P PROVE n + 1 \in P
  <2>0. n \in Nat /\ n + 1 \in Nat /\ (n <= Len(s) => Q(n))
    <3> HIDE DEF Q
    <3> QED OBVIOUS
  <2> SUFFICES ASSUME n + 1 <= Len(s) PROVE Q(n + 1)
    <3> HIDE DEF Q
    <3> QED BY <2>0
  <2>1. n \in Nat /\ n <= Len(s) /\ n + 1 \in 1..Len(s)
    <3> HIDE DEF Q, P
    <3> QED BY <1>1, <2>0
  <2>2. /\ FlattenSeq(pre(n)) \in Seq(Nat) /\ Rising(FlattenSeq(pre(n)))
        /\ Elements(FlattenSeq(pre(n))) = upto(n) \ Filtered
    BY <2>0, <2>1
  <2>3. pre(n) \in Seq(Seq(Nat)) /\ Len(pre(n)) = n /\ pre(n + 1) \in Seq(Seq(Nat)) /\ Len(pre(n + 1)) = n + 1
    <3> HIDE DEF pre
    <3> QED
      BY <1>3, <2>1
  <2>4. f(n + 1) \in Seq(Nat) /\ Elements(f(n + 1)) = {s[n + 1]} \ Filtered /\ Rising(f(n + 1))
    BY <1>2, <2>1
  <2>5. upto(n + 1) = upto(n) \cup {s[n + 1]} /\ \A v \in upto(n) : v < s[n + 1]
    <3>1. \A k \in 1..n : k \in DOMAIN s /\ k < n + 1 /\ n + 1 \in DOMAIN s
      BY <1>1, <2>1
    <3>2. \A v \in upto(n) : v < s[n + 1]
      BY <3>1 DEF Rising
    <3>3. \A k : k \in 1..(n + 1) <=> k \in 1..n \/ k = n + 1
      BY <2>1
    <3>4. upto(n + 1) = upto(n) \cup {s[n + 1]}
      BY <3>3
    <3> QED
      BY <3>2, <3>4
  <2>6. pre(n + 1) = Append(pre(n), f(n + 1))
    <3>1. \A k \in 1..n : pre(n)[k] = f(k) /\ pre(n + 1)[k] = f(k)
      BY <2>1
    <3>2. pre(n + 1)[n + 1] = f(n + 1)
      BY <2>1
    <3> HIDE DEF f, pre
    <3>3. /\ Append(pre(n), f(n + 1)) \in Seq(Seq(Nat)) /\ Len(Append(pre(n), f(n + 1))) = n + 1
          /\ \A k \in 1..n : Append(pre(n), f(n + 1))[k] = pre(n)[k]
          /\ Append(pre(n), f(n + 1))[n + 1] = f(n + 1)
      BY <2>1, <2>3, <2>4, AppendProperties
    <3>4. \A k \in 1..(n + 1) : pre(n + 1)[k] = Append(pre(n), f(n + 1))[k]
      BY <2>1, <3>1, <3>2, <3>3
    <3> QED
      BY <2>3, <3>3, <3>4, SeqEqual
  <2> HIDE DEF f, pre, upto
  <2>7. FlattenSeq(pre(n + 1)) = FlattenSeq(pre(n)) \o f(n + 1)
    BY <2>3, <2>4, <2>6, FlattenAppend
  <2>8. \A a \in Elements(FlattenSeq(pre(n))), b \in Elements(f(n + 1)) : a < b
    BY <2>2, <2>4, <2>5
  <2>9. /\ FlattenSeq(pre(n)) \o f(n + 1) \in Seq(Nat)
        /\ Elements(FlattenSeq(pre(n)) \o f(n + 1)) = Elements(FlattenSeq(pre(n))) \cup Elements(f(n + 1))
    BY <2>2, <2>4, ElementsConcat
  <2>10. Rising(FlattenSeq(pre(n)) \o f(n + 1))
    BY <2>2, <2>4, <2>8, RisingConcat
  <2> QED
    BY <2>2, <2>4, <2>5, <2>7, <2>9, <2>10
<1>6. P = Nat
  <2> HIDE DEF P
  <2>1. P \in SUBSET Nat
    BY DEF P
  <2> QED
    BY <1>4, <1>5, <2>1, Inductive
<1>7. Len(s) \in P
  BY <1>1, <1>6
<1>8. Pick(s) = FlattenSeq(pre(Len(s)))
  BY <1>1 DEF Pick
<1>9. Elements(s) = upto(Len(s))
  BY <1>1 DEF Elements
<1>10. Q(Len(s))
  <2> HIDE DEF Q
  <2> QED BY <1>1, <1>7
<1> HIDE DEF pre, upto
<1> QED
  BY <1>8, <1>9, <1>10

(* The bursts of a queue that is empty, or has one or two messages. *)
LEMMA BurstOfNone ==
  ASSUME NEW r, NEW t, r.values \in Seq(Nat), r.queue = <<>>
  PROVE  Burst(r, t) = r.values /\ Waiting(r, t) = <<>>
<1>1. FlattenSeq(<<>>) = <<>>
  BY DEF FlattenSeq
<1>2. /\ [k \in DOMAIN r.queue |-> IF Due(r.queue[k], t) THEN r.queue[k].value ELSE <<>>] = <<>>
      /\ [k \in DOMAIN r.queue |-> IF Due(r.queue[k], t) THEN <<>> ELSE <<r.queue[k]>>] = <<>>
  OBVIOUS
<1>3. r.values \o <<>> = r.values
  BY ConcatEmptySeq
<1> QED
  BY <1>1, <1>2, <1>3, Zenon DEF Burst, Waiting

(* The burst from a queue of one message. *)
LEMMA BurstOfOne ==
  ASSUME NEW r, NEW t, NEW m \in Message, r.values = <<>>, r.queue = <<m>>
  PROVE  IF Due(m, t) THEN Burst(r, t) = m.value /\ Waiting(r, t) = <<>>
         ELSE Burst(r, t) = <<>> /\ Waiting(r, t) = <<m>>
<1> DEFINE b == IF Due(m, t) THEN m.value ELSE <<>>
           w == IF Due(m, t) THEN <<>> ELSE <<m>>
<1>1. b \in Seq(Nat) /\ w \in Seq(Message)
  <2>1. m.value \in Seq(Nat)
    BY DEF Message
  <2>2. <<m>> \in Seq(Message) /\ <<>> \in Seq(Message) /\ <<>> \in Seq(Nat)
    OBVIOUS
  <2> QED
    BY <2>1, <2>2
<1>2. FlattenSeq(<<b>>) = b /\ FlattenSeq(<<w>>) = w
  <2> HIDE DEF b, w
  <2> QED BY <1>1, FlattenFew
<1>3. /\ [k \in DOMAIN r.queue |-> IF Due(r.queue[k], t) THEN r.queue[k].value ELSE <<>>] = <<b>>
      /\ [k \in DOMAIN r.queue |-> IF Due(r.queue[k], t) THEN <<>> ELSE <<r.queue[k]>>] = <<w>>
  OBVIOUS
<1> HIDE DEF b, w
<1>4. <<>> \o b = b
  BY <1>1, ConcatEmptySeq
<1>5. Burst(r, t) = b /\ Waiting(r, t) = w
  BY <1>2, <1>3, <1>4, Zenon DEF Burst, Waiting
<1> QED
  BY <1>5 DEF b, w

(* The burst from a queue of a message that is due and one that is not. *)
LEMMA BurstOfTwo ==
  ASSUME NEW r, NEW t, NEW m \in Message, NEW n \in Message, r.values = <<>>, r.queue = <<m, n>>,
         Due(m, t), ~ Due(n, t)
  PROVE  Burst(r, t) = m.value /\ Waiting(r, t) = <<n>>
<1>1. m.value \in Seq(Nat) /\ <<n>> \in Seq(Message)
  BY DEF Message
<1>2. FlattenSeq(<<m.value, <<>>>>) = m.value /\ FlattenSeq(<< <<>>, <<n>> >>) = <<n>>
  <2>1. <<>> \in Seq(Nat) /\ <<>> \in Seq(Message)
    OBVIOUS
  <2>2. FlattenSeq(<<m.value, <<>>>>) = m.value \o <<>> /\ FlattenSeq(<< <<>>, <<n>> >>) = <<>> \o <<n>>
    BY <1>1, <2>1, FlattenFew
  <2> QED BY <1>1, <2>2, ConcatEmptySeq
<1>3. /\ [k \in DOMAIN r.queue |-> IF Due(r.queue[k], t) THEN r.queue[k].value ELSE <<>>] = <<m.value, <<>>>>
      /\ [k \in DOMAIN r.queue |-> IF Due(r.queue[k], t) THEN <<>> ELSE <<r.queue[k]>>] = << <<>>, <<n>> >>
  OBVIOUS
<1>4. <<>> \o m.value = m.value
  BY <1>1, ConcatEmptySeq
<1> QED
  BY <1>2, <1>3, <1>4, Zenon DEF Burst, Waiting

-----------------------------------------------------------------------------
(* The invariant *)

Pcs == {"none", "setup", "await", "top", "notify", "receive", "deliver", "stop", "end", "close",
        "teardown", "release", "disconnect", "join", "done", "failed"}
Errors == {"none", "node", "refused", "closed", "timeout", "setup"}

IsEngine(e) ==
  /\ DOMAIN e = {"time", "cycles", "first", "last", "callbacks", "error"}
  /\ e.time \in Nat /\ e.cycles \in Nat /\ e.callbacks \subseteq Nat /\ e.error \in Errors

IsRecv(r) ==
  /\ DOMAIN r = {"finished", "message_time", "queue", "values"}
  /\ r.message_time \in Nat \cup {NoTime} /\ r.queue \in Seq(Message) /\ r.values \in Seq(Nat)

(* The types of the state. *)
TypeInv ==
  /\ kind \in {"producer", "mapper"} /\ mode \in {"RealTime", "HistoricalFrom"}
  /\ source \in 0..Len(SourceTimes)
  /\ engine = [g \in Thread |-> engine[g]] /\ \A g \in Thread : IsEngine(engine[g])
  /\ recv = [g \in Thread |-> recv[g]] /\ \A g \in Thread : IsRecv(recv[g])
  /\ chan \in [Channel -> Seq(Message)]
  /\ pc \in [Thread -> Pcs]
  /\ delivered \in Seq([value : Nat, time : Nat])

N == Len(SourceTimes)
T(k) == SourceTimes[k]

(* What a receiver has taken and not yet delivered. *)
Held(g) == Elements(recv[g].values) \cup ValuesOf(recv[g].queue)

(* A graph that has stopped its nodes. *)
Over(g) == pc[g] \in {"end", "close", "teardown", "release", "disconnect", "join", "done"}

(* The end of a stream is the last message of its channel, and the sender  *)
(* is over.                                                                *)
ChannelInv ==
  \A g \in Thread : LET c == Outgoing(g) IN
    /\ \A i \in DOMAIN chan[c] : chan[c][i].kind = "EndOfStream" => i = Len(chan[c]) /\ Over(g)
    /\ c \notin senders => Over(g)
    /\ recv[Other(g)].finished => chan[c] = <<>> /\ Over(g)

(* A producer has nothing to say to its worker. *)
ProducerInv ==
  /\ "out" \in receivers
  /\ ~ Mapper => chan["in"] = <<>> /\ recv["worker"].values = <<>> /\ recv["worker"].queue = <<>>

\* The messages of a run: those of a replay have one of the first n values, with its time.
Form(m, rt, n) ==
  /\ m.kind = "HistoricalValue" => /\ ~ rt /\ m.value = <<m.value[1]>> /\ m.value[1] \in 1..n
                                   /\ m.time = T(m.value[1])
  /\ m.kind = "RealtimeValue" => rt
  /\ m.kind \in {"CheckPoint", "EndOfStream"} => m.value = <<>>
  /\ m.kind # "Error"
FormOf(m) == Form(m, Realtime, source)

(* Every message on its way has the form of its run; only a worker that    *)
(* filters sends checkpoints.                                              *)
FormInv ==
  /\ \A c \in Channel : \A i \in DOMAIN chan[c] : FormOf(chan[c][i])
  /\ \A g \in Thread : \A i \in DOMAIN recv[g].queue : FormOf(recv[g].queue[i]) /\ recv[g].queue[i].kind = "HistoricalValue"
  /\ ~ Realtime => \A g \in Thread : recv[g].values = <<>>
  /\ ~ Realtime => \A i \in DOMAIN chan["in"] : chan["in"][i].kind # "CheckPoint"
  /\ ~ Realtime /\ ~Mapper => \A i \in DOMAIN chan["out"] : chan["out"][i].kind # "CheckPoint"

\* Every value of A was sent before every value of B.
Below(A, B) == \A a \in A, b \in B : a < b
Chain(A, B, C, D, E) ==
  /\ Below(A, B) /\ Below(A, C) /\ Below(A, D) /\ Below(A, E)
  /\ Below(B, C) /\ Below(B, D) /\ Below(B, E)
  /\ Below(C, D) /\ Below(C, E)
  /\ Below(D, E)

(* The values move along the stages of the run, the oldest ahead. *)
StageInv ==
  /\ Chain(DeliveredValues, Held("main"), ValuesOf(chan["out"]), Held("worker"), ValuesOf(chan["in"]))
  /\ DeliveredValues \cup Held("main") \cup ValuesOf(chan["out"]) \cup Held("worker")
       \cup ValuesOf(chan["in"]) \subseteq 1..source

(* Within a stage the values are in the order of the source. *)
OrderInv ==
  /\ \A i, j \in DOMAIN delivered : i < j => delivered[i].value < delivered[j].value
  /\ \A g \in Thread : Rising(recv[g].values) /\ Ordered(recv[g].queue)
  /\ \A c \in Channel : Ordered(chan[c])

(* The phases of a run: the worker starts after the main graph, nothing is *)
(* refused, and a replay never notifies.                                   *)
PhaseInv ==
  /\ pc["main"] = "setup" => pc["worker"] = "none"
  /\ \A g \in Thread : engine[g].error # "refused"
  /\ ~ Realtime => /\ notifier = {}
                   /\ \A g \in Thread : pc[g] \notin {"notify", "end", "await"} /\ engine[g].error # "setup"

(* The clock of the source's graph is the time of its last value. *)
SourceInv ==
  ~ Realtime =>
    /\ engine[SourceThread].callbacks = {}
    /\ engine[SourceThread].first <=> source = 0
    /\ source > 0 => engine[SourceThread].time = T(source)
    /\ pc[SourceThread] \in {"receive", "deliver"} => Mapper /\ source > 0

(* The graph that receives what the source sends. *)
Reader == Other(SourceThread)
(* Before a cycle the reader has a callback for what it holds, or reads at *)
(* once.                                                                   *)
ReaderTop(e, r) ==
  /\ r.message_time = IF r.queue = <<>> THEN NoTime ELSE r.queue[1].time
  /\ \/ e.first /\ r.queue = <<>> /\ ~ r.finished /\ e.callbacks = {0} /\ e.time = 0
     \/ ~ e.first /\ r.queue = <<>> /\ ~ r.finished /\ e.callbacks = {e.time}
     \/ ~ e.first /\ r.queue = <<>> /\ r.finished /\ e.callbacks = {}
     \/ ~ e.first /\ Len(r.queue) = 1 /\ r.queue[1].time > e.time /\ e.callbacks = {r.queue[1].time}
(* In a cycle it holds at most what is due and one message that is not. *)
ReaderReads(e, r) ==
  /\ ~ e.first /\ e.callbacks = {}
  /\ \/ r.queue = <<>> /\ r.message_time = NoTime
     \/ Len(r.queue) = 1 /\ r.queue[1].time >= e.time /\ r.message_time = r.queue[1].time
     \/ Len(r.queue) = 2 /\ r.queue[1].time = e.time /\ r.queue[2].time > e.time /\ r.message_time = r.queue[2].time
(* The values the reader has not seen yet. *)
Coming == ValuesOf(chan[Outgoing(SourceThread)]) \cup (source + 1)..N
(* The clock of the reader never passes a value to come. *)
ReaderInv ==
  LET e == engine[Reader]
      r == recv[Reader]
  IN  ~ Realtime =>
        /\ pc[Reader] \in {"none", "setup"} => r = NewReceiver /\ e.first /\ e.callbacks = {} /\ e.time = 0
        /\ pc[Reader] = "top" => ReaderTop(e, r)
        /\ pc[Reader] \in {"receive", "deliver"} => ReaderReads(e, r)
        /\ pc[Reader] = "deliver" => r.finished \/ r.message_time >= e.time
        /\ ~ r.finished =>
             /\ pc[Reader] = "receive" => \A k \in Coming : T(k) >= e.time
             /\ pc[Reader] = "deliver" \/ (pc[Reader] = "top" /\ ~ e.first) => \A k \in Coming : T(k) > e.time

(* What a mapper has sent and its worker not yet answered. *)
Asked == Held("worker") \cup ValuesOf(chan["in"])
Answered(from) == \A i \in DOMAIN chan["out"] : i >= from => chan["out"][i].kind = "EndOfStream"
IsAnswer(m) ==
  IF source \in Filtered THEN m.kind = "CheckPoint" /\ m.time = T(source)
  ELSE m.kind = "HistoricalValue" /\ m.value = <<source>>
HasAnswer(r) ==
  /\ r.message_time = T(source) /\ Asked = {} /\ Answered(1)
  /\ IF source \in Filtered THEN r.queue = <<>> ELSE Len(r.queue) = 1 /\ r.queue[1].value = <<source>>
LacksAnswer(r) ==
  /\ r.queue = <<>> /\ r.message_time = NoTime
  /\ \/ Asked = {source} /\ Answered(1)
     \/ Asked = {} /\ chan["out"] # <<>> /\ IsAnswer(chan["out"][1]) /\ Answered(2)
(* A mapper waits for the answer to its last value before it goes on: one  *)
(* value is in flight.                                                     *)
FlightInv ==
  LET r == recv["main"] IN
  ~ Realtime /\ Mapper =>
    /\ r.finished \/ pc["main"] \notin {"receive", "deliver"} => r.queue = <<>> /\ r.message_time = NoTime
    /\ ~ r.finished =>
         /\ pc["main"] \in {"setup", "top"} => Asked = {} /\ Answered(1) /\ DeliveredValues = Kept(source)
         /\ pc["main"] \in {"receive", "deliver"} => DeliveredValues = Kept(source - 1)
         /\ pc["main"] = "receive" => HasAnswer(r) \/ LacksAnswer(r)
         /\ pc["main"] = "deliver" => HasAnswer(r)

NoError == \A g \in Thread : engine[g].error \in {"none", "timeout"}
(* A value is delivered at its own time. *)
TimesInv == ~ Realtime => \A k \in DOMAIN delivered : delivered[k].time = T(delivered[k].value)
(* No value is lost: a producer has each one somewhere, and a run that     *)
(* ends has delivered all.                                                 *)
CompleteInv ==
  ~ Realtime =>
    /\ ~ Mapper => DeliveredValues \cup Held("main") \cup ValuesOf(chan["out"]) = 1..source
    /\ run_for.kind = "Forever" /\ NoError =>
         /\ pc["main"] \in Ended => source = N /\ DeliveredValues = Kept(N)
         /\ pc["worker"] \in Ended \cup {"release", "disconnect"} =>
              IF Mapper THEN recv["worker"].finished ELSE source = N

-----------------------------------------------------------------------------
(* Types *)

(* The two threads and the two channels between them. *)
LEMMA Threads ==
  /\ Thread = {"main", "worker"} /\ Channel = {"in", "out"}
  /\ Outgoing("main") = "in" /\ Outgoing("worker") = "out"
  /\ Incoming("main") = "out" /\ Incoming("worker") = "in"
  /\ Other("main") = "worker" /\ Other("worker") = "main"
  /\ \A g \in Thread : /\ Outgoing(g) \in Channel /\ Incoming(g) \in Channel /\ Other(g) \in Thread
                       /\ Other(g) # g /\ Incoming(g) = Outgoing(Other(g)) /\ Incoming(g) # Outgoing(g)
                       /\ Outgoing(g) = Incoming(Other(g))
                       /\ \A h \in Thread : h = g \/ h = Other(g)
BY DEF Thread, Channel, Outgoing, Incoming, Other

(* What the senders build are messages. *)
LEMMA Messages ==
  /\ EndOfStream \in Message
  /\ \A b \in Seq(Nat), t \in Nat : /\ HistoricalValue(b, t) \in Message /\ RealtimeValue(b) \in Message
                                    /\ CheckPoint(t) \in Message
BY DEF Message, EndOfStream, HistoricalValue, RealtimeValue, CheckPoint

(* A message that is taken. *)
LEMMA TakenFields ==
  ASSUME NEW r, IsRecv(r), NEW m \in Message, NEW rt \in BOOLEAN
  PROVE  LET q == Taken(r, m, rt) IN
         /\ IsRecv(q)
         /\ m.kind = "EndOfStream" => /\ q.finished /\ q.message_time = r.message_time
                                      /\ q.queue = r.queue /\ q.values = r.values
         /\ m.kind # "EndOfStream" => q.finished = r.finished
         /\ m.kind = "CheckPoint" => /\ q.message_time = (IF rt THEN r.message_time ELSE m.time)
                                     /\ q.queue = r.queue /\ q.values = r.values
         /\ m.kind \in {"HistoricalValue", "RealtimeValue"} =>
              IF rt THEN q.message_time = r.message_time /\ q.queue = r.queue /\ q.values = r.values \o m.value
              ELSE q.message_time = m.time /\ q.queue = Append(r.queue, m) /\ q.values = r.values
<1>1. /\ m.time \in Nat /\ m.value \in Seq(Nat)
      /\ m.kind \in {"HistoricalValue", "RealtimeValue", "CheckPoint", "EndOfStream", "Error"}
  BY DEF Message
<1>2. r.values \o m.value \in Seq(Nat)
  BY <1>1, ConcatProperties DEF IsRecv
<1>3. Append(r.queue, m) \in Seq(Message)
  BY AppendProperties DEF IsRecv
<1>4. CASE m.kind = "EndOfStream"
  <2>1. Taken(r, m, rt) = [r EXCEPT !.finished = TRUE]
    BY <1>4 DEF Taken
  <2> QED
    BY <1>4, <2>1 DEF IsRecv
<1>5. CASE m.kind = "CheckPoint"
  <2>1. Taken(r, m, rt) = IF rt THEN r ELSE [r EXCEPT !.message_time = m.time]
    BY <1>5 DEF Taken
  <2> QED
    BY <1>1, <1>5, <2>1 DEF IsRecv
<1>6. CASE m.kind \in {"HistoricalValue", "RealtimeValue"} /\ rt
  <2>1. Taken(r, m, rt) = [r EXCEPT !.values = @ \o m.value]
    BY <1>6 DEF Taken
  <2> QED
    BY <1>1, <1>2, <1>6, <2>1 DEF IsRecv
<1>7. CASE m.kind = "Error" \/ (m.kind \in {"HistoricalValue", "RealtimeValue"} /\ ~ rt)
  <2>1. Taken(r, m, rt) = [r EXCEPT !.message_time = m.time, !.queue = Append(@, m)]
    BY <1>7 DEF Taken
  <2> QED
    BY <1>1, <1>3, <1>7, <2>1 DEF IsRecv
<1> QED
  BY <1>1, <1>4, <1>5, <1>6, <1>7

(* The receiver after its burst. *)
LEMMA AfterBurstFields ==
  ASSUME NEW r, IsRecv(r), NEW t \in Nat, Waiting(r, t) \in Seq(Message)
  PROVE  LET q == AfterBurst(r, t) IN
         /\ IsRecv(q) /\ q.finished = r.finished /\ q.values = <<>> /\ q.queue = Waiting(r, t)
         /\ q.message_time = IF Waiting(r, t) = <<>> THEN NoTime ELSE r.message_time
BY DEF AfterBurst, IsRecv, NoTime

(* The runs: a mapper has its source in the main graph, a producer in its  *)
(* worker.                                                                 *)
LEMMA RunModes ==
  /\ Realtime \in BOOLEAN /\ Mapper \in BOOLEAN /\ SourceThread \in Thread
  /\ Mapper => SourceThread = "main"
  /\ ~ Mapper => SourceThread = "worker"
<1>1. Realtime \in BOOLEAN /\ Mapper \in BOOLEAN
  BY Zenon DEF Realtime, Mapper
<1>2. (Mapper => SourceThread = "main") /\ (~ Mapper => SourceThread = "worker")
  BY DEF SourceThread, Mapper
<1> QED
  BY <1>1, <1>2 DEF Thread, Mapper

(* Bursts of any receiver. *)
LEMMA FlattenType ==
  ASSUME NEW S, NEW n \in Nat, NEW f, DOMAIN f = 1..n, f = [i \in 1..n |-> f[i]],
         \A i \in 1..n : f[i] \in Seq(S)
  PROVE  FlattenSeq(f) \in Seq(S)
<1> DEFINE D == Seq(S)
<1> HIDE DEF D
<1>1. \A i \in 1..n : f[i] \in D
  BY DEF D
<1>2. f \in Seq(D)
  BY <1>1, IsASeq
<1>3. <<>> \in Seq(S)
  OBVIOUS
<1> QED
  BY <1>2, <1>3, FlattenAppend DEF D

(* A burst is a sequence of values, and messages remain. *)
LEMMA BurstTypes ==
  ASSUME NEW r, IsRecv(r), NEW t
  PROVE  Burst(r, t) \in Seq(Nat) /\ Waiting(r, t) \in Seq(Message)
<1> DEFINE n == Len(r.queue)
           f == [k \in DOMAIN r.queue |-> IF Due(r.queue[k], t) THEN r.queue[k].value ELSE <<>>]
           w == [k \in DOMAIN r.queue |-> IF Due(r.queue[k], t) THEN <<>> ELSE <<r.queue[k]>>]
<1>1. n \in Nat /\ DOMAIN r.queue = 1..n /\ \A i \in 1..n : r.queue[i] \in Message
  BY DEF IsRecv
<1>2. \A i \in 1..n : r.queue[i].value \in Seq(Nat) /\ <<r.queue[i]>> \in Seq(Message)
  BY <1>1 DEF Message
<1>3. \A i \in 1..n : f[i] \in Seq(Nat) /\ w[i] \in Seq(Message)
  <2>1. <<>> \in Seq(Nat) /\ <<>> \in Seq(Message)
    OBVIOUS
  <2> QED
    BY <1>1, <1>2, <2>1
<1>4. /\ DOMAIN f = 1..n /\ f = [i \in 1..n |-> f[i]]
      /\ DOMAIN w = 1..n /\ w = [i \in 1..n |-> w[i]]
  BY <1>1
<1> HIDE DEF f, w, n
<1>5. FlattenSeq(f) \in Seq(Nat) /\ FlattenSeq(w) \in Seq(Message)
  BY <1>1, <1>3, <1>4, FlattenType
<1>6. Burst(r, t) = r.values \o FlattenSeq(f) /\ Waiting(r, t) = FlattenSeq(w)
  BY Zenon DEF Burst, Waiting, f, w
<1>7. r.values \in Seq(Nat)
  BY DEF IsRecv
<1> QED
  BY <1>5, <1>6, <1>7, ConcatProperties

-----------------------------------------------------------------------------
(* The clock *)

(* The earliest of a set of times. *)
LEMMA EarliestOf ==
  ASSUME NEW S \in SUBSET Nat, S # {}
  PROVE  Earliest(S) \in S /\ \A u \in S : Earliest(S) <= u
<1>1. \E t \in S : \A u \in S : t <= u
  BY LeastOf
<1> QED
  BY <1>1, Zenon DEF Earliest

(* The times of the source ascend. *)
LEMMA Times ==
  /\ N \in Nat /\ DOMAIN SourceTimes = 1..N
  /\ \A k \in 1..N : T(k) \in Nat
  /\ \A i, j \in 1..N : i < j => T(i) < T(j)
BY WorkersAssumption DEF N, T

(* The source's next value. *)
LEMMA NextTickIs ==
  ASSUME TypeInv
  PROVE  /\ NextTick # {} => source + 1 \in 1..N /\ NextTick = {T(source + 1)}
         /\ source = N => NextTick = {}
         /\ source # N => NextTick # {}
         /\ NextTick \subseteq Nat
         /\ source \in 0..N
BY Times DEF TypeInv, NextTick, T, N

(* When a graph has something to do: its callbacks and the next tick of    *)
(* its source.                                                             *)
LEMMA WakeupsAre ==
  ASSUME TypeInv, NEW g \in Thread
  PROVE  /\ Wakeups(g) \in SUBSET Nat
         /\ g = SourceThread => Wakeups(g) = engine[g].callbacks \cup NextTick
         /\ g # SourceThread => Wakeups(g) = engine[g].callbacks
BY NextTickIs DEF Wakeups, TypeInv, IsEngine

(* The next time of a replay is a time. *)
LEMMA NextTimeIs ==
  ASSUME TypeInv, NEW g \in Thread, Wakeups(g) # {}
  PROVE  NextTime(g) \in Nat
<1>1. Earliest(Wakeups(g)) \in Nat
  BY WakeupsAre, EarliestOf
<1> QED
  BY <1>1 DEF NextTime, TypeInv, IsEngine

(* A cycle begins. *)
LEMMA BegunFields ==
  ASSUME TypeInv, NEW g \in Thread, NEW t \in Nat, engine' = Begun(g, t)
  PROVE  /\ engine' = [h \in Thread |-> engine'[h]] /\ \A h \in Thread : IsEngine(engine'[h])
         /\ engine'[g].time = t /\ ~ engine'[g].first
         /\ engine'[g].callbacks = {c \in engine[g].callbacks : c > t}
         /\ engine'[g].error = engine[g].error
         /\ \A h \in Thread : h # g => engine'[h] = engine[h]
<1>1. engine = [h \in Thread |-> engine[h]] /\ \A h \in Thread : IsEngine(engine[h])
  BY DEF TypeInv
<1> DEFINE b == engine[g].last \/ time_done(g)
<1>2. engine' = [engine EXCEPT ![g].time = t, ![g].first = FALSE, ![g].cycles = @ + 1,
                   ![g].last = b, ![g].callbacks = {c \in @ : c > t}]
  BY DEF Begun
<1> HIDE DEF b
<1>3. \A h \in Thread : h # g => engine'[h] = engine[h]
  BY <1>1, <1>2
<1>4. engine'[g] = [engine[g] EXCEPT !.time = t, !.first = FALSE, !.cycles = @ + 1,
                      !.last = b, !.callbacks = {c \in @ : c > t}]
  BY <1>1, <1>2
<1>5. IsEngine(engine[g])
  BY <1>1
<1>6. /\ engine'[g].time = t /\ ~ engine'[g].first
      /\ engine'[g].callbacks = {c \in engine[g].callbacks : c > t}
      /\ engine'[g].error = engine[g].error /\ engine'[g].cycles = engine[g].cycles + 1
      /\ DOMAIN engine'[g] = DOMAIN engine[g]
  BY <1>4, <1>5 DEF IsEngine
<1>7. IsEngine(engine'[g])
  BY <1>5, <1>6 DEF IsEngine
<1>8. engine' = [h \in Thread |-> engine'[h]]
  BY <1>1, <1>2
<1> QED
  BY <1>1, <1>3, <1>6, <1>7, <1>8

(* An error is noted. *)
LEMMA ErrorFields ==
  ASSUME TypeInv, NEW g \in Thread, NEW x \in Errors, engine' = [engine EXCEPT ![g].error = x]
  PROVE  /\ engine' = [h \in Thread |-> engine'[h]] /\ \A h \in Thread : IsEngine(engine'[h])
         /\ \A h \in Thread : /\ engine'[h].time = engine[h].time /\ engine'[h].first = engine[h].first
                              /\ engine'[h].callbacks = engine[h].callbacks
                              /\ engine'[h].error = IF h = g THEN x ELSE engine[h].error
<1>1. engine = [h \in Thread |-> engine[h]] /\ \A h \in Thread : IsEngine(engine[h])
  BY DEF TypeInv
<1>2. engine' = [h \in Thread |-> engine'[h]] /\ \A h \in Thread : h # g => engine'[h] = engine[h]
  BY <1>1
<1>3. engine'[g] = [engine[g] EXCEPT !.error = x]
  BY <1>1
<1>4. IsEngine(engine[g])
  BY <1>1
<1>5. /\ engine'[g].time = engine[g].time /\ engine'[g].first = engine[g].first
      /\ engine'[g].callbacks = engine[g].callbacks /\ engine'[g].error = x /\ IsEngine(engine'[g])
  BY <1>3, <1>4 DEF IsEngine
<1> QED
  BY <1>1, <1>2, <1>5

(* Callbacks are asked for. *)
LEMMA CallbackFields ==
  ASSUME TypeInv, NEW g \in Thread, NEW C \in SUBSET Nat, engine' = [engine EXCEPT ![g].callbacks = C]
  PROVE  /\ engine' = [h \in Thread |-> engine'[h]] /\ \A h \in Thread : IsEngine(engine'[h])
         /\ \A h \in Thread : /\ engine'[h].time = engine[h].time /\ engine'[h].first = engine[h].first
                              /\ engine'[h].callbacks = IF h = g THEN C ELSE engine[h].callbacks
                              /\ engine'[h].error = engine[h].error
<1>1. engine = [h \in Thread |-> engine[h]] /\ \A h \in Thread : IsEngine(engine[h])
  BY DEF TypeInv
<1>2. engine' = [h \in Thread |-> engine'[h]] /\ \A h \in Thread : h # g => engine'[h] = engine[h]
  BY <1>1
<1>3. engine'[g] = [engine[g] EXCEPT !.callbacks = C]
  BY <1>1
<1>4. IsEngine(engine[g])
  BY <1>1
<1>5. /\ engine'[g].time = engine[g].time /\ engine'[g].first = engine[g].first
      /\ engine'[g].callbacks = C /\ engine'[g].error = engine[g].error /\ IsEngine(engine'[g])
  BY <1>3, <1>4 DEF IsEngine
<1> QED
  BY <1>1, <1>2, <1>5

-----------------------------------------------------------------------------
(* The steps: those that move no message, and the others *)

(* The steps that move no message. *)
QuietStep ==
  \/ SetupMain \/ SetNotifier \/ NotifierTimeout \/ SetupWorker \/ SetupWorkerFails
  \/ WorkerFails \/ Join \/ Release \/ Disconnect
  \/ \E g \in Thread : \/ EndRun(g) \/ Notify(g) \/ ReceiveDone(g) \/ SendFails(g)
                       \/ Close(g) \/ Teardown(g) \/ TeardownTimeout(g)

(* The steps, by what they move. *)
LEMMA StepCases ==
  ASSUME Next
  PROVE  \/ QuietStep \/ DeliverMain \/ DeliverWorker
         \/ \E g \in Thread : BeginHistorical(g) \/ BeginRealtime(g) \/ Receive(g) \/ Stop(g)
BY DEF Next, Main, Worker, Cycle, QuietStep, Thread

(* How engines are changed by a step that moves no message. *)
EngineSame(h) ==
  /\ engine'[h].time = engine[h].time /\ engine'[h].first = engine[h].first
  /\ engine'[h].callbacks = engine[h].callbacks

(* The callback of a receiver at the start of a replay (channel.rs setup). *)
LEMMA FirstCallbackIs ==
  ASSUME TypeInv, NEW g \in Thread, engine' = FirstCallback(g)
  PROVE  /\ engine' = [h \in Thread |-> engine'[h]] /\ \A h \in Thread : IsEngine(engine'[h])
         /\ \A h \in Thread : /\ engine'[h].time = engine[h].time /\ engine'[h].first = engine[h].first
                              /\ engine'[h].error = engine[h].error
                              /\ h # g => engine'[h].callbacks = engine[h].callbacks
         /\ engine'[g].callbacks = IF ~ Realtime /\ HasReceiver(g) /\ ~ Triggered(g) THEN {0}
                                   ELSE engine[g].callbacks
<1>1. CASE ~ Realtime /\ HasReceiver(g) /\ ~ Triggered(g)
  <2>1. engine' = [engine EXCEPT ![g].callbacks = {0}]
    BY <1>1 DEF FirstCallback
  <2>2. {0} \in SUBSET Nat
    OBVIOUS
  <2> QED
    BY <1>1, <2>1, <2>2, CallbackFields
<1>2. CASE ~ (~ Realtime /\ HasReceiver(g) /\ ~ Triggered(g))
  <2>1. engine' = engine
    BY <1>2 DEF FirstCallback
  <2> QED
    BY <1>2, <2>1 DEF TypeInv
<1> QED
  BY <1>1, <1>2

(* What a step that moves no message leaves alone. *)
LEMMA QuietFrame ==
  ASSUME TypeInv, QuietStep
  PROVE  /\ UNCHANGED <<kind, mode, run_for, source, recv, chan, delivered>>
         /\ engine' = [h \in Thread |-> engine'[h]] /\ \A h \in Thread : IsEngine(engine'[h])
         /\ \A h \in Thread : engine'[h].time = engine[h].time /\ engine'[h].first = engine[h].first
         /\ pc' \in [Thread -> Pcs]
         /\ "out" \in receivers => "out" \in receivers'
<1>0. UNCHANGED engine => /\ engine' = [h \in Thread |-> engine'[h]]
                          /\ \A h \in Thread : IsEngine(engine'[h])
                          /\ \A h \in Thread : EngineSame(h)
  BY DEF TypeInv, EngineSame
<1>1. CASE SetupMain
  <2>1. pc' = [main |-> IF Realtime /\ Mapper THEN "await" ELSE "top", worker |-> "setup"]
    BY <1>1 DEF SetupMain
  <2>2. pc' \in [Thread -> Pcs]
    BY <2>1 DEF Thread, Pcs
  <2>3. engine' = FirstCallback("main") /\ "main" \in Thread
    BY <1>1 DEF SetupMain, Thread
  <2> QED
    BY <1>1, <2>2, <2>3, FirstCallbackIs DEF SetupMain, config
<1>2. CASE SetNotifier
  BY <1>0, <1>2 DEF SetNotifier, config, EngineSame, TypeInv, Goto, Pcs
<1>3. CASE NotifierTimeout
  <2>1. engine' = [engine EXCEPT !["main"].error = "setup"] /\ "main" \in Thread /\ "setup" \in Errors
    BY <1>3 DEF NotifierTimeout, Thread, Errors
  <2>2. pc' \in [Thread -> Pcs]
    BY <1>3 DEF NotifierTimeout, Goto, TypeInv, Pcs
  <2> QED
    BY <1>3, <2>1, <2>2, ErrorFields DEF NotifierTimeout, config
<1>4. CASE SetupWorker
  <2>1. engine' = FirstCallback("worker") /\ "worker" \in Thread
    BY <1>4 DEF SetupWorker, Thread
  <2>2. pc' \in [Thread -> Pcs]
    BY <1>4 DEF SetupWorker, Goto, TypeInv, Pcs
  <2> QED
    BY <1>4, <2>1, <2>2, FirstCallbackIs DEF SetupWorker, config, links
<1>5. CASE SetupWorkerFails
  <2>1. engine' = [engine EXCEPT !["worker"].error = "setup"] /\ "worker" \in Thread /\ "setup" \in Errors
    BY <1>5 DEF SetupWorkerFails, Thread, Errors
  <2>2. pc' \in [Thread -> Pcs]
    BY <1>5 DEF SetupWorkerFails, Goto, TypeInv, Pcs
  <2> QED
    BY <1>5, <2>1, <2>2, ErrorFields DEF SetupWorkerFails, config, links
<1>6. CASE WorkerFails
  <2>1. engine' = [engine EXCEPT !["worker"].error = "node"] /\ "worker" \in Thread /\ "node" \in Errors
    BY <1>6 DEF WorkerFails, Thread, Errors
  <2>2. pc' \in [Thread -> Pcs]
    BY <1>6 DEF WorkerFails, Goto, TypeInv, Pcs
  <2> QED
    BY <1>6, <2>1, <2>2, ErrorFields DEF WorkerFails, config, links
<1>7. CASE Join \/ Disconnect
  BY <1>0, <1>7 DEF Join, Disconnect, config, links, EngineSame, TypeInv, Goto, Pcs
<1>8. CASE Release
  BY <1>0, <1>8 DEF Release, config, links, EngineSame, TypeInv, Goto, Pcs
<1>9. ASSUME NEW g \in Thread, EndRun(g) \/ Notify(g) \/ ReceiveDone(g) \/ Close(g) \/ Teardown(g)
      PROVE  /\ UNCHANGED <<kind, mode, run_for, source, recv, chan, delivered, engine>>
             /\ UNCHANGED receivers
             /\ pc' \in [Thread -> Pcs]
  <2>1. CASE EndRun(g)
    BY <2>1 DEF EndRun, config, links, TypeInv, Goto, Pcs
  <2>2. CASE Notify(g)
    <3>1. (IF pc[g] = "end" THEN "close" ELSE AfterSend(g)) \in Pcs
      BY DEF AfterSend, Pcs
    <3> QED
      BY <2>2, <3>1 DEF Notify, config, TypeInv, Goto
  <2>3. CASE ReceiveDone(g)
    BY <2>3 DEF ReceiveDone, config, links, TypeInv, Goto, Pcs
  <2>4. CASE Close(g)
    BY <2>4 DEF Close, config, TypeInv, Goto, Pcs
  <2>5. CASE Teardown(g)
    BY <2>5 DEF Teardown, config, links, TypeInv, Goto, Pcs
  <2> QED
    BY <1>9, <2>1, <2>2, <2>3, <2>4, <2>5
<1>10. ASSUME NEW g \in Thread, SendFails(g) \/ TeardownTimeout(g)
       PROVE  /\ UNCHANGED <<kind, mode, run_for, source, recv, chan, delivered>>
              /\ UNCHANGED receivers
              /\ \E x \in Errors : engine' = [engine EXCEPT ![g].error = x]
              /\ pc' \in [Thread -> Pcs]
  <2>1. CASE SendFails(g)
    BY <2>1 DEF SendFails, config, links, TypeInv, Goto, Pcs, Errors
  <2>2. CASE TeardownTimeout(g)
    <3>1. engine[g].error \in Errors
      BY DEF TypeInv, IsEngine
    <3>2. (IF engine[g].error = "none" THEN "timeout" ELSE engine[g].error) \in Errors
      BY <3>1 DEF Errors
    <3>3. engine' = [engine EXCEPT ![g].error = IF engine[g].error = "none" THEN "timeout" ELSE engine[g].error]
      BY <2>2 DEF TeardownTimeout
    <3> QED
      BY <2>2, <3>2, <3>3 DEF TeardownTimeout, config, links, TypeInv, Goto, Pcs
  <2> QED
    BY <1>10, <2>1, <2>2
<1> QED
  BY <1>0, <1>1, <1>2, <1>3, <1>4, <1>5, <1>6, <1>7, <1>8, <1>9, <1>10, ErrorFields DEF QuietStep, EngineSame

\* The source ticks in a cycle of thread g: its value is pushed, or the channel is gone.
Ticks(g) ==
  /\ g = SourceThread /\ source' = source + 1 /\ source + 1 \in 1..N
  /\ \/ /\ chan' = [chan EXCEPT ![Outgoing(g)] = Append(@, ValueMessage(<<source + 1>>, engine'[g].time))]
        /\ pc'[g] = AfterPush(g, "notify", AfterSend(g))
     \/ chan' = chan /\ pc'[g] = "failed" /\ Outgoing(g) \notin receivers

(* The start of a cycle: the clock is set and the source may tick. *)
LEMMA BeginFrame ==
  ASSUME TypeInv, NEW g \in Thread, BeginHistorical(g) \/ BeginRealtime(g)
  PROVE  /\ UNCHANGED <<kind, mode, run_for, recv, senders, receivers, notifier, delivered>>
         /\ pc[g] = "top" /\ \A h \in Thread : h # g => pc'[h] = pc[h]
         /\ engine'[g].time \in Nat /\ engine' = Begun(g, engine'[g].time)
         /\ pc' \in [Thread -> Pcs]
         /\ Ticks(g) \/ (source' = source /\ chan' = chan /\ pc'[g] = "receive")
         /\ ~ Realtime => /\ ~ Finished(g) /\ Wakeups(g) # {} /\ engine'[g].time = NextTime(g)
                          /\ IF g = SourceThread /\ NextTime(g) \in NextTick THEN Ticks(g)
                             ELSE source' = source /\ chan' = chan /\ pc'[g] = "receive"
<1>1. DOMAIN pc = Thread /\ engine[g].time \in Nat /\ pc \in [Thread -> Pcs]
  BY DEF TypeInv, IsEngine
<1>2. \A t \in Nat : engine' = Begun(g, t) => engine'[g].time = t
  BY BegunFields
<1>3. AfterPush(g, "notify", AfterSend(g)) \in {"notify", "receive", "top"}
  BY DEF AfterPush, AfterSend
<1>4. ASSUME SourceCycle(g), g = SourceThread, NextTick # {}
      PROVE  /\ Ticks(g) /\ \A h \in Thread : h # g => pc'[h] = pc[h]
             /\ pc' \in [Thread -> Pcs]
  <2>1. source + 1 \in 1..N
    BY <1>4, NextTickIs
  <2>2. \A l : Goto(g, l) => pc'[g] = l /\ (\A h \in Thread : h # g => pc'[h] = pc[h])
                             /\ (l \in Pcs => pc' \in [Thread -> Pcs])
    BY <1>1 DEF Goto
  <2>3. AfterPush(g, "notify", AfterSend(g)) \in Pcs /\ "failed" \in Pcs
    BY <1>3 DEF Pcs
  <2> QED
    BY <1>4, <2>1, <2>2, <2>3 DEF SourceCycle, Push, Ticks
<1>5. ASSUME Goto(g, "receive") PROVE /\ pc'[g] = "receive" /\ \A h \in Thread : h # g => pc'[h] = pc[h]
                                      /\ pc' \in [Thread -> Pcs]
  BY <1>1, <1>5 DEF Goto, Pcs
<1>6. CASE BeginHistorical(g)
  <2>1. /\ pc[g] = "top" /\ ~ Realtime /\ ~ Finished(g) /\ Wakeups(g) # {}
        /\ engine' = Begun(g, NextTime(g))
        /\ UNCHANGED <<config, recv, senders, receivers, notifier, ready, delivered>>
        /\ IF g = SourceThread /\ NextTime(g) \in NextTick
           THEN SourceCycle(g) ELSE /\ Goto(g, "receive") /\ UNCHANGED <<source, chan>>
    BY <1>6 DEF BeginHistorical
  <2>2. NextTime(g) \in Nat
    BY <2>1, NextTimeIs
  <2>3. engine'[g].time = NextTime(g)
    BY <1>2, <2>1, <2>2
  <2> QED
    BY <1>4, <1>5, <2>1, <2>2, <2>3 DEF config
<1>7. CASE BeginRealtime(g)
  <2>1. /\ pc[g] = "top" /\ Realtime
        /\ engine' = Begun(g, engine[g].time)
        /\ UNCHANGED <<config, recv, senders, receivers, notifier, delivered>>
        /\ \/ g = SourceThread /\ NextTick # {} /\ SourceCycle(g)
           \/ Goto(g, "receive") /\ UNCHANGED <<source, chan>>
    BY <1>7 DEF BeginRealtime
  <2>2. engine'[g].time = engine[g].time
    BY <1>1, <1>2, <2>1
  <2> QED
    BY <1>1, <1>4, <1>5, <2>1, <2>2 DEF config
<1> QED
  BY <1>6, <1>7

\* The message that thread g takes next.
Next1(g) == IF Closed(Incoming(g)) THEN EndOfStream ELSE Head(chan[Incoming(g)])

(* A message is taken from the channel, or refused. *)
LEMMA ReceiveFrame ==
  ASSUME TypeInv, NEW g \in Thread, Receive(g)
  PROVE  /\ UNCHANGED <<kind, mode, run_for, source, senders, receivers, notifier, delivered>>
         /\ pc[g] = "receive" /\ ~ HasRead(g)
         /\ ~ Closed(Incoming(g)) => chan[Incoming(g)] # <<>>
         /\ Next1(g) \in Message
         /\ chan' = IF Closed(Incoming(g)) THEN chan
                    ELSE [chan EXCEPT ![Incoming(g)] = Tail(chan[Incoming(g)])]
         /\ IF Refused(Next1(g), Realtime, engine[g].time)
            THEN engine' = [engine EXCEPT ![g].error = "refused"] /\ Goto(g, "stop") /\ recv' = recv
            ELSE recv' = [recv EXCEPT ![g] = Taken(recv[g], Next1(g), Realtime)] /\ UNCHANGED <<engine, pc>>
<1>1. /\ UNCHANGED <<kind, mode, run_for, source, senders, receivers, notifier, delivered>>
      /\ pc[g] = "receive" /\ ~ HasRead(g) /\ ~ Silent(Incoming(g))
      /\ chan' = IF Closed(Incoming(g)) THEN chan
                 ELSE [chan EXCEPT ![Incoming(g)] = Tail(chan[Incoming(g)])]
      /\ IF Refused(Next1(g), Realtime, engine[g].time)
         THEN engine' = [engine EXCEPT ![g].error = "refused"] /\ Goto(g, "stop") /\ recv' = recv
         ELSE recv' = [recv EXCEPT ![g] = Taken(recv[g], Next1(g), Realtime)] /\ UNCHANGED <<engine, pc>>
  BY DEF Receive, Next1, config
<1>2. Closed(Incoming(g)) \/ chan[Incoming(g)] # <<>>
  BY <1>1 DEF Silent, Closed
<1>3. chan[Incoming(g)] \in Seq(Message)
  BY Threads DEF TypeInv
<1>4. Next1(g) \in Message
  BY <1>2, <1>3, TailValues, Messages DEF Next1
<1> QED
  BY <1>1, <1>2, <1>4

(* A graph stops, and a sender pushes the end of its stream. *)
LEMMA StopFrame ==
  ASSUME TypeInv, NEW g \in Thread, Stop(g)
  PROVE  /\ UNCHANGED <<kind, mode, run_for, source, engine, recv, senders, receivers, notifier, delivered>>
         /\ pc[g] = "stop" /\ \A h \in Thread : h # g => pc'[h] = pc[h]
         /\ pc'[g] \in {"end", "close"} /\ (notifier = {} => pc'[g] = "close")
         /\ pc' \in [Thread -> Pcs]
         /\ \/ /\ chan' = [chan EXCEPT ![Outgoing(g)] = Append(@, EndOfStream)]
               /\ g = "worker" \/ Mapper
            \/ chan' = chan
<1>1. DOMAIN pc = Thread /\ pc \in [Thread -> Pcs]
  BY DEF TypeInv
<1>2. AfterPush(g, "end", "close") \in {"end", "close"} /\ (notifier = {} => AfterPush(g, "end", "close") = "close")
  BY DEF AfterPush
<1>3. \A l \in {"end", "close"} : Goto(g, l) => /\ pc'[g] = l /\ \A h \in Thread : h # g => pc'[h] = pc[h]
                                                /\ pc' \in [Thread -> Pcs]
  BY <1>1 DEF Goto, Pcs
<1> QED
  BY <1>2, <1>3 DEF Stop, Push, config

(* A receiver asks to be called at times. *)
LEMMA CallbacksNat ==
  ASSUME TypeInv, NEW g \in Thread
  PROVE  Callbacks(recv[g], Realtime, Triggered(g), engine[g].time) \in SUBSET Nat
<1>1. Waiting(recv[g], engine[g].time) \in Seq(Message) /\ engine[g].time \in Nat
  BY BurstTypes DEF TypeInv, IsEngine
<1> DEFINE w == Waiting(recv[g], engine[g].time)
<1>2. w # <<>> => w[1] \in Message
  BY <1>1, TailValues
<1>3. w # <<>> => w[1].time \in Nat
  BY <1>2 DEF Message
<1> HIDE DEF w
<1> QED
  BY <1>1, <1>3 DEF Callbacks, w

(* What Delivered does to the receiver and to the engine. *)
LEMMA DeliveredFrame ==
  ASSUME TypeInv, NEW g \in Thread, Delivered(g)
  PROVE  /\ recv' = [h \in Thread |-> recv'[h]] /\ \A h \in Thread : IsRecv(recv'[h])
         /\ recv'[g] = AfterBurst(recv[g], engine[g].time)
         /\ \A h \in Thread : h # g => recv'[h] = recv[h]
         /\ engine' = [h \in Thread |-> engine'[h]] /\ \A h \in Thread : IsEngine(engine'[h])
         /\ \A h \in Thread : /\ engine'[h].time = engine[h].time /\ engine'[h].first = engine[h].first
                              /\ engine'[h].error = engine[h].error
                              /\ h # g => engine'[h].callbacks = engine[h].callbacks
         /\ engine'[g].callbacks = engine[g].callbacks \cup
              Callbacks(recv[g], Realtime, Triggered(g), engine[g].time)
<1>1. recv = [h \in Thread |-> recv[h]] /\ \A h \in Thread : IsRecv(recv[h])
  BY DEF TypeInv
<1>2. recv' = [recv EXCEPT ![g] = AfterBurst(recv[g], engine[g].time)]
  BY DEF Delivered
<1>3. engine[g].time \in Nat /\ engine[g].callbacks \in SUBSET Nat
  BY DEF TypeInv, IsEngine
<1>4. IsRecv(AfterBurst(recv[g], engine[g].time))
  BY <1>1, <1>3, BurstTypes, AfterBurstFields
<1> DEFINE C == engine[g].callbacks \cup Callbacks(recv[g], Realtime, Triggered(g), engine[g].time)
<1>5. engine' = [engine EXCEPT ![g].callbacks = C]
  BY DEF Delivered
<1>6. C \in SUBSET Nat
  BY <1>3, CallbacksNat
<1> HIDE DEF C
<1>7. /\ engine' = [h \in Thread |-> engine'[h]] /\ \A h \in Thread : IsEngine(engine'[h])
      /\ \A h \in Thread : /\ engine'[h].time = engine[h].time /\ engine'[h].first = engine[h].first
                           /\ engine'[h].callbacks = IF h = g THEN C ELSE engine[h].callbacks
                           /\ engine'[h].error = engine[h].error
  BY <1>5, <1>6, CallbackFields
<1>8. /\ recv' = [h \in Thread |-> recv'[h]] /\ recv'[g] = AfterBurst(recv[g], engine[g].time)
      /\ \A h \in Thread : h # g => recv'[h] = recv[h]
  BY <1>1, <1>2
<1> QED
  BY <1>1, <1>4, <1>7, <1>8 DEF C

\* What the worker answers to a burst.
Reply == IF Pick(BurstOf("worker")) # <<>> THEN ValueMessage(Pick(BurstOf("worker")), engine["worker"].time)
         ELSE CheckPoint(engine["worker"].time)

(* The worker of a mapper answers its burst. *)
LEMMA DeliverWorkerFrame ==
  ASSUME TypeInv, DeliverWorker
  PROVE  /\ UNCHANGED <<kind, mode, run_for, source, senders, receivers, notifier, delivered>>
         /\ Delivered("worker") /\ pc["worker"] = "deliver" /\ pc'["main"] = pc["main"]
         /\ pc'["worker"] \in {"notify", "top"} /\ (notifier = {} => pc'["worker"] = "top")
         /\ pc' \in [Thread -> Pcs]
         /\ IF BurstOf("worker") = <<>> THEN chan' = chan
            ELSE chan' = [chan EXCEPT !["out"] = Append(@, Reply)]
<1>1. DOMAIN pc = Thread /\ pc \in [Thread -> Pcs] /\ "worker" \in Thread /\ "main" \in Thread
  BY DEF TypeInv, Thread
<1>2. \A l \in {"notify", "top"} : Goto("worker", l) => /\ pc'["worker"] = l /\ pc'["main"] = pc["main"]
                                                        /\ pc' \in [Thread -> Pcs]
  BY <1>1 DEF Goto, Pcs
<1>3. /\ AfterPush("worker", "notify", "top") \in {"notify", "top"}
      /\ notifier = {} => AfterPush("worker", "notify", "top") = "top"
  BY DEF AfterPush
<1>4. Answer = Pick(BurstOf("worker"))
  BY Zenon DEF Answer, Pick
<1>5. /\ UNCHANGED <<kind, mode, run_for, source, senders, receivers, notifier, delivered>>
      /\ Delivered("worker") /\ pc["worker"] = "deliver" /\ SenderCycle
  BY DEF DeliverWorker, config
<1>6. CASE BurstOf("worker") = <<>>
  <2>1. chan' = chan /\ Goto("worker", "top")
    BY <1>5, <1>6 DEF SenderCycle
  <2> QED
    BY <1>2, <1>5, <1>6, <2>1
<1>7. CASE BurstOf("worker") # <<>>
  <2>1. Push("worker", Reply) /\ Goto("worker", AfterPush("worker", "notify", "top"))
    BY <1>4, <1>5, <1>7 DEF SenderCycle, Reply
  <2>2. chan' = [chan EXCEPT !["out"] = Append(@, Reply)]
    BY <2>1, Threads DEF Push
  <2> QED
    BY <1>2, <1>3, <1>5, <1>7, <2>1, <2>2
<1> QED
  BY <1>6, <1>7

(* The main graph delivers its burst. *)
LEMMA DeliverMainFrame ==
  ASSUME TypeInv, DeliverMain
  PROVE  /\ UNCHANGED <<kind, mode, run_for, source, chan, senders, receivers, notifier>>
         /\ Delivered("main") /\ pc["main"] = "deliver" /\ pc'["worker"] = pc["worker"] /\ pc'["main"] = "top"
         /\ pc' \in [Thread -> Pcs]
         /\ delivered' = delivered \o [k \in 1..Len(BurstOf("main")) |->
                                  [value |-> BurstOf("main")[k], time |-> engine["main"].time]]
<1>1. DOMAIN pc = Thread /\ pc \in [Thread -> Pcs] /\ "worker" \in Thread /\ "main" \in Thread
  BY DEF TypeInv, Thread
<1>2. Goto("main", "top") => pc'["main"] = "top" /\ pc'["worker"] = pc["worker"] /\ pc' \in [Thread -> Pcs]
  BY <1>1 DEF Goto, Pcs
<1> QED
  BY <1>2 DEF DeliverMain, config, links

(* The values of a message the source or the worker sends. *)
LEMMA ValueMessageIs ==
  ASSUME NEW b \in Seq(Nat), NEW t \in Nat
  PROVE  /\ ValueMessage(b, t) \in Message /\ ValueMessage(b, t).value = b
         /\ Realtime => ValueMessage(b, t).kind = "RealtimeValue"
         /\ ~ Realtime => ValueMessage(b, t).kind = "HistoricalValue" /\ ValueMessage(b, t).time = t
<1>1. CASE Realtime
  <2>1. ValueMessage(b, t) = RealtimeValue(b)
    BY <1>1 DEF ValueMessage
  <2> QED
    BY <1>1, <2>1, Messages DEF RealtimeValue
<1>2. CASE ~ Realtime
  <2>1. ValueMessage(b, t) = HistoricalValue(b, t)
    BY <1>2 DEF ValueMessage
  <2> QED
    BY <1>2, <2>1, Messages DEF HistoricalValue
<1> QED
  BY <1>1, <1>2

(* A filter passes values. *)
LEMMA PickType ==
  ASSUME NEW s \in Seq(Nat)
  PROVE  Pick(s) \in Seq(Nat)
<1> DEFINE f == [k \in DOMAIN s |-> IF s[k] \in Filtered THEN <<>> ELSE <<s[k]>>]
           n == Len(s)
<1>1. n \in Nat /\ DOMAIN s = 1..n /\ \A i \in 1..n : s[i] \in Nat
  OBVIOUS
<1>2. <<>> \in Seq(Nat) /\ \A v \in Nat : <<v>> \in Seq(Nat)
  OBVIOUS
<1>3. \A i \in 1..n : f[i] \in Seq(Nat)
  BY <1>1, <1>2
<1>4. DOMAIN f = 1..n /\ f = [i \in 1..n |-> f[i]]
  BY <1>1
<1> HIDE DEF f, n
<1>5. FlattenSeq(f) \in Seq(Nat)
  BY <1>1, <1>3, <1>4, FlattenType
<1> QED
  BY <1>5, Zenon DEF Pick, f

(* The answer of a worker: the values that pass, or a checkpoint. *)
LEMMA ReplyIs ==
  ASSUME TypeInv
  PROVE  /\ Reply \in Message /\ Reply.value = Pick(BurstOf("worker")) /\ BurstOf("worker") \in Seq(Nat)
         /\ Reply.kind \in {"HistoricalValue", "RealtimeValue", "CheckPoint"}
         /\ IF Pick(BurstOf("worker")) = <<>> THEN Reply = CheckPoint(engine["worker"].time)
            ELSE Reply = ValueMessage(Pick(BurstOf("worker")), engine["worker"].time)
<1>1. engine["worker"].time \in Nat /\ IsRecv(recv["worker"])
  BY DEF TypeInv, IsEngine, Thread
<1>2. BurstOf("worker") \in Seq(Nat)
  BY <1>1, BurstTypes DEF BurstOf
<1>3. Pick(BurstOf("worker")) \in Seq(Nat)
  BY <1>2, PickType
<1>4. Realtime \/ ~ Realtime
  OBVIOUS
<1>5. CASE Pick(BurstOf("worker")) = <<>>
  <2>1. Reply = CheckPoint(engine["worker"].time)
    BY <1>5 DEF Reply
  <2>2. CheckPoint(engine["worker"].time).value = <<>> /\ CheckPoint(engine["worker"].time).kind = "CheckPoint"
    BY DEF CheckPoint
  <2>3. CheckPoint(engine["worker"].time) \in Message
    BY <1>1, <1>3, Messages
  <2> QED
    BY <1>2, <1>5, <2>1, <2>2, <2>3
<1>6. CASE Pick(BurstOf("worker")) # <<>>
  <2>1. Reply = ValueMessage(Pick(BurstOf("worker")), engine["worker"].time)
    BY <1>6 DEF Reply
  <2> QED
    BY <1>1, <1>2, <1>3, <1>4, <1>6, <2>1, ValueMessageIs
<1> QED
  BY <1>5, <1>6

(* Types are kept. *)
LEMMA PushType ==
  ASSUME TypeInv, NEW c \in Channel, NEW m \in Message, chan' = [chan EXCEPT ![c] = Append(@, m)]
  PROVE  /\ chan' \in [Channel -> Seq(Message)] /\ chan'[c] = Append(chan[c], m)
         /\ \A d \in Channel : d # c => chan'[d] = chan[d]
<1>1. chan \in [Channel -> Seq(Message)] /\ chan[c] \in Seq(Message)
  BY DEF TypeInv
<1>2. Append(chan[c], m) \in Seq(Message)
  BY <1>1, AppendProperties
<1> QED
  BY <1>1, <1>2

(* A step keeps the types. *)
LEMMA TypeStep ==
  ASSUME TypeInv, Next
  PROVE  TypeInv'
<1>0. /\ kind \in {"producer", "mapper"} /\ mode \in {"RealTime", "HistoricalFrom"}
      /\ source \in 0..Len(SourceTimes) /\ delivered \in Seq([value : Nat, time : Nat])
      /\ engine = [g \in Thread |-> engine[g]] /\ \A g \in Thread : IsEngine(engine[g])
      /\ recv = [g \in Thread |-> recv[g]] /\ \A g \in Thread : IsRecv(recv[g])
      /\ chan \in [Channel -> Seq(Message)] /\ pc \in [Thread -> Pcs]
  BY DEF TypeInv
<1>1. CASE QuietStep
  BY <1>0, <1>1, QuietFrame DEF TypeInv
<1>2. CASE DeliverMain
  <2> DEFINE b == BurstOf("main")
             t == engine["main"].time
             new == [k \in 1..Len(b) |-> [value |-> b[k], time |-> t]]
  <2>1. b \in Seq(Nat) /\ t \in Nat
    BY <1>0, BurstTypes DEF BurstOf, Thread, IsEngine
  <2>2. new \in Seq([value : Nat, time : Nat])
    <3> HIDE DEF b, t
    <3>1. Len(b) \in Nat /\ \A k \in 1..Len(b) : [value |-> b[k], time |-> t] \in [value : Nat, time : Nat]
      BY <2>1
    <3> QED BY <3>1, IsASeq
  <2>3. delivered' = delivered \o new
    BY <1>2, DeliverMainFrame
  <2> HIDE DEF new, b, t
  <2>4. delivered' \in Seq([value : Nat, time : Nat])
    BY <1>0, <2>2, <2>3, ConcatProperties
  <2>5. "main" \in Thread
    BY Threads
  <2> QED
    BY <1>0, <1>2, <2>4, <2>5, DeliverMainFrame, DeliveredFrame DEF TypeInv
<1>3. CASE DeliverWorker
  <2>1. "worker" \in Thread /\ "out" \in Channel
    BY Threads
  <2>2. chan' \in [Channel -> Seq(Message)]
    BY <1>0, <1>3, <2>1, DeliverWorkerFrame, ReplyIs, PushType
  <2> QED
    BY <1>0, <1>3, <2>1, <2>2, DeliverWorkerFrame, DeliveredFrame DEF TypeInv
<1>4. ASSUME NEW g \in Thread, BeginHistorical(g) \/ BeginRealtime(g) PROVE TypeInv'
  <2>1. Outgoing(g) \in Channel
    BY Threads
  <2>2. Ticks(g) => chan' \in [Channel -> Seq(Message)] /\ source' \in 0..Len(SourceTimes)
    <3> SUFFICES ASSUME Ticks(g) PROVE chan' \in [Channel -> Seq(Message)] /\ source' \in 0..Len(SourceTimes)
      OBVIOUS
    <3>1. source + 1 \in 1..N /\ source' = source + 1 /\ N \in Nat
      BY Times DEF Ticks
    <3>2. <<source + 1>> \in Seq(Nat) /\ engine'[g].time \in Nat
      BY <1>4, <3>1, BeginFrame
    <3>3. ValueMessage(<<source + 1>>, engine'[g].time) \in Message
      BY <3>2, ValueMessageIs
    <3>4. chan' \in [Channel -> Seq(Message)]
      BY <1>0, <2>1, <3>3, PushType DEF Ticks
    <3> QED
      BY <3>1, <3>4 DEF N
  <2>3. chan' \in [Channel -> Seq(Message)] /\ source' \in 0..Len(SourceTimes)
    BY <1>0, <1>4, <2>2, BeginFrame
  <2> QED
    BY <1>0, <1>4, <2>3, BeginFrame, BegunFields DEF TypeInv
<1>5. ASSUME NEW g \in Thread, Receive(g) PROVE TypeInv'
  <2>1. Incoming(g) \in Channel
    BY Threads
  <2>2. chan[Incoming(g)] \in Seq(Message)
    BY <1>0, <2>1
  <2>3. chan' \in [Channel -> Seq(Message)]
    <3>1. ~ Closed(Incoming(g)) => Tail(chan[Incoming(g)]) \in Seq(Message)
      BY <1>5, <2>2, ReceiveFrame, TailValues
    <3> QED
      BY <1>0, <1>5, <2>1, <3>1, ReceiveFrame
  <2>4. IsRecv(Taken(recv[g], Next1(g), Realtime))
    <3>1. Realtime \in BOOLEAN
      BY RunModes
    <3> QED
      BY <1>0, <1>5, <3>1, ReceiveFrame, TakenFields
  <2>5. CASE Refused(Next1(g), Realtime, engine[g].time)
    <3>1. engine' = [engine EXCEPT ![g].error = "refused"] /\ Goto(g, "stop") /\ recv' = recv
      BY <1>5, <2>5, ReceiveFrame
    <3>2. "refused" \in Errors
      BY DEF Errors
    <3>3. pc' \in [Thread -> Pcs]
      BY <1>0, <3>1 DEF Goto, Pcs
    <3> QED
      BY <1>0, <1>5, <2>3, <3>1, <3>2, <3>3, ErrorFields, ReceiveFrame DEF TypeInv
  <2>6. CASE ~ Refused(Next1(g), Realtime, engine[g].time)
    <3>1. recv' = [recv EXCEPT ![g] = Taken(recv[g], Next1(g), Realtime)] /\ UNCHANGED <<engine, pc>>
      BY <1>5, <2>6, ReceiveFrame
    <3>2. recv' = [h \in Thread |-> recv'[h]] /\ \A h \in Thread : IsRecv(recv'[h])
      BY <1>0, <2>4, <3>1
    <3> QED
      BY <1>0, <1>5, <2>3, <3>1, <3>2, ReceiveFrame DEF TypeInv
  <2> QED
    BY <2>5, <2>6
<1>6. ASSUME NEW g \in Thread, Stop(g) PROVE TypeInv'
  <2>1. Outgoing(g) \in Channel /\ EndOfStream \in Message
    BY Threads, Messages
  <2>2. chan' \in [Channel -> Seq(Message)]
    BY <1>0, <1>6, <2>1, StopFrame, PushType
  <2> QED
    BY <1>0, <1>6, <2>2, StopFrame DEF TypeInv
<1> QED
  BY <1>1, <1>2, <1>3, <1>4, <1>5, <1>6, StepCases

-----------------------------------------------------------------------------
(* A thread that is over stays over, and its channel with it *)

(* A graph that is over stays so, and a sender is dropped only by a graph  *)
(* that is over.                                                           *)
LEMMA QuietPcs ==
  ASSUME TypeInv, PhaseInv, QuietStep
  PROVE  /\ \A h \in Thread : Over(h) => Over(h)'
         /\ \A h \in Thread : Outgoing(h) \notin senders' => Outgoing(h) \notin senders \/ Over(h)'
<1>0. DOMAIN pc = Thread /\ Thread = {"main", "worker"}
  BY DEF TypeInv, Thread
<1>1. CASE SetupMain
  BY <1>0, <1>1 DEF SetupMain, Over, PhaseInv
<1>2. CASE SetNotifier \/ SetupWorker \/ SetupWorkerFails \/ WorkerFails \/ Join \/ Release
  BY <1>0, <1>2 DEF SetNotifier, SetupWorker, SetupWorkerFails, WorkerFails, Join, Release, Over, Goto, links
<1>3. CASE NotifierTimeout
  BY <1>0, <1>3 DEF NotifierTimeout, Over, Goto, Outgoing
<1>4. CASE Disconnect
  BY <1>0, <1>4 DEF Disconnect, Over, Goto, Outgoing
<1>5. ASSUME NEW g \in Thread, EndRun(g) \/ Notify(g) \/ ReceiveDone(g) \/ SendFails(g)
      PROVE  /\ \A h \in Thread : Over(h) => Over(h)'
             /\ UNCHANGED senders
  BY <1>0, <1>5 DEF EndRun, Notify, ReceiveDone, SendFails, Over, Goto, links
<1>6. ASSUME NEW g \in Thread, Close(g)
      PROVE  /\ \A h \in Thread : Over(h) => Over(h)'
             /\ \A h \in Thread : Outgoing(h) \notin senders' => Outgoing(h) \notin senders \/ Over(h)'
  BY <1>0, <1>6 DEF Close, Over, Goto, Outgoing
<1>7. ASSUME NEW g \in Thread, Teardown(g) \/ TeardownTimeout(g)
      PROVE  /\ \A h \in Thread : Over(h) => Over(h)'
             /\ UNCHANGED senders
  BY <1>0, <1>7 DEF Teardown, TeardownTimeout, Over, Goto, links
<1> QED
  BY <1>1, <1>2, <1>3, <1>4, <1>5, <1>6, <1>7 DEF QuietStep

\* ChannelInv for the channel thread g sends on.
ChannelOf(g) ==
  /\ \A i \in DOMAIN chan[Outgoing(g)] :
       chan[Outgoing(g)][i].kind = "EndOfStream" => i = Len(chan[Outgoing(g)]) /\ Over(g)
  /\ Outgoing(g) \notin senders => Over(g)
  /\ recv[Other(g)].finished => chan[Outgoing(g)] = <<>> /\ Over(g)

(* The channels, one at a time. *)
LEMMA ChannelInvDef == ChannelInv <=> \A g \in Thread : ChannelOf(g)
BY Zenon DEF ChannelInv, ChannelOf

(* Nothing has ended on the channel of a thread that is not over. *)
LEMMA StillOpen ==
  ASSUME ChannelInv, NEW g \in Thread, ~ Over(g)
  PROVE  /\ \A i \in DOMAIN chan[Outgoing(g)] : chan[Outgoing(g)][i].kind # "EndOfStream"
         /\ Outgoing(g) \in senders /\ ~ recv[Other(g)].finished
BY ChannelInvDef DEF ChannelOf

(* A push by a thread that is not over. *)
LEMMA ChannelPush ==
  ASSUME TypeInv, ChannelInv, NEW g \in Thread, NEW m \in Message, ~ Over(g),
         chan' = [chan EXCEPT ![Outgoing(g)] = Append(@, m)],
         \A h \in Thread : recv'[h].finished = recv[h].finished,
         UNCHANGED senders, \A h \in Thread : h # g => pc'[h] = pc[h],
         m.kind = "EndOfStream" => Over(g)'
  PROVE  ChannelInv'
<1>1. /\ chan'[Outgoing(g)] = Append(chan[Outgoing(g)], m)
      /\ \A d \in Channel : d # Outgoing(g) => chan'[d] = chan[d]
  BY Threads, PushType
<1>2. /\ chan[Outgoing(g)] \in Seq(Message) /\ chan[Outgoing(Other(g))] \in Seq(Message)
  BY Threads DEF TypeInv
<1>3. ChannelOf(g)'
  <2> DEFINE c == chan[Outgoing(g)]
             n == Len(c)
  <2>1. /\ n \in Nat /\ DOMAIN c = 1..n /\ DOMAIN Append(c, m) = 1..(n + 1) /\ Len(Append(c, m)) = n + 1
        /\ Append(c, m)[n + 1] = m /\ \A i \in 1..n : Append(c, m)[i] = c[i]
    BY <1>2, AppendProperties
  <2>2. \A i \in 1..n : c[i].kind # "EndOfStream"
    BY <2>1, StillOpen
  <2>3. Outgoing(g) \in senders' /\ ~ recv'[Other(g)].finished
    BY StillOpen, Threads
  <2>4. ASSUME NEW i \in DOMAIN chan'[Outgoing(g)], chan'[Outgoing(g)][i].kind = "EndOfStream"
        PROVE  i = Len(chan'[Outgoing(g)]) /\ Over(g)'
    <3>1. i = n + 1
      BY <1>1, <2>1, <2>2, <2>4
    <3> QED
      BY <1>1, <2>1, <2>4, <3>1
  <2> QED
    BY <2>3, <2>4 DEF ChannelOf
<1>4. ChannelOf(Other(g))'
  <2>1. /\ Other(g) \in Thread /\ Other(g) # g /\ Other(Other(g)) = g /\ Outgoing(Other(g)) # Outgoing(g)
        /\ Outgoing(Other(g)) \in Channel
    BY Threads
  <2>2. pc'[Other(g)] = pc[Other(g)] /\ chan'[Outgoing(Other(g))] = chan[Outgoing(Other(g))]
    BY <1>1, <2>1
  <2>3. ChannelOf(Other(g))
    BY <2>1, ChannelInvDef
  <2>4. (Over(Other(g))' <=> Over(Other(g))) /\ (recv'[g].finished <=> recv[g].finished)
    BY <2>2 DEF Over
  <2> QED
    BY <2>1, <2>2, <2>3, <2>4 DEF ChannelOf
<1>5. \A h \in Thread : ChannelOf(h)'
  BY <1>3, <1>4, Threads
<1> QED
  BY <1>5, Zenon DEF ChannelInv, ChannelOf

(* Taking a message keeps the end of the stream last. *)
LEMMA ChannelReceives ==
  ASSUME TypeInv, ChannelInv, NEW g \in Thread, Receive(g), ~ Refused(Next1(g), Realtime, engine[g].time)
  PROVE  ChannelInv'
<1>1. Other(g) \in Thread /\ Other(g) # g /\ Incoming(g) = Outgoing(Other(g)) /\ Incoming(g) \in Channel
      /\ Outgoing(g) # Incoming(g) /\ Outgoing(g) \in Channel /\ Other(Other(g)) = g
  BY Threads
<1>2. /\ recv' = [recv EXCEPT ![g] = Taken(recv[g], Next1(g), Realtime)] /\ UNCHANGED <<pc, senders>>
      /\ chan' = IF Closed(Incoming(g)) THEN chan
                 ELSE [chan EXCEPT ![Incoming(g)] = Tail(chan[Incoming(g)])]
      /\ Next1(g) \in Message /\ (~ Closed(Incoming(g)) => chan[Incoming(g)] # <<>>)
      /\ pc[g] = "receive" /\ ~ HasRead(g)
  BY ReceiveFrame
<1>3. /\ recv'[g] = Taken(recv[g], Next1(g), Realtime) /\ recv'[Other(g)] = recv[Other(g)]
      /\ chan'[Outgoing(g)] = chan[Outgoing(g)]
      /\ \A h \in Thread : Over(h)' <=> Over(h)
  BY <1>1, <1>2 DEF TypeInv, Over
<1>4. ~ recv[g].finished
  BY <1>2 DEF HasRead, CaughtUp
<1>5. ChannelOf(g)'
  BY <1>1, <1>2, <1>3, ChannelInvDef DEF ChannelOf
<1>6. ChannelOf(Other(g))'
  <2> DEFINE c == chan[Incoming(g)]
  <2>1. c \in Seq(Message) /\ ChannelOf(Other(g))
    BY <1>1, ChannelInvDef DEF TypeInv
  <2>2. /\ \A i \in DOMAIN c : c[i].kind = "EndOfStream" => i = Len(c) /\ Over(Other(g))
        /\ Incoming(g) \notin senders => Over(Other(g))
    BY <1>1, <2>1 DEF ChannelOf
  <2>3. recv'[g].finished => Next1(g).kind = "EndOfStream"
    <3>1. IsRecv(recv[g]) /\ Realtime \in BOOLEAN
      BY RunModes DEF TypeInv
    <3>2. Next1(g).kind # "EndOfStream" => Taken(recv[g], Next1(g), Realtime).finished = recv[g].finished
      BY <1>2, <3>1, TakenFields
    <3> QED
      BY <1>3, <1>4, <3>2
  <2>4. CASE Closed(Incoming(g))
    <3>1. c = <<>> /\ chan' = chan /\ Incoming(g) \notin senders
      BY <1>2, <2>4 DEF Closed
    <3> QED
      BY <1>1, <1>2, <1>3, <2>1, <2>2, <3>1 DEF ChannelOf
  <2>5. CASE ~ Closed(Incoming(g))
    <3>1. c # <<>> /\ chan'[Incoming(g)] = Tail(c) /\ Next1(g) = Head(c)
      BY <1>1, <1>2, <2>5 DEF TypeInv, Next1
    <3>2. /\ Head(c) = c[1] /\ 1 \in DOMAIN c /\ Len(Tail(c)) = Len(c) - 1 /\ Len(c) \in Nat /\ Tail(c) \in Seq(Message)
          /\ \A i \in DOMAIN Tail(c) : i + 1 \in DOMAIN c /\ Tail(c)[i] = c[i + 1]
      BY <2>1, <3>1, TailValues
    <3> HIDE DEF c
    <3>3. \A i \in DOMAIN Tail(c) : i \in Int /\ (i + 1 = Len(c) => i = Len(Tail(c)))
      BY <3>2
    <3>4. \A i \in DOMAIN Tail(c) : Tail(c)[i].kind = "EndOfStream" => i = Len(Tail(c)) /\ Over(Other(g))
      BY <2>2, <3>2, <3>3
    <3>5. recv'[g].finished => Tail(c) = <<>> /\ Over(Other(g))
      <4> SUFFICES ASSUME recv'[g].finished PROVE Tail(c) = <<>> /\ Over(Other(g))
        OBVIOUS
      <4>1. 1 = Len(c) /\ Over(Other(g))
        BY <2>2, <2>3, <3>1, <3>2
      <4>2. Len(Tail(c)) = 0
        <5>1. Len(Tail(c)) = Len(c) - 1
          BY <3>2
        <5> QED
          BY <4>1, <5>1
      <4> QED
        BY <3>2, <4>1, <4>2, EmptySeq
    <3> QED
      BY <1>1, <1>2, <1>3, <2>2, <3>1, <3>4, <3>5 DEF ChannelOf
  <2> QED
    BY <2>4, <2>5
<1>7. \A h \in Thread : ChannelOf(h)'
  BY <1>5, <1>6, Threads
<1> QED
  BY <1>7, Zenon DEF ChannelInv, ChannelOf

-----------------------------------------------------------------------------
(* What a delivery takes from the receiver *)

\* The burst of thread g, and what it leaves in the queue.
Splits(g) ==
  LET b == BurstOf(g)
      w == Waiting(recv[g], engine[g].time)
  IN  /\ b \in Seq(Nat) /\ Rising(b)
      /\ w \in Seq(Message) /\ Ordered(w)
      /\ Held(g) = Elements(b) \cup ValuesOf(w)
      /\ Below(Elements(b), ValuesOf(w))
      /\ \A i \in DOMAIN w : FormOf(w[i]) /\ w[i].kind = "HistoricalValue"
      /\ ~ Realtime => b = <<>> \/ (\E k \in 1..source : b = <<k>> /\ T(k) = engine[g].time)

(* In realtime a burst takes everything that is held. *)
LEMMA SplitsLive ==
  ASSUME TypeInv, FormInv, OrderInv, NEW g \in Thread, Realtime
  PROVE  Splits(g) /\ Waiting(recv[g], engine[g].time) = <<>>
<1>1. IsRecv(recv[g]) /\ recv[g].values \in Seq(Nat) /\ recv[g].queue \in Seq(Message)
  BY DEF TypeInv, IsRecv
<1>2. recv[g].queue = <<>>
  <2>1. \A i \in DOMAIN recv[g].queue : FALSE
    BY DEF FormInv, FormOf, Form
  <2>2. Len(recv[g].queue) \in Nat /\ DOMAIN recv[g].queue = 1..Len(recv[g].queue)
    BY <1>1
  <2>3. Len(recv[g].queue) = 0
    BY <2>1, <2>2
  <2> QED
    BY <1>1, <2>3, EmptySeq
<1>3. BurstOf(g) = recv[g].values /\ Waiting(recv[g], engine[g].time) = <<>>
  BY <1>1, <1>2, BurstOfNone DEF BurstOf
<1>4. Rising(recv[g].values)
  BY DEF OrderInv
<1>5. Ordered(<<>>) /\ <<>> \in Seq(Message)
  BY DEF Ordered
<1>6. Held(g) = Elements(recv[g].values)
  BY <1>2, NoValues DEF Held
<1>7. DOMAIN <<>> = {}
  OBVIOUS
<1> QED
  BY <1>1, <1>3, <1>4, <1>5, <1>6, <1>7, NoValues DEF Splits, Below

(* The queue of a replay, message by message. *)
LEMMA QueueForms ==
  ASSUME TypeInv, FormInv, OrderInv, NEW g \in Thread, ~ Realtime, NEW i \in DOMAIN recv[g].queue
  PROVE  LET m == recv[g].queue[i] IN
         /\ m \in Message /\ m.kind = "HistoricalValue" /\ FormOf(m)
         /\ \E k \in 1..source : m.value = <<k>> /\ m.time = T(k) /\ Elements(m.value) = {k}
<1>1. recv[g].queue \in Seq(Message)
  BY DEF TypeInv, IsRecv
<1>2. recv[g].queue[i] \in Message
  BY <1>1
<1>3. FormOf(recv[g].queue[i]) /\ recv[g].queue[i].kind = "HistoricalValue"
  BY DEF FormInv
<1> DEFINE m == recv[g].queue[i]
<1>4. m.value = <<m.value[1]>> /\ m.value[1] \in 1..source /\ m.time = T(m.value[1])
  BY <1>3 DEF FormOf, Form
<1>5. Elements(m.value) = {m.value[1]}
  BY <1>4, OneValue
<1> HIDE DEF m
<1>6. \E k \in 1..source : m.value = <<k>> /\ m.time = T(k) /\ Elements(m.value) = {k}
  BY <1>4, <1>5
<1> QED
  BY <1>2, <1>3, <1>6 DEF m

(* A queue of one message. *)
LEMMA OneMessage ==
  ASSUME NEW m \in Message, Rising(m.value)
  PROVE  <<m>> \in Seq(Message) /\ Ordered(<<m>>) /\ ValuesOf(<<m>>) = Elements(m.value)
<1>1. <<m>> \in Seq(Message) /\ DOMAIN <<m>> = {1} /\ <<m>>[1] = m
  OBVIOUS
<1>2. Ordered(<<m>>)
  BY <1>1 DEF Ordered
<1>3. \A v : v \in ValuesOf(<<m>>) <=> v \in Elements(m.value)
  BY <1>1, InValues
<1> QED
  BY <1>1, <1>2, <1>3

(* In a replay nothing held is no burst. *)
LEMMA SplitsNone ==
  ASSUME TypeInv, FormInv, OrderInv, NEW g \in Thread, ~ Realtime, recv[g].queue = <<>>
  PROVE  Splits(g) /\ BurstOf(g) = <<>> /\ Waiting(recv[g], engine[g].time) = <<>>
<1>1. recv[g].values = <<>> /\ recv[g].values \in Seq(Nat)
  BY DEF FormInv, TypeInv, IsRecv
<1>2. BurstOf(g) = <<>> /\ Waiting(recv[g], engine[g].time) = <<>>
  BY <1>1, BurstOfNone DEF BurstOf
<1>3. Ordered(<<>>) /\ <<>> \in Seq(Message) /\ <<>> \in Seq(Nat) /\ Rising(<<>>) /\ DOMAIN <<>> = {}
  BY DEF Ordered, Rising
<1>4. Held(g) = {}
  BY <1>1, NoValues DEF Held
<1> QED
  BY <1>2, <1>3, <1>4, NoValues DEF Splits, Below

(* In a replay one message held is the burst, or waits. *)
LEMMA SplitsOne ==
  ASSUME TypeInv, FormInv, OrderInv, NEW g \in Thread, ~ Realtime, Len(recv[g].queue) = 1,
         recv[g].queue[1].time >= engine[g].time
  PROVE  /\ Splits(g) /\ recv[g].queue = <<recv[g].queue[1]>>
         /\ Held(g) = Elements(recv[g].queue[1].value)
         /\ IF recv[g].queue[1].time = engine[g].time
            THEN BurstOf(g) = recv[g].queue[1].value /\ Waiting(recv[g], engine[g].time) = <<>>
            ELSE BurstOf(g) = <<>> /\ Waiting(recv[g], engine[g].time) = recv[g].queue
<1> DEFINE m == recv[g].queue[1]
           t == engine[g].time
<1>1. recv[g].values = <<>> /\ recv[g].queue \in Seq(Message) /\ t \in Nat
  BY DEF FormInv, TypeInv, IsRecv, IsEngine
<1>2. 1 \in DOMAIN recv[g].queue
  BY <1>1
<1>3. recv[g].queue = <<m>>
  BY <1>1
<1>4. m \in Message /\ m.kind = "HistoricalValue" /\ FormOf(m)
  BY <1>2, QueueForms
<1>5. PICK k \in 1..source : m.value = <<k>> /\ m.time = T(k) /\ Elements(m.value) = {k}
  BY <1>2, QueueForms
<1>6. Rising(m.value)
  BY <1>2 DEF OrderInv, Ordered
<1>7. m.time \in Nat /\ m.value \in Seq(Nat)
  BY <1>4 DEF Message
<1>8. Held(g) = Elements(m.value)
  <2>1. ValuesOf(recv[g].queue) = Elements(m.value)
    BY <1>3, <1>4, <1>6, OneMessage
  <2> QED
    BY <1>1, <2>1, NoValues DEF Held
<1>9. Due(m, t) <=> m.time = t
  BY <1>1, <1>7 DEF Due
<1>10. IF Due(m, t) THEN BurstOf(g) = m.value /\ Waiting(recv[g], t) = <<>>
       ELSE BurstOf(g) = <<>> /\ Waiting(recv[g], t) = <<m>>
  <2> HIDE DEF m
  <2> QED
    BY <1>1, <1>3, <1>4, BurstOfOne DEF BurstOf
<1>11. Ordered(<<>>) /\ <<>> \in Seq(Message) /\ <<>> \in Seq(Nat) /\ Rising(<<>>) /\ DOMAIN <<>> = {}
  BY DEF Ordered, Rising
<1>12. <<m>> \in Seq(Message) /\ Ordered(<<m>>) /\ ValuesOf(<<m>>) = Elements(m.value)
  BY <1>4, <1>6, OneMessage
<1>13. DOMAIN <<m>> = {1} /\ <<m>>[1] = m
  OBVIOUS
<1> HIDE DEF m, t
<1>14. CASE m.time = t
  <2>1. BurstOf(g) = m.value /\ Waiting(recv[g], t) = <<>>
    BY <1>9, <1>10, <1>14
  <2>2. Splits(g)
    BY <1>5, <1>6, <1>7, <1>8, <1>11, <1>14, <2>1, NoValues DEF Splits, Below, t
  <2> QED
    BY <1>3, <1>8, <1>14, <2>1, <2>2 DEF m, t
<1>15. CASE m.time # t
  <2>1. BurstOf(g) = <<>> /\ Waiting(recv[g], t) = <<m>>
    BY <1>9, <1>10, <1>15
  <2>2. Splits(g)
    BY <1>4, <1>8, <1>11, <1>12, <1>13, <2>1, NoValues DEF Splits, Below, t
  <2> QED
    BY <1>3, <1>8, <1>15, <2>1, <2>2 DEF m, t
<1> QED
  BY <1>14, <1>15

(* In a replay the second of two messages held waits. *)
LEMMA SplitsTwo ==
  ASSUME TypeInv, FormInv, OrderInv, NEW g \in Thread, ~ Realtime, Len(recv[g].queue) = 2,
         recv[g].queue[1].time = engine[g].time, recv[g].queue[2].time > engine[g].time
  PROVE  /\ Splits(g) /\ BurstOf(g) = recv[g].queue[1].value
         /\ Waiting(recv[g], engine[g].time) = <<recv[g].queue[2]>>
<1> DEFINE m == recv[g].queue[1]
           n == recv[g].queue[2]
           t == engine[g].time
<1>1. recv[g].values = <<>> /\ recv[g].queue \in Seq(Message) /\ t \in Nat
  BY DEF FormInv, TypeInv, IsRecv, IsEngine
<1>2. 1 \in DOMAIN recv[g].queue /\ 2 \in DOMAIN recv[g].queue /\ DOMAIN recv[g].queue = 1..2
  BY <1>1
<1>3. recv[g].queue = <<m, n>>
  BY <1>1
<1>4. /\ m \in Message /\ m.kind = "HistoricalValue" /\ FormOf(m)
      /\ n \in Message /\ n.kind = "HistoricalValue" /\ FormOf(n)
  BY <1>2, QueueForms
<1>5. PICK k \in 1..source : m.value = <<k>> /\ m.time = T(k) /\ Elements(m.value) = {k}
  BY <1>2, QueueForms
<1>6. Rising(m.value) /\ Rising(n.value) /\ \A a \in Elements(m.value), b \in Elements(n.value) : a < b
  <2>1. Ordered(recv[g].queue) /\ 1 < 2
    BY DEF OrderInv
  <2> QED
    BY <1>2, <2>1, OrderedDef
<1>7. m.time \in Nat /\ m.value \in Seq(Nat) /\ n.time \in Nat
  BY <1>4 DEF Message
<1>8. Held(g) = Elements(m.value) \cup Elements(n.value)
  <2>1. \A v : v \in ValuesOf(recv[g].queue) <=> v \in Elements(m.value) \/ v \in Elements(n.value)
    <3>1. \A i \in 1..2 : i = 1 \/ i = 2
      OBVIOUS
    <3> QED
      BY <1>2, <3>1, InValues
  <2> HIDE DEF m, n
  <2> QED
    BY <1>1, <2>1, NoValues DEF Held
<1>9. Due(m, t) /\ ~ Due(n, t)
  BY <1>1, <1>7 DEF Due
<1>10. BurstOf(g) = m.value /\ Waiting(recv[g], t) = <<n>>
  <2> HIDE DEF m, n
  <2> QED
    BY <1>1, <1>3, <1>4, <1>9, BurstOfTwo DEF BurstOf
<1>11. <<n>> \in Seq(Message) /\ Ordered(<<n>>) /\ ValuesOf(<<n>>) = Elements(n.value)
  BY <1>4, <1>6, OneMessage
<1>12. DOMAIN <<n>> = {1} /\ <<n>>[1] = n
  OBVIOUS
<1>13. m.time = t
  OBVIOUS
<1> HIDE DEF m, n, t
<1>14. Splits(g)
  BY <1>4, <1>5, <1>6, <1>7, <1>8, <1>10, <1>11, <1>12, <1>13 DEF Splits, Below, t
<1> QED
  BY <1>10, <1>14 DEF m, n, t

(* The inductive invariant. *)
IInv ==
  /\ TypeInv /\ PhaseInv /\ ChannelInv /\ ProducerInv /\ FormInv /\ OrderInv /\ StageInv
  /\ SourceInv /\ ReaderInv /\ FlightInv /\ TimesInv /\ CompleteInv

(* The reader is the graph without the source. *)
LEMMA ReaderIs ==
  /\ Reader \in Thread /\ Reader # SourceThread /\ Other(Reader) = SourceThread /\ Other(SourceThread) = Reader
  /\ Outgoing(SourceThread) = Incoming(Reader) /\ SourceThread \in Thread
  /\ Mapper => Reader = "worker" /\ SourceThread = "main"
  /\ ~ Mapper => Reader = "main" /\ SourceThread = "worker"
  /\ \A g \in Thread : g = Reader \/ g = SourceThread
BY Threads, RunModes DEF Reader

(* The burst of the reader takes the first of its values. *)
LEMMA ReaderSplits ==
  ASSUME TypeInv, FormInv, OrderInv, ReaderInv, ~ Realtime, pc[Reader] = "deliver"
  PROVE  Splits(Reader)
<1>1. ReaderReads(engine[Reader], recv[Reader]) /\ Reader \in Thread
  BY ReaderIs DEF ReaderInv
<1> DEFINE q == recv[Reader].queue
           t == engine[Reader].time
<1>2. \/ q = <<>>
      \/ Len(q) = 1 /\ q[1].time >= t
      \/ Len(q) = 2 /\ q[1].time = t /\ q[2].time > t
  BY <1>1 DEF ReaderReads
<1> QED
  BY <1>1, <1>2, SplitsNone, SplitsOne, SplitsTwo

(* The burst of a mapper is the answer to the last tick, or nothing when   *)
(* it is filtered.                                                         *)
LEMMA MainSplits ==
  ASSUME TypeInv, FormInv, OrderInv, SourceInv, FlightInv, ~ Realtime, Mapper, pc["main"] = "deliver"
  PROVE  /\ Splits("main") /\ Waiting(recv["main"], engine["main"].time) = <<>>
         /\ recv["main"].finished => BurstOf("main") = <<>>
         /\ ~ recv["main"].finished => BurstOf("main") = IF source \in Filtered THEN <<>> ELSE <<source>>
<1>1. "main" \in Thread /\ SourceThread = "main"
  BY Threads, RunModes
<1>2. source > 0 /\ engine["main"].time = T(source)
  BY <1>1 DEF SourceInv
<1>3. CASE recv["main"].queue = <<>>
  <2>1. ~ recv["main"].finished => source \in Filtered
    <3>1. Len(<<>>) # 1
      OBVIOUS
    <3> QED
      BY <1>3, <3>1 DEF FlightInv, HasAnswer
  <2> QED
    BY <1>1, <1>3, <2>1, SplitsNone
<1>4. CASE recv["main"].queue # <<>>
  <2>1. /\ ~ recv["main"].finished /\ source \notin Filtered
        /\ Len(recv["main"].queue) = 1 /\ recv["main"].queue[1].value = <<source>>
    BY <1>4 DEF FlightInv, HasAnswer
  <2>2. 1 \in DOMAIN recv["main"].queue
    BY <1>1, <2>1 DEF TypeInv, IsRecv
  <2>3. PICK k \in 1..source : recv["main"].queue[1].value = <<k>> /\ recv["main"].queue[1].time = T(k)
    BY <1>1, <2>2, QueueForms
  <2>4. k = source
    BY <2>1, <2>3
  <2>5. recv["main"].queue[1].time = engine["main"].time /\ engine["main"].time \in Nat
    BY <1>1, <1>2, <2>3, <2>4 DEF TypeInv, IsEngine
  <2>6. recv["main"].queue[1].time >= engine["main"].time
    BY <2>5
  <2> QED
    BY <1>1, <2>1, <2>5, <2>6, SplitsOne
<1> QED
  BY <1>3, <1>4

(* A burst takes the first of the values a thread holds, and the rest      *)
(* waits.                                                                  *)
LEMMA DeliverSplits ==
  ASSUME IInv, NEW g \in Thread, pc[g] = "deliver"
  PROVE  Splits(g)
<1>1. CASE Realtime
  BY <1>1, SplitsLive DEF IInv
<1>2. CASE ~ Realtime /\ g = Reader
  BY <1>2, ReaderSplits DEF IInv
<1>3. CASE ~ Realtime /\ g = SourceThread
  <2>1. Mapper
    BY <1>3 DEF IInv, SourceInv
  <2> QED
    BY <1>3, <2>1, ReaderIs, MainSplits DEF IInv
<1> QED
  BY <1>1, <1>2, <1>3, ReaderIs

(* Taking a message moves its values from the channel to the receiver. *)
LEMMA TakenHeld ==
  ASSUME TypeInv, FormInv, OrderInv, NEW g \in Thread, NEW m \in Message, FormOf(m),
         ~ Refused(m, Realtime, engine[g].time), Rising(m.value), Below(Held(g), Elements(m.value)),
         recv' = [recv EXCEPT ![g] = Taken(recv[g], m, Realtime)]
  PROVE  /\ Held(g)' = Held(g) \cup Elements(m.value)
         /\ Rising(recv'[g].values) /\ Ordered(recv'[g].queue)
         /\ \A h \in Thread : h # g => recv'[h] = recv[h] /\ Held(h)' = Held(h)
         /\ \A i \in DOMAIN recv'[g].queue : FormOf(recv'[g].queue[i]) /\ recv'[g].queue[i].kind = "HistoricalValue"
         /\ ~ Realtime => recv'[g].values = <<>>
<1> DEFINE r == recv[g]
           q == recv'[g]
<1>1. /\ q = Taken(r, m, Realtime) /\ IsRecv(r)
      /\ \A h \in Thread : h # g => recv'[h] = recv[h] /\ Held(h)' = Held(h)
  BY DEF TypeInv, Held
<1>2. Realtime \in BOOLEAN
  BY RunModes
<1>3. /\ Rising(r.values) /\ Ordered(r.queue) /\ r.values \in Seq(Nat) /\ r.queue \in Seq(Message)
      /\ \A i \in DOMAIN r.queue : FormOf(r.queue[i]) /\ r.queue[i].kind = "HistoricalValue"
      /\ ~ Realtime => r.values = <<>>
  BY <1>1 DEF OrderInv, FormInv, IsRecv
<1>4. /\ m.kind \in {"HistoricalValue", "RealtimeValue", "CheckPoint", "EndOfStream", "Error"}
      /\ m.value \in Seq(Nat)
  BY DEF Message
<1>5. m.kind # "Error" /\ (Realtime => m.kind # "HistoricalValue") /\ (~ Realtime => m.kind # "RealtimeValue")
      /\ (m.kind \in {"CheckPoint", "EndOfStream"} => m.value = <<>>)
  BY DEF Refused, FormOf, Form
<1>6. Held(g) = Elements(r.values) \cup ValuesOf(r.queue)
  BY DEF Held
<1>7. Held(g)' = Elements(q.values) \cup ValuesOf(q.queue)
  BY DEF Held
<1> HIDE DEF r, q
<1>8. CASE m.kind \in {"CheckPoint", "EndOfStream"}
  <2>1. q.values = r.values /\ q.queue = r.queue
    BY <1>1, <1>2, <1>8, TakenFields
  <2>2. Elements(m.value) = {}
    BY <1>5, <1>8, NoValues
  <2> QED
    BY <1>1, <1>3, <1>6, <1>7, <2>1, <2>2 DEF q
<1>9. CASE m.kind = "RealtimeValue"
  <2>1. Realtime
    BY <1>5, <1>9
  <2>2. q.values = r.values \o m.value /\ q.queue = r.queue
    BY <1>1, <1>2, <1>9, <2>1, TakenFields
  <2>3. Elements(q.values) = Elements(r.values) \cup Elements(m.value)
    BY <1>3, <1>4, <2>2, ElementsConcat
  <2>4. \A a \in Elements(r.values), b \in Elements(m.value) : a < b
    BY <1>6 DEF Below
  <2>5. Rising(q.values)
    BY <1>3, <1>4, <2>2, <2>4, RisingConcat
  <2> QED
    BY <1>1, <1>3, <1>6, <1>7, <2>1, <2>2, <2>3, <2>5 DEF q
<1>10. CASE m.kind = "HistoricalValue"
  <2>1. ~ Realtime
    BY <1>5, <1>10
  <2>2. q.values = r.values /\ q.queue = Append(r.queue, m)
    BY <1>1, <1>2, <1>10, <2>1, TakenFields
  <2>3. \A a \in ValuesOf(r.queue), b \in Elements(m.value) : a < b
    BY <1>6 DEF Below
  <2>4. ValuesOf(q.queue) = ValuesOf(r.queue) \cup Elements(m.value) /\ Ordered(q.queue)
    BY <1>3, <2>2, <2>3, AppendValues
  <2>5. \A i \in DOMAIN q.queue : q.queue[i] = m \/ (i \in DOMAIN r.queue /\ q.queue[i] = r.queue[i])
    <3>1. /\ Len(r.queue) \in Nat /\ DOMAIN r.queue = 1..Len(r.queue)
          /\ DOMAIN q.queue = 1..(Len(r.queue) + 1) /\ q.queue[Len(r.queue) + 1] = m
          /\ \A i \in 1..Len(r.queue) : q.queue[i] = r.queue[i]
      BY <1>3, <2>2, AppendProperties
    <3> QED
      BY <3>1
  <2> QED
    BY <1>1, <1>3, <1>6, <1>7, <1>10, <2>1, <2>2, <2>4, <2>5 DEF q
<1> QED
  BY <1>4, <1>5, <1>8, <1>9, <1>10

(* A delivery leaves what waits. *)
LEMMA DeliveredHeld ==
  ASSUME TypeInv, NEW g \in Thread, Splits(g), Delivered(g)
  PROVE  /\ recv'[g].values = <<>> /\ recv'[g].queue = Waiting(recv[g], engine[g].time)
         /\ recv'[g].finished = recv[g].finished
         /\ recv'[g].message_time = IF Waiting(recv[g], engine[g].time) = <<>> THEN NoTime
                                    ELSE recv[g].message_time
         /\ Held(g)' = ValuesOf(Waiting(recv[g], engine[g].time))
         /\ \A h \in Thread : h # g => recv'[h] = recv[h] /\ Held(h)' = Held(h)
         /\ Rising(recv'[g].values) /\ Ordered(recv'[g].queue)
<1>1. recv'[g] = AfterBurst(recv[g], engine[g].time) /\ \A h \in Thread : h # g => recv'[h] = recv[h]
  BY DeliveredFrame
<1>2. IsRecv(recv[g]) /\ engine[g].time \in Nat
  BY DEF TypeInv, IsEngine
<1>3. Waiting(recv[g], engine[g].time) \in Seq(Message) /\ Ordered(Waiting(recv[g], engine[g].time))
  BY DEF Splits
<1>4. /\ recv'[g].values = <<>> /\ recv'[g].queue = Waiting(recv[g], engine[g].time)
      /\ recv'[g].finished = recv[g].finished
      /\ recv'[g].message_time = IF Waiting(recv[g], engine[g].time) = <<>> THEN NoTime
                                 ELSE recv[g].message_time
  BY <1>1, <1>2, <1>3, AfterBurstFields
<1>5. Rising(<<>>)
  BY DEF Rising
<1>6. \A h \in Thread : h # g => Held(h)' = Held(h)
  BY <1>1 DEF Held
<1>7. Held(g)' = ValuesOf(Waiting(recv[g], engine[g].time))
  BY <1>4, NoValues DEF Held
<1> QED
  BY <1>1, <1>3, <1>4, <1>5, <1>6, <1>7

-----------------------------------------------------------------------------
(* The values: their form, their order, their stages *)

(* What is said of the values and their places. *)
ValueInv == ChannelInv /\ ProducerInv /\ FormInv /\ OrderInv /\ StageInv /\ TimesInv

(* A message of the first n values is one of the first k. *)
LEMMA FormGrows ==
  ASSUME NEW m, NEW rt, NEW n \in Nat, NEW k \in Nat, n <= k, Form(m, rt, n)
  PROVE  Form(m, rt, k)
<1>1. m.value[1] \in 1..n => m.value[1] \in 1..k
  OBVIOUS
<1> QED
  BY <1>1 DEF Form

(* Every message of a channel after a push is an old one or the new one. *)
LEMMA PushedMessages ==
  ASSUME TypeInv, NEW c \in Channel, NEW m \in Message, chan' = [chan EXCEPT ![c] = Append(@, m)]
  PROVE  /\ \A d \in Channel : \A i \in DOMAIN chan'[d] :
              (i \in DOMAIN chan[d] /\ chan'[d][i] = chan[d][i]) \/ (d = c /\ chan'[d][i] = m)
         /\ \A d \in Channel : d # c => chan'[d] = chan[d]
         /\ ValuesOf(chan'[c]) = ValuesOf(chan[c]) \cup Elements(m.value)
         /\ (/\ Ordered(chan[c]) /\ Rising(m.value)
             /\ \A a \in ValuesOf(chan[c]), b \in Elements(m.value) : a < b) => Ordered(chan'[c])
<1>1. chan'[c] = Append(chan[c], m) /\ \A d \in Channel : d # c => chan'[d] = chan[d]
  BY PushType
<1>2. chan[c] \in Seq(Message)
  BY DEF TypeInv
<1>3. \A i \in DOMAIN Append(chan[c], m) :
        (i \in DOMAIN chan[c] /\ Append(chan[c], m)[i] = chan[c][i]) \/ Append(chan[c], m)[i] = m
  <2> DEFINE s == chan[c]
             n == Len(s)
  <2>1. /\ n \in Nat /\ DOMAIN s = 1..n /\ DOMAIN Append(s, m) = 1..(n + 1)
        /\ Append(s, m)[n + 1] = m /\ \A i \in 1..n : Append(s, m)[i] = s[i]
    BY <1>2, AppendProperties
  <2>2. \A i \in 1..(n + 1) : i = n + 1 \/ i \in 1..n
    BY <2>1
  <2> QED
    BY <2>1, <2>2
<1> QED
  BY <1>1, <1>2, <1>3, AppendValues

(* The forms after a push. *)
LEMMA PushForms ==
  ASSUME TypeInv, TypeInv', FormInv, NEW c \in Channel, NEW m \in Message,
         chan' = [chan EXCEPT ![c] = Append(@, m)],
         UNCHANGED <<kind, mode>>, source <= source', Form(m, Realtime, source'),
         \A g \in Thread : \A i \in DOMAIN recv'[g].queue :
            FormOf(recv'[g].queue[i]) /\ recv'[g].queue[i].kind = "HistoricalValue",
         ~ Realtime => \A g \in Thread : recv'[g].values = <<>>,
         ~ Realtime /\ m.kind = "CheckPoint" => c = "out" /\ Mapper
  PROVE  FormInv'
<1>1. source \in Nat /\ source' \in Nat
  BY DEF TypeInv
<1>2. (Realtime' <=> Realtime) /\ (Mapper' <=> Mapper) /\ Realtime' = Realtime
  BY DEF Realtime, Mapper
<1>3. \A x : FormOf(x) => Form(x, Realtime', source')
  <2> SUFFICES ASSUME NEW x, Form(x, Realtime, source) PROVE Form(x, Realtime, source')
    BY <1>2 DEF FormOf
  <2> QED
    BY <1>1, FormGrows
<1>4. Form(m, Realtime', source')
  BY <1>2
<1>5. \A d \in Channel : \A i \in DOMAIN chan'[d] :
              (i \in DOMAIN chan[d] /\ chan'[d][i] = chan[d][i]) \/ (d = c /\ chan'[d][i] = m)
  BY PushedMessages
<1>6. \A d \in Channel : \A i \in DOMAIN chan[d] : FormOf(chan[d][i])
  BY DEF FormInv
<1>7. \A d \in Channel : \A i \in DOMAIN chan'[d] : Form(chan'[d][i], Realtime', source')
  BY <1>3, <1>4, <1>5, <1>6
<1>8. \A g \in Thread : \A i \in DOMAIN recv'[g].queue :
        Form(recv'[g].queue[i], Realtime', source') /\ recv'[g].queue[i].kind = "HistoricalValue"
  BY <1>3
<1>9. "in" \in Channel /\ "out" \in Channel /\ "in" # "out"
  BY Threads
<1>10. ~ Realtime => \A i \in DOMAIN chan'["in"] : chan'["in"][i].kind # "CheckPoint"
  BY <1>5, <1>9 DEF FormInv
<1>11. (~ Realtime /\ ~ Mapper) => \A i \in DOMAIN chan'["out"] : chan'["out"][i].kind # "CheckPoint"
  BY <1>5, <1>9 DEF FormInv
<1> QED
  BY <1>2, <1>7, <1>8, <1>10, <1>11 DEF FormInv, FormOf

(* A step that moves no message keeps the values in place. *)
LEMMA ValueQuiet ==
  ASSUME IInv, QuietStep
  PROVE  ValueInv'
<1>1. /\ UNCHANGED <<kind, mode, run_for, source, recv, chan, delivered>>
      /\ "out" \in receivers => "out" \in receivers'
  BY QuietFrame DEF IInv
<1>2. /\ \A h \in Thread : Over(h) => Over(h)'
      /\ \A h \in Thread : Outgoing(h) \notin senders' => Outgoing(h) \notin senders \/ Over(h)'
  BY QuietPcs DEF IInv
<1>3. ChannelInv'
  <2>1. \A h \in Thread : ChannelOf(h)
    BY ChannelInvDef DEF IInv
  <2>2. \A h \in Thread : ChannelOf(h)'
    BY <1>1, <1>2, <2>1 DEF ChannelOf
  <2> QED
    BY <2>2, Zenon DEF ChannelInv, ChannelOf
<1>4. ProducerInv' /\ FormInv' /\ TimesInv'
  BY <1>1 DEF IInv, ProducerInv, FormInv, TimesInv, FormOf, Realtime, Mapper
<1>5. OrderInv' /\ StageInv'
  BY <1>1 DEF IInv, OrderInv, StageInv, Held, DeliveredValues
<1> QED
  BY <1>3, <1>4, <1>5 DEF ValueInv

(* The source's next value is above all that were sent. *)
LEMMA ChainGrows ==
  ASSUME NEW n \in Nat, NEW A, NEW B, NEW C, NEW D, NEW E, Chain(A, B, C, D, E),
         A \cup B \cup C \cup D \cup E \subseteq 1..n
  PROVE  /\ Chain(A, B, C, D, E \cup {n + 1})
         /\ D = {} /\ E = {} => Chain(A, B, C \cup {n + 1}, D, E)
         /\ A \cup B \cup C \cup D \cup E \subseteq 1..(n + 1)
         /\ n + 1 \in 1..(n + 1)
         /\ \A c \in C \cup E : c < n + 1
<1>1. \A v \in A \cup B \cup C \cup D \cup E : v \in 1..n
  OBVIOUS
<1>2. \A v \in 1..n : v < n + 1 /\ v \in 1..(n + 1)
  OBVIOUS
<1>3. n + 1 \in 1..(n + 1)
  OBVIOUS
<1>4. \A v \in A \cup B \cup C \cup D \cup E : v < n + 1 /\ v \in 1..(n + 1)
  BY <1>1, <1>2
<1> DEFINE m == n + 1
<1> HIDE DEF m
<1>5. \A v \in A \cup B \cup C \cup D \cup E : v < m
  BY <1>4 DEF m
<1>6. Chain(A, B, C, D, E \cup {m})
  BY <1>5 DEF Chain, Below
<1>7. D = {} /\ E = {} => Chain(A, B, C \cup {m}, D, E)
  BY <1>5 DEF Chain, Below
<1> QED
  BY <1>3, <1>4, <1>6, <1>7 DEF m

(* In a replay the source ticks at the time of its next value. *)
LEMMA TickTime ==
  ASSUME IInv, NEW g \in Thread, BeginHistorical(g) \/ BeginRealtime(g), Ticks(g)
  PROVE  /\ source \in Nat /\ source + 1 \in 1..N /\ source' = source + 1 /\ engine'[g].time \in Nat
         /\ ~ Realtime => engine'[g].time = T(source + 1) /\ NextTime(g) = T(source + 1)
<1>1. source \in Nat
  BY DEF IInv, TypeInv
<1>2. source + 1 \in 1..N /\ source' = source + 1
  BY DEF Ticks
<1>3. source' # source
  BY <1>1, <1>2
<1>4. engine'[g].time \in Nat
  BY BeginFrame DEF IInv
<1>5. ASSUME ~ Realtime PROVE engine'[g].time = T(source + 1) /\ NextTime(g) = T(source + 1)
  <2>1. NextTime(g) \in NextTick /\ engine'[g].time = NextTime(g)
    BY <1>3, <1>5, BeginFrame DEF IInv
  <2>2. NextTick = {T(source + 1)}
    BY <2>1, NextTickIs DEF IInv
  <2> QED
    BY <2>1, <2>2
<1> QED
  BY <1>1, <1>2, <1>4, <1>5

(* A tick of the source puts a new, last value on its channel. *)
LEMMA TickValues ==
  ASSUME IInv, TypeInv', NEW g \in Thread, BeginHistorical(g) \/ BeginRealtime(g), Ticks(g)
  PROVE  ValueInv'
<1>1. /\ UNCHANGED <<kind, mode, run_for, recv, senders, receivers, notifier, delivered>>
      /\ pc[g] = "top" /\ \A h \in Thread : h # g => pc'[h] = pc[h]
  BY BeginFrame DEF IInv
<1> DEFINE m == ValueMessage(<<source + 1>>, engine'[g].time)
           c == Outgoing(g)
<1>2. /\ source \in Nat /\ source + 1 \in 1..N /\ source' = source + 1 /\ engine'[g].time \in Nat
      /\ ~ Realtime => engine'[g].time = T(source + 1)
  BY TickTime
<1>3. /\ g = SourceThread /\ c \in Channel
      /\ \/ chan' = [chan EXCEPT ![c] = Append(@, m)]
         \/ chan' = chan /\ pc'[g] = "failed"
  BY Threads DEF Ticks
<1>4. /\ m \in Message /\ m.value = <<source + 1>> /\ Elements(m.value) = {source + 1}
      /\ m.kind \in {"RealtimeValue", "HistoricalValue"}
      /\ Realtime => m.kind = "RealtimeValue"
      /\ ~ Realtime => m.kind = "HistoricalValue" /\ m.time = T(source + 1)
  <2>1. <<source + 1>> \in Seq(Nat)
    BY <1>2
  <2>2. m \in Message /\ m.value = <<source + 1>> /\ Elements(<<source + 1>>) = {source + 1}
    BY <1>2, <2>1, ValueMessageIs, OneValue
  <2>3. (Realtime => m.kind = "RealtimeValue") /\ (~ Realtime => m.kind = "HistoricalValue" /\ m.time = engine'[g].time)
    BY <1>2, <2>1, ValueMessageIs
  <2> QED
    BY <1>2, <2>2, <2>3
<1>5. TypeInv /\ ChannelInv /\ ProducerInv /\ FormInv /\ OrderInv /\ StageInv /\ TimesInv
  BY DEF IInv
<1>6. (Realtime' <=> Realtime) /\ (Mapper' <=> Mapper) /\ Realtime' = Realtime
  BY <1>1 DEF Realtime, Mapper
<1>7. Form(m, Realtime, source') /\ Rising(m.value)
  <2>1. <<source + 1>>[1] = source + 1 /\ Rising(<<source + 1>>)
    BY DEF Rising
  <2>2. source + 1 \in 1..(source + 1)
    BY <1>2
  <2> HIDE DEF m
  <2> QED
    BY <1>2, <1>4, <2>1, <2>2 DEF Form
<1>8. TimesInv'
  BY <1>1, <1>5, <1>6 DEF TimesInv
<1>9. source <= source'
  BY <1>2
<1> HIDE DEF m
<1>10. ~ Over(g)
  BY <1>1 DEF Over
<1>11. DeliveredValues' = DeliveredValues /\ \A h \in Thread : Held(h)' = Held(h)
  BY <1>1 DEF DeliveredValues, Held
<1> DEFINE A == DeliveredValues
           B == Held("main")
           C == ValuesOf(chan["out"])
           D == Held("worker")
           E == ValuesOf(chan["in"])
<1>12. Chain(A, B, C, D, E) /\ A \cup B \cup C \cup D \cup E \subseteq 1..source
  BY <1>5 DEF StageInv
<1>13. /\ Chain(A, B, C, D, E \cup {source + 1})
       /\ D = {} /\ E = {} => Chain(A, B, C \cup {source + 1}, D, E)
       /\ A \cup B \cup C \cup D \cup E \subseteq 1..(source + 1)
       /\ source + 1 \in 1..(source + 1)
       /\ \A v \in C \cup E : v < source + 1
  <2> HIDE DEF A, B, C, D, E
  <2> QED
    BY <1>2, <1>12, ChainGrows
<1>14. ProducerInv'
  <2>1. "in" \in Channel /\ (~ Mapper => c = "out")
    BY <1>3, Threads, RunModes
  <2>2. ~ Mapper => chan'["in"] = chan["in"]
    BY <1>3, <1>4, <1>5, <2>1, PushedMessages
  <2> QED
    BY <1>1, <1>5, <1>6, <2>2 DEF ProducerInv
<1>15. CASE chan' = [chan EXCEPT ![c] = Append(@, m)]
  <2>1. ChannelInv'
    BY <1>1, <1>4, <1>5, <1>10, <1>15, ChannelPush
  <2>2. FormInv'
    <3>1. /\ \A h \in Thread : \A i \in DOMAIN recv'[h].queue :
               FormOf(recv'[h].queue[i]) /\ recv'[h].queue[i].kind = "HistoricalValue"
          /\ ~ Realtime => \A h \in Thread : recv'[h].values = <<>>
      BY <1>1, <1>5 DEF FormInv
    <3> QED
      BY <1>1, <1>3, <1>4, <1>5, <1>7, <1>9, <1>15, <3>1, PushForms
  <2>3. /\ \A d \in Channel : d # c => chan'[d] = chan[d]
        /\ ValuesOf(chan'[c]) = ValuesOf(chan[c]) \cup {source + 1}
        /\ (/\ Ordered(chan[c]) /\ Rising(m.value)
            /\ \A a \in ValuesOf(chan[c]), b \in Elements(m.value) : a < b) => Ordered(chan'[c])
    BY <1>3, <1>4, <1>5, <1>15, PushedMessages
  <2>4. c \in {"in", "out"}
    BY <1>3, Threads
  <2>5. \A a \in ValuesOf(chan[c]), b \in Elements(m.value) : a < b
    <3>1. ValuesOf(chan[c]) \subseteq C \cup E
      BY <2>4
    <3> QED
      BY <1>4, <1>13, <3>1
  <2>6. \A d \in Channel : Ordered(chan[d])
    BY <1>5 DEF OrderInv
  <2>7. \A d \in Channel : Ordered(chan'[d])
    BY <1>3, <1>7, <2>3, <2>5, <2>6
  <2>8. OrderInv'
    BY <1>1, <1>5, <2>7 DEF OrderInv
  <2>9. StageInv'
    <3>1. CASE Mapper
      <4>1. c = "in" /\ "out" \in Channel
        BY <1>3, <3>1, Threads, RunModes
      <4>2. ValuesOf(chan'["in"]) = E \cup {source + 1} /\ ValuesOf(chan'["out"]) = C
        BY <2>3, <4>1
      <4> QED
        BY <1>2, <1>11, <1>13, <4>2, Threads DEF StageInv
    <3>2. CASE ~ Mapper
      <4>1. c = "out" /\ "in" \in Channel
        BY <1>3, <3>2, Threads, RunModes
      <4>2. ValuesOf(chan'["in"]) = E /\ ValuesOf(chan'["out"]) = C \cup {source + 1}
        BY <2>3, <4>1
      <4>3. D = {} /\ E = {}
        BY <1>5, <3>2, NoValues DEF ProducerInv, Held
      <4> QED
        BY <1>2, <1>11, <1>13, <4>2, <4>3, Threads DEF StageInv
    <3> QED
      BY <3>1, <3>2
  <2> QED
    BY <1>8, <1>14, <2>1, <2>2, <2>8, <2>9 DEF ValueInv
<1>16. CASE chan' = chan /\ pc'[g] = "failed"
  <2>1. \A h \in Thread : Over(h)' <=> Over(h)
    BY <1>1, <1>16, Threads DEF Over
  <2>2. ChannelInv'
    <3>1. \A h \in Thread : ChannelOf(h)
      BY <1>5, ChannelInvDef
    <3>2. \A h \in Thread : ChannelOf(h)'
      BY <1>1, <1>16, <2>1, <3>1 DEF ChannelOf
    <3> QED
      BY <3>2, Zenon DEF ChannelInv, ChannelOf
  <2>3. FormInv'
    <3>1. \A x : FormOf(x) => Form(x, Realtime', source')
      <4> SUFFICES ASSUME NEW x, Form(x, Realtime, source) PROVE Form(x, Realtime, source')
        BY <1>6 DEF FormOf
      <4>1. source \in Nat /\ source' \in Nat
        BY <1>2
      <4> QED
        BY <1>9, <4>1, FormGrows
    <3> QED
      BY <1>1, <1>5, <1>6, <1>16, <3>1 DEF FormInv, FormOf
  <2>4. OrderInv'
    BY <1>1, <1>5, <1>16 DEF OrderInv
  <2>5. StageInv'
    BY <1>2, <1>11, <1>12, <1>13, <1>16, Threads DEF StageInv
  <2> QED
    BY <1>8, <1>14, <2>2, <2>3, <2>4, <2>5 DEF ValueInv
<1> QED
  BY <1>3, <1>15, <1>16

(* The start of a cycle keeps the values in place, or adds the tick of the *)
(* source.                                                                 *)
LEMMA BeginValues ==
  ASSUME IInv, TypeInv', NEW g \in Thread, BeginHistorical(g) \/ BeginRealtime(g)
  PROVE  ValueInv'
<1>1. CASE Ticks(g)
  BY <1>1, TickValues
<1>2. CASE source' = source /\ chan' = chan /\ pc'[g] = "receive"
  <2>1. /\ UNCHANGED <<kind, mode, run_for, source, recv, chan, senders, receivers, delivered>>
        /\ pc[g] = "top" /\ \A h \in Thread : h # g => pc'[h] = pc[h]
    BY <1>2, BeginFrame DEF IInv
  <2>2. \A h \in Thread : Over(h)' <=> Over(h)
    BY <1>2, <2>1, Threads DEF Over
  <2>3. ChannelInv'
    <3>1. \A h \in Thread : ChannelOf(h)
      BY ChannelInvDef DEF IInv
    <3>2. \A h \in Thread : ChannelOf(h)'
      BY <2>1, <2>2, <3>1 DEF ChannelOf
    <3> QED
      BY <3>2, Zenon DEF ChannelInv, ChannelOf
  <2>4. ProducerInv' /\ FormInv' /\ TimesInv'
    BY <2>1 DEF IInv, ProducerInv, FormInv, TimesInv, FormOf, Realtime, Mapper
  <2>5. OrderInv' /\ StageInv'
    BY <2>1 DEF IInv, OrderInv, StageInv, Held, DeliveredValues
  <2> QED
    BY <2>3, <2>4, <2>5 DEF ValueInv
<1> QED
  BY <1>1, <1>2, BeginFrame DEF IInv

(* The end of a stream moves no value. *)
LEMMA StopValues ==
  ASSUME IInv, TypeInv', NEW g \in Thread, Stop(g)
  PROVE  ValueInv'
<1>1. /\ UNCHANGED <<kind, mode, run_for, source, engine, recv, senders, receivers, notifier, delivered>>
      /\ pc[g] = "stop" /\ \A h \in Thread : h # g => pc'[h] = pc[h]
      /\ pc'[g] \in {"end", "close"}
      /\ \/ /\ chan' = [chan EXCEPT ![Outgoing(g)] = Append(@, EndOfStream)]
            /\ g = "worker" \/ Mapper
         \/ chan' = chan
  BY StopFrame DEF IInv
<1>2. TypeInv /\ ChannelInv /\ ProducerInv /\ FormInv /\ OrderInv /\ StageInv /\ TimesInv
  BY DEF IInv
<1>3. Over(g)' /\ ~ Over(g) /\ \A h \in Thread : h # g => (Over(h)' <=> Over(h))
  BY <1>1 DEF Over
<1>4. /\ EndOfStream \in Message /\ EndOfStream.value = <<>> /\ EndOfStream.kind = "EndOfStream"
      /\ Elements(EndOfStream.value) = {}
  BY Messages, NoValues DEF EndOfStream
<1>5. Outgoing(g) \in Channel
  BY Threads
<1>6. TimesInv'
  BY <1>1, <1>2 DEF TimesInv, Realtime
<1>7. CASE chan' = chan
  <2>1. ChannelInv'
    <3>1. \A h \in Thread : ChannelOf(h)
      BY <1>2, ChannelInvDef
    <3>2. \A h \in Thread : ChannelOf(h)'
      BY <1>1, <1>3, <1>7, <3>1 DEF ChannelOf
    <3> QED
      BY <3>2, Zenon DEF ChannelInv, ChannelOf
  <2>2. ProducerInv' /\ FormInv'
    BY <1>1, <1>2, <1>7 DEF ProducerInv, FormInv, FormOf, Realtime, Mapper
  <2>3. OrderInv' /\ StageInv'
    BY <1>1, <1>2, <1>7 DEF OrderInv, StageInv, Held, DeliveredValues
  <2> QED
    BY <1>6, <2>1, <2>2, <2>3 DEF ValueInv
<1>8. CASE chan' = [chan EXCEPT ![Outgoing(g)] = Append(@, EndOfStream)] /\ (g = "worker" \/ Mapper)
  <2>1. ChannelInv'
    BY <1>1, <1>2, <1>3, <1>4, <1>8, ChannelPush
  <2>2. FormInv'
    <3>1. /\ \A h \in Thread : \A i \in DOMAIN recv'[h].queue :
               FormOf(recv'[h].queue[i]) /\ recv'[h].queue[i].kind = "HistoricalValue"
          /\ ~ Realtime => \A h \in Thread : recv'[h].values = <<>>
      BY <1>1, <1>2 DEF FormInv
    <3>2. Form(EndOfStream, Realtime, source')
      BY <1>4 DEF Form
    <3>3. source <= source' /\ UNCHANGED <<kind, mode>>
      BY <1>1, <1>2 DEF TypeInv
    <3> QED
      BY <1>2, <1>4, <1>5, <1>8, <3>1, <3>2, <3>3, PushForms
  <2>3. /\ \A d \in Channel : d # Outgoing(g) => chan'[d] = chan[d]
        /\ ValuesOf(chan'[Outgoing(g)]) = ValuesOf(chan[Outgoing(g)])
        /\ Ordered(chan[Outgoing(g)]) => Ordered(chan'[Outgoing(g)])
    <3>1. Rising(<<>>)
      BY DEF Rising
    <3> DEFINE e == EndOfStream
               c == Outgoing(g)
    <3>2. /\ e \in Message /\ e.value = <<>> /\ Elements(e.value) = {} /\ Rising(e.value)
          /\ chan' = [chan EXCEPT ![c] = Append(@, e)] /\ c \in Channel
      BY <1>4, <1>5, <1>8, <3>1
    <3> HIDE DEF e, c
    <3>3. /\ \A d \in Channel : d # c => chan'[d] = chan[d]
          /\ ValuesOf(chan'[c]) = ValuesOf(chan[c]) \cup Elements(e.value)
          /\ (/\ Ordered(chan[c]) /\ Rising(e.value)
              /\ \A a \in ValuesOf(chan[c]), b \in Elements(e.value) : a < b) => Ordered(chan'[c])
      BY <1>2, <3>2, PushedMessages
    <3>4. \A a \in ValuesOf(chan[c]), b \in Elements(e.value) : a < b
      BY <3>2
    <3> QED
      BY <3>2, <3>3, <3>4 DEF c
  <2>4. \A d \in Channel : ValuesOf(chan'[d]) = ValuesOf(chan[d]) /\ Ordered(chan'[d])
    BY <1>2, <1>5, <2>3 DEF OrderInv
  <2>5. OrderInv'
    BY <1>1, <1>2, <2>4 DEF OrderInv
  <2>6. StageInv'
    BY <1>1, <1>2, <2>4, Threads DEF StageInv, Held, DeliveredValues
  <2>7. ProducerInv'
    <3>1. ~ Mapper => chan'["in"] = chan["in"]
      BY <1>8, <2>3, Threads
    <3> QED
      BY <1>1, <1>2, <3>1 DEF ProducerInv, Mapper
  <2> QED
    BY <1>6, <2>1, <2>2, <2>5, <2>6, <2>7 DEF ValueInv
<1> QED
  BY <1>1, <1>7, <1>8

(* What thread g takes next, and what it leaves in the channel. *)
LEMMA NextMessage ==
  ASSUME IInv, NEW g \in Thread, Receive(g)
  PROVE  LET m == Next1(g)
             c == Incoming(g)
         IN  /\ m \in Message /\ FormOf(m) /\ Rising(m.value)
             /\ ValuesOf(chan[c]) = Elements(m.value) \cup ValuesOf(chan'[c])
             /\ Below(Elements(m.value), ValuesOf(chan'[c])) /\ Ordered(chan'[c])
             /\ \A d \in Channel : d # c => chan'[d] = chan[d]
             /\ \A i \in DOMAIN chan'[c] : \E j \in DOMAIN chan[c] : chan'[c][i] = chan[c][j]
             /\ Closed(c) => m = EndOfStream /\ chan' = chan /\ chan[c] = <<>>
             /\ ~ Closed(c) => /\ chan[c] # <<>> /\ 1 \in DOMAIN chan[c] /\ m = chan[c][1]
                               /\ chan'[c] = Tail(chan[c])
             /\ c \in Channel /\ chan[c] \in Seq(Message)
<1> DEFINE m == Next1(g)
           c == Incoming(g)
<1>1. c \in Channel /\ chan[c] \in Seq(Message) /\ DOMAIN chan = Channel
  BY Threads DEF IInv, TypeInv
<1>2. /\ m \in Message /\ (~ Closed(c) => chan[c] # <<>>)
      /\ chan' = IF Closed(c) THEN chan ELSE [chan EXCEPT ![c] = Tail(chan[c])]
  BY ReceiveFrame DEF IInv
<1>3. Ordered(chan[c]) /\ \A i \in DOMAIN chan[c] : FormOf(chan[c][i])
  BY <1>1 DEF IInv, OrderInv, FormInv
<1>4. CASE Closed(c)
  <2>1. m = EndOfStream /\ chan' = chan /\ chan[c] = <<>>
    BY <1>2, <1>4 DEF Next1, Closed
  <2>2. m.value = <<>> /\ m.kind = "EndOfStream"
    BY <2>1 DEF EndOfStream
  <2>3. FormOf(m)
    BY <2>2 DEF FormOf, Form
  <2>4. Rising(<<>>)
    BY DEF Rising
  <2> HIDE DEF m, c
  <2> QED
    BY <1>1, <1>2, <1>3, <1>4, <2>1, <2>2, <2>3, <2>4, NoValues DEF Below, m, c
<1>5. CASE ~ Closed(c)
  <2>1. chan[c] # <<>> /\ m = Head(chan[c]) /\ chan'[c] = Tail(chan[c])
        /\ \A d \in Channel : d # c => chan'[d] = chan[d]
    BY <1>1, <1>2, <1>5 DEF Next1
  <2> HIDE DEF m, c
  <2>2. /\ Head(chan[c]) = chan[c][1] /\ 1 \in DOMAIN chan[c]
        /\ ValuesOf(chan[c]) = Elements(Head(chan[c]).value) \cup ValuesOf(Tail(chan[c]))
        /\ \A i \in DOMAIN Tail(chan[c]) : i + 1 \in DOMAIN chan[c] /\ Tail(chan[c])[i] = chan[c][i + 1]
        /\ Ordered(Tail(chan[c])) /\ Rising(Head(chan[c]).value)
        /\ \A a \in Elements(Head(chan[c]).value), b \in ValuesOf(Tail(chan[c])) : a < b
    BY <1>1, <1>3, <2>1, TailValues
  <2>3. FormOf(m)
    BY <1>3, <2>1, <2>2
  <2> QED
    BY <1>1, <1>2, <1>5, <2>1, <2>2, <2>3 DEF Below, m, c
<1> QED
  BY <1>4, <1>5

(* No message of a replay comes late. *)
LEMMA NotRefused ==
  ASSUME IInv, NEW g \in Thread, Receive(g)
  PROVE  ~ Refused(Next1(g), Realtime, engine[g].time)
<1> DEFINE m == Next1(g)
           now == engine[g].time
<1>1. m \in Message /\ FormOf(m)
  BY NextMessage
<1>2. m.kind # "Error" /\ (m.kind = "RealtimeValue" => Realtime) /\ m.time \in Nat /\ now \in Nat
  BY <1>1 DEF FormOf, Form, Message, IInv, TypeInv, IsEngine
<1>3. pc[g] = "receive" /\ ~ HasRead(g)
  BY ReceiveFrame DEF IInv
<1>4. ~ recv[g].finished
  BY <1>3 DEF HasRead, CaughtUp
<1>5. ASSUME ~ Realtime, m.kind = "HistoricalValue" PROVE m.time >= now
  <2>1. m.value = <<m.value[1]>> /\ m.value[1] \in 1..source /\ m.time = T(m.value[1])
    BY <1>1, <1>5 DEF FormOf, Form
  <2>2. m.value[1] \in Elements(m.value)
    <3>1. \A v : v \in Elements(<<v>>)
      BY OneValue
    <3> QED
      BY <2>1, <3>1
  <2>3. m.value[1] \in ValuesOf(chan[Incoming(g)])
    BY <2>2, NextMessage
  <2>4. CASE g = Reader
    <3>1. m.value[1] \in Coming
      BY <2>3, <2>4, ReaderIs DEF Coming
    <3>2. T(m.value[1]) >= now
      BY <1>3, <1>4, <1>5, <2>4, <3>1 DEF IInv, ReaderInv
    <3> QED
      BY <2>1, <3>2
  <2>5. CASE g = SourceThread
    <3>1. Mapper /\ source > 0 /\ now = T(source)
      BY <1>3, <1>5, <2>5 DEF IInv, SourceInv
    <3>2. g = "main" /\ Incoming(g) = "out" /\ Triggered(g)
      BY <2>5, <3>1, ReaderIs, Threads DEF Triggered
    <3>3. HasAnswer(recv["main"]) \/ LacksAnswer(recv["main"])
      BY <1>3, <1>4, <1>5, <3>1, <3>2 DEF IInv, FlightInv
    <3>4. ~ HasAnswer(recv["main"])
      <4> SUFFICES ASSUME HasAnswer(recv["main"]) PROVE FALSE
        OBVIOUS
      <4>1. recv[g].message_time = engine[g].time
        BY <3>1, <3>2 DEF HasAnswer
      <4>2. CaughtUp(recv[g], Realtime, Triggered(g), engine[g].time, Silent(Incoming(g)))
        BY <1>5, <3>2, <4>1 DEF CaughtUp
      <4> QED
        BY <1>3, <4>2 DEF HasRead
    <3>5. ~ Closed("out")
      BY <1>5, <3>2, NextMessage DEF EndOfStream
    <3>6. 1 \in DOMAIN chan["out"] /\ m = chan["out"][1]
      BY <3>2, <3>5, NextMessage
    <3>7. IsAnswer(m)
      <4>1. ~ Answered(1)
        BY <1>5, <3>6 DEF Answered
      <4> QED
        BY <3>3, <3>4, <3>6, <4>1 DEF LacksAnswer
    <3>8. m.value = <<source>>
      BY <1>5, <3>7 DEF IsAnswer
    <3> HIDE DEF m, now
    <3>9. m.value[1] = source
      BY <3>8
    <3> QED
      BY <1>2, <2>1, <3>1, <3>9
  <2> QED
    BY <2>4, <2>5, ReaderIs
<1> HIDE DEF m, now
<1>6. ~ Refused(m, Realtime, now)
  BY <1>2, <1>5 DEF Refused
<1> QED
  BY <1>6 DEF m, now

(* A message taken from a channel keeps the chain. *)
LEMMA ChainMoves ==
  ASSUME NEW A, NEW B, NEW C, NEW D, NEW E, Chain(A, B, C, D, E), NEW X, NEW Y, Below(X, Y)
  PROVE  /\ C = X \cup Y => Chain(A, B \cup X, Y, D, E)
         /\ E = X \cup Y => Chain(A, B, C, D \cup X, Y)
BY DEF Chain, Below

(* Values that are taken move from the channel to the receiver. *)
LEMMA ReceiveValues ==
  ASSUME IInv, TypeInv', NEW g \in Thread, Receive(g)
  PROVE  ValueInv'
<1> DEFINE m == Next1(g)
           c == Incoming(g)
<1>1. ~ Refused(m, Realtime, engine[g].time)
  BY NotRefused
<1>2. /\ UNCHANGED <<kind, mode, run_for, source, senders, receivers, notifier, delivered, engine, pc>>
      /\ recv' = [recv EXCEPT ![g] = Taken(recv[g], m, Realtime)]
  BY <1>1, ReceiveFrame DEF IInv
<1>3. /\ m \in Message /\ FormOf(m) /\ Rising(m.value)
      /\ ValuesOf(chan[c]) = Elements(m.value) \cup ValuesOf(chan'[c])
      /\ Below(Elements(m.value), ValuesOf(chan'[c])) /\ Ordered(chan'[c])
      /\ \A d \in Channel : d # c => chan'[d] = chan[d]
      /\ \A i \in DOMAIN chan'[c] : \E j \in DOMAIN chan[c] : chan'[c][i] = chan[c][j]
      /\ c \in Channel
  BY NextMessage
<1>4. TypeInv /\ ChannelInv /\ ProducerInv /\ FormInv /\ OrderInv /\ StageInv /\ TimesInv
  BY DEF IInv
<1>5. (Realtime' <=> Realtime) /\ (Mapper' <=> Mapper) /\ Realtime' = Realtime
  BY <1>2 DEF Realtime, Mapper
<1>6. (g = "main" /\ c = "out") \/ (g = "worker" /\ c = "in")
  BY Threads
<1> DEFINE A == DeliveredValues
           B == Held("main")
           C == ValuesOf(chan["out"])
           D == Held("worker")
           E == ValuesOf(chan["in"])
           X == Elements(m.value)
           Y == ValuesOf(chan'[c])
<1>7. Chain(A, B, C, D, E) /\ A \cup B \cup C \cup D \cup E \subseteq 1..source
  BY <1>4 DEF StageInv
<1>8. Below(Held(g), X)
  BY <1>3, <1>6, <1>7 DEF Chain, Below
<1>9. /\ Held(g)' = Held(g) \cup X
      /\ Rising(recv'[g].values) /\ Ordered(recv'[g].queue)
      /\ \A h \in Thread : h # g => recv'[h] = recv[h] /\ Held(h)' = Held(h)
      /\ \A i \in DOMAIN recv'[g].queue : FormOf(recv'[g].queue[i]) /\ recv'[g].queue[i].kind = "HistoricalValue"
      /\ ~ Realtime => recv'[g].values = <<>>
  <2> HIDE DEF m
  <2> QED
    BY <1>1, <1>2, <1>3, <1>4, <1>8, TakenHeld
<1>10. ChannelInv'
  BY <1>1, <1>4, ChannelReceives
<1>11. TimesInv'
  BY <1>2, <1>4, <1>5 DEF TimesInv
<1>12. \A d \in Channel : \A i \in DOMAIN chan'[d] : \E j \in DOMAIN chan[d] : chan'[d][i] = chan[d][j]
  BY <1>3
<1>13. \A x : FormOf(x) => Form(x, Realtime', source')
  BY <1>2, <1>5 DEF FormOf
<1>14. FormInv'
  <2>1. \A d \in Channel : \A i \in DOMAIN chan'[d] : Form(chan'[d][i], Realtime', source')
    BY <1>4, <1>12, <1>13 DEF FormInv
  <2>2. \A h \in Thread : \A i \in DOMAIN recv'[h].queue :
          Form(recv'[h].queue[i], Realtime', source') /\ recv'[h].queue[i].kind = "HistoricalValue"
    BY <1>4, <1>9, <1>13 DEF FormInv
  <2>3. ~ Realtime => \A h \in Thread : recv'[h].values = <<>>
    BY <1>4, <1>9 DEF FormInv
  <2>4. /\ ~ Realtime => \A i \in DOMAIN chan'["in"] : chan'["in"][i].kind # "CheckPoint"
        /\ (~ Realtime /\ ~ Mapper) => \A i \in DOMAIN chan'["out"] : chan'["out"][i].kind # "CheckPoint"
    BY <1>4, <1>12, Threads DEF FormInv
  <2> QED
    BY <1>5, <2>1, <2>2, <2>3, <2>4 DEF FormInv, FormOf
<1>15. OrderInv'
  <2>1. \A h \in Thread : Rising(recv'[h].values) /\ Ordered(recv'[h].queue)
    BY <1>4, <1>9 DEF OrderInv
  <2>2. \A d \in Channel : Ordered(chan'[d])
    BY <1>3, <1>4 DEF OrderInv
  <2> QED
    BY <1>2, <1>4, <2>1, <2>2 DEF OrderInv
<1>16. StageInv'
  <2>1. A' = A
    BY <1>2 DEF DeliveredValues
  <2>2. "in" \in Channel /\ "out" \in Channel /\ "main" \in Thread /\ "worker" \in Thread
    BY Threads
  <2>3. CASE g = "main" /\ c = "out"
    <3>1. /\ Held("main")' = B \cup X /\ ValuesOf(chan'["out"]) = Y /\ Held("worker")' = D
          /\ ValuesOf(chan'["in"]) = E /\ C = X \cup Y
      BY <1>3, <1>9, <2>2, <2>3
    <3>2. Below(X, Y)
      BY <1>3
    <3>3. Chain(A, B \cup X, Y, D, E)
      <4> HIDE DEF A, B, C, D, E, X, Y
      <4> QED
        BY <1>7, <3>1, <3>2, ChainMoves
    <3>4. A \cup (B \cup X) \cup Y \cup D \cup E \subseteq 1..source
      BY <1>7, <3>1
    <3> QED
      BY <1>2, <2>1, <3>1, <3>3, <3>4 DEF StageInv
  <2>4. CASE g = "worker" /\ c = "in"
    <3>1. /\ Held("worker")' = D \cup X /\ ValuesOf(chan'["in"]) = Y /\ Held("main")' = B
          /\ ValuesOf(chan'["out"]) = C /\ E = X \cup Y
      BY <1>3, <1>9, <2>2, <2>4
    <3>2. Below(X, Y)
      BY <1>3
    <3>3. Chain(A, B, C, D \cup X, Y)
      <4> HIDE DEF A, B, C, D, E, X, Y
      <4> QED
        BY <1>7, <3>1, <3>2, ChainMoves
    <3>4. A \cup B \cup C \cup (D \cup X) \cup Y \subseteq 1..source
      BY <1>7, <3>1
    <3> QED
      BY <1>2, <2>1, <3>1, <3>3, <3>4 DEF StageInv
  <2> QED
    BY <1>6, <2>3, <2>4
<1>17. ProducerInv'
  <2>1. CASE Mapper
    BY <1>2, <1>4, <1>5, <2>1 DEF ProducerInv
  <2>2. CASE ~ Mapper
    <3>1. chan["in"] = <<>> /\ recv["worker"].values = <<>> /\ recv["worker"].queue = <<>>
      BY <1>4, <2>2 DEF ProducerInv
    <3>2. CASE g = "main" /\ c = "out"
      BY <1>2, <1>3, <1>4, <1>9, <3>1, <3>2, Threads DEF ProducerInv
    <3>3. CASE g = "worker" /\ c = "in"
      <4>1. Closed(c)
        BY <3>1, <3>3, NextMessage
      <4>2. m = EndOfStream /\ chan' = chan
        BY <4>1, NextMessage
      <4>3. m.kind = "EndOfStream"
        BY <4>2 DEF EndOfStream
      <4>4. IsRecv(recv[g]) /\ Realtime \in BOOLEAN /\ recv'[g] = Taken(recv[g], m, Realtime)
        BY <1>2, <1>4, RunModes DEF TypeInv
      <4> HIDE DEF m
      <4>5. LET q == Taken(recv[g], m, Realtime) IN q.values = recv[g].values /\ q.queue = recv[g].queue
        BY <1>3, <4>3, <4>4, TakenFields
      <4>6. recv'[g].values = recv[g].values /\ recv'[g].queue = recv[g].queue
        BY <4>4, <4>5
      <4> QED
        BY <1>2, <1>4, <3>1, <3>3, <4>2, <4>6 DEF ProducerInv
    <3> QED
      BY <1>6, <3>2, <3>3
  <2> QED
    BY <2>1, <2>2
<1> QED
  BY <1>10, <1>11, <1>14, <1>15, <1>16, <1>17 DEF ValueInv

(* The answer to one value. *)
LEMMA PickOne ==
  ASSUME NEW k \in Nat
  PROVE  Pick(<<k>>) = IF k \in Filtered THEN <<>> ELSE <<k>>
<1> DEFINE f == IF k \in Filtered THEN <<>> ELSE <<k>>
<1>1. [i \in DOMAIN <<k>> |-> IF <<k>>[i] \in Filtered THEN <<>> ELSE <<(<<k>>[i])>>] = <<f>>
  OBVIOUS
<1>2. f \in Seq(Nat)
  <2>1. <<>> \in Seq(Nat) /\ <<k>> \in Seq(Nat)
    OBVIOUS
  <2> QED
    BY <2>1
<1> HIDE DEF f
<1>3. FlattenSeq(<<f>>) = f
  BY <1>2, FlattenFew
<1>4. Pick(<<k>>) = f
  BY <1>1, <1>3, Zenon DEF Pick
<1> QED
  BY <1>4 DEF f

(* A sequence without elements is empty. *)
LEMMA NoneElse ==
  ASSUME NEW s \in Seq(Nat), Elements(s) = {}
  PROVE  s = <<>>
<1>1. Len(s) \in Nat /\ DOMAIN s = 1..Len(s)
  OBVIOUS
<1>2. \A i \in 1..Len(s) : s[i] \in Elements(s)
  BY <1>1 DEF Elements
<1>3. Len(s) = 0
  BY <1>1, <1>2
<1> QED
  BY <1>3, EmptySeq

(* A burst keeps the chain, and so does one that passes a filter. *)
LEMMA ChainDelivers ==
  ASSUME NEW A, NEW B, NEW C, NEW D, NEW E, Chain(A, B, C, D, E), NEW X, NEW Y, Below(X, Y), NEW P \in SUBSET X
  PROVE  /\ B = X \cup Y => Chain(A \cup X, Y, C, D, E)
         /\ D = X \cup Y => Chain(A, B, C \cup P, Y, E)
BY DEF Chain, Below

(* The channels when a thread delivers, and pushes nothing. *)
LEMMA ChannelDelivers ==
  ASSUME IInv, NEW g \in Thread, pc[g] = "deliver", Delivered(g), Splits(g), chan' = chan,
         UNCHANGED senders, \A h \in Thread : h # g => pc'[h] = pc[h], pc'[g] \in {"top", "notify"}
  PROVE  ChannelInv'
<1>1. \A h \in Thread : recv'[h].finished = recv[h].finished
  BY DeliveredHeld DEF IInv
<1>2. \A h \in Thread : Over(h)' <=> Over(h)
  BY DEF Over
<1>3. \A h \in Thread : ChannelOf(h)
  BY ChannelInvDef DEF IInv
<1>4. \A h \in Thread : Other(h) \in Thread
  BY Threads
<1>5. \A h \in Thread : ChannelOf(h)'
  BY <1>1, <1>2, <1>3, <1>4 DEF ChannelOf
<1> QED
  BY <1>5, Zenon DEF ChannelInv, ChannelOf

(* The receivers when a thread delivers. *)
LEMMA DeliveredForms ==
  ASSUME IInv, NEW g \in Thread, Delivered(g), Splits(g)
  PROVE  /\ \A h \in Thread : \A i \in DOMAIN recv'[h].queue :
              FormOf(recv'[h].queue[i]) /\ recv'[h].queue[i].kind = "HistoricalValue"
         /\ ~ Realtime => \A h \in Thread : recv'[h].values = <<>>
         /\ \A h \in Thread : Rising(recv'[h].values) /\ Ordered(recv'[h].queue)
<1>1. /\ recv'[g].values = <<>> /\ recv'[g].queue = Waiting(recv[g], engine[g].time)
      /\ \A h \in Thread : h # g => recv'[h] = recv[h]
      /\ Rising(recv'[g].values) /\ Ordered(recv'[g].queue)
  BY DeliveredHeld DEF IInv
<1>2. \A i \in DOMAIN recv'[g].queue : FormOf(recv'[g].queue[i]) /\ recv'[g].queue[i].kind = "HistoricalValue"
  BY <1>1 DEF Splits
<1> QED
  BY <1>1, <1>2 DEF IInv, FormInv, OrderInv

(* Values that the main graph delivers are after all delivered before. *)
LEMMA DeliverMainValues ==
  ASSUME IInv, TypeInv', DeliverMain
  PROVE  /\ ValueInv' /\ DeliveredValues' = DeliveredValues \cup Elements(BurstOf("main"))
<1> DEFINE b == BurstOf("main")
           w == Waiting(recv["main"], engine["main"].time)
           now == engine["main"].time
           new == [k \in 1..Len(b) |-> [value |-> b[k], time |-> now]]
<1>1. /\ UNCHANGED <<kind, mode, run_for, source, chan, senders, receivers, notifier>>
      /\ Delivered("main") /\ pc["main"] = "deliver" /\ pc'["worker"] = pc["worker"] /\ pc'["main"] = "top"
      /\ delivered' = delivered \o new
  BY DeliverMainFrame DEF IInv
<1>2. TypeInv /\ ChannelInv /\ ProducerInv /\ FormInv /\ OrderInv /\ StageInv /\ TimesInv
  BY DEF IInv
<1>3. "main" \in Thread /\ "worker" \in Thread /\ \A h \in Thread : h = "main" \/ h = "worker"
  BY Threads
<1>4. Splits("main")
  BY <1>1, <1>3, DeliverSplits
<1>5. /\ b \in Seq(Nat) /\ Rising(b)
      /\ Held("main") = Elements(b) \cup ValuesOf(w) /\ Below(Elements(b), ValuesOf(w))
      /\ ~ Realtime => b = <<>> \/ (\E k \in 1..source : b = <<k>> /\ T(k) = now)
  BY <1>4 DEF Splits
<1>6. /\ Held("main")' = ValuesOf(w) /\ Held("worker")' = Held("worker") /\ recv'["worker"] = recv["worker"]
  BY <1>1, <1>2, <1>3, <1>4, DeliveredHeld
<1>7. (Realtime' <=> Realtime) /\ (Mapper' <=> Mapper) /\ Realtime' = Realtime
  BY <1>1 DEF Realtime, Mapper
<1> HIDE DEF b, w, now
<1>8. /\ new \in Seq([value : Nat, time : Nat]) /\ Len(new) = Len(b) /\ Len(b) \in Nat /\ DOMAIN b = 1..Len(b)
      /\ \A k \in 1..Len(b) : new[k].value = b[k] /\ new[k].time = now
  <2>1. Len(b) \in Nat /\ DOMAIN b = 1..Len(b) /\ now \in Nat
    BY <1>2, <1>3, <1>5 DEF TypeInv, IsEngine, now
  <2>2. \A k \in 1..Len(b) : [value |-> b[k], time |-> now] \in [value : Nat, time : Nat]
    BY <1>5, <2>1
  <2>3. DOMAIN new = 1..Len(b) /\ \A k \in 1..Len(b) : new[k] = [value |-> b[k], time |-> now]
    OBVIOUS
  <2>4. new \in Seq([value : Nat, time : Nat])
    BY <2>1, <2>2, IsASeq
  <2> HIDE DEF new
  <2> QED
    BY <2>1, <2>3, <2>4, LenProperties
<1> HIDE DEF new
<1> DEFINE n == Len(delivered)
           l == Len(b)
<1>9. /\ n \in Nat /\ l \in Nat /\ DOMAIN delivered = 1..n /\ DOMAIN delivered' = 1..(n + l)
      /\ \A i \in 1..n : delivered'[i] = delivered[i]
      /\ \A k \in 1..l : delivered'[n + k] = new[k]
  <2> DEFINE R == [value : Nat, time : Nat]
  <2>1. delivered \in Seq(R) /\ new \in Seq(R) /\ Len(new) = l
    BY <1>2, <1>8 DEF TypeInv
  <2> HIDE DEF R, l
  <2>2. /\ Len(delivered \o new) = n + l /\ delivered \o new \in Seq(R)
        /\ n \in Nat /\ DOMAIN delivered = 1..n
    <3>1. Len(delivered \o new) = Len(delivered) + Len(new) /\ delivered \o new \in Seq(R)
      BY <2>1, ConcatProperties
    <3>2. Len(delivered) \in Nat /\ DOMAIN delivered = 1..Len(delivered)
      BY <2>1, LenProperties
    <3> QED
      BY <2>1, <3>1, <3>2
  <2>3. \A i \in 1..(n + l) : (delivered \o new)[i] = IF i <= n THEN delivered[i] ELSE new[i - n]
    BY <2>1, ConcatProperties
  <2>4. DOMAIN delivered' = 1..(n + l)
    BY <1>1, <2>2
  <2>7. l \in Nat
    BY <1>8 DEF l
  <2>5. \A i \in 1..n : i \in 1..(n + l) /\ i <= n
    BY <2>2, <2>7
  <2>6. \A k \in 1..l : n + k \in 1..(n + l) /\ ~ (n + k <= n) /\ (n + k) - n = k
    BY <2>2, <2>7
  <2> QED
    BY <1>1, <2>7, <2>2, <2>3, <2>4, <2>5, <2>6
<1> HIDE DEF n, l
<1>10. \A i \in DOMAIN delivered' :
          \/ i \in DOMAIN delivered /\ i \in 1..n /\ delivered'[i] = delivered[i]
          \/ \E k \in DOMAIN b : i = n + k /\ delivered'[i].value = b[k] /\ delivered'[i].time = now
  <2>1. \A i \in 1..(n + l) : i \in 1..n \/ (i - n \in 1..l /\ i = n + (i - n))
    BY <1>9
  <2>2. \A k \in 1..l : delivered'[n + k].value = b[k] /\ delivered'[n + k].time = now
    BY <1>8, <1>9 DEF l
  <2>3. DOMAIN b = 1..l
    BY <1>8 DEF l
  <2>4. SUFFICES ASSUME NEW i \in DOMAIN delivered', i \notin 1..n
        PROVE \E k \in DOMAIN b : i = n + k /\ delivered'[i].value = b[k] /\ delivered'[i].time = now
    BY <1>9
  <2>5. i - n \in 1..l /\ i = n + (i - n)
    BY <1>9, <2>1, <2>4
  <2>6. PICK k \in 1..l : i = n + k
    BY <2>5
  <2> QED
    BY <2>2, <2>3, <2>6
<1>11. DeliveredValues' = DeliveredValues \cup Elements(b)
  <2>1. ASSUME NEW v \in DeliveredValues' PROVE v \in DeliveredValues \cup Elements(b)
    <3>1. PICK i \in DOMAIN delivered' : v = delivered'[i].value
      BY <2>1 DEF DeliveredValues
    <3> QED
      BY <1>10, <3>1 DEF DeliveredValues, Elements
  <2>2. ASSUME NEW v \in DeliveredValues PROVE v \in DeliveredValues'
    <3>1. PICK i \in DOMAIN delivered : v = delivered[i].value
      BY <2>2 DEF DeliveredValues
    <3>2. i \in DOMAIN delivered' /\ delivered'[i] = delivered[i]
      BY <1>9, <3>1
    <3> QED
      BY <3>1, <3>2 DEF DeliveredValues
  <2>3. ASSUME NEW v \in Elements(b) PROVE v \in DeliveredValues'
    <3>1. PICK k \in DOMAIN b : v = b[k]
      BY <2>3 DEF Elements
    <3>2. k \in 1..l
      BY <1>8, <3>1 DEF l
    <3>3. n + k \in DOMAIN delivered'
      BY <1>9, <3>2
    <3>4. delivered'[n + k].value = b[k]
      BY <1>8, <1>9, <3>2 DEF l
    <3> QED
      BY <3>1, <3>3, <3>4 DEF DeliveredValues
  <2> QED
    BY <2>1, <2>2, <2>3
<1>12. TimesInv'
  <2> SUFFICES ASSUME ~ Realtime, NEW i \in DOMAIN delivered' PROVE delivered'[i].time = T(delivered'[i].value)
    BY <1>7 DEF TimesInv
  <2>1. CASE i \in DOMAIN delivered /\ delivered'[i] = delivered[i]
    BY <1>2, <2>1 DEF TimesInv
  <2>2. CASE \E k \in DOMAIN b : i = n + k /\ delivered'[i].value = b[k] /\ delivered'[i].time = now
    <3>1. PICK k \in DOMAIN b : delivered'[i].value = b[k] /\ delivered'[i].time = now
      BY <2>2
    <3>2. b # <<>>
      BY <3>1
    <3>3. PICK x \in 1..source : b = <<x>> /\ T(x) = now
      BY <1>5, <3>2
    <3>4. b[k] = x
      BY <3>1, <3>3
    <3> QED
      BY <3>1, <3>3, <3>4
  <2> QED
    BY <1>10, <2>1, <2>2
<1>13. OrderInv'
  <2>1. ASSUME NEW i \in DOMAIN delivered', NEW j \in DOMAIN delivered', i < j
        PROVE  delivered'[i].value < delivered'[j].value
    <3>1. CASE i \in DOMAIN delivered /\ j \in DOMAIN delivered /\ delivered'[i] = delivered[i] /\ delivered'[j] = delivered[j]
      BY <1>2, <2>1, <3>1 DEF OrderInv
    <3>2. CASE /\ i \in DOMAIN delivered /\ delivered'[i] = delivered[i]
               /\ \E k \in DOMAIN b : j = n + k /\ delivered'[j].value = b[k]
      <4>1. delivered'[i].value \in DeliveredValues
        BY <3>2 DEF DeliveredValues
      <4>2. delivered'[j].value \in Held("main")
        BY <1>5, <3>2 DEF Elements
      <4> QED
        BY <1>2, <4>1, <4>2 DEF StageInv, Chain, Below
    <3>3. CASE /\ \E k \in DOMAIN b : i = n + k /\ delivered'[i].value = b[k]
               /\ \E k \in DOMAIN b : j = n + k /\ delivered'[j].value = b[k]
      <4>1. PICK x \in DOMAIN b, y \in DOMAIN b : i = n + x /\ delivered'[i].value = b[x] /\ j = n + y /\ delivered'[j].value = b[y]
        BY <3>3
      <4>2. x < y
        BY <1>8, <1>9, <2>1, <4>1
      <4> QED
        BY <1>5, <4>1, <4>2 DEF Rising
    <3>4. CASE /\ \E k \in DOMAIN b : i = n + k
               /\ j \in 1..n
      <4>1. PICK x \in DOMAIN b : i = n + x
        BY <3>4
      <4>2. x \in 1..l
        BY <1>8, <4>1 DEF l
      <4> QED
        BY <1>9, <2>1, <3>4, <4>1, <4>2
    <3> QED
      BY <1>10, <2>1, <3>1, <3>2, <3>3, <3>4
  <2>2. \A h \in Thread : Rising(recv'[h].values) /\ Ordered(recv'[h].queue)
    BY <1>1, <1>3, <1>4, DeliveredForms
  <2> QED
    BY <1>1, <1>2, <2>1, <2>2 DEF OrderInv
<1>14. FormInv'
  <2>1. /\ \A h \in Thread : \A i \in DOMAIN recv'[h].queue :
              FormOf(recv'[h].queue[i]) /\ recv'[h].queue[i].kind = "HistoricalValue"
        /\ ~ Realtime => \A h \in Thread : recv'[h].values = <<>>
    BY <1>1, <1>3, <1>4, DeliveredForms
  <2> QED
    BY <1>1, <1>2, <1>7, <2>1 DEF FormInv, FormOf
<1>15. ChannelInv'
  BY <1>1, <1>3, <1>4, ChannelDelivers
<1>16. ProducerInv'
  BY <1>1, <1>2, <1>6, <1>7 DEF ProducerInv
<1>17. StageInv'
  <2> DEFINE A == DeliveredValues
             B == Held("main")
             C == ValuesOf(chan["out"])
             D == Held("worker")
             E == ValuesOf(chan["in"])
             X == Elements(b)
             Y == ValuesOf(w)
  <2>1. Chain(A, B, C, D, E) /\ A \cup B \cup C \cup D \cup E \subseteq 1..source /\ B = X \cup Y /\ Below(X, Y)
    BY <1>2, <1>5 DEF StageInv
  <2>2. DeliveredValues' = A \cup X /\ Held("main")' = Y /\ Held("worker")' = D
    BY <1>6, <1>11
  <2> HIDE DEF A, B, C, D, E, X, Y
  <2>3. Chain(A \cup X, Y, C, D, E)
    <3>1. X \in SUBSET X
      OBVIOUS
    <3> QED
      BY <2>1, <3>1, ChainDelivers
  <2>4. (A \cup X) \cup Y \cup C \cup D \cup E \subseteq 1..source
    BY <2>1
  <2> QED
    BY <1>1, <2>2, <2>3, <2>4 DEF StageInv, C, E
<1> QED
  BY <1>11, <1>12, <1>13, <1>14, <1>15, <1>16, <1>17 DEF ValueInv, b

(* Values that a worker answers move from its receiver to the other        *)
(* channel.                                                                *)
LEMMA DeliverWorkerValues ==
  ASSUME IInv, TypeInv', DeliverWorker
  PROVE  ValueInv'
<1> DEFINE b == BurstOf("worker")
           w == Waiting(recv["worker"], engine["worker"].time)
           now == engine["worker"].time
           p == Pick(b)
<1>1. /\ UNCHANGED <<kind, mode, run_for, source, senders, receivers, notifier, delivered>>
      /\ Delivered("worker") /\ pc["worker"] = "deliver" /\ pc'["main"] = pc["main"]
      /\ pc'["worker"] \in {"notify", "top"}
      /\ IF b = <<>> THEN chan' = chan ELSE chan' = [chan EXCEPT !["out"] = Append(@, Reply)]
  BY DeliverWorkerFrame DEF IInv
<1>2. TypeInv /\ ChannelInv /\ ProducerInv /\ FormInv /\ OrderInv /\ StageInv /\ TimesInv
  BY DEF IInv
<1>3. /\ "main" \in Thread /\ "worker" \in Thread /\ \A h \in Thread : h = "main" \/ h = "worker"
      /\ "in" \in Channel /\ "out" \in Channel /\ \A d \in Channel : d = "in" \/ d = "out"
      /\ Outgoing("worker") = "out"
  BY Threads
<1>4. Splits("worker")
  BY <1>1, <1>3, DeliverSplits
<1>5. /\ b \in Seq(Nat) /\ Rising(b)
      /\ Held("worker") = Elements(b) \cup ValuesOf(w) /\ Below(Elements(b), ValuesOf(w))
      /\ ~ Realtime => b = <<>> \/ (\E k \in 1..source : b = <<k>> /\ T(k) = now)
  BY <1>4 DEF Splits
<1>6. /\ Held("worker")' = ValuesOf(w) /\ Held("main")' = Held("main")
      /\ recv'["worker"].values = <<>> /\ recv'["worker"].queue = w
      /\ \A h \in Thread : recv'[h].finished = recv[h].finished
  BY <1>1, <1>2, <1>3, <1>4, DeliveredHeld
<1>7. (Realtime' <=> Realtime) /\ (Mapper' <=> Mapper) /\ Realtime' = Realtime
  BY <1>1 DEF Realtime, Mapper
<1>8. TimesInv'
  BY <1>1, <1>2, <1>7 DEF TimesInv
<1>9. DeliveredValues' = DeliveredValues
  BY <1>1 DEF DeliveredValues
<1>10. p \in Seq(Nat) /\ Rising(p) /\ Elements(p) \subseteq Elements(b)
  BY <1>5, PickFilters
<1>11. /\ \A h \in Thread : \A i \in DOMAIN recv'[h].queue :
              FormOf(recv'[h].queue[i]) /\ recv'[h].queue[i].kind = "HistoricalValue"
       /\ ~ Realtime => \A h \in Thread : recv'[h].values = <<>>
       /\ \A h \in Thread : Rising(recv'[h].values) /\ Ordered(recv'[h].queue)
  BY <1>1, <1>3, <1>4, DeliveredForms
<1>12. ~ Mapper => b = <<>> /\ ValuesOf(w) = {}
  <2> SUFFICES ASSUME ~ Mapper PROVE b = <<>> /\ ValuesOf(w) = {}
    OBVIOUS
  <2>1. Held("worker") = {}
    BY <1>2, NoValues DEF ProducerInv, Held
  <2>2. Elements(b) = {} /\ ValuesOf(w) = {}
    BY <1>5, <2>1
  <2> QED
    BY <1>5, <2>2, NoneElse
<1> DEFINE A == DeliveredValues
           B == Held("main")
           C == ValuesOf(chan["out"])
           D == Held("worker")
           E == ValuesOf(chan["in"])
           X == Elements(b)
           Y == ValuesOf(w)
           P == Elements(p)
<1>13. Chain(A, B, C, D, E) /\ A \cup B \cup C \cup D \cup E \subseteq 1..source /\ D = X \cup Y /\ Below(X, Y)
       /\ P \in SUBSET X
  BY <1>2, <1>5, <1>10 DEF StageInv
<1>14. Chain(A, B, C \cup P, Y, E) /\ A \cup B \cup (C \cup P) \cup Y \cup E \subseteq 1..source
  <2> HIDE DEF A, B, C, D, E, X, Y, P
  <2> QED
    BY <1>13, ChainDelivers
<1>15. CASE b = <<>>
  <2>1. chan' = chan
    BY <1>1, <1>15
  <2>2. ChannelInv'
    BY <1>1, <1>3, <1>4, <2>1, ChannelDelivers
  <2>3. FormInv'
    BY <1>1, <1>2, <1>7, <1>11, <2>1 DEF FormInv, FormOf
  <2>4. OrderInv'
    BY <1>1, <1>2, <1>11, <2>1 DEF OrderInv
  <2>5. Elements(b) = {}
    BY <1>15, NoValues
  <2>6. P = {}
    BY <1>10, <2>5
  <2>7. StageInv'
    BY <1>1, <1>6, <1>9, <1>14, <2>1, <2>6 DEF StageInv
  <2>8. ProducerInv'
    <3>1. ~ Mapper => recv'["worker"].queue = <<>>
      <4> SUFFICES ASSUME ~ Mapper PROVE w = <<>>
        BY <1>6
      <4>1. recv["worker"].queue = <<>> /\ recv["worker"].values \in Seq(Nat)
        BY <1>2, <1>3 DEF ProducerInv, TypeInv, IsRecv
      <4> QED
        BY <4>1, BurstOfNone
    <3> QED
      BY <1>1, <1>2, <1>6, <1>7, <2>1, <3>1 DEF ProducerInv
  <2> QED
    BY <1>8, <2>2, <2>3, <2>4, <2>7, <2>8 DEF ValueInv
<1>16. CASE b # <<>>
  <2> DEFINE m == Reply
  <2>1. chan' = [chan EXCEPT !["out"] = Append(@, m)] /\ Mapper
    BY <1>1, <1>12, <1>16
  <2>2. /\ m \in Message /\ m.value = p /\ m.kind \in {"HistoricalValue", "RealtimeValue", "CheckPoint"}
        /\ IF p = <<>> THEN m = CheckPoint(now) ELSE m = ValueMessage(p, now)
    BY <1>2, ReplyIs
  <2>3. Form(m, Realtime, source')
    <3>1. CASE p = <<>>
      <4>1. m.kind = "CheckPoint" /\ m.value = <<>>
        BY <2>2, <3>1 DEF CheckPoint
      <4> QED
        BY <4>1 DEF Form
    <3>2. CASE p # <<>> /\ Realtime
      <4>1. m.kind = "RealtimeValue"
        <5>1. now \in Nat
          BY <1>2, <1>3 DEF TypeInv, IsEngine
        <5> HIDE DEF p, now
        <5> QED
          BY <1>10, <2>2, <3>2, <5>1, ValueMessageIs
      <4> QED
        BY <3>2, <4>1 DEF Form
    <3>3. CASE p # <<>> /\ ~ Realtime
      <4>1. PICK k \in 1..source : b = <<k>> /\ T(k) = now
        BY <1>5, <1>16, <3>3
      <4>2. source \in Nat /\ k \in Nat /\ now \in Nat
        BY <1>2, <1>3, <4>1 DEF TypeInv, IsEngine
      <4>3. p = <<k>>
        BY <3>3, <4>1, <4>2, PickOne
      <4>4. m.kind = "HistoricalValue" /\ m.time = now
        <5> HIDE DEF p, now, m
        <5>1. m = ValueMessage(p, now)
          BY <2>2, <3>3
        <5> QED
          BY <1>10, <3>3, <4>2, <5>1, ValueMessageIs
      <4>5. m.value = <<k>>
        BY <2>2, <4>3
      <4> HIDE DEF m, now
      <4>6. m.value[1] = k
        BY <4>5
      <4> QED
        BY <1>1, <3>3, <4>1, <4>4, <4>5, <4>6 DEF Form
    <3> QED
      BY <3>1, <3>2, <3>3
  <2>4. ChannelInv'
    <3>1. ~ Over("worker") /\ m.kind # "EndOfStream"
      BY <1>1, <2>2 DEF Over
    <3>2. \A h \in Thread : h # "worker" => pc'[h] = pc[h]
      BY <1>1, <1>3
    <3> HIDE DEF m
    <3> QED
      BY <1>1, <1>2, <1>3, <1>6, <2>1, <2>2, <3>1, <3>2, ChannelPush
  <2>5. source <= source'
    BY <1>1, <1>2 DEF TypeInv
  <2> HIDE DEF m
  <2>6. FormInv'
    BY <1>1, <1>2, <1>3, <1>11, <2>1, <2>2, <2>3, <2>5, PushForms
  <2>7. \A x \in C, y \in P : x < y
    BY <1>13 DEF Chain, Below
  <2>8. chan'["in"] = chan["in"] /\ ValuesOf(chan'["out"]) = C \cup P /\ Ordered(chan'["out"])
    <3>1. Ordered(chan["out"])
      BY <1>2, <1>3 DEF OrderInv
    <3>2. /\ \A d \in Channel : d # "out" => chan'[d] = chan[d]
          /\ ValuesOf(chan'["out"]) = ValuesOf(chan["out"]) \cup Elements(m.value)
          /\ (/\ Ordered(chan["out"]) /\ Rising(m.value)
              /\ \A x \in ValuesOf(chan["out"]), y \in Elements(m.value) : x < y) => Ordered(chan'["out"])
      <4> HIDE DEF p, b
      <4> QED
        BY <1>2, <1>3, <2>1, <2>2, PushedMessages
    <3>3. Rising(m.value) /\ Elements(m.value) = P
      BY <1>10, <2>2
    <3> QED
      BY <1>3, <2>7, <3>1, <3>2, <3>3
  <2>9. OrderInv'
    <3>1. \A d \in Channel : Ordered(chan'[d])
      BY <1>2, <1>3, <2>8 DEF OrderInv
    <3> QED
      BY <1>1, <1>2, <1>11, <3>1 DEF OrderInv
  <2>10. StageInv'
    BY <1>1, <1>6, <1>9, <1>14, <2>8 DEF StageInv
  <2>11. ProducerInv'
    BY <1>1, <1>2, <1>7, <2>1 DEF ProducerInv
  <2> QED
    BY <1>8, <2>4, <2>6, <2>9, <2>10, <2>11 DEF ValueInv
<1> QED
  BY <1>15, <1>16

(* Whatever the step, the values stay in order, each with its time. *)
LEMMA ValueStep ==
  ASSUME IInv, Next
  PROVE  ValueInv'
<1>1. TypeInv'
  BY TypeStep DEF IInv
<1> QED
  BY <1>1, StepCases, ValueQuiet, BeginValues, ReceiveValues, StopValues, DeliverMainValues, DeliverWorkerValues

-----------------------------------------------------------------------------
(* The steps of a replay that move no message, by what they do to a thread *)

(* The steps that move no message, in a replay. *)
Moves(g, from, to) ==
  pc[g] \in from /\ pc'[g] \in to /\ \A h \in Thread : h # g => pc'[h] = pc[h]

ErrorSame == \A h \in Thread : engine'[h].error = engine[h].error

StartsMain ==
  /\ pc["main"] = "setup" /\ pc["worker"] = "none" /\ pc'["main"] = "top" /\ pc'["worker"] = "setup"
  /\ engine' = FirstCallback("main")
StartsWorker == Moves("worker", {"setup"}, {"top"}) /\ engine' = FirstCallback("worker")
Quits(g) ==
  /\ Moves(g, {"top"}, {"stop"}) /\ engine' = engine
  /\ Finished(g) \/ Wakeups(g) = {}
HasTaken(g) == Moves(g, {"receive"}, {"deliver"}) /\ engine' = engine /\ HasRead(g)
Fails(g) ==
  /\ Moves(g, {"deliver", "failed"}, {"stop"}) /\ (g = "main" => pc[g] = "failed")
  /\ \A h \in Thread : EngineSame(h)
  /\ engine'[g].error \in {"node", "closed"} /\ \A h \in Thread : h # g => engine'[h].error = engine[h].error
WindsDown(g) ==
  /\ Moves(g, Ended \cup {"release", "disconnect"}, Ended \cup {"release", "disconnect"})
  /\ g = "main" => pc[g] \in Ended /\ pc'[g] \in Ended
  /\ pc'[g] \notin {"end", "stop"}
  /\ \A h \in Thread : EngineSame(h)
  /\ \A h \in Thread : \/ engine'[h].error = engine[h].error
                       \/ engine[h].error = "none" /\ engine'[h].error = "timeout"

(* What a step that moves no message can be in a replay. *)
LEMMA QuietReplay ==
  ASSUME TypeInv, PhaseInv, QuietStep, ~ Realtime
  PROVE  /\ notifier' = {}
         /\ \/ StartsMain \/ StartsWorker
            \/ \E g \in Thread : Quits(g) \/ HasTaken(g) \/ Fails(g) \/ WindsDown(g)
<1>0. /\ DOMAIN pc = Thread /\ pc \in [Thread -> Pcs] /\ Thread = {"main", "worker"} /\ notifier = {}
      /\ \A g \in Thread : pc[g] \notin {"notify", "end", "await"} /\ engine[g].error # "setup"
      /\ pc["main"] = "setup" => pc["worker"] = "none"
  BY DEF TypeInv, PhaseInv, Thread
<1>1. \A l : \A g \in Thread : Goto(g, l) => pc'[g] = l /\ \A h \in Thread : h # g => pc'[h] = pc[h]
  BY <1>0 DEF Goto
<1>2. UNCHANGED engine => (\A h \in Thread : EngineSame(h)) /\ ErrorSame
  BY DEF EngineSame, ErrorSame
<1>3. CASE SetupMain
  <2>1. StartsMain /\ notifier' = {}
    BY <1>0, <1>3 DEF SetupMain, StartsMain
  <2> QED
    BY <2>1
<1>4. CASE SetNotifier \/ NotifierTimeout \/ SetupWorkerFails
  BY <1>0, <1>4 DEF SetNotifier, NotifierTimeout, SetupWorkerFails
<1>5. CASE SetupWorker
  <2>1. StartsWorker /\ notifier' = {}
    BY <1>0, <1>1, <1>5 DEF SetupWorker, StartsWorker, Moves, links
  <2> QED
    BY <2>1
<1>6. ASSUME NEW g \in Thread, EndRun(g) PROVE Quits(g) /\ notifier' = {}
  BY <1>0, <1>1, <1>6 DEF EndRun, Quits, Moves, links
<1>7. ASSUME NEW g \in Thread, ReceiveDone(g) PROVE HasTaken(g) /\ notifier' = {}
  BY <1>0, <1>1, <1>7 DEF ReceiveDone, HasTaken, Moves, links
<1>8. ASSUME NEW g \in Thread, Notify(g) PROVE FALSE
  BY <1>0, <1>8 DEF Notify
<1>9. ASSUME NEW g \in Thread, SendFails(g) PROVE Fails(g) /\ notifier' = {}
  <2>1. engine' = [engine EXCEPT ![g].error = "closed"] /\ "closed" \in Errors /\ pc[g] = "failed" /\ pc'[g] = "stop"
        /\ notifier' = {} /\ \A h \in Thread : h # g => pc'[h] = pc[h]
    BY <1>0, <1>1, <1>9 DEF SendFails, Errors, links
  <2>2. \A h \in Thread : /\ engine'[h].time = engine[h].time /\ engine'[h].first = engine[h].first
                           /\ engine'[h].callbacks = engine[h].callbacks
                           /\ engine'[h].error = IF h = g THEN "closed" ELSE engine[h].error
    BY <2>1, ErrorFields
  <2>3. \A h \in Thread : EngineSame(h)
    BY <2>2 DEF EngineSame
  <2>4. engine'[g].error = "closed" /\ \A h \in Thread : h # g => engine'[h].error = engine[h].error
    BY <2>2
  <2>5. Moves(g, {"deliver", "failed"}, {"stop"})
    BY <2>1 DEF Moves
  <2> QED
    BY <2>1, <2>3, <2>4, <2>5 DEF Fails
<1>10. CASE WorkerFails
  <2>1. engine' = [engine EXCEPT !["worker"].error = "node"] /\ "node" \in Errors /\ "worker" \in Thread
        /\ pc["worker"] = "deliver" /\ pc'["worker"] = "stop"
        /\ notifier' = {} /\ \A h \in Thread : h # "worker" => pc'[h] = pc[h]
    BY <1>0, <1>1, <1>10 DEF WorkerFails, Errors, links
  <2>2. \A h \in Thread : /\ engine'[h].time = engine[h].time /\ engine'[h].first = engine[h].first
                           /\ engine'[h].callbacks = engine[h].callbacks
                           /\ engine'[h].error = IF h = "worker" THEN "node" ELSE engine[h].error
    BY <2>1, ErrorFields
  <2>3. \A h \in Thread : EngineSame(h)
    BY <2>2 DEF EngineSame
  <2>4. engine'["worker"].error = "node" /\ \A h \in Thread : h # "worker" => engine'[h].error = engine[h].error
    BY <2>1, <2>2
  <2>5. Moves("worker", {"deliver", "failed"}, {"stop"})
    BY <2>1 DEF Moves
  <2>6. Fails("worker")
    BY <2>3, <2>4, <2>5 DEF Fails
  <2> QED
    BY <2>1, <2>6
<1>11. CASE Join \/ Release \/ Disconnect
  <2>1. UNCHANGED engine /\ notifier' = {}
    BY <1>0, <1>11 DEF Join, Release, Disconnect, links
  <2>2. CASE Join
    <3>1. WindsDown("main")
      BY <1>0, <1>1, <1>2, <2>1, <2>2 DEF Join, WindsDown, Moves, Ended, ErrorSame
    <3> QED
      BY <1>0, <2>1, <3>1
  <2>3. CASE Release \/ Disconnect
    <3>1. WindsDown("worker")
      BY <1>0, <1>1, <1>2, <2>1, <2>3 DEF Release, Disconnect, WindsDown, Moves, Ended, ErrorSame
    <3> QED
      BY <1>0, <2>1, <3>1
  <2> QED
    BY <1>11, <2>2, <2>3
<1>12. ASSUME NEW g \in Thread, Close(g) \/ Teardown(g) PROVE WindsDown(g) /\ notifier' = {}
  <2>1. UNCHANGED engine /\ notifier' = {}
    BY <1>0, <1>12 DEF Close, Teardown, links
  <2>2. CASE Close(g)
    BY <1>0, <1>1, <1>2, <2>1, <2>2 DEF Close, WindsDown, Moves, Ended, ErrorSame
  <2>3. CASE Teardown(g)
    <3>1. pc[g] = "teardown" /\ pc'[g] = (IF g = "main" THEN "join" ELSE "release")
          /\ \A h \in Thread : h # g => pc'[h] = pc[h]
      BY <1>1, <2>3 DEF Teardown
    <3> QED
      BY <1>0, <1>2, <2>1, <3>1 DEF WindsDown, Moves, Ended, ErrorSame
  <2> QED
    BY <1>12, <2>2, <2>3
<1>13. ASSUME NEW g \in Thread, TeardownTimeout(g) PROVE WindsDown(g) /\ notifier' = {}
  <2> DEFINE x == IF engine[g].error = "none" THEN "timeout" ELSE engine[g].error
  <2>1. engine' = [engine EXCEPT ![g].error = x] /\ notifier' = {} /\ pc[g] = "teardown"
        /\ pc'[g] = (IF g = "main" THEN "done" ELSE "release") /\ \A h \in Thread : h # g => pc'[h] = pc[h]
    BY <1>0, <1>1, <1>13 DEF TeardownTimeout, links
  <2>2. engine[g].error \in Errors
    BY DEF TypeInv, IsEngine
  <2>3. x \in Errors /\ (x = engine[g].error \/ (engine[g].error = "none" /\ x = "timeout"))
    BY <2>2 DEF Errors
  <2> HIDE DEF x
  <2>4. \A h \in Thread : EngineSame(h) /\ engine'[h].error = IF h = g THEN x ELSE engine[h].error
    BY <2>1, <2>3, ErrorFields DEF EngineSame
  <2>5. Moves(g, Ended \cup {"release", "disconnect"}, Ended \cup {"release", "disconnect"})
    BY <2>1 DEF Moves, Ended
  <2> QED
    BY <2>1, <2>3, <2>4, <2>5 DEF WindsDown, Ended
<1> QED
  BY <1>3, <1>4, <1>5, <1>6, <1>7, <1>8, <1>9, <1>10, <1>11, <1>12, <1>13, Threads DEF QuietStep

(* A step that moves no message starts the worker last, and refuses        *)
(* nothing.                                                                *)
LEMMA QuietPhase ==
  ASSUME TypeInv, PhaseInv, QuietStep
  PROVE  /\ pc'["main"] = "setup" => pc'["worker"] = "none"
         /\ \A g \in Thread : engine'[g].error # "refused"
<1>0. /\ DOMAIN pc = Thread /\ Thread = {"main", "worker"} /\ \A g \in Thread : engine[g].error # "refused"
      /\ pc["main"] = "setup" => pc["worker"] = "none"
  BY DEF TypeInv, PhaseInv, Thread
<1>1. \A l : \A g \in Thread : Goto(g, l) => pc'[g] = l /\ \A h \in Thread : h # g => pc'[h] = pc[h]
  BY <1>0 DEF Goto
<1>2. \A g \in Thread, x \in Errors \ {"refused"} : engine' = [engine EXCEPT ![g].error = x]
         => \A h \in Thread : engine'[h].error # "refused"
  <2> SUFFICES ASSUME NEW g \in Thread, NEW x \in Errors \ {"refused"}, engine' = [engine EXCEPT ![g].error = x]
               PROVE  \A h \in Thread : engine'[h].error # "refused"
    OBVIOUS
  <2>1. x \in Errors /\ x # "refused"
    OBVIOUS
  <2>2. \A h \in Thread : engine'[h].error = IF h = g THEN x ELSE engine[h].error
    BY <2>1, ErrorFields
  <2> QED
    BY <1>0, <2>1, <2>2
<1>3. "main" \in Thread /\ "worker" \in Thread
  BY <1>0
<1>4. CASE SetupMain
  <2>1. pc'["main"] # "setup" /\ engine' = FirstCallback("main")
    BY <1>4 DEF SetupMain
  <2>2. \A h \in Thread : engine'[h].error = engine[h].error
    BY <1>3, <2>1, FirstCallbackIs
  <2> QED
    BY <1>0, <2>1, <2>2
<1>5. CASE SetNotifier
  BY <1>0, <1>1, <1>3, <1>5 DEF SetNotifier
<1>6. CASE NotifierTimeout
  <2>1. engine' = [engine EXCEPT !["main"].error = "setup"] /\ pc'["main"] # "setup" /\ "setup" \in Errors \ {"refused"}
    BY <1>1, <1>3, <1>6 DEF NotifierTimeout, Errors
  <2> QED
    BY <1>2, <1>3, <2>1
<1>7. CASE SetupWorker
  <2>1. pc'["main"] # "setup" /\ engine' = FirstCallback("worker")
    BY <1>0, <1>1, <1>3, <1>7 DEF SetupWorker
  <2>2. \A h \in Thread : engine'[h].error = engine[h].error
    BY <1>3, <2>1, FirstCallbackIs
  <2> QED
    BY <1>0, <2>1, <2>2
<1>8. CASE SetupWorkerFails
  <2>1. engine' = [engine EXCEPT !["worker"].error = "setup"] /\ pc'["main"] # "setup" /\ "setup" \in Errors \ {"refused"}
    BY <1>0, <1>1, <1>3, <1>8 DEF SetupWorkerFails, Errors
  <2> QED
    BY <1>2, <1>3, <2>1
<1>9. CASE WorkerFails
  <2>1. engine' = [engine EXCEPT !["worker"].error = "node"] /\ pc'["main"] # "setup" /\ "node" \in Errors \ {"refused"}
    BY <1>0, <1>1, <1>3, <1>9 DEF WorkerFails, Errors
  <2> QED
    BY <1>2, <1>3, <2>1
<1>10. CASE Join \/ Release \/ Disconnect
  BY <1>0, <1>1, <1>3, <1>10 DEF Join, Release, Disconnect
<1>11. ASSUME NEW g \in Thread, EndRun(g) \/ Notify(g) \/ ReceiveDone(g) \/ Close(g) \/ Teardown(g)
       PROVE  /\ pc'["main"] = "setup" => pc'["worker"] = "none"
              /\ \A h \in Thread : engine'[h].error # "refused"
  <2>1. UNCHANGED engine /\ \E l \in Pcs \ {"setup"} : Goto(g, l) /\ pc[g] # "none"
    BY <1>11 DEF EndRun, Notify, ReceiveDone, Close, Teardown, AfterSend, Pcs
  <2> QED
    BY <1>0, <1>1, <1>3, <2>1
<1>12. ASSUME NEW g \in Thread, SendFails(g) \/ TeardownTimeout(g)
       PROVE  /\ pc'["main"] = "setup" => pc'["worker"] = "none"
              /\ \A h \in Thread : engine'[h].error # "refused"
  <2>1. engine[g].error \in Errors /\ engine[g].error # "refused"
    BY <1>0 DEF TypeInv, IsEngine
  <2>2. \E x \in Errors \ {"refused"} : engine' = [engine EXCEPT ![g].error = x]
    <3>1. CASE SendFails(g)
      BY <3>1 DEF SendFails, Errors
    <3>2. CASE TeardownTimeout(g)
      <4>1. (IF engine[g].error = "none" THEN "timeout" ELSE engine[g].error) \in Errors \ {"refused"}
        BY <2>1 DEF Errors
      <4>2. engine' = [engine EXCEPT ![g].error = IF engine[g].error = "none" THEN "timeout" ELSE engine[g].error]
        BY <3>2 DEF TeardownTimeout
      <4> QED
        BY <4>1, <4>2
    <3> QED
      BY <1>12, <3>1, <3>2
  <2>3. \E l \in Pcs \ {"setup"} : Goto(g, l) /\ pc[g] # "none"
    BY <1>12 DEF SendFails, TeardownTimeout, Pcs
  <2> QED
    BY <1>0, <1>1, <1>2, <1>3, <2>2, <2>3
<1> QED
  BY <1>4, <1>5, <1>6, <1>7, <1>8, <1>9, <1>10, <1>11, <1>12 DEF QuietStep

(* A step keeps the phases. *)
LEMMA PhaseStep ==
  ASSUME IInv, Next
  PROVE  PhaseInv'
<1>0. /\ TypeInv /\ PhaseInv /\ Thread = {"main", "worker"} /\ \A g \in Thread : engine[g].error # "refused"
      /\ pc["main"] = "setup" => pc["worker"] = "none"
      /\ ~ Realtime => /\ notifier = {}
                       /\ \A g \in Thread : pc[g] \notin {"notify", "end", "await"} /\ engine[g].error # "setup"
  BY DEF IInv, PhaseInv, Thread
<1>1. CASE QuietStep
  <2>1. Realtime' <=> Realtime
    BY <1>0, <1>1, QuietFrame DEF Realtime
  <2>2. /\ pc'["main"] = "setup" => pc'["worker"] = "none"
        /\ \A g \in Thread : engine'[g].error # "refused"
    BY <1>0, <1>1, QuietPhase
  <2>3. ASSUME ~ Realtime PROVE /\ notifier' = {}
                                /\ \A g \in Thread : pc'[g] \notin {"notify", "end", "await"} /\ engine'[g].error # "setup"
    <3>1. /\ notifier' = {}
          /\ \/ StartsMain \/ StartsWorker
             \/ \E g \in Thread : Quits(g) \/ HasTaken(g) \/ Fails(g) \/ WindsDown(g)
      BY <1>0, <1>1, <2>3, QuietReplay
    <3>2. /\ \A g \in Thread : pc[g] \notin {"notify", "end", "await"} /\ engine[g].error # "setup"
          /\ "main" \in Thread /\ "worker" \in Thread
      BY <1>0, <2>3
    <3>3. CASE StartsMain
      <4>1. \A h \in Thread : engine'[h].error = engine[h].error
        BY <1>0, <3>2, <3>3, FirstCallbackIs DEF StartsMain
      <4>2. pc'["main"] = "top" /\ pc'["worker"] = "setup"
        BY <3>3 DEF StartsMain
      <4> QED
        BY <1>0, <3>1, <3>2, <4>1, <4>2
    <3>4. CASE StartsWorker
      <4>1. \A h \in Thread : engine'[h].error = engine[h].error
        BY <1>0, <3>2, <3>4, FirstCallbackIs DEF StartsWorker
      <4> QED
        BY <1>0, <3>1, <3>2, <3>4, <4>1 DEF StartsWorker, Moves
    <3>5. ASSUME NEW g \in Thread, Quits(g) \/ HasTaken(g) PROVE \A h \in Thread : pc'[h] \notin {"notify", "end", "await"} /\ engine'[h].error # "setup"
      BY <3>2, <3>5 DEF Quits, HasTaken, Moves
    <3>6. ASSUME NEW g \in Thread, Fails(g) PROVE \A h \in Thread : pc'[h] \notin {"notify", "end", "await"} /\ engine'[h].error # "setup"
      BY <3>2, <3>6 DEF Fails, Moves
    <3>7. ASSUME NEW g \in Thread, WindsDown(g) PROVE \A h \in Thread : pc'[h] \notin {"notify", "end", "await"} /\ engine'[h].error # "setup"
      BY <3>2, <3>7 DEF WindsDown, Moves, Ended
    <3> QED
      BY <3>1, <3>3, <3>4, <3>5, <3>6, <3>7
  <2> QED
    BY <2>1, <2>2, <2>3 DEF PhaseInv
<1>2. ASSUME NEW g \in Thread, BeginHistorical(g) \/ BeginRealtime(g) PROVE PhaseInv'
  <2>1. /\ UNCHANGED <<mode, notifier>> /\ pc[g] = "top" /\ \A h \in Thread : h # g => pc'[h] = pc[h]
        /\ engine'[g].time \in Nat /\ engine' = Begun(g, engine'[g].time)
        /\ Ticks(g) \/ pc'[g] = "receive"
    BY <1>0, <1>2, BeginFrame
  <2>2. \A h \in Thread : engine'[h].error = engine[h].error
    BY <1>0, <2>1, BegunFields
  <2>3. pc'[g] \in {"receive", "top", "failed", "notify"} /\ (notifier = {} => pc'[g] # "notify")
    BY <2>1 DEF Ticks, AfterPush, AfterSend
  <2>4. Realtime' <=> Realtime
    BY <2>1 DEF Realtime
  <2>5. pc'["main"] = "setup" => pc'["worker"] = "none"
    BY <1>0, <2>1, <2>3
  <2> QED
    BY <1>0, <2>1, <2>2, <2>3, <2>4, <2>5 DEF PhaseInv
<1>3. ASSUME NEW g \in Thread, Receive(g) PROVE PhaseInv'
  <2>1. UNCHANGED <<mode, notifier, engine, pc>>
    BY <1>0, <1>3, NotRefused, ReceiveFrame
  <2> QED
    BY <1>0, <2>1 DEF PhaseInv, Realtime
<1>4. ASSUME NEW g \in Thread, Stop(g) PROVE PhaseInv'
  <2>1. /\ UNCHANGED <<mode, notifier, engine>> /\ pc[g] = "stop" /\ \A h \in Thread : h # g => pc'[h] = pc[h]
        /\ pc'[g] \in {"end", "close"} /\ (notifier = {} => pc'[g] = "close")
    BY <1>0, <1>4, StopFrame
  <2> QED
    BY <1>0, <2>1 DEF PhaseInv, Realtime
<1>5. CASE DeliverMain
  <2>1. /\ UNCHANGED <<mode, notifier>> /\ Delivered("main")
        /\ pc["main"] = "deliver" /\ pc'["worker"] = pc["worker"] /\ pc'["main"] = "top" /\ "main" \in Thread
    BY <1>0, <1>5, DeliverMainFrame
  <2>2. \A h \in Thread : engine'[h].error = engine[h].error
    BY <1>0, <2>1, DeliveredFrame
  <2> QED
    BY <1>0, <2>1, <2>2 DEF PhaseInv, Realtime
<1>6. CASE DeliverWorker
  <2>1. /\ UNCHANGED <<mode, notifier>> /\ Delivered("worker") /\ pc["worker"] = "deliver" /\ pc'["main"] = pc["main"]
        /\ pc'["worker"] \in {"notify", "top"} /\ (notifier = {} => pc'["worker"] = "top") /\ "worker" \in Thread
    BY <1>0, <1>6, DeliverWorkerFrame
  <2>2. \A h \in Thread : engine'[h].error = engine[h].error
    BY <1>0, <2>1, DeliveredFrame
  <2> QED
    BY <1>0, <2>1, <2>2 DEF PhaseInv, Realtime
<1> QED
  BY <1>1, <1>2, <1>3, <1>4, <1>5, <1>6, StepCases

-----------------------------------------------------------------------------
(* The thread of the source in a replay *)

(* The earliest of one time. *)
LEMMA EarliestOne ==
  ASSUME NEW t \in Nat
  PROVE  Earliest({t}) = t
<1>1. {t} \in SUBSET Nat /\ {t} # {}
  OBVIOUS
<1>2. Earliest({t}) \in {t}
  BY <1>1, EarliestOf
<1> QED
  BY <1>2

(* Every cycle of a replay of the source's thread is one of the source. *)
LEMMA SourceTicks ==
  ASSUME IInv, ~ Realtime, NEW g \in Thread, g = SourceThread, BeginHistorical(g) \/ BeginRealtime(g)
  PROVE  Ticks(g)
<1>1. TypeInv /\ SourceInv /\ engine[g].callbacks = {}
  BY DEF IInv, SourceInv
<1>2. /\ Wakeups(g) # {}
      /\ IF g = SourceThread /\ NextTime(g) \in NextTick THEN Ticks(g)
         ELSE source' = source /\ chan' = chan /\ pc'[g] = "receive"
  BY <1>1, BeginFrame
<1>3. Wakeups(g) = NextTick
  BY <1>1, WakeupsAre
<1>4. source + 1 \in 1..N /\ NextTick = {T(source + 1)} /\ source \in 0..N
  BY <1>1, <1>2, <1>3, NextTickIs
<1>5. T(source + 1) \in Nat /\ N \in Nat
  BY <1>4, Times
<1>6. Earliest(Wakeups(g)) = T(source + 1)
  BY <1>3, <1>4, <1>5, EarliestOne
<1>7. engine[g].first \/ T(source + 1) > engine[g].time
  <2> SUFFICES ASSUME ~ engine[g].first PROVE T(source + 1) > engine[g].time
    OBVIOUS
  <2>1. source # 0 /\ (source > 0 => engine[g].time = T(source))
    BY <1>1 DEF SourceInv
  <2>2. source \in 1..N /\ source > 0 /\ source < source + 1
    BY <1>4, <1>5, <2>1
  <2>3. T(source) < T(source + 1) /\ T(source) \in Nat
    BY <1>4, <2>2, Times
  <2> QED
    BY <1>5, <2>1, <2>2, <2>3
<1>8. NextTime(g) = T(source + 1)
  BY <1>6, <1>7 DEF NextTime
<1> QED
  BY <1>2, <1>4, <1>8

(* The callbacks of a delivery. *)
LEMMA CallbacksAre ==
  ASSUME NEW r, NEW tr, NEW now, ~ Realtime
  PROVE  /\ Waiting(r, now) # <<>> => Callbacks(r, Realtime, tr, now) = {Waiting(r, now)[1].time}
         /\ Waiting(r, now) = <<>> /\ (r.finished \/ tr) => Callbacks(r, Realtime, tr, now) = {}
         /\ Waiting(r, now) = <<>> /\ ~ r.finished /\ ~ tr => Callbacks(r, Realtime, tr, now) = {now}
BY DEF Callbacks

(* A step keeps the clock of the source at its last value. *)
LEMMA SourceStep ==
  ASSUME IInv, Next
  PROVE  SourceInv'
<1>0. TypeInv /\ PhaseInv /\ SourceInv
  BY DEF IInv
<1> DEFINE S == SourceThread
<1>1. S \in Thread /\ (Mapper => S = "main") /\ (~ Mapper => S = "worker")
  BY RunModes
<1>2. UNCHANGED <<kind, mode>>
  BY <1>0, StepCases, QuietFrame, DeliverMainFrame, DeliverWorkerFrame, BeginFrame, ReceiveFrame, StopFrame
<1>3. SourceThread' = S /\ (Realtime' <=> Realtime) /\ (Mapper' <=> Mapper)
  BY <1>2 DEF SourceThread, Realtime, Mapper
<1> HIDE DEF S
<1> SUFFICES ASSUME ~ Realtime
             PROVE  /\ engine'[S].callbacks = {}
                    /\ engine'[S].first <=> source' = 0
                    /\ source' > 0 => engine'[S].time = T(source')
                    /\ pc'[S] \in {"receive", "deliver"} => Mapper /\ source' > 0
  BY <1>3 DEF SourceInv
<1>4. /\ engine[S].callbacks = {} /\ (engine[S].first <=> source = 0)
      /\ source > 0 => engine[S].time = T(source)
      /\ pc[S] \in {"receive", "deliver"} => Mapper /\ source > 0
  BY <1>0 DEF SourceInv, S
<1>5. ASSUME engine'[S].time = engine[S].time, engine'[S].first = engine[S].first,
             engine'[S].callbacks = engine[S].callbacks, source' = source,
             pc'[S] \in {"receive", "deliver"} => pc[S] \in {"receive", "deliver"}
      PROVE  /\ engine'[S].callbacks = {}
             /\ engine'[S].first <=> source' = 0
             /\ source' > 0 => engine'[S].time = T(source')
             /\ pc'[S] \in {"receive", "deliver"} => Mapper /\ source' > 0
  BY <1>4, <1>5
<1>6. CASE QuietStep
  <2>1. /\ source' = source
        /\ \A h \in Thread : engine'[h].time = engine[h].time /\ engine'[h].first = engine[h].first
    BY <1>0, <1>6, QuietFrame
  <2>2. \/ StartsMain \/ StartsWorker
        \/ \E g \in Thread : Quits(g) \/ HasTaken(g) \/ Fails(g) \/ WindsDown(g)
    BY <1>0, <1>6, QuietReplay
  <2>3. engine'[S].callbacks = engine[S].callbacks
    <3>1. CASE StartsMain
      <4>1. engine' = FirstCallback("main") /\ "main" \in Thread
        BY <3>1, Threads DEF StartsMain
      <4>2. S = "main" => Triggered("main")
        BY <1>1 DEF Triggered
      <4> QED
        BY <1>0, <1>1, <4>1, <4>2, FirstCallbackIs
    <3>2. CASE StartsWorker
      <4>1. engine' = FirstCallback("worker") /\ "worker" \in Thread
        BY <3>2, Threads DEF StartsWorker
      <4>2. S = "worker" => ~ HasReceiver("worker")
        BY <1>1 DEF HasReceiver
      <4> QED
        BY <1>0, <1>1, <4>1, <4>2, FirstCallbackIs
    <3>3. ASSUME NEW g \in Thread, Quits(g) \/ HasTaken(g) \/ Fails(g) \/ WindsDown(g)
          PROVE  engine'[S].callbacks = engine[S].callbacks
      BY <1>1, <3>3 DEF Quits, HasTaken, Fails, WindsDown, EngineSame
    <3> QED
      BY <2>2, <3>1, <3>2, <3>3
  <2>4. pc'[S] \in {"receive", "deliver"} => pc[S] \in {"receive", "deliver"}
    <3>1. CASE StartsMain
      BY <1>1, <3>1, Threads DEF StartsMain
    <3>2. CASE StartsWorker
      BY <1>1, <3>2 DEF StartsWorker, Moves
    <3>3. ASSUME NEW g \in Thread, Quits(g) \/ HasTaken(g) \/ Fails(g) \/ WindsDown(g)
          PROVE  pc'[S] \in {"receive", "deliver"} => pc[S] \in {"receive", "deliver"}
      BY <1>1, <3>3 DEF Quits, HasTaken, Fails, WindsDown, Moves, Ended
    <3> QED
      BY <2>2, <3>1, <3>2, <3>3
  <2> QED
    BY <1>1, <1>5, <2>1, <2>3, <2>4
<1>7. ASSUME NEW g \in Thread, BeginHistorical(g) \/ BeginRealtime(g)
      PROVE  /\ engine'[S].callbacks = {}
             /\ engine'[S].first <=> source' = 0
             /\ source' > 0 => engine'[S].time = T(source')
             /\ pc'[S] \in {"receive", "deliver"} => Mapper /\ source' > 0
  <2>1. /\ notifier = {} /\ \A h \in Thread : h # g => pc'[h] = pc[h]
        /\ engine'[g].time \in Nat /\ engine' = Begun(g, engine'[g].time)
        /\ Ticks(g) \/ source' = source
    BY <1>0, <1>7, BeginFrame DEF PhaseInv
  <2>2. /\ ~ engine'[g].first /\ engine'[g].callbacks = {c \in engine[g].callbacks : c > engine'[g].time}
        /\ \A h \in Thread : h # g => engine'[h] = engine[h]
    BY <1>0, <2>1, BegunFields
  <2>3. CASE g = S
    <3>1. Ticks(g)
      BY <1>7, <2>3, SourceTicks DEF S
    <3>2. source \in Nat /\ source' = source + 1 /\ engine'[g].time = T(source + 1)
      BY <1>7, <3>1, TickTime
    <3>3. source' > 0 /\ source' # 0
      BY <3>2
    <3>4. engine'[S].callbacks = {}
      BY <1>4, <2>2, <2>3
    <3>5. pc'[S] \in {"receive", "deliver"} => Mapper
      <4>1. pc'[g] \in {"failed", AfterSend(g)}
        BY <2>1, <3>1 DEF Ticks, AfterPush
      <4> QED
        BY <1>1, <2>3, <4>1 DEF AfterSend
    <3> QED
      BY <2>2, <2>3, <3>2, <3>3, <3>4, <3>5
  <2>4. CASE g # S
    <3>1. ~ Ticks(g)
      BY <2>4 DEF Ticks, S
    <3> QED
      BY <1>1, <1>5, <2>1, <2>2, <2>4, <3>1
  <2> QED
    BY <2>3, <2>4
<1>8. ASSUME NEW g \in Thread, Receive(g)
      PROVE  UNCHANGED <<source, engine, pc>>
  BY <1>0, <1>8, NotRefused, ReceiveFrame
<1>9. ASSUME NEW g \in Thread, Stop(g)
      PROVE  /\ UNCHANGED <<source, engine>> /\ \A h \in Thread : pc'[h] = pc[h] \/ pc'[h] \in {"end", "close"}
  BY <1>0, <1>9, StopFrame
<1>10. CASE DeliverMain
  <2>1. /\ UNCHANGED source /\ Delivered("main")
        /\ pc["main"] = "deliver" /\ pc'["worker"] = pc["worker"] /\ pc'["main"] = "top" /\ "main" \in Thread
    BY <1>0, <1>10, DeliverMainFrame, Threads
  <2>2. /\ \A h \in Thread : /\ engine'[h].time = engine[h].time /\ engine'[h].first = engine[h].first
                             /\ h # "main" => engine'[h].callbacks = engine[h].callbacks
        /\ engine'["main"].callbacks = engine["main"].callbacks \cup
              Callbacks(recv["main"], Realtime, Triggered("main"), engine["main"].time)
    BY <1>0, <2>1, DeliveredFrame
  <2>3. S = "main" => Callbacks(recv["main"], Realtime, Triggered("main"), engine["main"].time) = {}
    <3> SUFFICES ASSUME S = "main"
                 PROVE  Callbacks(recv["main"], Realtime, Triggered("main"), engine["main"].time) = {}
      OBVIOUS
    <3>1. Mapper /\ Triggered("main")
      BY <1>1 DEF Triggered
    <3>2. Waiting(recv["main"], engine["main"].time) = <<>>
      BY <2>1, <3>1, MainSplits DEF IInv
    <3> QED
      BY <3>1, <3>2, CallbacksAre
  <2>4. engine'[S].callbacks = engine[S].callbacks
    BY <1>1, <2>2, <2>3
  <2> QED
    BY <1>1, <1>5, <2>1, <2>2, <2>4
<1>11. CASE DeliverWorker
  <2>1. /\ UNCHANGED source /\ Delivered("worker") /\ pc["worker"] = "deliver" /\ pc'["main"] = pc["main"]
        /\ "worker" \in Thread /\ "main" \in Thread
    BY <1>0, <1>11, DeliverWorkerFrame, Threads
  <2>2. Mapper /\ S = "main"
    BY <1>1, <1>4, <2>1
  <2>3. /\ \A h \in Thread : /\ engine'[h].time = engine[h].time /\ engine'[h].first = engine[h].first
                             /\ h # "worker" => engine'[h].callbacks = engine[h].callbacks
    BY <1>0, <2>1, DeliveredFrame
  <2> QED
    BY <1>1, <1>5, <2>1, <2>2, <2>3
<1>12. ASSUME NEW g \in Thread, Receive(g) \/ Stop(g)
       PROVE  /\ engine'[S].callbacks = {}
              /\ engine'[S].first <=> source' = 0
              /\ source' > 0 => engine'[S].time = T(source')
              /\ pc'[S] \in {"receive", "deliver"} => Mapper /\ source' > 0
  <2>1. UNCHANGED <<source, engine>> /\ \A h \in Thread : pc'[h] = pc[h] \/ pc'[h] \in {"end", "close"}
    BY <1>8, <1>9, <1>12
  <2> QED
    BY <1>1, <1>5, <2>1
<1> QED
  BY <1>6, <1>7, <1>10, <1>11, <1>12, StepCases

-----------------------------------------------------------------------------
(* The thread that reads the source's channel in a replay *)

\* ReaderInv for an engine e, a receiver r, a program counter p and the values C to come.
ReaderOk(e, r, p, C) ==
  /\ p \in {"none", "setup"} => r = NewReceiver /\ e.first /\ e.callbacks = {} /\ e.time = 0
  /\ p = "top" => ReaderTop(e, r)
  /\ p \in {"receive", "deliver"} => ReaderReads(e, r)
  /\ p = "deliver" => r.finished \/ r.message_time >= e.time
  /\ ~ r.finished =>
       /\ p = "receive" => \A k \in C : T(k) >= e.time
       /\ p = "deliver" \/ (p = "top" /\ ~ e.first) => \A k \in C : T(k) > e.time

(* The reader, in terms of its engine and its receiver. *)
LEMMA ReaderInvDef == ReaderInv <=> (~ Realtime => ReaderOk(engine[Reader], recv[Reader], pc[Reader], Coming))
BY Zenon DEF ReaderInv, ReaderOk

(* A step with the same clock, and no new value to come, keeps the reader. *)
LEMMA ReaderFrame ==
  ASSUME NEW e, NEW r, NEW p, NEW C, ReaderOk(e, r, p, C), NEW d, NEW q, NEW D,
         d.time = e.time, d.first = e.first, d.callbacks = e.callbacks, D \subseteq C,
         q = p \/ q \notin {"none", "setup", "top", "receive", "deliver"}
  PROVE  ReaderOk(d, r, q, D)
<1>1. (ReaderTop(d, r) <=> ReaderTop(e, r)) /\ (ReaderReads(d, r) <=> ReaderReads(e, r))
  BY DEF ReaderTop, ReaderReads
<1>2. CASE q = p
  BY <1>1, <1>2 DEF ReaderOk
<1>3. CASE q \notin {"none", "setup", "top", "receive", "deliver"}
  BY <1>3 DEF ReaderOk
<1> QED
  BY <1>2, <1>3

(* What the reader holds is older than what comes. *)
LEMMA HeldBeforeComing ==
  ASSUME IInv
  PROVE  /\ Coming \subseteq 1..N /\ Held(Reader) \subseteq 1..N
         /\ \A k \in Held(Reader), j \in Coming : T(k) < T(j)
         /\ \A j \in Coming : T(j) \in Nat
<1>1. source \in 0..N /\ N \in Nat
  BY NextTickIs, Times DEF IInv
<1> DEFINE V == ValuesOf(chan[Outgoing(SourceThread)])
<1>2. Held(Reader) \subseteq 1..source /\ V \subseteq 1..source /\ Below(Held(Reader), V)
  <2>1. StageInv
    BY DEF IInv
  <2>2. CASE Mapper
    BY <2>1, <2>2, ReaderIs, Threads DEF StageInv, Chain
  <2>3. CASE ~ Mapper
    BY <2>1, <2>3, ReaderIs, Threads DEF StageInv, Chain
  <2> QED
    BY <2>2, <2>3
<1>3. Coming = V \cup (source + 1)..N
  BY DEF Coming
<1> DEFINE H == Held(Reader)
<1> HIDE DEF V, H
<1>4. \A k \in H : k \in 1..source
  BY <1>2 DEF H
<1>5. \A j \in V : j \in 1..source
  BY <1>2
<1>6. \A k \in 1..source : k \in 1..N /\ \A j \in (source + 1)..N : k < j /\ j \in 1..N
  BY <1>1
<1>7. \A j \in (source + 1)..N : j \in 1..N
  BY <1>1
<1>8. \A k \in 1..source : k \in 1..N
  BY <1>1
<1>9. \A j \in Coming : j \in 1..N
  BY <1>3, <1>5, <1>7, <1>8
<1>10. \A k \in H, j \in Coming : k < j
  BY <1>2, <1>3, <1>4, <1>6 DEF Below, H
<1>11. \A k \in H : k \in 1..N
  BY <1>4, <1>8
<1> QED
  BY <1>9, <1>10, <1>11, Times DEF H

(* The queue of the reader: its messages are of values it holds. *)
LEMMA QueueTimes ==
  ASSUME IInv, ~ Realtime, NEW i \in DOMAIN recv[Reader].queue
  PROVE  /\ recv[Reader].queue[i].time \in Nat
         /\ \A j \in Coming : recv[Reader].queue[i].time < T(j)
<1>1. TypeInv /\ FormInv /\ OrderInv /\ Reader \in Thread
  BY ReaderIs DEF IInv
<1> DEFINE m == recv[Reader].queue[i]
<1>2. m \in Message
  BY <1>1, QueueForms
<1>3. \E k \in 1..source : m.value = <<k>> /\ m.time = T(k) /\ Elements(m.value) = {k}
  BY <1>1, QueueForms
<1>4. PICK k \in 1..source : m.time = T(k) /\ Elements(m.value) = {k}
  BY <1>3
<1>5. k \in Elements(m.value)
  BY <1>4
<1>6. k \in ValuesOf(recv[Reader].queue)
  BY <1>5, InValues
<1>7. k \in Held(Reader)
  BY <1>6 DEF Held
<1>8. m.time \in Nat
  BY <1>2 DEF Message
<1> QED
  BY <1>4, <1>7, <1>8, HeldBeforeComing

(* A cycle of the reader begins. *)
LEMMA ReaderBegins ==
  ASSUME IInv, ~ Realtime, BeginHistorical(Reader) \/ BeginRealtime(Reader)
  PROVE  ReaderOk(engine'[Reader], recv'[Reader], pc'[Reader], Coming) /\ source' = source /\ chan' = chan
<1> DEFINE R == Reader
           e == engine[R]
           r == recv[R]
           d == engine'[R]
<1>1. TypeInv /\ R \in Thread /\ R # SourceThread
  BY ReaderIs DEF IInv
<1>2. /\ pc[R] = "top" /\ recv'[R] = r /\ pc'[R] = "receive" /\ source' = source /\ chan' = chan
      /\ Wakeups(R) # {} /\ d.time = NextTime(R) /\ engine' = Begun(R, d.time) /\ d.time \in Nat
  BY <1>1, BeginFrame
<1>3. ~ d.first /\ d.callbacks = {c \in e.callbacks : c > d.time}
  BY <1>1, <1>2, BegunFields
<1>4. Wakeups(R) = e.callbacks
  BY <1>1, WakeupsAre
<1>5. ReaderOk(e, r, "top", Coming)
  BY <1>2, ReaderInvDef DEF IInv
<1>6. ReaderTop(e, r)
  BY <1>5 DEF ReaderOk
<1>7. e.time \in Nat /\ r.queue \in Seq(Message)
  BY <1>1 DEF TypeInv, IsEngine, IsRecv
<1>8. NextTime(R) = IF e.first \/ Earliest(e.callbacks) > e.time THEN Earliest(e.callbacks) ELSE e.time + 1
  BY <1>4 DEF NextTime
<1>9. \A j \in Coming : T(j) \in Nat
  BY HeldBeforeComing
<1> HIDE DEF R, e, r, d
<1>10. CASE e.first /\ r.queue = <<>> /\ ~ r.finished /\ e.callbacks = {0} /\ e.time = 0
  <2>1. Earliest({0}) = 0
    BY EarliestOne
  <2>2. d.time = 0
    BY <1>2, <1>8, <1>10, <2>1
  <2>3. d.callbacks = {}
    BY <1>3, <1>10, <2>2
  <2>4. r.message_time = NoTime
    BY <1>6, <1>10 DEF ReaderTop
  <2>5. ReaderReads(d, r)
    BY <1>3, <1>10, <2>3, <2>4 DEF ReaderReads
  <2>6. \A j \in Coming : T(j) >= d.time
    BY <1>9, <2>2
  <2> QED
    BY <1>2, <2>5, <2>6 DEF ReaderOk, R, d, r
<1>11. CASE ~ e.first /\ r.queue = <<>> /\ ~ r.finished /\ e.callbacks = {e.time}
  <2>1. Earliest({e.time}) = e.time
    BY <1>7, EarliestOne
  <2>2. d.time = e.time + 1
    BY <1>2, <1>7, <1>8, <1>11, <2>1
  <2>3. d.callbacks = {}
    BY <1>3, <1>7, <1>11, <2>2
  <2>4. r.message_time = NoTime
    BY <1>6, <1>11 DEF ReaderTop
  <2>5. ReaderReads(d, r)
    BY <1>3, <1>11, <2>3, <2>4 DEF ReaderReads
  <2>6. \A j \in Coming : T(j) > e.time
    BY <1>5, <1>11 DEF ReaderOk
  <2>7. \A j \in Coming : T(j) >= d.time
    BY <1>7, <1>9, <2>2, <2>6
  <2> QED
    BY <1>2, <2>5, <2>7 DEF ReaderOk, R, d, r
<1>12. CASE r.finished /\ e.callbacks = {}
  BY <1>2, <1>4, <1>12
<1>13. CASE ~ e.first /\ Len(r.queue) = 1 /\ r.queue[1].time > e.time /\ e.callbacks = {r.queue[1].time}
  <2>1. 1 \in DOMAIN r.queue
    BY <1>7, <1>13
  <2>2. r.queue[1].time \in Nat /\ \A j \in Coming : r.queue[1].time < T(j)
    BY <2>1, QueueTimes DEF r, R
  <2> DEFINE t == r.queue[1].time
  <2> HIDE DEF t
  <2>3. Earliest({t}) = t
    BY <2>2, EarliestOne DEF t
  <2>4. d.time = t
    BY <1>2, <1>8, <1>13, <2>3 DEF t
  <2>5. d.callbacks = {}
    BY <1>3, <1>13, <2>2, <2>4 DEF t
  <2>6. r.message_time = t
    <3>1. r.queue # <<>>
      BY <1>13
    <3> QED
      BY <1>6, <3>1 DEF ReaderTop, t
  <2>7. ReaderReads(d, r)
    <3>1. t >= d.time
      BY <2>2, <2>4 DEF t
    <3> QED
      BY <1>3, <1>13, <2>5, <2>6, <3>1 DEF ReaderReads, t
  <2>8. \A j \in Coming : T(j) >= d.time
    BY <1>9, <2>2, <2>4 DEF t
  <2> QED
    BY <1>2, <2>7, <2>8 DEF ReaderOk, R, d, r
<1> QED
  BY <1>6, <1>10, <1>11, <1>12, <1>13 DEF ReaderTop

(* The reader takes a message. *)
LEMMA ReaderReceives ==
  ASSUME IInv, ~ Realtime, Receive(Reader)
  PROVE  ReaderOk(engine'[Reader], recv'[Reader], pc'[Reader], Coming)
<1> DEFINE R == Reader
           e == engine[R]
           r == recv[R]
           m == Next1(R)
           q == recv'[R]
<1>1. TypeInv /\ R \in Thread
  BY ReaderIs DEF IInv
<1>2. pc[R] = "receive" /\ ~ HasRead(R)
  BY <1>1, ReceiveFrame
<1>3. recv' = [recv EXCEPT ![R] = Taken(r, m, Realtime)] /\ engine' = engine /\ pc' = pc
  BY <1>1, ReceiveFrame, NotRefused
<1>4. q = Taken(r, m, Realtime)
  BY <1>1, <1>3 DEF TypeInv
<1>5. m \in Message /\ FormOf(m) /\ ValuesOf(chan[Incoming(R)]) = Elements(m.value) \cup ValuesOf(chan'[Incoming(R)])
  BY <1>1, NextMessage
<1>6. IsRecv(r) /\ Realtime \in BOOLEAN /\ e.time \in Nat
  BY <1>1, RunModes DEF TypeInv, IsEngine
<1>7. /\ m.kind = "EndOfStream" => q.finished /\ q.message_time = r.message_time /\ q.queue = r.queue
      /\ m.kind # "EndOfStream" => q.finished = r.finished
      /\ m.kind = "HistoricalValue" => q.message_time = m.time /\ q.queue = Append(r.queue, m)
  <2> DEFINE p == Taken(r, m, Realtime)
  <2> HIDE DEF m, r
  <2>1. /\ m.kind = "EndOfStream" => p.finished /\ p.message_time = r.message_time /\ p.queue = r.queue
        /\ m.kind # "EndOfStream" => p.finished = r.finished
        /\ m.kind = "HistoricalValue" => IF Realtime THEN TRUE ELSE p.message_time = m.time /\ p.queue = Append(r.queue, m)
    BY <1>5, <1>6, TakenFields
  <2> HIDE DEF p
  <2>2. q = p
    BY <1>4 DEF p
  <2> HIDE DEF q
  <2> QED
    BY <2>1, <2>2
<1>8. ReaderOk(e, r, "receive", Coming)
  BY <1>2, ReaderInvDef DEF IInv
<1>9. ReaderReads(e, r)
  BY <1>8 DEF ReaderOk
<1>10. ~ r.finished
  BY <1>2 DEF HasRead, CaughtUp
<1>11. ~ (r.message_time > e.time)
  BY <1>2 DEF HasRead, CaughtUp
<1>12. m.kind \in {"EndOfStream", "HistoricalValue"}
  <2>1. m.kind \in {"HistoricalValue", "RealtimeValue", "CheckPoint", "EndOfStream", "Error"}
    BY <1>5 DEF Message
  <2>2. m.kind \notin {"RealtimeValue", "Error"}
    BY <1>5 DEF FormOf, Form
  <2>3. m.kind # "CheckPoint"
    <3>1. CASE Closed(Incoming(R))
      BY <1>1, <3>1, NextMessage DEF EndOfStream
    <3>2. CASE ~ Closed(Incoming(R))
      <4>1. 1 \in DOMAIN chan[Incoming(R)] /\ m = chan[Incoming(R)][1]
        BY <1>1, <3>2, NextMessage
      <4> QED
        BY <4>1, ReaderIs, Threads DEF IInv, FormInv
    <3> QED
      BY <3>1, <3>2
  <2> QED
    BY <2>1, <2>2, <2>3
<1>13. ASSUME m.kind = "HistoricalValue"
       PROVE  m.time \in Nat /\ m.time >= e.time /\ \E k \in Coming : m.time = T(k)
  <2>1. m.value = <<m.value[1]>> /\ m.value[1] \in 1..source /\ m.time = T(m.value[1])
    BY <1>5, <1>13 DEF FormOf, Form
  <2>2. m.value[1] \in Elements(m.value)
    <3>1. \A v : v \in Elements(<<v>>)
      BY OneValue
    <3> QED
      BY <2>1, <3>1
  <2>3. m.value[1] \in Coming
    BY <1>5, <2>2, ReaderIs DEF Coming
  <2>4. ~ Refused(m, Realtime, e.time)
    BY <1>1, NotRefused
  <2>5. ~ (m.time < e.time)
    BY <1>13, <2>4 DEF Refused
  <2>6. m.time \in Nat
    BY <1>5 DEF Message
  <2> HIDE DEF m, e, r, q
  <2> QED
    BY <1>6, <2>1, <2>3, <2>5, <2>6
<1>14. r.queue \in Seq(Message)
  BY <1>6 DEF IsRecv
<1>15. engine'[R] = e /\ pc'[R] = "receive"
  BY <1>2, <1>3
<1>16. ASSUME ~ q.finished PROVE \A k \in Coming : T(k) >= e.time
  BY <1>8, <1>10 DEF ReaderOk
<1>17. \A i \in DOMAIN r.queue : \A k \in Coming : r.queue[i].time < T(k)
  BY QueueTimes
<1> HIDE DEF m, e, r, q
<1>18. ReaderReads(e, q)
  <2>1. CASE m.kind = "EndOfStream"
    BY <1>7, <1>9, <2>1 DEF ReaderReads
  <2>2. CASE m.kind = "HistoricalValue"
    <3>1. q.message_time = m.time /\ q.queue = Append(r.queue, m)
      BY <1>7, <2>2
    <3>2. ~ e.first /\ e.callbacks = {}
      BY <1>9 DEF ReaderReads
    <3>3. CASE r.queue = <<>>
      <4>1. q.queue = <<m>>
        BY <3>1, <3>3
      <4>2. Len(q.queue) = 1 /\ q.queue[1] = m
        BY <4>1
      <4> QED
        BY <1>13, <2>2, <3>1, <3>2, <4>2 DEF ReaderReads
    <3>4. CASE Len(r.queue) = 1 /\ r.queue[1].time >= e.time /\ r.message_time = r.queue[1].time
      <4>1. 1 \in DOMAIN r.queue
        BY <1>14, <3>4
      <4>2. PICK k \in Coming : m.time = T(k)
        BY <1>13, <2>2
      <4>3. r.queue[1].time < m.time
        BY <1>17, <4>1, <4>2
      <4>4. Len(q.queue) = 2 /\ q.queue[1] = r.queue[1] /\ q.queue[2] = m
        BY <1>5, <1>14, <3>1, <3>4
      <4>5. r.queue[1].time \in Nat
        <5>1. r.queue[1] \in Message
          BY <1>14, <4>1
        <5> QED
          BY <5>1 DEF Message
      <4> DEFINE t == r.queue[1].time
      <4> HIDE DEF t
      <4>6. t = e.time /\ m.time > e.time
        BY <1>6, <1>11, <1>13, <2>2, <3>4, <4>3, <4>5 DEF t
      <4> QED
        BY <3>1, <3>2, <4>4, <4>6 DEF ReaderReads, t
    <3>5. CASE Len(r.queue) = 2 /\ r.queue[2].time > e.time /\ r.message_time = r.queue[2].time
      BY <1>11, <3>5
    <3> QED
      BY <1>9, <3>3, <3>4, <3>5 DEF ReaderReads
  <2> QED
    BY <1>12, <2>1, <2>2
<1>19. ReaderOk(e, q, "receive", Coming)
  BY <1>16, <1>18 DEF ReaderOk
<1> QED
  BY <1>15, <1>19 DEF R, e, q

(* The reader has what it waits for. *)
LEMMA ReaderHasTaken ==
  ASSUME IInv, ~ Realtime, HasTaken(Reader)
  PROVE  ReaderOk(engine[Reader], recv[Reader], "deliver", Coming)
<1> DEFINE R == Reader
           e == engine[R]
           r == recv[R]
<1>1. TypeInv /\ R \in Thread
  BY ReaderIs DEF IInv
<1>2. pc[R] = "receive" /\ HasRead(R)
  BY DEF HasTaken, Moves
<1>3. ReaderReads(e, r)
  BY <1>2 DEF IInv, ReaderInv
<1>4. IsRecv(r) /\ e.time \in Nat
  BY <1>1 DEF TypeInv, IsEngine
<1>5. r.finished \/ r.message_time > e.time \/ r.message_time = e.time
  BY <1>2 DEF HasRead, CaughtUp
<1>6. r.message_time \in Nat \cup {-1} /\ r.queue \in Seq(Message)
  BY <1>4 DEF IsRecv, NoTime
<1>7. \A i \in DOMAIN r.queue : r.queue[i].time \in Nat /\ \A k \in Coming : r.queue[i].time < T(k)
  BY QueueTimes
<1>8. \A k \in Coming : T(k) \in Nat
  BY HeldBeforeComing
<1> HIDE DEF e, r, R
<1>9. r.finished \/ r.message_time >= e.time
  BY <1>4, <1>5, <1>6
<1>10. ASSUME ~ r.finished PROVE \A k \in Coming : T(k) > e.time
  <2>1. r.message_time >= e.time
    BY <1>9, <1>10
  <2>2. r.queue # <<>>
    BY <1>3, <1>4, <2>1 DEF ReaderReads, NoTime
  <2>3. \E i \in DOMAIN r.queue : r.queue[i].time = r.message_time
    <3>1. Len(r.queue) \in {1, 2} /\ r.message_time = r.queue[Len(r.queue)].time
      BY <1>3, <2>2 DEF ReaderReads
    <3>2. Len(r.queue) \in DOMAIN r.queue
      <4>1. DOMAIN r.queue = 1..Len(r.queue)
        BY <1>6
      <4> QED
        BY <3>1, <4>1
    <3> QED
      BY <3>1, <3>2
  <2>4. PICK i \in DOMAIN r.queue : r.queue[i].time = r.message_time
    BY <2>3
  <2> DEFINE t == r.queue[i].time
  <2>5. t \in Nat /\ t >= e.time /\ \A k \in Coming : t < T(k)
    BY <1>7, <2>1, <2>4
  <2> HIDE DEF t
  <2> QED
    BY <1>4, <1>8, <2>5
<1>11. ReaderOk(e, r, "deliver", Coming)
  BY <1>3, <1>9, <1>10 DEF ReaderOk
<1> QED
  BY <1>11 DEF e, r, R

(* The reader's cycle ends. *)
LEMMA ReaderDelivers ==
  ASSUME IInv, ~ Realtime, pc[Reader] = "deliver", Delivered(Reader)
  PROVE  ReaderOk(engine'[Reader], recv'[Reader], "top", Coming)
<1> DEFINE R == Reader
           e == engine[R]
           r == recv[R]
           d == engine'[R]
           q == recv'[R]
           w == Waiting(recv[R], engine[R].time)
           C == Callbacks(recv[R], Realtime, Triggered(R), engine[R].time)
<1>1. TypeInv /\ FormInv /\ OrderInv /\ R \in Thread
  BY ReaderIs DEF IInv
<1>2. ~ Triggered(R)
  BY ReaderIs DEF Triggered
<1>3. ReaderOk(e, r, "deliver", Coming)
  BY ReaderInvDef DEF IInv
<1>4. ReaderReads(e, r) /\ (r.finished \/ r.message_time >= e.time)
  BY <1>3 DEF ReaderOk
<1>5. ASSUME ~ r.finished PROVE \A k \in Coming : T(k) > e.time
  BY <1>3, <1>5 DEF ReaderOk
<1>6. Splits(R)
  BY <1>1, ReaderSplits DEF IInv
<1>7. q.queue = w /\ q.finished = r.finished /\ q.message_time = IF w = <<>> THEN NoTime ELSE r.message_time
  BY <1>1, <1>6, DeliveredHeld
<1>8. d.time = e.time /\ d.first = e.first /\ d.callbacks = e.callbacks \cup C
  BY <1>1, DeliveredFrame
<1>9. /\ w # <<>> => C = {w[1].time}
      /\ w = <<>> /\ r.finished => C = {}
      /\ w = <<>> /\ ~ r.finished => C = {e.time}
  BY <1>2, CallbacksAre
<1>10. ~ e.first /\ e.callbacks = {}
  BY <1>4 DEF ReaderReads
<1>11. e.time \in Nat /\ r.queue \in Seq(Message)
  BY <1>1 DEF TypeInv, IsEngine, IsRecv
<1>12. \/ w = <<>>
       \/ Len(w) = 1 /\ w[1].time > e.time /\ r.message_time = w[1].time
  <2>1. CASE r.queue = <<>>
    BY <1>1, <2>1, SplitsNone
  <2>2. CASE Len(r.queue) = 1 /\ r.queue[1].time >= e.time /\ r.message_time = r.queue[1].time
    <3>1. IF r.queue[1].time = e.time THEN w = <<>> ELSE w = r.queue
      BY <1>1, <2>2, SplitsOne
    <3>2. r.queue[1].time \in Nat
      <4>1. 1 \in DOMAIN r.queue
        BY <1>11, <2>2
      <4> QED
        BY <4>1, QueueTimes
    <3> HIDE DEF w, e, r
    <3> QED
      BY <1>11, <2>2, <3>1, <3>2
  <2>3. CASE /\ Len(r.queue) = 2 /\ r.queue[1].time = e.time /\ r.queue[2].time > e.time
             /\ r.message_time = r.queue[2].time
    <3>1. w = <<r.queue[2]>>
      BY <1>1, <2>3, SplitsTwo
    <3> HIDE DEF w, e, r
    <3> QED
      BY <2>3, <3>1
  <2> QED
    BY <1>4, <2>1, <2>2, <2>3 DEF ReaderReads
<1> HIDE DEF R, e, r, d, q, w, C
<1>14. ReaderTop(d, q)
  <2>1. CASE w = <<>> /\ r.finished
    <3>1. d.callbacks = {}
      BY <1>8, <1>9, <1>10, <2>1
    <3> QED
      BY <1>7, <1>8, <1>10, <2>1, <3>1 DEF ReaderTop
  <2>2. CASE w = <<>> /\ ~ r.finished
    <3>1. d.callbacks = {d.time}
      BY <1>8, <1>9, <1>10, <2>2
    <3> QED
      BY <1>7, <1>8, <1>10, <2>2, <3>1 DEF ReaderTop
  <2>3. CASE w # <<>>
    <3>1. d.callbacks = {w[1].time}
      BY <1>8, <1>9, <1>10, <2>3
    <3> QED
      BY <1>7, <1>8, <1>10, <1>12, <2>3, <3>1 DEF ReaderTop
  <2> QED
    BY <2>1, <2>2, <2>3
<1>15. ASSUME ~ q.finished PROVE \A k \in Coming : T(k) > d.time
  BY <1>5, <1>7, <1>8, <1>15
<1>16. ReaderOk(d, q, "top", Coming)
  BY <1>14, <1>15 DEF ReaderOk
<1> QED
  BY <1>16 DEF R, d, q

(* What comes is only ever less. *)
LEMMA ComingShrinks ==
  ASSUME IInv, TypeInv', UNCHANGED <<kind, mode>>,
         \/ source' = source /\ ValuesOf(chan'[Outgoing(SourceThread)]) \subseteq ValuesOf(chan[Outgoing(SourceThread)])
         \/ /\ source' = source + 1
            /\ ValuesOf(chan'[Outgoing(SourceThread)]) \subseteq ValuesOf(chan[Outgoing(SourceThread)]) \cup {source + 1}
            /\ source + 1 \in 1..N
  PROVE  Coming' \subseteq Coming /\ Reader' = Reader /\ (Realtime' <=> Realtime)
<1>1. SourceThread' = SourceThread /\ Reader' = Reader /\ (Realtime' <=> Realtime)
  BY DEF SourceThread, Reader, Other, Realtime, Mapper
<1>2. Coming' = ValuesOf(chan'[Outgoing(SourceThread)]) \cup (source' + 1)..N
  BY <1>1 DEF Coming, N
<1>3. source \in 0..N /\ N \in Nat
  BY NextTickIs, Times DEF IInv
<1>4. (source' + 1)..N \subseteq (source + 1)..N
  BY <1>3
<1>5. source' = source + 1 => source + 1 \in (source + 1)..N
  BY <1>3
<1> HIDE DEF N
<1> QED
  BY <1>1, <1>2, <1>4, <1>5 DEF Coming

(* A value to come was to come before: the source sends each once. *)
LEMMA ComingStep ==
  ASSUME IInv, Next, ~ Realtime
  PROVE  UNCHANGED <<kind, mode>> /\ Coming' \subseteq Coming /\ Reader' = Reader /\ ~ Realtime'
<1>0. TypeInv /\ TypeInv' /\ SourceInv
  BY TypeStep DEF IInv
<1>1. UNCHANGED <<kind, mode>>
  BY <1>0, StepCases, QuietFrame, DeliverMainFrame, DeliverWorkerFrame, BeginFrame, ReceiveFrame, StopFrame
<1> DEFINE c == Outgoing(SourceThread)
<1>2. c \in Channel /\ SourceThread \in Thread
  BY ReaderIs, Threads
<1> DEFINE Same == source' = source /\ ValuesOf(chan'[c]) \subseteq ValuesOf(chan[c])
           Grows == /\ source' = source + 1 /\ ValuesOf(chan'[c]) \subseteq ValuesOf(chan[c]) \cup {source + 1}
                    /\ source + 1 \in 1..N
<1>3. ASSUME QuietStep \/ DeliverMain PROVE Same \/ Grows
  BY <1>0, <1>3, QuietFrame, DeliverMainFrame
<1>4. ASSUME NEW g \in Thread, BeginHistorical(g) \/ BeginRealtime(g)
      PROVE  Same \/ Grows
  <2>1. Ticks(g) \/ (source' = source /\ chan' = chan)
    BY <1>0, <1>4, BeginFrame
  <2>2. CASE Ticks(g)
    <3>1. g = SourceThread /\ source' = source + 1 /\ source + 1 \in 1..N /\ source + 1 \in Nat
      BY <2>2 DEF Ticks
    <3>2. engine'[g].time \in Nat
      BY <1>0, <1>4, BeginFrame
    <3> DEFINE m == ValueMessage(<<source + 1>>, engine'[g].time)
    <3>3. <<source + 1>> \in Seq(Nat)
      BY <3>1
    <3>4. m \in Message /\ m.value = <<source + 1>>
      BY <3>2, <3>3, ValueMessageIs
    <3>5. CASE chan' = chan
      BY <3>1, <3>5
    <3>6. CASE chan' = [chan EXCEPT ![c] = Append(@, m)]
      <4> HIDE DEF m, c
      <4>1. ValuesOf(chan'[c]) = ValuesOf(chan[c]) \cup Elements(m.value)
        BY <1>0, <1>2, <3>4, <3>6, PushedMessages
      <4>2. Elements(m.value) = {source + 1}
        BY <3>4, OneValue
      <4> QED
        BY <3>1, <4>1, <4>2
    <3> QED
      BY <2>2, <3>1, <3>5, <3>6 DEF Ticks
  <2> QED
    BY <2>1, <2>2
<1>5. ASSUME NEW g \in Thread, Receive(g)
      PROVE  Same
  <2>1. source' = source
    BY <1>0, <1>5, ReceiveFrame
  <2>2. CASE c = Incoming(g)
    BY <1>5, <2>1, <2>2, NextMessage
  <2>3. CASE c # Incoming(g)
    <3>1. chan'[c] = chan[c]
      BY <1>2, <1>5, <2>3, NextMessage
    <3> QED
      BY <2>1, <3>1
  <2> QED
    BY <2>2, <2>3
<1>6. ASSUME NEW g \in Thread, Stop(g)
      PROVE  Same
  <2>1. source' = source /\ (chan' = [chan EXCEPT ![Outgoing(g)] = Append(@, EndOfStream)] \/ chan' = chan)
    BY <1>0, <1>6, StopFrame
  <2>2. CASE chan' = [chan EXCEPT ![Outgoing(g)] = Append(@, EndOfStream)]
    <3>1. EndOfStream \in Message /\ EndOfStream.value = <<>> /\ Outgoing(g) \in Channel
      BY Messages, Threads DEF EndOfStream
    <3>2. /\ ValuesOf(chan'[Outgoing(g)]) = ValuesOf(chan[Outgoing(g)]) \cup Elements(EndOfStream.value)
          /\ \A d \in Channel : d # Outgoing(g) => chan'[d] = chan[d]
      BY <1>0, <2>2, <3>1, PushedMessages
    <3>3. Elements(EndOfStream.value) = {}
      BY <3>1, NoValues
    <3>4. CASE c = Outgoing(g)
      BY <2>1, <3>2, <3>3, <3>4
    <3>5. CASE c # Outgoing(g)
      BY <1>2, <2>1, <3>2, <3>5
    <3> QED
      BY <3>4, <3>5
  <2> QED
    BY <2>1, <2>2
<1>7. ASSUME DeliverWorker PROVE Same \/ Grows
  <2>1. source' = source /\ pc["worker"] = "deliver"
    BY <1>0, <1>7, DeliverWorkerFrame
  <2>2. Mapper
    BY <1>0, <2>1, ReaderIs DEF SourceInv
  <2>3. c = "in"
    BY <2>2, ReaderIs, Threads
  <2>4. chan' = chan \/ chan' = [chan EXCEPT !["out"] = Append(@, Reply)]
    BY <1>0, <1>7, DeliverWorkerFrame
  <2>5. chan'[c] = chan[c]
    <3>1. Reply \in Message /\ "out" \in Channel /\ c # "out"
      BY <1>0, <2>3, ReplyIs, Threads
    <3> QED
      BY <1>0, <1>2, <2>4, <3>1, PushedMessages
  <2> QED
    BY <2>1, <2>5
<1>8. Same \/ Grows
  BY <1>3, <1>4, <1>5, <1>6, <1>7, StepCases
<1> QED
  BY <1>0, <1>1, <1>8, ComingShrinks

(* The reader's graph starts. *)
LEMMA ReaderStarts ==
  ASSUME IInv, ~ Realtime, StartsMain \/ StartsWorker, recv' = recv
  PROVE  ReaderOk(engine'[Reader], recv'[Reader], pc'[Reader], Coming)
<1> DEFINE R == Reader
           e == engine[R]
           r == recv[R]
           d == engine'[R]
<1>1. /\ TypeInv /\ R \in Thread /\ "main" \in Thread /\ "worker" \in Thread
      /\ (Mapper => R = "worker") /\ (~ Mapper => R = "main")
  BY ReaderIs, Threads DEF IInv
<1>2. ReaderOk(e, r, pc[R], Coming)
  BY ReaderInvDef DEF IInv
<1>3. \A g \in Thread : engine' = FirstCallback(g) =>
        /\ d.time = e.time /\ d.first = e.first
        /\ R # g => d.callbacks = e.callbacks
        /\ R = g => d.callbacks = IF HasReceiver(g) /\ ~ Triggered(g) THEN {0} ELSE e.callbacks
  BY <1>1, FirstCallbackIs
<1>4. HasReceiver(R) /\ ~ Triggered(R)
  BY <1>1 DEF HasReceiver, Triggered
<1>5. ASSUME NEW g \in Thread, engine' = FirstCallback(g), R = g, pc[g] = "setup", pc'[g] = "top"
      PROVE  ReaderOk(d, r, pc'[R], Coming)
  <2>1. r = NewReceiver /\ e.first /\ e.time = 0
    BY <1>2, <1>5 DEF ReaderOk
  <2>2. d.time = 0 /\ d.first /\ d.callbacks = {0}
    BY <1>3, <1>4, <1>5, <2>1
  <2>3. r.queue = <<>> /\ ~ r.finished /\ r.message_time = NoTime
    BY <2>1 DEF NewReceiver
  <2> HIDE DEF r, d, e
  <2>4. ReaderTop(d, r)
    BY <2>2, <2>3 DEF ReaderTop
  <2> QED
    BY <1>5, <2>2, <2>3, <2>4 DEF ReaderOk
<1>6. ASSUME NEW g \in Thread, engine' = FirstCallback(g), R # g, pc'[R] = pc[R]
      PROVE  ReaderOk(d, r, pc'[R], Coming)
  <2>1. d.time = e.time /\ d.first = e.first /\ d.callbacks = e.callbacks
    BY <1>3, <1>6
  <2> HIDE DEF r, d, e
  <2> QED
    BY <1>2, <1>6, <2>1, ReaderFrame
<1>7. CASE StartsMain /\ ~ Mapper
  BY <1>1, <1>5, <1>7 DEF StartsMain
<1>8. CASE StartsMain /\ Mapper
  <2>1. pc[R] = "none" /\ pc'[R] = "setup" /\ engine' = FirstCallback("main") /\ R # "main"
    BY <1>1, <1>8 DEF StartsMain
  <2>2. d.time = e.time /\ d.first = e.first /\ d.callbacks = e.callbacks
    BY <1>1, <1>3, <2>1
  <2> HIDE DEF r, d, e
  <2>3. ReaderOk(d, r, "none", Coming)
    BY <1>2, <2>1, <2>2, ReaderFrame
  <2>4. ReaderOk(d, r, "setup", Coming)
    BY <2>3 DEF ReaderOk
  <2> QED
    BY <2>1, <2>4 DEF r, d
<1>9. CASE StartsWorker /\ Mapper
  BY <1>1, <1>5, <1>9 DEF StartsWorker, Moves
<1>10. CASE StartsWorker /\ ~ Mapper
  <2>1. pc'[R] = pc[R] /\ engine' = FirstCallback("worker") /\ R # "worker"
    BY <1>1, <1>10 DEF StartsWorker, Moves
  <2> QED
    BY <1>1, <1>6, <2>1
<1> QED
  BY <1>7, <1>8, <1>9, <1>10

(* A step keeps the reader behind the values to come. *)
LEMMA ReaderStep ==
  ASSUME IInv, Next
  PROVE  ReaderInv'
<1>0. UNCHANGED <<kind, mode>>
  BY StepCases, QuietFrame, DeliverMainFrame, DeliverWorkerFrame, BeginFrame, ReceiveFrame, StopFrame DEF IInv
<1>1. CASE Realtime
  BY <1>0, <1>1 DEF ReaderInv, Realtime
<1>2. CASE ~ Realtime
  <2> DEFINE R == Reader
             e == engine[R]
             r == recv[R]
             Goal == ReaderOk(engine'[R], recv'[R], pc'[R], Coming)
  <2>1. TypeInv /\ PhaseInv /\ SourceInv /\ R \in Thread /\ "main" \in Thread /\ "worker" \in Thread
    BY ReaderIs, Threads DEF IInv
  <2>2. ReaderOk(e, r, pc[R], Coming)
    BY <1>2, ReaderInvDef DEF IInv
  <2>3. ASSUME EngineSame(R), recv'[R] = r,
               pc'[R] = pc[R] \/ pc'[R] \notin {"none", "setup", "top", "receive", "deliver"}
        PROVE  Goal
    <3>1. engine'[R].time = e.time /\ engine'[R].first = e.first /\ engine'[R].callbacks = e.callbacks
      BY <2>3 DEF EngineSame
    <3> HIDE DEF e, r
    <3> QED
      BY <2>2, <2>3, <3>1, ReaderFrame
  <2>4. ASSUME QuietStep PROVE Goal
    <3>1. recv' = recv
      BY <2>1, <2>4, QuietFrame
    <3>2. \/ StartsMain \/ StartsWorker
          \/ \E g \in Thread : Quits(g) \/ HasTaken(g) \/ Fails(g) \/ WindsDown(g)
      BY <1>2, <2>1, <2>4, QuietReplay
    <3>3. ASSUME NEW g \in Thread, HasTaken(g) PROVE Goal
      <4>1. CASE g = R
        <5>1. pc'[R] = "deliver" /\ engine' = engine
          BY <3>3, <4>1 DEF HasTaken, Moves
        <5> QED
          BY <1>2, <3>1, <3>3, <4>1, <5>1, ReaderHasTaken
      <4>2. CASE g # R
        <5>1. pc'[R] = pc[R] /\ EngineSame(R)
          BY <2>1, <3>3, <4>2 DEF HasTaken, Moves, EngineSame
        <5> QED
          BY <2>3, <3>1, <5>1
      <4> QED
        BY <4>1, <4>2
    <3>4. ASSUME NEW g \in Thread, Quits(g) \/ Fails(g) \/ WindsDown(g) PROVE Goal
      <4>1. EngineSame(R)
        BY <2>1, <3>4 DEF Quits, Fails, WindsDown, EngineSame
      <4>2. pc'[R] = pc[R] \/ pc'[R] \notin {"none", "setup", "top", "receive", "deliver"}
        BY <2>1, <3>4 DEF Quits, Fails, WindsDown, Moves, Ended
      <4> QED
        BY <2>3, <3>1, <4>1, <4>2
    <3> QED
      BY <1>2, <3>1, <3>2, <3>3, <3>4, ReaderStarts
  <2>5. ASSUME NEW g \in Thread, BeginHistorical(g) \/ BeginRealtime(g) PROVE Goal
    <3>1. CASE g = R
      BY <1>2, <2>5, <3>1, ReaderBegins
    <3>2. CASE g # R
      <4>1. recv' = recv /\ pc'[R] = pc[R] /\ engine' = Begun(g, engine'[g].time) /\ engine'[g].time \in Nat
        BY <2>1, <2>5, <3>2, BeginFrame
      <4>2. engine'[R] = engine[R]
        BY <2>1, <3>2, <4>1, BegunFields
      <4> QED
        BY <2>3, <4>1, <4>2 DEF EngineSame
    <3> QED
      BY <3>1, <3>2
  <2>6. ASSUME NEW g \in Thread, Receive(g) PROVE Goal
    <3>1. CASE g = R
      BY <1>2, <2>6, <3>1, ReaderReceives
    <3>2. CASE g # R
      <4>1. recv' = [recv EXCEPT ![g] = Taken(recv[g], Next1(g), Realtime)] /\ UNCHANGED <<engine, pc>>
        BY <2>1, <2>6, NotRefused, ReceiveFrame
      <4>2. recv'[R] = r
        BY <2>1, <3>2, <4>1 DEF TypeInv
      <4> QED
        BY <2>3, <4>1, <4>2 DEF EngineSame
    <3> QED
      BY <3>1, <3>2
  <2>7. ASSUME NEW g \in Thread, Stop(g) PROVE Goal
    <3>1. UNCHANGED <<engine, recv>> /\ (pc'[R] = pc[R] \/ pc'[R] \in {"end", "close"})
      BY <2>1, <2>7, StopFrame
    <3> QED
      BY <2>3, <3>1 DEF EngineSame
  <2>8. ASSUME DeliverMain PROVE Goal
    <3>1. Delivered("main") /\ pc["main"] = "deliver" /\ pc'["worker"] = pc["worker"] /\ pc'["main"] = "top"
      BY <2>1, <2>8, DeliverMainFrame
    <3>2. CASE R = "main"
      BY <1>2, <3>1, <3>2, ReaderDelivers
    <3>3. CASE R = "worker"
      <4>1. recv'[R] = r /\ EngineSame(R)
        BY <2>1, <3>1, <3>3, DeliveredFrame DEF EngineSame
      <4> QED
        BY <2>3, <3>1, <3>3, <4>1
    <3> QED
      BY <2>1, <3>2, <3>3, Threads
  <2>9. ASSUME DeliverWorker PROVE Goal
    <3>1. /\ Delivered("worker") /\ pc["worker"] = "deliver" /\ (notifier = {} => pc'["worker"] = "top")
      BY <2>1, <2>9, DeliverWorkerFrame
    <3>2. notifier = {}
      BY <1>2, <2>1 DEF PhaseInv
    <3>3. Mapper
      BY <1>2, <2>1, <3>1, ReaderIs DEF SourceInv
    <3>4. R = "worker"
      BY <3>3, ReaderIs
    <3> QED
      BY <1>2, <3>1, <3>2, <3>4, ReaderDelivers
  <2>10. Goal
    BY <2>4, <2>5, <2>6, <2>7, <2>8, <2>9, StepCases
  <2>11. Coming' \subseteq Coming /\ Reader' = R
    BY <1>2, ComingStep
  <2>12. ReaderOk(engine'[R], recv'[R], pc'[R], Coming')
    <3> DEFINE d == engine'[R]
               q == recv'[R]
               p == pc'[R]
               D == Coming'
               C == Coming
    <3>1. ReaderOk(d, q, p, C) /\ D \subseteq C
      BY <2>10, <2>11
    <3> HIDE DEF d, q, p, D, C
    <3>2. ReaderOk(d, q, p, D)
      BY <3>1, ReaderFrame
    <3> QED
      BY <3>2 DEF d, q, p, D
  <2>13. ReaderInv' <=> (~ Realtime' => ReaderOk(engine'[Reader'], recv'[Reader'], pc'[Reader'], Coming'))
    BY Zenon DEF ReaderInv, ReaderOk
  <2> QED
    BY <2>11, <2>12, <2>13
<1> QED
  BY <1>1, <1>2

-----------------------------------------------------------------------------
(* A mapper of a replay and its worker *)

\* FlightInv, of the receiver, the main thread, the number of values, those the worker has to
\* answer, the answers in the channel and the values delivered.
Passed(n) == {v \in 1..n : v \notin Filtered}
(* FlightInv and its parts, with the state they speak of as arguments. *)
OnlyEnds(o, from) == \A i \in DOMAIN o : i >= from => o[i].kind = "EndOfStream"
Answers(m, n) ==
  IF n \in Filtered THEN m.kind = "CheckPoint" /\ m.time = T(n)
  ELSE m.kind = "HistoricalValue" /\ m.value = <<n>>
Has(r, n, A, o) ==
  /\ r.message_time = T(n) /\ A = {} /\ OnlyEnds(o, 1)
  /\ IF n \in Filtered THEN r.queue = <<>> ELSE Len(r.queue) = 1 /\ r.queue[1].value = <<n>>
Lacks(r, n, A, o) ==
  /\ r.queue = <<>> /\ r.message_time = NoTime
  /\ \/ A = {n} /\ OnlyEnds(o, 1)
     \/ A = {} /\ o # <<>> /\ Answers(o[1], n) /\ OnlyEnds(o, 2)
FlightOk(r, p, n, A, o, D) ==
  /\ r.finished \/ p \notin {"receive", "deliver"} => r.queue = <<>> /\ r.message_time = NoTime
  /\ ~ r.finished =>
       /\ p \in {"setup", "top"} => A = {} /\ OnlyEnds(o, 1) /\ D = Passed(n)
       /\ p \in {"receive", "deliver"} => D = Passed(n - 1)
       /\ p = "receive" => Has(r, n, A, o) \/ Lacks(r, n, A, o)
       /\ p = "deliver" => Has(r, n, A, o)

(* The values in flight, in terms of the receiver and the channels. *)
LEMMA FlightDef ==
  /\ Mapper => \A n : Kept(n) = Passed(n)
  /\ (~ Realtime /\ Mapper) =>
       (FlightInv <=> FlightOk(recv["main"], pc["main"], source, Asked, chan["out"], DeliveredValues))
<1>1. Mapper => \A n : Kept(n) = Passed(n)
  BY DEF Kept, Passed
<1> SUFFICES ASSUME ~ Realtime, Mapper
             PROVE  FlightInv <=> FlightOk(recv["main"], pc["main"], source, Asked, chan["out"], DeliveredValues)
  BY <1>1
<1>2. \A from : Answered(from) <=> OnlyEnds(chan["out"], from)
  BY DEF Answered, OnlyEnds
<1>3. \A m : IsAnswer(m) <=> Answers(m, source)
  BY DEF IsAnswer, Answers
<1>4. HasAnswer(recv["main"]) <=> Has(recv["main"], source, Asked, chan["out"])
  BY <1>2, Zenon DEF HasAnswer, Has
<1>5. LacksAnswer(recv["main"]) <=> Lacks(recv["main"], source, Asked, chan["out"])
  BY <1>2, <1>3, Zenon DEF LacksAnswer, Lacks
<1> QED
  BY <1>1, <1>2, <1>4, <1>5, Zenon DEF FlightInv, FlightOk

(* A step of the main graph that leaves the messages alone. *)
LEMMA FlightMoves ==
  ASSUME NEW r, NEW p, NEW n, NEW A, NEW o, NEW D, FlightOk(r, p, n, A, o, D), NEW q,
         \/ q = p \/ (q \notin {"setup", "top", "receive", "deliver"} /\ p \notin {"receive", "deliver"})
         \/ p = "setup" /\ q = "top"
  PROVE  FlightOk(r, q, n, A, o, D)
BY DEF FlightOk

(* The values in flight before a step. *)
LEMMA FlightOf ==
  ASSUME IInv, ~ Realtime, Mapper
  PROVE  FlightOk(recv["main"], pc["main"], source, Asked, chan["out"], DeliveredValues)
BY FlightDef DEF IInv

(* The source of a mapper ticks. *)
LEMMA FlightTicks ==
  ASSUME IInv, ~ Realtime, Mapper, BeginHistorical("main") \/ BeginRealtime("main")
  PROVE  FlightOk(recv'["main"], pc'["main"], source', Asked', chan'["out"], DeliveredValues')
<1> DEFINE g == "main"
           r == recv["main"]
           m == ValueMessage(<<source + 1>>, engine'["main"].time)
<1>1. TypeInv /\ g \in Thread /\ g = SourceThread /\ Outgoing(g) = "in" /\ "in" \in Channel /\ "out" \in Channel
  BY ReaderIs, Threads DEF IInv
<1>2. Ticks(g)
  BY <1>1, SourceTicks
<1>3. UNCHANGED <<recv, delivered, notifier>> /\ pc[g] = "top" /\ engine'[g].time \in Nat
  BY <1>1, BeginFrame
<1>4. notifier = {}
  BY DEF IInv, PhaseInv
<1>5. source' = source + 1 /\ source + 1 \in 1..N /\ source \in Nat
  BY <1>1, <1>2, TickTime
<1>6. FlightOk(r, "top", source, Asked, chan["out"], DeliveredValues)
  BY <1>3, FlightOf
<1>7. r.queue = <<>> /\ r.message_time = NoTime
  BY <1>6 DEF FlightOk
<1>8. recv'["main"] = r /\ DeliveredValues' = DeliveredValues /\ Held("worker")' = Held("worker")
  BY <1>3 DEF DeliveredValues, Held
<1>9. CASE pc'[g] = "failed"
  <2> HIDE DEF r
  <2> QED
    BY <1>7, <1>8, <1>9 DEF FlightOk
<1>10. CASE /\ chan' = [chan EXCEPT !["in"] = Append(@, m)]
            /\ pc'[g] = AfterPush(g, "notify", AfterSend(g))
  <2>1. pc'["main"] = "receive"
    BY <1>4, <1>10 DEF AfterPush, AfterSend
  <2>2. <<source + 1>> \in Seq(Nat)
    BY <1>5
  <2>3. m \in Message /\ m.value = <<source + 1>>
    BY <1>3, <2>2, ValueMessageIs
  <2> HIDE DEF m
  <2>4. ValuesOf(chan'["in"]) = ValuesOf(chan["in"]) \cup Elements(m.value) /\ chan'["out"] = chan["out"]
    BY <1>1, <1>10, <2>3, PushedMessages
  <2>5. Elements(m.value) = {source + 1}
    BY <2>3, OneValue
  <2>6. Asked' = Asked \cup {source'}
    BY <1>5, <1>8, <2>4, <2>5 DEF Asked
  <2>7. source' - 1 = source
    BY <1>5
  <2> DEFINE A == Asked
             B == Asked'
             o == chan["out"]
             n == source'
             D == DeliveredValues
             k == source
  <2>8. FlightOk(r, "top", k, A, o, D) /\ B = A \cup {n} /\ n - 1 = k
    BY <1>6, <2>6, <2>7
  <2> HIDE DEF A, B, o, n, D, k, r
  <2>9. ASSUME ~ r.finished PROVE Lacks(r, n, B, o) /\ D = Passed(n - 1)
    <3>1. A = {} /\ OnlyEnds(o, 1) /\ D = Passed(k)
      BY <2>8, <2>9 DEF FlightOk
    <3> QED
      BY <1>7, <2>8, <3>1 DEF Lacks
  <2>10. FlightOk(r, "receive", n, B, o, D)
    BY <1>7, <2>9 DEF FlightOk
  <2> QED
    BY <1>8, <2>1, <2>4, <2>10 DEF r, n, B, o, D
<1> QED
  BY <1>1, <1>2, <1>9, <1>10 DEF Ticks

(* The main graph takes an answer, or learns that the worker has ended. *)
LEMMA FlightReceives ==
  ASSUME IInv, ~ Realtime, Mapper, Receive("main")
  PROVE  FlightOk(recv'["main"], pc'["main"], source', Asked', chan'["out"], DeliveredValues')
<1> DEFINE g == "main"
           r == recv["main"]
           q == recv'["main"]
           m == Next1("main")
           o == chan["out"]
           n == source
           A == Asked
           D == DeliveredValues
<1>1. /\ TypeInv /\ g \in Thread /\ g = SourceThread /\ Incoming(g) = "out" /\ Triggered(g)
      /\ "in" \in Channel /\ "out" \in Channel /\ "worker" \in Thread
  BY ReaderIs, Threads DEF IInv, Triggered
<1>2. /\ pc[g] = "receive" /\ ~ HasRead(g) /\ source' = source /\ delivered' = delivered
      /\ recv' = [recv EXCEPT ![g] = Taken(r, m, Realtime)] /\ pc' = pc
  BY <1>1, NotRefused, ReceiveFrame
<1>3. /\ q = Taken(r, m, Realtime) /\ recv'["worker"] = recv["worker"]
  BY <1>1, <1>2 DEF TypeInv
<1>4. m \in Message /\ FormOf(m)
  BY <1>1, NextMessage
<1>5. /\ chan'["in"] = chan["in"]
      /\ Closed("out") => m = EndOfStream /\ chan'["out"] = o /\ o = <<>>
      /\ ~ Closed("out") => o # <<>> /\ 1 \in DOMAIN o /\ m = o[1] /\ chan'["out"] = Tail(o)
      /\ o \in Seq(Message)
  BY <1>1, NextMessage
<1>6. Asked' = A /\ DeliveredValues' = D
  BY <1>2, <1>3, <1>5 DEF Asked, Held, DeliveredValues
<1>7. engine[g].time = T(n) /\ n > 0 /\ T(n) \in Nat
  <2>1. engine[g].time = T(n) /\ n > 0
    BY <1>1, <1>2 DEF IInv, SourceInv
  <2>2. engine[g].time \in Nat
    BY <1>1 DEF TypeInv, IsEngine
  <2> QED
    BY <2>1, <2>2
<1>8. ~ r.finished /\ r.message_time # T(n)
  BY <1>1, <1>2, <1>7 DEF HasRead, CaughtUp
<1>9. FlightOk(r, "receive", n, A, o, D)
  BY <1>2, FlightOf
<1>10. IsRecv(r) /\ Realtime \in BOOLEAN
  BY <1>1, RunModes DEF TypeInv
<1>11. /\ m.kind = "EndOfStream" => q.finished /\ q.message_time = r.message_time /\ q.queue = r.queue
       /\ m.kind # "EndOfStream" => q.finished = r.finished
       /\ m.kind = "CheckPoint" => q.message_time = m.time /\ q.queue = r.queue
       /\ m.kind = "HistoricalValue" => q.message_time = m.time /\ q.queue = Append(r.queue, m)
  <2> DEFINE p == Taken(r, m, Realtime)
  <2> HIDE DEF m, r
  <2>1. /\ m.kind = "EndOfStream" => p.finished /\ p.message_time = r.message_time /\ p.queue = r.queue
        /\ m.kind # "EndOfStream" => p.finished = r.finished
        /\ m.kind = "CheckPoint" => p.message_time = (IF Realtime THEN r.message_time ELSE m.time) /\ p.queue = r.queue
        /\ m.kind = "HistoricalValue" => IF Realtime THEN TRUE ELSE p.message_time = m.time /\ p.queue = Append(r.queue, m)
    BY <1>4, <1>10, TakenFields
  <2> HIDE DEF p
  <2>2. q = p
    BY <1>3 DEF p
  <2> HIDE DEF q
  <2> QED
    BY <2>1, <2>2
<1>12. m.kind = "HistoricalValue" => m.time = T(m.value[1])
  BY <1>4 DEF FormOf, Form
<1>13. m = EndOfStream => m.kind = "EndOfStream"
  BY DEF EndOfStream
<1>14. pc'[g] = "receive"
  BY <1>2
<1> DEFINE closed == Closed("out")
           u == chan'["out"]
<1> HIDE DEF q, r, m, o, n, A, D, closed, u
<1>15. ~ Has(r, n, A, o)
  BY <1>8 DEF Has
<1>16. Lacks(r, n, A, o) /\ D = Passed(n - 1)
  BY <1>8, <1>9, <1>15 DEF FlightOk
<1>17. FlightOk(q, "receive", n, A, u, D)
  <2>1. CASE A = {n} /\ OnlyEnds(o, 1)
    <3>1. m.kind = "EndOfStream"
      <4>1. CASE closed
        BY <1>5, <1>13, <4>1 DEF closed
      <4>2. CASE ~ closed
        BY <1>5, <2>1, <4>2 DEF OnlyEnds, closed
      <4> QED
        BY <4>1, <4>2
    <3>2. q.finished /\ q.message_time = NoTime /\ q.queue = <<>>
      BY <1>11, <1>16, <3>1 DEF Lacks
    <3> QED
      BY <3>2 DEF FlightOk
  <2>2. CASE A = {} /\ o # <<>> /\ Answers(o[1], n) /\ OnlyEnds(o, 2)
    <3>1. ~ closed
      BY <1>5, <2>2 DEF closed
    <3>2. m = o[1] /\ u = Tail(o)
      BY <1>5, <3>1 DEF closed, u
    <3>3. OnlyEnds(u, 1)
      <4> SUFFICES ASSUME NEW i \in DOMAIN u PROVE u[i].kind = "EndOfStream"
        BY DEF OnlyEnds
      <4>1. i + 1 \in DOMAIN o /\ i + 1 >= 2 /\ u[i] = o[i + 1]
        BY <1>5, <2>2, <3>2
      <4> QED
        BY <2>2, <4>1 DEF OnlyEnds
    <3>4. Has(q, n, A, u) /\ ~ q.finished
      <4>1. CASE n \in Filtered
        <5>1. m.kind = "CheckPoint" /\ m.time = T(n)
          BY <2>2, <3>2, <4>1 DEF Answers
        <5>2. q.finished = r.finished /\ q.message_time = T(n) /\ q.queue = <<>>
          BY <1>11, <1>16, <5>1 DEF Lacks
        <5> QED
          BY <1>8, <2>2, <3>3, <4>1, <5>2 DEF Has
      <4>2. CASE n \notin Filtered
        <5>1. m.kind = "HistoricalValue" /\ m.value = <<n>>
          BY <2>2, <3>2, <4>2 DEF Answers
        <5>2. m.time = T(n)
          BY <1>12, <5>1
        <5>3. q.finished = r.finished /\ q.message_time = T(n) /\ q.queue = Append(r.queue, m) /\ r.queue = <<>>
          BY <1>11, <1>16, <5>1, <5>2 DEF Lacks
        <5>4. q.queue = <<m>>
          BY <5>3
        <5>5. Len(q.queue) = 1 /\ q.queue[1].value = <<n>>
          BY <5>1, <5>4
        <5> QED
          BY <1>8, <2>2, <3>3, <4>2, <5>3, <5>5 DEF Has
      <4> QED
        BY <4>1, <4>2
    <3> QED
      BY <1>16, <3>4 DEF FlightOk
  <2> QED
    BY <1>16, <2>1, <2>2 DEF Lacks
<1> QED
  BY <1>2, <1>6, <1>14, <1>17 DEF q, n, A, u, D

(* The worker takes what it is asked. *)
LEMMA FlightAsks ==
  ASSUME IInv, ~ Realtime, Mapper, Receive("worker")
  PROVE  FlightOk(recv'["main"], pc'["main"], source', Asked', chan'["out"], DeliveredValues')
<1> DEFINE g == "worker"
           m == Next1("worker")
<1>1. /\ TypeInv /\ FormInv /\ OrderInv /\ g \in Thread /\ Incoming(g) = "in"
      /\ "in" \in Channel /\ "out" \in Channel /\ "main" \in Thread
  BY Threads DEF IInv
<1>2. ~ Refused(m, Realtime, engine[g].time)
  BY <1>1, NotRefused
<1>3. /\ source' = source /\ delivered' = delivered
      /\ recv' = [recv EXCEPT ![g] = Taken(recv[g], m, Realtime)] /\ pc' = pc
  BY <1>1, <1>2, ReceiveFrame
<1>4. /\ m \in Message /\ FormOf(m) /\ Rising(m.value) /\ chan'["out"] = chan["out"]
      /\ ValuesOf(chan["in"]) = Elements(m.value) \cup ValuesOf(chan'["in"])
  BY <1>1, NextMessage
<1>5. Below(Held(g), ValuesOf(chan["in"]))
  BY DEF IInv, StageInv, Chain
<1>6. Below(Held(g), Elements(m.value))
  BY <1>4, <1>5 DEF Below
<1>7. Held(g)' = Held(g) \cup Elements(m.value) /\ \A h \in Thread : h # g => recv'[h] = recv[h]
  <2> HIDE DEF m
  <2> QED
    BY <1>1, <1>2, <1>3, <1>4, <1>6, TakenHeld
<1>8. Asked' = Asked
  BY <1>4, <1>7 DEF Asked
<1>9. recv'["main"] = recv["main"] /\ DeliveredValues' = DeliveredValues /\ pc'["main"] = pc["main"]
  BY <1>1, <1>3, <1>7 DEF DeliveredValues
<1> QED
  BY <1>3, <1>4, <1>8, <1>9, FlightOf

(* The main graph's node ticks with the answer. *)
LEMMA FlightLands ==
  ASSUME IInv, TypeInv', ~ Realtime, Mapper, DeliverMain
  PROVE  FlightOk(recv'["main"], pc'["main"], source', Asked', chan'["out"], DeliveredValues')
<1> DEFINE r == recv["main"]
           q == recv'["main"]
           n == source
           A == Asked
           o == chan["out"]
           D == DeliveredValues
           E == DeliveredValues'
           b == BurstOf("main")
<1>1. TypeInv /\ "main" \in Thread /\ "worker" \in Thread /\ SourceThread = "main"
  BY ReaderIs, Threads DEF IInv
<1>2. /\ source' = source /\ chan' = chan /\ Delivered("main") /\ pc["main"] = "deliver" /\ pc'["main"] = "top"
  BY <1>1, DeliverMainFrame
<1>3. /\ Splits("main") /\ Waiting(recv["main"], engine["main"].time) = <<>>
      /\ ~ r.finished => b = IF n \in Filtered THEN <<>> ELSE <<n>>
  BY <1>2, MainSplits DEF IInv
<1>4. q.queue = <<>> /\ q.finished = r.finished /\ q.message_time = NoTime /\ recv'["worker"] = recv["worker"]
  BY <1>1, <1>2, <1>3, DeliveredHeld
<1>5. E = D \cup Elements(b)
  BY DeliverMainValues
<1>6. Asked' = A
  BY <1>2, <1>4 DEF Asked, Held
<1>7. FlightOk(r, "deliver", n, A, o, D)
  BY <1>2, FlightOf
<1>8. n \in Nat /\ n > 0
  BY <1>1, <1>2 DEF IInv, SourceInv, TypeInv
<1> HIDE DEF r, q, n, A, o, D, E, b
<1>9. ASSUME ~ q.finished PROVE A = {} /\ OnlyEnds(o, 1) /\ E = Passed(n)
  <2>1. ~ r.finished
    BY <1>4, <1>9
  <2>2. D = Passed(n - 1) /\ Has(r, n, A, o)
    BY <1>7, <2>1 DEF FlightOk
  <2>3. Elements(b) = IF n \in Filtered THEN {} ELSE {n}
    BY <1>3, <2>1, NoValues, OneValue
  <2>4. 1..n = 1..(n - 1) \cup {n}
    BY <1>8
  <2>5. Passed(n) = Passed(n - 1) \cup IF n \in Filtered THEN {} ELSE {n}
    BY <2>4 DEF Passed
  <2> QED
    BY <1>5, <2>2, <2>3, <2>5 DEF Has
<1>10. FlightOk(q, "top", n, A, o, E)
  BY <1>4, <1>9 DEF FlightOk
<1> QED
  BY <1>2, <1>6, <1>10 DEF q, n, A, o, E

(* The worker answers the value it is asked, with what is left of it or with a checkpoint. *)
LEMMA FlightAnswers ==
  ASSUME IInv, ~ Realtime, Mapper, DeliverWorker
  PROVE  FlightOk(recv'["main"], pc'["main"], source', Asked', chan'["out"], DeliveredValues')
<1> DEFINE r == recv["main"]
           n == source
           A == Asked
           B == Asked'
           o == chan["out"]
           u == chan'["out"]
           D == DeliveredValues
           b == BurstOf("worker")
           w == Waiting(recv["worker"], engine["worker"].time)
           p == pc["main"]
           now == engine["worker"].time
           I == ValuesOf(chan["in"])
<1>1. TypeInv /\ ChannelInv /\ "main" \in Thread /\ "worker" \in Thread /\ "in" \in Channel /\ "out" \in Channel
  BY Threads DEF IInv
<1>2. /\ source' = source /\ delivered' = delivered /\ Delivered("worker") /\ pc["worker"] = "deliver"
      /\ pc'["main"] = pc["main"]
      /\ IF b = <<>> THEN chan' = chan ELSE chan' = [chan EXCEPT !["out"] = Append(@, Reply)]
  BY <1>1, DeliverWorkerFrame
<1>3. Splits("worker")
  BY <1>1, <1>2, DeliverSplits
<1>4. /\ b \in Seq(Nat) /\ Held("worker") = Elements(b) \cup ValuesOf(w) /\ Below(Elements(b), ValuesOf(w))
      /\ b = <<>> \/ \E k \in 1..n : b = <<k>> /\ T(k) = now
  BY <1>3 DEF Splits
<1>5. Held("worker")' = ValuesOf(w) /\ recv'["main"] = r
  BY <1>1, <1>2, <1>3, DeliveredHeld
<1>6. /\ Reply \in Message /\ b \in Seq(Nat)
      /\ IF Pick(b) = <<>> THEN Reply = CheckPoint(now) ELSE Reply = ValueMessage(Pick(b), now)
  BY <1>1, ReplyIs
<1>7. chan'["in"] = chan["in"] /\ (b = <<>> => u = o) /\ (b # <<>> => u = Append(o, Reply)) /\ o \in Seq(Message)
  <2>1. CASE b = <<>>
    BY <1>1, <1>2, <2>1 DEF TypeInv
  <2>2. CASE b # <<>>
    <3>1. chan' = [chan EXCEPT !["out"] = Append(@, Reply)]
      BY <1>2, <2>2
    <3>2. chan'["out"] = Append(chan["out"], Reply) /\ chan'["in"] = chan["in"]
      BY <1>1, <1>6, <3>1, PushType
    <3> QED
      BY <1>1, <2>2, <3>2 DEF TypeInv
  <2> QED
    BY <2>1, <2>2
<1>8. A = Elements(b) \cup ValuesOf(w) \cup I /\ B = ValuesOf(w) \cup I
  BY <1>4, <1>5, <1>7 DEF Asked
<1>9. Below(Elements(b) \cup ValuesOf(w), I)
  BY <1>4 DEF IInv, StageInv, Chain
<1>10. \A i \in DOMAIN o : o[i].kind # "EndOfStream"
  <2>1. ~ Over("worker")
    BY <1>2 DEF Over
  <2> QED
    BY <1>1, <2>1, StillOpen, Threads
<1>11. FlightOk(r, p, n, A, o, D) /\ DeliveredValues' = D
  BY <1>2, FlightOf DEF DeliveredValues
<1>12. now \in Nat /\ n \in Nat
  BY <1>1 DEF TypeInv, IsEngine
<1>13. \A s \in Seq(Nat) : ValueMessage(s, now).value = s /\ ValueMessage(s, now).kind = "HistoricalValue"
  BY <1>12, ValueMessageIs
<1>14. CheckPoint(now).kind = "CheckPoint" /\ CheckPoint(now).time = now
  BY DEF CheckPoint
<1> DEFINE W == ValuesOf(w)
           m == Reply
<1> HIDE DEF r, n, A, B, o, u, D, b, w, p, now, I, W, m
<1>15. CASE A = {}
  <2>1. Elements(b) = {} /\ B = {}
    BY <1>8, <1>15
  <2>2. b = <<>>
    BY <1>4, <2>1, NoneElse
  <2>3. FlightOk(r, p, n, B, u, D)
    BY <1>7, <1>11, <1>15, <2>1, <2>2
  <2> QED
    BY <1>2, <1>5, <1>11, <2>3 DEF r, p, n, B, u, D
<1>16. CASE r.finished \/ p \notin {"setup", "top", "receive", "deliver"}
  <2>1. FlightOk(r, p, n, B, u, D)
    BY <1>11, <1>16 DEF FlightOk
  <2> QED
    BY <1>2, <1>5, <1>11, <2>1 DEF r, p, n, B, u, D
<1>17. CASE A = {n} /\ OnlyEnds(o, 1) /\ ~ r.finished /\ p = "receive" /\ Lacks(r, n, A, o)
  <2>1. CASE b = <<>>
    <3>1. B = A /\ u = o
      BY <1>7, <1>8, <2>1, NoValues
    <3>2. FlightOk(r, p, n, B, u, D)
      BY <1>11, <3>1
    <3> QED
      BY <1>2, <1>5, <1>11, <3>2 DEF r, p, n, B, u, D
  <2>2. CASE b # <<>>
    <3>1. PICK k \in 1..n : b = <<k>> /\ T(k) = now
      BY <1>4, <2>2
    <3>2. Elements(b) = {k}
      BY <3>1, OneValue
    <3>3. k = n
      BY <1>8, <1>17, <3>2
    <3>4. o = <<>>
      <4>1. ~ (1 \in DOMAIN o)
        BY <1>10, <1>17 DEF OnlyEnds
      <4> QED
        BY <1>7, <4>1
    <3>5. u = <<m>>
      BY <1>7, <2>2, <3>4 DEF m
    <3>6. Pick(b) = IF n \in Filtered THEN <<>> ELSE <<n>>
      BY <1>12, <3>1, <3>3, PickOne
    <3>7. Answers(m, n)
      <4>1. CASE n \in Filtered
        <5>1. m = CheckPoint(now)
          BY <1>6, <3>6, <4>1 DEF m
        <5> QED
          BY <1>14, <3>1, <3>3, <4>1, <5>1 DEF Answers
      <4>2. CASE n \notin Filtered
        <5>1. Pick(b) = <<n>> /\ <<n>> \in Seq(Nat) /\ <<n>> # <<>>
          BY <1>12, <3>6, <4>2
        <5>2. m = ValueMessage(<<n>>, now)
          BY <1>6, <5>1 DEF m
        <5> QED
          BY <1>13, <4>2, <5>1, <5>2 DEF Answers
      <4> QED
        BY <4>1, <4>2
    <3>8. B = {}
      <4>1. n \in Elements(b) /\ ~ (n < n)
        BY <1>12, <3>2, <3>3
      <4>2. \A x \in ValuesOf(w) \cup I : x = n
        BY <1>8, <1>17
      <4>3. \A x \in ValuesOf(w) \cup I : n < x
        BY <1>4, <1>9, <4>1 DEF Below
      <4> QED
        BY <1>8, <4>1, <4>2, <4>3
    <3>9. Lacks(r, n, B, u)
      <4>1. r.queue = <<>> /\ r.message_time = NoTime
        BY <1>17 DEF Lacks
      <4>2. u # <<>> /\ u[1] = m /\ OnlyEnds(u, 2)
        BY <3>5 DEF OnlyEnds
      <4> QED
        BY <3>7, <3>8, <4>1, <4>2 DEF Lacks
    <3>10. FlightOk(r, p, n, B, u, D)
      BY <1>11, <1>17, <3>9 DEF FlightOk
    <3> QED
      BY <1>2, <1>5, <1>11, <3>10 DEF r, p, n, B, u, D
  <2> QED
    BY <2>1, <2>2
<1>18. A = {} \/ (r.finished \/ p \notin {"setup", "top", "receive", "deliver"})
         \/ (A = {n} /\ OnlyEnds(o, 1) /\ ~ r.finished /\ p = "receive" /\ Lacks(r, n, A, o))
  BY <1>11 DEF FlightOk, Has, Lacks
<1> QED
  BY <1>15, <1>16, <1>17, <1>18

(* The end of a run: the worker's is the last message. *)
LEMMA FlightStops ==
  ASSUME IInv, ~ Realtime, Mapper, NEW g \in Thread, Stop(g)
  PROVE  FlightOk(recv'["main"], pc'["main"], source', Asked', chan'["out"], DeliveredValues')
<1> DEFINE r == recv["main"]
           n == source
           A == Asked
           B == Asked'
           o == chan["out"]
           u == chan'["out"]
           D == DeliveredValues
           p == pc["main"]
<1>1. TypeInv /\ "main" \in Thread /\ "worker" \in Thread /\ "in" \in Channel /\ "out" \in Channel
  BY Threads DEF IInv
<1>2. /\ UNCHANGED <<source, recv, delivered>> /\ pc[g] = "stop" /\ \A h \in Thread : h # g => pc'[h] = pc[h]
      /\ pc'[g] \in {"end", "close"}
      /\ chan' = [chan EXCEPT ![Outgoing(g)] = Append(@, EndOfStream)] \/ chan' = chan
  BY <1>1, StopFrame
<1>3. FlightOk(r, p, n, A, o, D)
  BY FlightOf
<1>4. DeliveredValues' = D /\ Held("worker")' = Held("worker")
  BY <1>2 DEF DeliveredValues, Held
<1>5. CASE g = "main"
  <2>1. p = "stop" /\ pc'["main"] \in {"end", "close"}
    BY <1>2, <1>5
  <2> HIDE DEF r, n, A, B, o, u, D, p
  <2>2. r.queue = <<>> /\ r.message_time = NoTime
    BY <1>3, <2>1 DEF FlightOk
  <2>3. FlightOk(r, pc'["main"], n, B, u, D)
    BY <2>1, <2>2 DEF FlightOk
  <2> QED
    BY <1>2, <1>4, <2>3 DEF r, n, B, u, D
<1>6. CASE g = "worker"
  <2>1. chan'["in"] = chan["in"] /\ (u = o \/ u = Append(o, EndOfStream)) /\ o \in Seq(Message)
    <3>1. EndOfStream \in Message /\ Outgoing(g) = "out"
      BY <1>6, Messages, Threads
    <3>2. CASE chan' = chan
      BY <1>1, <3>2 DEF TypeInv
    <3>3. CASE chan' = [chan EXCEPT !["out"] = Append(@, EndOfStream)]
      <4>1. chan'["out"] = Append(chan["out"], EndOfStream) /\ chan'["in"] = chan["in"]
        BY <1>1, <3>1, <3>3, PushType
      <4> QED
        BY <1>1, <4>1 DEF TypeInv
    <3> QED
      BY <1>2, <3>1, <3>2, <3>3
  <2>2. B = A
    BY <1>4, <2>1 DEF Asked
  <2>3. pc'["main"] = p
    BY <1>1, <1>2, <1>6
  <2> HIDE DEF r, n, A, B, o, u, D, p
  <2>4. CASE u = o
    <3>1. FlightOk(r, p, n, B, u, D)
      BY <1>3, <2>2, <2>4
    <3> QED
      BY <1>2, <1>4, <2>3, <3>1 DEF r, n, B, u, D
  <2>5. CASE u = Append(o, EndOfStream)
    <3> DEFINE x == EndOfStream
    <3>1. x.kind = "EndOfStream" /\ x \in Message
      BY Messages DEF EndOfStream
    <3> HIDE DEF x
    <3>2. \A i \in DOMAIN u : (i \in DOMAIN o /\ u[i] = o[i]) \/ u[i] = x
      BY <2>1, <2>5, <3>1 DEF x
    <3>3. \A from : OnlyEnds(o, from) => OnlyEnds(u, from)
      BY <3>1, <3>2 DEF OnlyEnds
    <3>4. o # <<>> => u # <<>> /\ u[1] = o[1]
      BY <2>1, <2>5, <3>1 DEF x
    <3>5. Has(r, n, A, o) => Has(r, n, A, u)
      BY <3>3 DEF Has
    <3>6. Lacks(r, n, A, o) => Lacks(r, n, A, u)
      BY <3>3, <3>4, Zenon DEF Lacks
    <3>7. FlightOk(r, p, n, B, u, D)
      BY <1>3, <2>2, <3>3, <3>5, <3>6 DEF FlightOk
    <3> QED
      BY <1>2, <1>4, <2>3, <3>7 DEF r, n, B, u, D
  <2> QED
    BY <2>1, <2>4, <2>5
<1> QED
  BY <1>5, <1>6, Threads

(* A step that moves no message keeps what is in flight. *)
LEMMA FlightQuiet ==
  ASSUME IInv, ~ Realtime, Mapper, QuietStep
  PROVE  FlightOk(recv'["main"], pc'["main"], source', Asked', chan'["out"], DeliveredValues')
<1> DEFINE r == recv["main"]
           n == source
           A == Asked
           o == chan["out"]
           D == DeliveredValues
           p == pc["main"]
           q == pc'["main"]
<1>1. TypeInv /\ PhaseInv /\ "main" \in Thread /\ "worker" \in Thread /\ SourceThread = "main"
  BY Threads, ReaderIs DEF IInv
<1>2. UNCHANGED <<source, recv, chan, delivered>>
  BY <1>1, QuietFrame
<1>3. FlightOk(r, p, n, A, o, D)
  BY FlightOf
<1>4. DeliveredValues' = D /\ Asked' = A
  BY <1>2 DEF DeliveredValues, Held, Asked
<1>5. \/ StartsMain \/ StartsWorker
      \/ \E g \in Thread : Quits(g) \/ HasTaken(g) \/ Fails(g) \/ WindsDown(g)
  BY <1>1, QuietReplay
<1>6. ASSUME HasTaken("main") PROVE FlightOk(r, q, n, A, o, D)
  <2>1. p = "receive" /\ q = "deliver" /\ HasRead("main")
    BY <1>6 DEF HasTaken, Moves
  <2>2. engine["main"].time \in Nat
    BY <1>1 DEF TypeInv, IsEngine
  <2>3. r.finished \/ r.message_time > engine["main"].time \/ r.message_time = engine["main"].time
    BY <2>1 DEF HasRead, CaughtUp
  <2> HIDE DEF r, n, A, o, D, p, q
  <2>4. ASSUME ~ r.finished PROVE ~ Lacks(r, n, A, o)
    BY <2>2, <2>3, <2>4 DEF Lacks, NoTime
  <2> QED
    BY <1>3, <2>1, <2>4 DEF FlightOk
<1>7. ASSUME ~ HasTaken("main")
      PROVE  \/ q = p \/ (q \notin {"setup", "top", "receive", "deliver"} /\ p \notin {"receive", "deliver"})
             \/ p = "setup" /\ q = "top"
  <2>1. CASE StartsMain
    BY <2>1 DEF StartsMain
  <2>2. CASE StartsWorker
    BY <1>1, <2>2 DEF StartsWorker, Moves
  <2>3. ASSUME NEW g \in Thread, Quits(g) \/ HasTaken(g) \/ Fails(g) \/ WindsDown(g)
        PROVE  \/ q = p \/ (q \notin {"setup", "top", "receive", "deliver"} /\ p \notin {"receive", "deliver"})
    <3>1. CASE g = "main"
      BY <1>7, <2>3, <3>1 DEF Quits, HasTaken, Fails, WindsDown, Moves, Ended
    <3>2. CASE g # "main"
      BY <1>1, <2>3, <3>2 DEF Quits, HasTaken, Fails, WindsDown, Moves
    <3> QED
      BY <3>1, <3>2
  <2> QED
    BY <1>5, <2>1, <2>2, <2>3
<1>8. FlightOk(r, q, n, A, o, D)
  <2>1. CASE ~ HasTaken("main")
    <3>1. \/ q = p \/ (q \notin {"setup", "top", "receive", "deliver"} /\ p \notin {"receive", "deliver"})
          \/ p = "setup" /\ q = "top"
      BY <1>7, <2>1
    <3> HIDE DEF r, n, A, o, D, p, q
    <3> QED
      BY <1>3, <3>1, FlightMoves
  <2> QED
    BY <1>6, <2>1
<1> QED
  BY <1>2, <1>4, <1>8

(* A step keeps one value in flight at most. *)
LEMMA FlightStep ==
  ASSUME IInv, Next
  PROVE  FlightInv'
<1>1. TypeInv /\ TypeInv'
  BY TypeStep DEF IInv
<1>2. UNCHANGED <<kind, mode>>
  BY <1>1, StepCases, QuietFrame, DeliverMainFrame, DeliverWorkerFrame, BeginFrame, ReceiveFrame, StopFrame
<1>3. (Realtime' <=> Realtime) /\ (Mapper' <=> Mapper)
  BY <1>2 DEF Realtime, Mapper
<1>4. CASE Realtime \/ ~ Mapper
  BY <1>3, <1>4 DEF FlightInv
<1>5. CASE ~ Realtime /\ Mapper
  <2> DEFINE Goal == FlightOk(recv'["main"], pc'["main"], source', Asked', chan'["out"], DeliveredValues')
  <2>1. ASSUME NEW g \in Thread, BeginHistorical(g) \/ BeginRealtime(g) PROVE Goal
    <3>1. CASE g = "main"
      BY <1>5, <2>1, <3>1, FlightTicks
    <3>2. CASE g = "worker"
      <4>1. g = Reader /\ "main" \in Thread
        BY <1>5, <3>2, ReaderIs, Threads
      <4>2. source' = source /\ chan' = chan
        BY <1>5, <2>1, <4>1, ReaderBegins
      <4>3. recv' = recv /\ delivered' = delivered /\ pc'["main"] = pc["main"]
        BY <1>1, <2>1, <3>2, <4>1, BeginFrame
      <4>4. Asked' = Asked /\ DeliveredValues' = DeliveredValues
        BY <4>2, <4>3 DEF Asked, Held, DeliveredValues
      <4> QED
        BY <1>5, <4>2, <4>3, <4>4, FlightOf
    <3> QED
      BY <3>1, <3>2, Threads
  <2>2. ASSUME NEW g \in Thread, Receive(g) PROVE Goal
    BY <1>5, <2>2, FlightReceives, FlightAsks, Threads
  <2>3. Goal
    BY <1>1, <1>5, <2>1, <2>2, StepCases, FlightQuiet, FlightLands, FlightAnswers, FlightStops
  <2>4. (~ Realtime' /\ Mapper') =>
          (FlightInv' <=> FlightOk(recv'["main"], pc'["main"], source', Asked', chan'["out"], DeliveredValues'))
    <3>1. Mapper' => \A n : Kept(n)' = Passed(n)
      BY DEF Kept, Passed
    <3> SUFFICES ASSUME ~ Realtime', Mapper'
                 PROVE  FlightInv' <=>
                          FlightOk(recv'["main"], pc'["main"], source', Asked', chan'["out"], DeliveredValues')
      OBVIOUS
    <3>2. \A from : Answered(from)' <=> OnlyEnds(chan'["out"], from)
      BY DEF Answered, OnlyEnds
    <3>3. \A m : IsAnswer(m)' <=> Answers(m, source')
      BY DEF IsAnswer, Answers
    <3>4. HasAnswer(recv["main"])' <=> Has(recv'["main"], source', Asked', chan'["out"])
      BY <3>2, Zenon DEF HasAnswer, Has
    <3>5. LacksAnswer(recv["main"])' <=> Lacks(recv'["main"], source', Asked', chan'["out"])
      BY <3>2, <3>3, Zenon DEF LacksAnswer, Lacks
    <3> QED
      BY <3>1, <3>2, <3>4, <3>5, Zenon DEF FlightInv, FlightOk
  <2> QED
    BY <1>3, <1>5, <2>3, <2>4
<1> QED
  BY <1>4, <1>5

-----------------------------------------------------------------------------
(* Completeness *)

(* The phases in which a graph is on its way out. *)
Finishing(g) == IF g = "main" THEN Ended ELSE Ended \cup {"release", "disconnect"}

(* Every value that a producer's source has ticked with is somewhere. *)
LEMMA NothingIsLost ==
  ASSUME IInv, Next, TypeInv', ~ Realtime, ~ Mapper
  PROVE  (DeliveredValues \cup Held("main") \cup ValuesOf(chan["out"]))' = 1..source'
<1> DEFINE D == DeliveredValues
           H == Held("main")
           O == ValuesOf(chan["out"])
           Goal == (DeliveredValues \cup Held("main") \cup ValuesOf(chan["out"]))' = 1..source'
<1>1. /\ TypeInv /\ ProducerInv /\ SourceInv /\ SourceThread = "worker" /\ "main" \in Thread /\ "worker" \in Thread
      /\ Outgoing("worker") = "out" /\ Incoming("main") = "out" /\ "out" \in Channel
  BY ReaderIs, Threads DEF IInv
<1>2. D \cup H \cup O = 1..source
  BY DEF IInv, CompleteInv
<1>3. pc["worker"] \notin {"receive", "deliver"}
  BY <1>1 DEF SourceInv
<1>4. ASSUME QuietStep PROVE Goal
  <2>1. UNCHANGED <<source, recv, chan, delivered>>
    BY <1>1, <1>4, QuietFrame
  <2>2. DeliveredValues' = D /\ Held("main")' = H /\ ValuesOf(chan["out"])' = O
    BY <2>1 DEF DeliveredValues, Held
  <2> QED
    BY <1>2, <2>1, <2>2
<1>5. ASSUME NEW g \in Thread, BeginHistorical(g) \/ BeginRealtime(g) PROVE Goal
  <2>1. UNCHANGED <<recv, delivered>> /\ engine'[g].time \in Nat
    BY <1>1, <1>5, BeginFrame
  <2>2. DeliveredValues' = D /\ Held("main")' = H
    BY <2>1 DEF DeliveredValues, Held
  <2>3. CASE Ticks(g)
    <3>1. g = "worker" /\ source' = source + 1 /\ source \in Nat
      BY <1>1, <1>5, <2>3, TickTime DEF Ticks
    <3> DEFINE m == ValueMessage(<<source + 1>>, engine'[g].time)
    <3>2. chan' = [chan EXCEPT !["out"] = Append(@, m)]
      BY <1>1, <2>3, <3>1 DEF Ticks, ProducerInv
    <3>3. <<source + 1>> \in Seq(Nat)
      BY <3>1
    <3>4. m \in Message /\ m.value = <<source + 1>>
      BY <2>1, <3>3, ValueMessageIs
    <3> HIDE DEF m
    <3>5. ValuesOf(chan'["out"]) = O \cup Elements(m.value)
      BY <1>1, <3>2, <3>4, PushedMessages
    <3>6. Elements(m.value) = {source + 1}
      BY <3>4, OneValue
    <3>7. 1..(source + 1) = 1..source \cup {source + 1}
      BY <3>1
    <3> HIDE DEF D, H, O
    <3>8. D \cup H \cup (O \cup {source + 1}) = 1..(source + 1)
      BY <1>2, <3>7
    <3> QED
      BY <2>2, <3>1, <3>5, <3>6, <3>8
  <2>4. CASE ~ Ticks(g)
    <3>1. source' = source /\ chan' = chan
      BY <1>1, <1>5, <2>4, BeginFrame
    <3> QED
      BY <1>2, <2>2, <3>1
  <2> QED
    BY <2>3, <2>4
<1>6. ASSUME NEW g \in Thread, Receive(g) PROVE Goal
  <2> DEFINE m == Next1(g)
  <2>1. g = "main"
    BY <1>1, <1>3, <1>6, ReceiveFrame, Threads
  <2>2. ~ Refused(m, Realtime, engine[g].time)
    BY <1>6, NotRefused
  <2>3. source' = source /\ delivered' = delivered /\ recv' = [recv EXCEPT ![g] = Taken(recv[g], m, Realtime)]
    BY <1>1, <1>6, <2>2, ReceiveFrame
  <2>4. m \in Message /\ FormOf(m) /\ Rising(m.value) /\ O = Elements(m.value) \cup ValuesOf(chan'["out"])
    BY <1>1, <1>6, <2>1, NextMessage
  <2>5. Below(H, O)
    BY DEF IInv, StageInv, Chain
  <2>6. Below(Held(g), Elements(m.value))
    BY <2>1, <2>4, <2>5 DEF Below
  <2>7. Held(g)' = Held(g) \cup Elements(m.value)
    <3> HIDE DEF m
    <3> QED
      BY <1>1, <2>2, <2>3, <2>4, <2>6, TakenHeld DEF IInv
  <2>8. DeliveredValues' = D
    BY <2>3 DEF DeliveredValues
  <2> QED
    BY <1>2, <2>1, <2>3, <2>4, <2>7, <2>8
<1>7. ASSUME NEW g \in Thread, Stop(g) PROVE Goal
  <2>1. /\ UNCHANGED <<source, recv, delivered>>
        /\ \/ chan' = [chan EXCEPT ![Outgoing(g)] = Append(@, EndOfStream)] /\ g = "worker"
           \/ chan' = chan
    BY <1>1, <1>7, StopFrame
  <2>2. DeliveredValues' = D /\ Held("main")' = H
    BY <2>1 DEF DeliveredValues, Held
  <2>3. ValuesOf(chan'["out"]) = O
    <3>1. CASE chan' = chan
      BY <3>1
    <3>2. CASE chan' = [chan EXCEPT !["out"] = Append(@, EndOfStream)]
      <4>1. EndOfStream \in Message /\ EndOfStream.value = <<>>
        BY Messages DEF EndOfStream
      <4>2. ValuesOf(chan'["out"]) = O \cup Elements(EndOfStream.value)
        BY <1>1, <3>2, <4>1, PushedMessages
      <4> QED
        BY <4>1, <4>2, NoValues
    <3> QED
      BY <1>1, <2>1, <3>1, <3>2
  <2> QED
    BY <1>2, <2>1, <2>2, <2>3
<1>8. ASSUME DeliverMain PROVE Goal
  <2>1. source' = source /\ chan' = chan /\ Delivered("main") /\ pc["main"] = "deliver"
    BY <1>1, <1>8, DeliverMainFrame
  <2>2. Splits("main")
    BY <1>1, <2>1, DeliverSplits
  <2>3. H = Elements(BurstOf("main")) \cup ValuesOf(Waiting(recv["main"], engine["main"].time))
    BY <2>2 DEF Splits
  <2>4. Held("main")' = ValuesOf(Waiting(recv["main"], engine["main"].time))
    BY <1>1, <2>1, <2>2, DeliveredHeld
  <2>5. DeliveredValues' = D \cup Elements(BurstOf("main"))
    BY <1>8, DeliverMainValues
  <2> DEFINE w == ValuesOf(Waiting(recv["main"], engine["main"].time))
             b == Elements(BurstOf("main"))
  <2> HIDE DEF w, b
  <2> QED
    BY <1>2, <2>1, <2>3, <2>4, <2>5 DEF w, b
<1>9. ASSUME DeliverWorker PROVE Goal
  BY <1>1, <1>3, <1>9, DeliverWorkerFrame
<1> QED
  BY <1>4, <1>5, <1>6, <1>7, <1>8, <1>9, StepCases

(* In an unbounded replay a graph ends because nothing more can come. *)
LEMMA QuitsComplete ==
  ASSUME IInv, ~ Realtime, run_for.kind = "Forever", NoError, NEW g \in Thread, Quits(g)
  PROVE  /\ g = "main" => source = N /\ DeliveredValues = Kept(N)
         /\ g = "worker" => IF Mapper THEN recv["worker"].finished ELSE source = N
<1>1. /\ TypeInv /\ ChannelInv /\ Reader \in Thread /\ SourceThread \in Thread /\ "main" \in Thread /\ "worker" \in Thread
      /\ Reader # SourceThread /\ (Mapper => Reader = "worker" /\ SourceThread = "main")
      /\ (~ Mapper => Reader = "main" /\ SourceThread = "worker")
  BY ReaderIs, Threads DEF IInv
<1>2. pc[g] = "top" /\ (Finished(g) \/ Wakeups(g) = {})
  BY DEF Quits, Moves
<1>3. ~ Finished(g)
  BY DEF Finished, time_done
<1>4. Wakeups(g) = {}
  BY <1>2, <1>3
<1>5. g = SourceThread => source = N
  BY <1>1, <1>4, WakeupsAre, NextTickIs
<1>6. g = Reader => recv[Reader].finished /\ recv[Reader].queue = <<>>
  <2> SUFFICES ASSUME g = Reader PROVE recv[Reader].finished /\ recv[Reader].queue = <<>>
    OBVIOUS
  <2>1. engine[Reader].callbacks = {}
    BY <1>1, <1>4, WakeupsAre
  <2>2. ReaderTop(engine[Reader], recv[Reader])
    BY <1>2 DEF IInv, ReaderInv
  <2> DEFINE e == engine[Reader]
             r == recv[Reader]
  <2> HIDE DEF e, r
  <2>3. r.finished /\ r.queue = <<>>
    BY <2>1, <2>2 DEF ReaderTop, e, r
  <2> QED
    BY <2>3 DEF r
<1>7. recv["main"].finished => chan["out"] = <<>> /\ Over("worker")
  BY <1>1, ChannelInvDef, Threads DEF ChannelOf
<1>8. Over("worker") => IF Mapper THEN recv["worker"].finished ELSE source = N
  BY DEF IInv, CompleteInv, Over, Ended
<1>9. recv["worker"].finished => Over("main")
  BY <1>1, ChannelInvDef, Threads DEF ChannelOf
<1>10. CASE g = "worker"
  BY <1>1, <1>5, <1>6, <1>10
<1>11. CASE g = "main" /\ Mapper
  <2>1. source = N
    BY <1>1, <1>5, <1>11
  <2>2. ~ Over("main")
    BY <1>2, <1>11 DEF Over
  <2>3. ~ recv["main"].finished
    BY <1>7, <1>8, <1>9, <1>11, <2>2
  <2>4. DeliveredValues = Kept(source)
    BY <1>2, <1>11, <2>3 DEF IInv, FlightInv
  <2> QED
    BY <1>11, <2>1, <2>4
<1>12. CASE g = "main" /\ ~ Mapper
  <2>1. recv["main"].finished /\ recv["main"].queue = <<>>
    BY <1>1, <1>6, <1>12
  <2>2. chan["out"] = <<>> /\ source = N
    BY <1>7, <1>8, <1>12, <2>1
  <2>3. recv["main"].values = <<>>
    BY <1>1 DEF IInv, FormInv
  <2>4. Held("main") = {} /\ ValuesOf(chan["out"]) = {}
    BY <2>1, <2>2, <2>3, NoValues DEF Held
  <2>5. DeliveredValues \cup Held("main") \cup ValuesOf(chan["out"]) = 1..source
    BY <1>12 DEF IInv, CompleteInv
  <2>6. DeliveredValues = 1..N
    BY <2>2, <2>4, <2>5
  <2>7. Kept(N) = 1..N
    BY <1>12 DEF Kept
  <2> QED
    BY <1>12, <2>2, <2>6, <2>7
<1> QED
  BY <1>10, <1>11, <1>12, Threads

(* A thread that ends, and what cannot change once it has. *)
LEMMA Ends ==
  ASSUME IInv, Next, ~ Realtime
  PROVE  /\ NoError' => NoError
         /\ UNCHANGED <<kind, mode, run_for>>
         /\ source' = source \/ (source' = source + 1 /\ source + 1 \in 1..N)
         /\ \A g \in Thread :
              /\ (pc'[g] \in Finishing(g) /\ NoError') => pc[g] \in Finishing(g) \/ Quits(g)
              /\ pc[g] \in Finishing(g) => /\ recv'[g] = recv[g]
                                           /\ g = "main" => DeliveredValues' = DeliveredValues
              /\ Quits(g) => recv' = recv /\ delivered' = delivered /\ source' = source
<1>0. TypeInv /\ PhaseInv /\ "main" \in Thread /\ "worker" \in Thread /\ notifier = {}
  BY Threads DEF IInv, PhaseInv
<1>1. UNCHANGED <<kind, mode, run_for>>
  BY <1>0, StepCases, QuietFrame, DeliverMainFrame, DeliverWorkerFrame, BeginFrame, ReceiveFrame, StopFrame
<1>2. source' = source \/ (source' = source + 1 /\ source + 1 \in 1..N)
  BY <1>0, StepCases, QuietFrame, DeliverMainFrame, DeliverWorkerFrame, BeginFrame, ReceiveFrame, StopFrame DEF Ticks
<1> DEFINE Stays(g) ==
      /\ (pc'[g] \in Finishing(g) /\ NoError') => pc[g] \in Finishing(g) \/ Quits(g)
      /\ pc[g] \in Finishing(g) => recv'[g] = recv[g] /\ (g = "main" => DeliveredValues' = DeliveredValues)
      /\ Quits(g) => recv' = recv /\ delivered' = delivered /\ source' = source
<1>3. \A g : {"stop", "end", "close"} \subseteq Finishing(g) /\ Finishing(g) \cap {"none", "setup", "top", "notify", "receive", "deliver", "failed"} = {}
  BY DEF Finishing, Ended
<1>4. \A g : Quits(g) => pc[g] = "top" /\ pc'[g] = "stop"
  BY DEF Quits, Moves
<1>5. ErrorSame => (NoError' => NoError)
  BY DEF ErrorSame, NoError
<1>6. ASSUME QuietStep
      PROVE  (NoError' => NoError) /\ \A g \in Thread : Stays(g)
  <2>1. UNCHANGED <<source, recv, delivered>> /\ DeliveredValues' = DeliveredValues
    BY <1>0, <1>6, QuietFrame DEF DeliveredValues
  <2>2. \/ StartsMain \/ StartsWorker
        \/ \E g \in Thread : Quits(g) \/ HasTaken(g) \/ Fails(g) \/ WindsDown(g)
    BY <1>0, <1>6, QuietReplay
  <2>3. CASE StartsMain
    <3>1. ErrorSame
      BY <1>0, <2>3, FirstCallbackIs DEF StartsMain, ErrorSame
    <3>2. \A g \in Thread : pc'[g] \in {"top", "setup"}
      BY <2>3, Threads DEF StartsMain
    <3> QED
      BY <1>3, <1>5, <2>1, <3>1, <3>2
  <2>4. CASE StartsWorker
    <3>1. ErrorSame
      BY <1>0, <2>4, FirstCallbackIs DEF StartsWorker, ErrorSame
    <3>2. \A g \in Thread : pc'[g] = "top" \/ pc'[g] = pc[g]
      BY <2>4, Threads DEF StartsWorker, Moves
    <3> QED
      BY <1>3, <1>5, <2>1, <3>1, <3>2
  <2>5. ASSUME NEW h \in Thread, Quits(h) \/ HasTaken(h) \/ Fails(h) \/ WindsDown(h)
        PROVE  (NoError' => NoError) /\ \A g \in Thread : Stays(g)
    <3>1. CASE Quits(h)
      <4>1. ErrorSame
        BY <3>1 DEF Quits, ErrorSame
      <4>2. \A g \in Thread : g = h \/ pc'[g] = pc[g]
        BY <3>1 DEF Quits, Moves
      <4> QED
        BY <1>5, <2>1, <3>1, <4>1, <4>2
    <3>2. CASE HasTaken(h)
      <4>1. ErrorSame
        BY <3>2 DEF HasTaken, ErrorSame
      <4>2. \A g \in Thread : pc'[g] = "deliver" \/ pc'[g] = pc[g]
        BY <3>2 DEF HasTaken, Moves
      <4> QED
        BY <1>3, <1>5, <2>1, <4>1, <4>2
    <3>3. CASE Fails(h)
      <4>1. ~ NoError'
        BY <3>3 DEF Fails, NoError
      <4> QED
        BY <2>1, <4>1
    <3>4. CASE WindsDown(h)
      <4>1. NoError' => NoError
        BY <3>4 DEF WindsDown, NoError
      <4>2. \A g \in Thread : pc'[g] = pc[g] \/ pc[g] \in Finishing(g)
        BY <3>4 DEF WindsDown, Moves, Finishing
      <4> QED
        BY <2>1, <4>1, <4>2
    <3> QED
      BY <2>5, <3>1, <3>2, <3>3, <3>4
  <2> QED
    BY <2>2, <2>3, <2>4, <2>5
<1>7. ASSUME NEW h \in Thread, BeginHistorical(h) \/ BeginRealtime(h)
      PROVE  (NoError' => NoError) /\ \A g \in Thread : Stays(g)
  <2>1. /\ recv' = recv /\ delivered' = delivered /\ engine' = Begun(h, engine'[h].time) /\ engine'[h].time \in Nat
        /\ \A g \in Thread : g # h => pc'[g] = pc[g]
        /\ Ticks(h) \/ pc'[h] = "receive"
    BY <1>0, <1>7, BeginFrame
  <2>2. ErrorSame
    BY <1>0, <2>1, BegunFields DEF ErrorSame
  <2>3. pc'[h] \in {"failed", "receive", "top", "notify"}
    BY <2>1 DEF Ticks, AfterPush, AfterSend
  <2>4. DeliveredValues' = DeliveredValues
    BY <2>1 DEF DeliveredValues
  <2>5. \A g \in Thread : ~ Quits(g)
    <3> SUFFICES ASSUME NEW g \in Thread, Quits(g) PROVE FALSE
      OBVIOUS
    <3>1. pc[g] = "top" /\ pc'[g] = "stop"
      BY <1>4
    <3>2. engine' = engine
      BY DEF Quits
    <3>3. g = h
      BY <2>1, <3>1
    <3> QED
      BY <2>3, <3>1, <3>3
  <2> QED
    BY <1>3, <1>5, <2>1, <2>2, <2>3, <2>4, <2>5
<1>8. ASSUME NEW h \in Thread, Receive(h)
      PROVE  (NoError' => NoError) /\ \A g \in Thread : Stays(g)
  <2>1. /\ UNCHANGED <<engine, pc, delivered>> /\ pc[h] = "receive"
        /\ recv' = [recv EXCEPT ![h] = Taken(recv[h], Next1(h), Realtime)]
    BY <1>0, <1>8, NotRefused, ReceiveFrame
  <2>2. \A g \in Thread : g # h => recv'[g] = recv[g]
    BY <1>0, <2>1 DEF TypeInv
  <2>3. ErrorSame /\ DeliveredValues' = DeliveredValues
    BY <2>1 DEF ErrorSame, DeliveredValues
  <2>4. \A g \in Thread : ~ Quits(g)
    BY <1>4, <2>1
  <2> QED
    BY <1>3, <1>5, <2>1, <2>2, <2>3, <2>4
<1>9. ASSUME NEW h \in Thread, Stop(h)
      PROVE  (NoError' => NoError) /\ \A g \in Thread : Stays(g)
  <2>1. /\ UNCHANGED <<engine, recv, delivered>> /\ pc[h] = "stop" /\ \A g \in Thread : g # h => pc'[g] = pc[g]
        /\ pc'[h] \in {"end", "close"} /\ source' = source
    BY <1>0, <1>9, StopFrame
  <2>2. ErrorSame /\ DeliveredValues' = DeliveredValues
    BY <2>1 DEF ErrorSame, DeliveredValues
  <2> QED
    BY <1>3, <1>5, <2>1, <2>2
<1>10. ASSUME DeliverMain
       PROVE  (NoError' => NoError) /\ \A g \in Thread : Stays(g)
  <2>1. Delivered("main") /\ pc["main"] = "deliver" /\ pc'["worker"] = pc["worker"] /\ pc'["main"] = "top"
    BY <1>0, <1>10, DeliverMainFrame
  <2>2. ErrorSame /\ recv'["worker"] = recv["worker"]
    BY <1>0, <2>1, DeliveredFrame DEF ErrorSame
  <2>3. \A g \in Thread : ~ Quits(g)
    BY <1>4, <2>1, Threads
  <2> QED
    BY <1>3, <1>5, <2>1, <2>2, <2>3, Threads
<1>11. ASSUME DeliverWorker
       PROVE  (NoError' => NoError) /\ \A g \in Thread : Stays(g)
  <2>1. /\ Delivered("worker") /\ pc["worker"] = "deliver" /\ pc'["main"] = pc["main"]
        /\ pc'["worker"] \in {"notify", "top"} /\ delivered' = delivered
    BY <1>0, <1>11, DeliverWorkerFrame
  <2>2. ErrorSame /\ recv'["main"] = recv["main"] /\ DeliveredValues' = DeliveredValues
    BY <1>0, <2>1, DeliveredFrame DEF ErrorSame, DeliveredValues
  <2>3. \A g \in Thread : ~ Quits(g)
    BY <1>4, <2>1, Threads
  <2> QED
    BY <1>3, <1>5, <2>1, <2>2, <2>3, Threads
<1>12. (NoError' => NoError) /\ \A g \in Thread : Stays(g)
  BY <1>6, <1>7, <1>8, <1>9, <1>10, <1>11, StepCases
<1> QED
  BY <1>1, <1>2, <1>12

(* A step loses no value, and a graph ends with all of them. *)
LEMMA CompleteStep ==
  ASSUME IInv, Next
  PROVE  CompleteInv'
<1>0. TypeInv /\ TypeInv' /\ CompleteInv /\ "main" \in Thread /\ "worker" \in Thread
  BY TypeStep, Threads DEF IInv
<1>1. UNCHANGED <<kind, mode>>
  BY <1>0, StepCases, QuietFrame, DeliverMainFrame, DeliverWorkerFrame, BeginFrame, ReceiveFrame, StopFrame
<1>2. (Realtime' <=> Realtime) /\ (Mapper' <=> Mapper) /\ Kept(N)' = Kept(N)
  BY <1>1 DEF Realtime, Mapper, Kept, N
<1>3. CASE Realtime
  BY <1>2, <1>3 DEF CompleteInv
<1>4. CASE ~ Realtime
  <2>1. ~ Mapper => (DeliveredValues \cup Held("main") \cup ValuesOf(chan["out"]))' = 1..source'
    BY <1>0, <1>4, NothingIsLost
  <2>2. /\ NoError' => NoError
        /\ run_for' = run_for
        /\ source' = source \/ (source' = source + 1 /\ source + 1 \in 1..N)
        /\ \A g \in Thread :
             /\ (pc'[g] \in Finishing(g) /\ NoError') => pc[g] \in Finishing(g) \/ Quits(g)
             /\ pc[g] \in Finishing(g) => /\ recv'[g] = recv[g]
                                          /\ g = "main" => DeliveredValues' = DeliveredValues
             /\ Quits(g) => recv' = recv /\ delivered' = delivered /\ source' = source
    BY <1>4, Ends
  <2>3. source = N => source' = N
    BY <2>2, Times
  <2>4. Finishing("main") = Ended /\ Finishing("worker") = Ended \cup {"release", "disconnect"}
    BY DEF Finishing
  <2>5. ASSUME run_for'.kind = "Forever", NoError'
        PROVE  /\ pc'["main"] \in Ended => source' = N /\ DeliveredValues' = Kept(N)
               /\ pc'["worker"] \in Ended \cup {"release", "disconnect"} =>
                    IF Mapper THEN recv'["worker"].finished ELSE source' = N
    <3>1. run_for.kind = "Forever" /\ NoError
      BY <2>2, <2>5
    <3>2. /\ pc["main"] \in Ended => source = N /\ DeliveredValues = Kept(N)
          /\ pc["worker"] \in Ended \cup {"release", "disconnect"} =>
               IF Mapper THEN recv["worker"].finished ELSE source = N
      BY <1>0, <1>4, <3>1 DEF CompleteInv
    <3>3. /\ Quits("main") => source = N /\ DeliveredValues = Kept(N)
          /\ Quits("worker") => IF Mapper THEN recv["worker"].finished ELSE source = N
      BY <1>0, <1>4, <3>1, QuitsComplete
    <3>4. ASSUME pc'["main"] \in Ended PROVE source' = N /\ DeliveredValues' = Kept(N)
      <4>1. CASE pc["main"] \in Ended
        BY <1>0, <2>2, <2>3, <2>4, <3>2, <4>1
      <4>2. CASE Quits("main")
        <5>1. DeliveredValues' = DeliveredValues
          BY <1>0, <2>2, <4>2 DEF DeliveredValues
        <5> QED
          BY <2>3, <3>3, <4>2, <5>1
      <4> QED
        BY <1>0, <2>2, <2>4, <2>5, <3>4, <4>1, <4>2
    <3>5. ASSUME pc'["worker"] \in Ended \cup {"release", "disconnect"}
          PROVE  IF Mapper THEN recv'["worker"].finished ELSE source' = N
      <4>1. CASE pc["worker"] \in Ended \cup {"release", "disconnect"}
        BY <1>0, <2>2, <2>3, <2>4, <3>2, <4>1
      <4>2. CASE Quits("worker")
        BY <1>0, <2>2, <2>3, <3>3, <4>2
      <4> QED
        BY <1>0, <2>2, <2>4, <2>5, <3>5, <4>1, <4>2
    <3> QED
      BY <3>4, <3>5
  <2> QED
    BY <1>2, <2>1, <2>5 DEF CompleteInv
<1> QED
  BY <1>3, <1>4

-----------------------------------------------------------------------------
(* The theorems *)

(* The invariant before the run. *)
LEMMA InitInv ==
  ASSUME Init
  PROVE  IInv
<1>1. /\ Thread = {"main", "worker"} /\ Channel = {"in", "out"} /\ source = 0 /\ delivered = <<>>
      /\ kind \in {"producer", "mapper"} /\ mode \in {"RealTime", "HistoricalFrom"}
      /\ notifier = {} /\ senders = Channel /\ receivers = Channel
      /\ pc = [g \in Thread |-> IF g = "main" THEN "setup" ELSE "none"]
      /\ chan = [c \in Channel |-> <<>>]
  BY WorkersAssumption, Threads DEF Init
<1>2. \A c \in Channel : chan[c] = <<>>
  BY <1>1
<1>3. \A g \in Thread : /\ recv[g] = NewReceiver /\ recv[g].queue = <<>> /\ recv[g].values = <<>>
                        /\ ~ recv[g].finished /\ recv[g].message_time = NoTime
  BY DEF Init, NewReceiver
<1>4. \A g \in Thread : /\ engine[g].time = 0 /\ engine[g].first /\ engine[g].callbacks = {}
                        /\ engine[g].error = "none"
  BY DEF Init
<1>5. pc["main"] = "setup" /\ pc["worker"] = "none" /\ "main" \in Thread /\ "worker" \in Thread
      /\ "in" \in Channel /\ "out" \in Channel
  BY <1>1
<1>6. \A g \in Thread : pc[g] \in {"setup", "none"}
  BY <1>1, <1>5
<1>7. TypeInv
  <2>1. engine = [g \in Thread |-> engine[g]] /\ \A g \in Thread : IsEngine(engine[g])
    BY DEF Init, IsEngine, Errors
  <2>2. recv = [g \in Thread |-> recv[g]] /\ \A g \in Thread : IsRecv(recv[g])
    <3>1. IsRecv(NewReceiver)
      <4>1. /\ DOMAIN NewReceiver = {"finished", "message_time", "queue", "values"}
            /\ NewReceiver.message_time = NoTime /\ NewReceiver.queue = <<>> /\ NewReceiver.values = <<>>
        BY DEF NewReceiver
      <4> QED
        BY <4>1 DEF IsRecv
    <3> QED
      BY <1>3, <3>1 DEF Init
  <2>3. chan \in [Channel -> Seq(Message)] /\ pc \in [Thread -> Pcs]
    BY <1>1 DEF Pcs
  <2>4. source \in 0..Len(SourceTimes) /\ delivered \in Seq([value : Nat, time : Nat])
    <3>1. N \in Nat
      BY Times
    <3>2. <<>> \in Seq([value : Nat, time : Nat])
      OBVIOUS
    <3> QED
      BY <1>1, <3>1, <3>2 DEF N
  <2> QED
    BY <1>1, <2>1, <2>2, <2>3, <2>4 DEF TypeInv
<1>8. DeliveredValues = {} /\ \A g \in Thread : Held(g) = {}
  BY <1>1, <1>3, NoValues DEF DeliveredValues, Held
<1>9. \A c \in Channel : ValuesOf(chan[c]) = {}
  BY <1>2, NoValues
<1>10. PhaseInv
  BY <1>1, <1>4, <1>5, <1>6 DEF PhaseInv
<1>11. ChannelInv
  <2>1. \A g \in Thread : ChannelOf(g)
    BY <1>1, <1>2, <1>3, Threads DEF ChannelOf
  <2> QED
    BY <2>1, ChannelInvDef
<1>12. ProducerInv
  BY <1>1, <1>2, <1>3, <1>5 DEF ProducerInv
<1>13. FormInv
  BY <1>2, <1>3, <1>5 DEF FormInv
<1>14. OrderInv
  BY <1>1, <1>2, <1>3 DEF OrderInv, Rising, Ordered
<1>15. StageInv
  BY <1>5, <1>8, <1>9 DEF StageInv, Chain, Below
<1>16. Reader \in Thread /\ SourceThread \in Thread
  BY ReaderIs
<1>17. SourceInv
  BY <1>1, <1>4, <1>6, <1>16 DEF SourceInv
<1>18. ReaderInv
  BY <1>3, <1>4, <1>6, <1>16 DEF ReaderInv
<1>19. FlightInv
  <2>1. Kept(source) = {}
    BY <1>1 DEF Kept
  <2>2. Asked = {} /\ Answered(1)
    BY <1>2, <1>5, <1>8, <1>9 DEF Asked, Answered
  <2> QED
    BY <1>3, <1>5, <1>8, <2>1, <2>2 DEF FlightInv
<1>20. TimesInv
  BY <1>1 DEF TimesInv
<1>21. CompleteInv
  <2>1. 1..source = {}
    BY <1>1
  <2> QED
    BY <1>5, <1>8, <1>9, <2>1 DEF CompleteInv, Ended
<1> QED
  BY <1>7, <1>10, <1>11, <1>12, <1>13, <1>14, <1>15, <1>17, <1>18, <1>19, <1>20, <1>21 DEF IInv

(* The invariant is inductive: both threads' steps keep it. *)
LEMMA StepInv ==
  ASSUME IInv, [Next]_vars
  PROVE  IInv'
<1>1. CASE Next
  BY <1>1, TypeStep, PhaseStep, ValueStep, SourceStep, ReaderStep, FlightStep, CompleteStep DEF IInv, ValueInv
<1>2. CASE UNCHANGED vars
  <2>1. /\ UNCHANGED <<kind, mode, run_for, source, engine, recv, chan>>
        /\ UNCHANGED <<senders, receivers, notifier, ready, pc, delivered>>
    BY <1>2 DEF vars
  <2>2. TypeInv' <=> TypeInv
    BY <2>1 DEF TypeInv
  <2>3. /\ Realtime' = Realtime /\ Mapper' = Mapper /\ SourceThread' = SourceThread /\ Reader' = Reader
        /\ DeliveredValues' = DeliveredValues /\ (\A g : Held(g)' = Held(g)) /\ (\A g : Over(g)' <=> Over(g))
        /\ (\A m : FormOf(m)' <=> FormOf(m)) /\ Coming' = Coming /\ Asked' = Asked
        /\ (\A n : Kept(n)' = Kept(n))
    BY <2>1 DEF Realtime, Mapper, SourceThread, Reader, DeliveredValues, Held, Over, FormOf, Coming, Asked, Kept
  <2>4. PhaseInv' <=> PhaseInv
    BY <2>1, <2>3 DEF PhaseInv
  <2>5. ChannelInv' <=> ChannelInv
    BY <2>1, <2>3 DEF ChannelInv
  <2>6. ProducerInv' <=> ProducerInv
    BY <2>1, <2>3 DEF ProducerInv
  <2>7. FormInv' <=> FormInv
    BY <2>1, <2>3 DEF FormInv
  <2>8. OrderInv' <=> OrderInv
    BY <2>1 DEF OrderInv
  <2>9. StageInv' <=> StageInv
    BY <2>1, <2>3 DEF StageInv
  <2>10. SourceInv' <=> SourceInv
    BY <2>1, <2>3 DEF SourceInv
  <2>11. ReaderInv' <=> ReaderInv
    BY <2>1, <2>3 DEF ReaderInv
  <2>12. FlightInv' <=> FlightInv
    BY <2>1, <2>3 DEF FlightInv, HasAnswer, LacksAnswer, IsAnswer, Answered
  <2>13. TimesInv' <=> TimesInv
    BY <2>1, <2>3 DEF TimesInv
  <2>14. CompleteInv' <=> CompleteInv
    BY <2>1, <2>3 DEF CompleteInv, NoError
  <2> QED
    BY <2>2, <2>4, <2>5, <2>6, <2>7, <2>8, <2>9, <2>10, <2>11, <2>12, <2>13, <2>14 DEF IInv
<1> QED
  BY <1>1, <1>2

(* What the invariant says of a replay. *)
LEMMA InvImplies ==
  ASSUME IInv
  PROVE  OnItsOwnTime /\ LockStep
<1>1. OnItsOwnTime
  <2>1. \A k \in DOMAIN delivered : \A l \in 1..(k - 1) : delivered[l].value < delivered[k].value
    <3> SUFFICES ASSUME NEW k \in DOMAIN delivered, NEW l \in 1..(k - 1)
                 PROVE  delivered[l].value < delivered[k].value
      OBVIOUS
    <3>1. delivered \in Seq([value : Nat, time : Nat])
      BY DEF IInv, TypeInv
    <3>2. DOMAIN delivered = 1..Len(delivered) /\ Len(delivered) \in Nat
      BY <3>1
    <3>3. l \in DOMAIN delivered /\ l < k
      BY <3>2
    <3> QED
      BY <3>3 DEF IInv, OrderInv
  <2> QED
    BY <2>1 DEF OnItsOwnTime, IInv, TimesInv, PhaseInv, T
<1>2. LockStep
  BY DEF LockStep, IInv, FlightInv, CompleteInv, NoError, N, Ended
<1> QED
  BY <1>1, <1>2

(* The inductive invariant of a graph and its worker, in a replay and in   *)
(* realtime, whatever the source, the function of a mapper and the order   *)
(* of the threads' steps.                                                  *)
THEOREM WorkersInvariant == Spec => []IInv
<1>1. Init => IInv
  BY InitInv
<1>2. IInv /\ [Next]_vars => IInv'
  BY StepInv
<1> QED
  BY <1>1, <1>2, PTL DEF Spec

(* A replay across two threads is the replay of one graph: no value is     *)
(* early, late, out of order or lost by the channel nodes, however the two *)
(* run loops interleave (nodes/channel.rs, nodes/graph_node.rs).           *)
THEOREM GraphsStayInStep == Spec => []InStep
<1>1. IInv => InStep
  BY InvImplies DEF InStep
<1> QED
  BY <1>1, WorkersInvariant, PTL

=============================================================================
