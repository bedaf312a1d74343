----------------------------- MODULE Statistics -----------------------------
(***************************************************************************)
(* The streaming statistics of src/wingfoil/src/adapters/statistics.rs as  *)
(* step functions in the form of module Operators; n.p holds the stat, the *)
(* weighting and the window ("count", "time" or "unbounded", of size       *)
(* n.p.size).  f64 is modelled by the rationals <<numerator, denominator>>:*)
(* rounding, NaN and the square root of Std are left out.                  *)
(***************************************************************************)
EXTENDS Operators, NodeOperators

gcd[a \in Nat, b \in Nat] == IF b = 0 THEN a ELSE gcd[b, a % b]
Abs(a) == IF a < 0 THEN -a ELSE a

Q(a, b) == LET s == IF b < 0 THEN -1 ELSE 1
               g == gcd[Abs(a), Abs(b)] IN <<s * (a \div g), s * (b \div g)>>
QAdd(x, y) == Q(x[1] * y[2] + y[1] * x[2], x[2] * y[2])
QSub(x, y) == Q(x[1] * y[2] - y[1] * x[2], x[2] * y[2])
QMul(x, y) == Q(x[1] * y[1], x[2] * y[2])
QDiv(x, y) == Q(x[1] * y[2], x[2] * y[1])
Int2Q(a) == <<a, 1>>
Zero == Int2Q(0)

-----------------------------------------------------------------------------
(* WeightedMoments: Welford's recurrences, forwards and backwards. *)

NoMoments == [w_sum |-> 0, count |-> 0, mean |-> Zero, m2 |-> Zero]

MomentsPush(mo, x, w) ==
  IF w <= 0 THEN mo
  ELSE LET w_sum == mo.w_sum + w
           mean == QAdd(mo.mean, QMul(Q(w, w_sum), QSub(x, mo.mean))) IN
       [w_sum |-> w_sum, count |-> mo.count + 1, mean |-> mean,
        m2 |-> QAdd(mo.m2, QMul(Int2Q(w), QMul(QSub(x, mo.mean), QSub(x, mean))))]

(* A wrong form of MomentsRemove: M2 is reduced with the old mean alone. *)
MomentsRemoveOldMean(mo, x, w) ==
  LET w_new == mo.w_sum - w
      mean_old == QDiv(QSub(QMul(Int2Q(mo.w_sum), mo.mean), QMul(Int2Q(w), x)),
                       Int2Q(w_new))
      m2 == QSub(mo.m2, QMul(Int2Q(w), QMul(QSub(x, mo.mean), QSub(x, mo.mean)))) IN
  IF w <= 0 THEN mo
  ELSE IF mo.count <= 1 \/ w_new <= 0 THEN NoMoments
  ELSE [w_sum |-> w_new, count |-> mo.count - 1, mean |-> mean_old,
        m2 |-> IF m2[1] < 0 THEN Zero ELSE m2]

MomentsRemove(mo, x, w) ==
  LET w_new == mo.w_sum - w
      mean_old == QDiv(QSub(QMul(Int2Q(mo.w_sum), mo.mean), QMul(Int2Q(w), x)),
                       Int2Q(w_new))
      m2 == QSub(mo.m2, QMul(Int2Q(w), QMul(QSub(x, mean_old), QSub(x, mo.mean)))) IN
  IF w <= 0 THEN mo
  ELSE IF mo.count <= 1 \/ w_new <= 0 THEN NoMoments
  ELSE [w_sum |-> w_new, count |-> mo.count - 1, mean |-> mean_old,
        m2 |-> IF m2[1] < 0 THEN Zero ELSE m2]

MomentsVariance(mo, weighting) ==
  IF weighting = "count"
  THEN IF mo.count < 2 THEN Zero ELSE QDiv(mo.m2, Int2Q(mo.count - 1))
  ELSE IF mo.w_sum <= 0 THEN Zero ELSE QDiv(mo.m2, Int2Q(mo.w_sum))

MomentOutput(n, mo, current) ==
  CASE n.p.stat = "mean" /\ mo.w_sum <= 0 -> current
    [] n.p.stat = "mean" /\ mo.w_sum > 0 -> mo.mean
    [] n.p.stat = "var" -> MomentsVariance(mo, n.p.weighting)

(* Over an unbounded window.  last is the previous sample and its time. *)
MomentStream(n, m, c) ==
  LET x == Int2Q(c.v[1])
      mo == IF n.p.weighting = "count" THEN MomentsPush(m.moments, x, 1)
            ELSE IF m.last = <<>> THEN m.moments
            ELSE MomentsPush(m.moments, m.last[1][1], c.time - m.last[1][2]) IN
  Emit([m EXCEPT !.moments = mo, !.last = <<<<x, c.time>>>>],
       MomentOutput(n, mo, x))

-----------------------------------------------------------------------------
(* Rolling windows.  The buffer holds <<sample, time>>, the oldest first. *)

Size(n) == IF n.p.window = "count" THEN Max({n.p.size, 1}) ELSE n.p.size

ShouldEvict(n, b, now) ==
  CASE n.p.window = "count" -> Len(b) > Size(n)
    [] n.p.window = "time" -> b # <<>> /\ now - b[1][2] > n.p.size
    [] n.p.window = "unbounded" -> FALSE

(* The committed interval of an evicted sample ran until the new front. *)
Evict(n, b, mo) ==
  IF n.p.weighting = "count" THEN MomentsRemove(mo, b[1][1], 1)
  ELSE IF Len(b) = 1 THEN mo
  ELSE MomentsRemove(mo, b[1][1], b[2][2] - b[1][2])

(* while should_evict: at most one pass per buffered sample. *)
EvictAll(n, b, mo, now) ==
  FoldLeft(LAMBDA a, i : IF ShouldEvict(n, a.buffer, now)
                         THEN [buffer |-> Tail(a.buffer),
                               moments |-> Evict(n, a.buffer, a.moments)]
                         ELSE a,
           [buffer |-> b, moments |-> mo], b)

RollingMomentStream(n, m, c) ==
  LET x == Int2Q(c.v[1])
      mo == IF n.p.weighting = "count" THEN MomentsPush(m.moments, x, 1)
            ELSE IF m.buffer = <<>> THEN m.moments
            ELSE MomentsPush(m.moments, Last(m.buffer)[1], c.time - Last(m.buffer)[2])
      e == EvictAll(n, Append(m.buffer, <<x, c.time>>), mo, c.time) IN
  Emit([m EXCEPT !.buffer = e.buffer, !.moments = e.moments],
       MomentOutput(n, e.moments, x))

RollingSumStream(n, m, c) ==
  LET b == Append(m.buffer, c.v[1])
      over == Len(b) > Size(n)
      sum == m.sum + c.v[1] - IF over THEN b[1] ELSE 0 IN
  Emit([m EXCEPT !.buffer = IF over THEN Tail(b) ELSE b, !.sum = sum], Int2Q(sum))

(* A deque of <<index, sample>> whose samples are monotonic. *)
RollingExtremeStream(n, m, c) ==
  LET x == c.v[1]
      Dominated(e) == IF n.p.stat = "min" THEN e[2] >= x ELSE e[2] <= x
      kept == SubSeq(m.deque, 1, Max({k \in 0..Len(m.deque) :
                                       k = 0 \/ ~Dominated(m.deque[k])}))
      deque == SelectSeq(Append(kept, <<m.index, x>>),
                         LAMBDA e : m.index - e[1] < Size(n)) IN
  Emit([m EXCEPT !.deque = deque, !.index = @ + 1], Int2Q(deque[1][2]))

CumulativeStream(n, m, c) ==
  LET x == c.v[1]
      acc == CASE m.acc = <<>> -> x
               [] m.acc # <<>> /\ n.p.stat = "sum" -> m.acc[1] + x
               [] m.acc # <<>> /\ n.p.stat = "min" -> Min({m.acc[1], x})
               [] m.acc # <<>> /\ n.p.stat = "max" -> Max({m.acc[1], x}) IN
  Emit([m EXCEPT !.acc = <<acc>>], Int2Q(acc))

(* PerTick(1/2), or a half-life of one unit of time: alpha = 1 - 2^-steps. *)
EwmaStream(n, m, c) ==
  LET x == Int2Q(c.v[1])
      steps == IF n.p.stat = "tick" THEN 1 ELSE c.time - m.last[1]
      alpha == QSub(Int2Q(1), Q(1, 2^steps)) IN
  IF m.last = <<>> THEN Emit([m EXCEPT !.last = <<c.time>>], x)
  ELSE Emit([m EXCEPT !.last = <<c.time>>],
            QAdd(m.value, QMul(alpha, QSub(x, m.value))))

-----------------------------------------------------------------------------
(* WindowStream of statistics.rs: recomputed on every tick. *)

Weight(n, b, i, now) ==
  IF n.p.weighting = "count" THEN 1
  ELSE (IF i < Len(b) THEN b[i + 1][2] ELSE now) - b[i][2]

(* The first sample, in sorted order, at which the weights pass one half. *)
WeightedMedian(n, b, now) ==
  LET W(i) == Weight(n, b, i, now)
      pairs == SetToSortSeq({<<b[i][1], i>> : i \in {j \in DOMAIN b : W(j) > 0}},
                            LAMBDA x, y : x[1] < y[1] \/ (x[1] = y[1] /\ x[2] < y[2]))
      Cum(k) == FoldLeft(LAMBDA a, p : a + W(p[2]), 0, SubSeq(pairs, 1, k))
      k == Min({i \in DOMAIN pairs : 2 * Cum(i) >= Cum(Len(pairs))}) IN
  IF pairs = <<>> THEN Int2Q(Last(b)[1])
  ELSE IF 2 * Cum(k) > Cum(Len(pairs)) \/ k = Len(pairs) THEN Int2Q(pairs[k][1])
  ELSE Q(pairs[k][1] + pairs[k + 1][1], 2)

Retained(n, b, now) ==
  CASE n.p.window = "count" -> SubSeq(b, Max({1, Len(b) - Size(n) + 1}), Len(b))
    [] n.p.window = "time" -> SelectSeq(b, LAMBDA e : now - e[2] <= n.p.size)
    [] n.p.window = "unbounded" -> b

StatWindowStream(n, m, c) ==
  LET b == Retained(n, Append(m.buffer, <<c.v[1], c.time>>), c.time)
      S == {b[i][1] : i \in DOMAIN b} IN
  Emit([m EXCEPT !.buffer = b],
       CASE n.p.stat = "sum" -> Int2Q(FoldLeft(LAMBDA a, e : a + e[1], 0, b))
         [] n.p.stat = "min" -> Int2Q(Min(S))
         [] n.p.stat = "max" -> Int2Q(Max(S))
         [] n.p.stat = "median" -> WeightedMedian(n, b, c.time))

-----------------------------------------------------------------------------
(* StatisticsOperators: which node serves which window. *)

Args(stat, weighting, win, size) ==
  [stat |-> stat, weighting |-> weighting, window |-> win, size |-> size]

moment(g, s, stat, weighting, win, size) ==
  On(g, IF win = "unbounded" THEN "MomentStream" ELSE "RollingMomentStream", s,
     Args(stat, weighting, win, size), Zero)
sum(g, s, win, size) ==
  On(g, CASE win = "unbounded" -> "CumulativeStream"
          [] win = "count" -> "RollingSumStream"
          [] win = "time" -> "StatWindowStream", s, Args("sum", "count", win, size), Zero)
extreme(g, s, stat, win, size) ==
  On(g, CASE win = "unbounded" -> "CumulativeStream"
          [] win = "count" -> "RollingExtremeStream"
          [] win = "time" -> "StatWindowStream", s, Args(stat, "count", win, size), Zero)
median(g, s, weighting, win, size) ==
  On(g, "StatWindowStream", s, Args("median", weighting, win, size), Zero)
ewma(g, s, span) == On(g, "EwmaStream", s, Args(span, "", "", 0), Zero)
=============================================================================
