----------------------------- MODULE TimeSlices -----------------------------
(***************************************************************************)
(* adapters/common.rs and the readers built on it (kdb/read.rs,            *)
(* postgres/read.rs): a replay of a table asks one query per slice of the  *)
(* run's window, and passes on the rows that are in the window.            *)
(*                                                                         *)
(* A row is [time, value]; a stream of results is a sequence of rows and   *)
(* of errors.  What the database holds, and whether a query keeps to the   *)
(* slice it is asked for, is the caller's.                                 *)
(***************************************************************************)
EXTENDS Integers, Sequences, SequencesExt

CONSTANTS
  DayNanos,     \* DAY_NANOS: the length of a day
  EpochOffset   \* KDB_EPOCH_OFFSET_NANOS

ASSUME TimeSlicesAssumption == DayNanos \in Nat \ {0} /\ EpochOffset \in Nat

Row(t, v) == [ok |-> TRUE, time |-> t, value |-> v]
Failure == [ok |-> FALSE, time |-> 0, value |-> 0]

(* The value of a row that cannot be deserialized. *)
Unreadable == 0

to_kdb_timestamp(t) == t - EpochOffset
from_kdb_timestamp(k) == k + EpochOffset

(* TimeWindow. *)
Window(t0, t1, start, end) ==
  [lo |-> IF t0 > start THEN t0 ELSE start, hi |-> IF t1 < end THEN t1 ELSE end]
InWindow(w, t) == w.lo <= t /\ t < w.hi

-----------------------------------------------------------------------------
(* RunParams::end_time: there is one only for a run of some duration. *)
HasEndTime(run_for) == run_for.kind = "Duration"
end_time(start, run_for) == start + run_for.bound

(* compute_validated_time_slices refuses a run without an explicit start,  *)
(* or without an end.                                                      *)
Validated(start, run_for, period) == period > 0 /\ start > 0 /\ HasEndTime(run_for)

StartDay(start) == to_kdb_timestamp(start) \div DayNanos
EndDay(end) == (to_kdb_timestamp(end) - 1) \div DayNanos

(* The first slice of the first day is the one that has the start in it. *)
FirstIteration(day, start, period) ==
  IF day = StartDay(start) THEN (to_kdb_timestamp(start) - day * DayNanos) \div period ELSE 0

(* The slices of a day: of the length of the period, the last one cut at   *)
(* midnight, and on the last day none that starts after the end.           *)
DaySlices(day, start, end, period) ==
  LET midnight == day * DayNanos
      t0(i) == midnight + i * period
      t1(i) == IF t0(i + 1) < midnight + DayNanos THEN t0(i + 1) ELSE midnight + DayNanos
      Iterations ==
        {i \in FirstIteration(day, start, period)..(DayNanos \div period) :
           /\ t0(i) < midnight + DayNanos
           /\ day = EndDay(end) => t0(i) < to_kdb_timestamp(end)}
  IN  {[t0 |-> from_kdb_timestamp(t0(i)), t1 |-> from_kdb_timestamp(t1(i)),
        date |-> day, iteration |-> i] : i \in Iterations}

compute_time_slices(start, end, period) ==
  SetToSortSeq(UNION {DaySlices(d, start, end, period) : d \in StartDay(start)..EndDay(end)},
               LAMBDA a, b : a.t0 < b.t0)

-----------------------------------------------------------------------------
(* The answer to the query of a slice: its rows, or, from a query that     *)
(* only looks at the date, those of the whole day.                         *)
Query(table, slice, by_date) ==
  SelectSeq(table, LAMBDA r :
    IF by_date THEN to_kdb_timestamp(r.time) \div DayNanos = slice.date
    ELSE slice.t0 <= r.time /\ r.time < slice.t1)

(* One row of an answer.  prev is the time of the row before it, which is  *)
(* kept only for the rows of the window; an unreadable row, and one that   *)
(* is out of order, ends the stream.                                       *)
ReadRow(acc, r, window) ==
  IF acc.failed THEN acc
  ELSE IF r.value = Unreadable
  THEN [acc EXCEPT !.out = Append(@, Failure), !.failed = TRUE]
  ELSE IF ~ InWindow(window, r.time) THEN acc
  ELSE IF r.time < acc.prev
  THEN [acc EXCEPT !.out = Append(@, Failure), !.failed = TRUE]
  ELSE [acc EXCEPT !.out = Append(@, r), !.prev = r.time]

ReadRows(acc, rows, window) == FoldLeft(LAMBDA a, r : ReadRow(a, r, window), acc, rows)

(* The queries, one after the other; the failing ones are those of         *)
(* reader.failing (the index of a slice).  kdb_read starts the order check *)
(* again with every slice, postgres_read does not.                         *)
ReadSlices(reader, start, end) ==
  LET slices == compute_time_slices(start, end, reader.period)
      ReadSlice(acc, k) ==
        LET fresh == IF reader.kind = "kdb_read" THEN [acc EXCEPT !.prev = 0] ELSE acc
        IN  IF acc.failed THEN acc
            ELSE IF k \in reader.failing
            THEN [acc EXCEPT !.out = Append(@, Failure), !.failed = TRUE]
            ELSE ReadRows(fresh, Query(reader.table, slices[k], reader.by_date),
                          Window(slices[k].t0, slices[k].t1, start, end))
  IN  FoldLeft(ReadSlice, [out |-> <<>>, prev |-> 0, failed |-> FALSE],
               [k \in 1..Len(slices) |-> k]).out

(* What the async function of kdb_read and of postgres_read yields.  With  *)
(* a plain stream of results the rows are taken as they are.               *)
ReadResults(reader, start, run_for) ==
  IF reader.kind = "stream" THEN reader.table
  ELSE ReadSlices(reader, start, end_time(start, run_for))

(* The function itself fails. *)
Rejected(reader, start, run_for) ==
  reader.kind # "stream" /\ ~ Validated(start, run_for, reader.period)

=============================================================================
