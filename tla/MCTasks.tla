------------------------------ MODULE MCTasks -------------------------------
(***************************************************************************)
(* The threads and tasks that feed a graph and are fed by it, for TLC: a   *)
(* receiver with its own thread, and a graph between two tasks of the      *)
(* tokio runtime.  The two do not interact: a behaviour is one of either.  *)
(*                                                                         *)
(* For the tasks: days of 8 ticks, the kdb epoch 3 ticks after the unix    *)
(* one (so that the dates are not those of the unix days), and windows     *)
(* that start and end on and off the days and the periods.                 *)
(***************************************************************************)
EXTENDS ReceiverStream, AsyncIo

VARIABLE which   \* "receiver" or "async"

taskVars == <<which, vars, asyncVars>>

Times == <<2, 3, 3, 6, 9, 10, 11, 12, 14, 19>>
Table == [k \in 1..Len(Times) |-> Row(Times[k], k)]
Unsorted == <<Row(3, 1), Row(5, 2), Row(4, 3), Row(6, 4)>>
BadRow == <<Row(3, 1), Row(4, Unreadable), Row(6, 2)>>

Reader(kind, period, by_date, failing, table) ==
  [kind |-> kind, period |-> period, by_date |-> by_date, failing |-> failing, table |-> table]
Duration(d) == [kind |-> "Duration", bound |-> d]
Unbounded == [kind |-> "Forever", bound |-> 0]
Cycles(n) == [kind |-> "Cycles", bound |-> n]
RunOf(live, start, run_for, reader, buffer, ticker) ==
  [realtime |-> live, start |-> start, run_for |-> run_for, reader |-> reader,
   buffer |-> buffer, ticker |-> ticker]

(* Every window of up to two days, over all the periods. *)
Windows ==
  {RunOf(FALSE, s, Duration(d), Reader(k, p, b, {}, Table), 1, 0) :
     s \in {2, 3, 4, 11}, d \in {0, 1, 5, 10}, p \in {3, 4, 9},
     k \in {"kdb_read", "postgres_read"}, b \in BOOLEAN}

Faults ==
  {RunOf(FALSE, 3, Duration(7), Reader(k, 2, FALSE, f, t), buffer, 0) :
     k \in {"kdb_read", "postgres_read"}, f \in {{}, {2}}, t \in {Table, Unsorted, BadRow},
     buffer \in {0, 1}}
Refusals == {RunOf(FALSE, s, r, Reader("kdb_read", p, FALSE, {}, Table), 0, 0) :
               s \in {0, 3}, p \in {0, 4}, r \in {Unbounded, Cycles(2), Duration(4)}}

(* Plain streams, in both modes, and a ticker whose last ticks are after   *)
(* the end of the run.                                                     *)
Rows3 == <<Row(1, 1), Row(1, 2), Row(4, 3)>>
Rows4 == Rows3 \o <<Failure>>
Streams ==
  {RunOf(m, 1, r, Reader("stream", 1, FALSE, {}, t), buffer, 0) :
     m \in BOOLEAN, r \in {Unbounded, Duration(1), Cycles(3)}, t \in {Rows3, Rows4},
     buffer \in {0, 1}}
Tickers ==
  {RunOf(FALSE, 0, r, Reader("stream", 1, FALSE, {}, <<>>), 0, 3) : r \in {Duration(3), Duration(5), Cycles(3)}}

MCRuns == Windows \cup Faults \cup Refusals \cup Streams \cup Tickers

-----------------------------------------------------------------------------
TaskInit ==
  /\ which \in {"receiver", "async"}
  /\ Init /\ (which = "async" => realtime)
  /\ AsyncInit /\ (which = "receiver" => run = CHOOSE r \in Runs : TRUE)

ReceiverTurn(A) == which = "receiver" /\ A /\ UNCHANGED <<which, asyncVars>>
AsyncTurn(A) == which = "async" /\ A /\ UNCHANGED <<which, vars>>

(* The fairness of the two specifications. *)
TaskFairness ==
  /\ WF_taskVars(ReceiverTurn(Engine)) /\ WF_taskVars(ReceiverTurn(Leaving))
  /\ WF_taskVars(AsyncTurn(Graph)) /\ WF_taskVars(AsyncTurn(EndRun))
  /\ WF_taskVars(AsyncTurn(Producer)) /\ WF_taskVars(AsyncTurn(Consumer))

TaskSpec ==
  TaskInit /\ [][ReceiverTurn(Next) \/ AsyncTurn(AsyncNext)]_taskVars /\ TaskFairness

(* Nobody waits for ever: see AsyncEnds. *)
AsyncRunEnds == which = "async" => AsyncEnds
=============================================================================
