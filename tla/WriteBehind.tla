----------------------------- MODULE WriteBehind -----------------------------
(***************************************************************************)
(* The write-behind path of UnifiedMarketDataService: rows of the live tape*)
(* wait in two insertion-ordered buffers (option quotes and underlying     *)
(* snapshots), a timer starts a flush that sends one INSERT per table, and *)
(* every INSERT races a timeout.  After a timeout the rows go back to the  *)
(* buffer, a backoff gate is armed and, after RecycleAfter timeouts in a   *)
(* row, every pooled connection is destroyed.  PersistenceHealthMachine    *)
(* counts the timeouts.                                                    *)
(*                                                                         *)
(* A query that timed out is only abandoned: it keeps its connection (or   *)
(* its place in the queue for one) and may still write its rows later.     *)
(* INSERT IGNORE on deterministic row ids makes a second write harmless,   *)
(* and keeps the server from reporting a duplicate key, so the branch for  *)
(* that error is left out.  Time is left out too: the gate, the timer and  *)
(* the timeout may each go off at any moment after they are set.           *)
(***************************************************************************)
EXTENDS Integers, Sequences, SequencesExt

CONSTANTS
  Quotes,        \* ids of option-quote rows
  Snapshots,     \* ids of underlying-snapshot rows
  MaxPending,    \* maxPendingRows
  MaxBatch,      \* maxRowsPerFlush
  RecycleAfter,  \* recycleAfterTimeouts
  PoolSize,      \* connectionLimit of the application's pool
  DegradedAfter, \* DEGRADED_AFTER_FAILURES
  DownAfter      \* DOWN_AFTER_FAILURES

\* Each table has ids of its own.  The pool is larger than the crowd that forms before
\* a release, and has more than one connection.
ASSUME WriteBehindAssumption ==
  /\ Quotes \cap Snapshots = {}
  /\ MaxPending \in Nat \ {0} /\ MaxBatch \in Nat \ {0}
  /\ RecycleAfter \in Nat \ {0} /\ PoolSize \in Nat \ {0}
  /\ PoolSize > 1 /\ 2 * RecycleAfter <= PoolSize + 1
  /\ DegradedAfter \in Nat \ {0} /\ DownAfter \in Nat \ {0}
  /\ DegradedAfter <= RecycleAfter

VARIABLES
  pending,    \* pendingQuoteRows and pendingSnapshotRows, in insertion order
  batch,      \* per table, the rows of the INSERT in flight (empty: none)
  timer,      \* flushTimer is set
  gated,      \* the backoff gate is armed
  timeoutRun, \* consecutiveFlushTimeouts
  failures,   \* consecutiveFailures of PersistenceHealthMachine, saturated
  pool,       \* the INSERTs that ask for a connection, oldest first: the first
              \* PoolSize of them hold one, the others wait for one
  stored,     \* rows in the database
  dropped,    \* rows counted in droppedRows
  accepted    \* history: rows ever buffered

vars == <<pending, batch, timer, gated, timeoutRun, failures, pool, stored,
          dropped, accepted>>

RowsOf == [quote |-> Quotes, snapshot |-> Snapshots]
Tables == DOMAIN RowsOf
Rows   == Quotes \cup Snapshots

Least(a, b) == IF a < b THEN a ELSE b
First(s, n) == SubSeq(s, 1, Least(n, Len(s)))
After(s, n) == SubSeq(s, Least(n, Len(s)) + 1, Len(s))

\* The state reported by PersistenceHealthMachine; it counts no further than
\* FailureCap, where nothing changes any more.
FailureCap == DegradedAfter + DownAfter

Health ==
  IF failures >= FailureCap THEN "DOWN"
  ELSE IF failures >= DegradedAfter THEN "DEGRADED" ELSE "HEALTHY"

\* An INSERT is awaited until the flush that sent it gives up: then it is late
\* if it had no connection yet, and wedged if it had one that did not answer.
Query(t, rows) == [table |-> t, rows |-> rows, state |-> "awaited"]
Queries == [table: Tables, rows: SUBSET Rows, state: {"awaited", "late", "wedged"}]

Flushing(t) == batch[t] # <<>>
Buffered(t) == ToSet(pending[t])
-----------------------------------------------------------------------------
Init ==
  /\ pending = [t \in Tables |-> <<>>] /\ batch = [t \in Tables |-> <<>>]
  /\ timer = FALSE /\ gated = FALSE
  /\ timeoutRun = 0 /\ failures = 0
  /\ pool = <<>>
  /\ stored = {} /\ dropped = {} /\ accepted = {}

\* Slip: the buffer is a list, and a row that is observed again waits twice.
IngestTwice(t, r) ==
  /\ pending' = [pending EXCEPT ![t] = Append(@, r)]
  /\ accepted' = accepted \cup {r}
  /\ timer' = TRUE
  /\ UNCHANGED <<batch, gated, timeoutRun, failures, pool, stored, dropped>>

\* ingestQuotes, ingestSnapshots: a new observation is buffered (a Map keeps the
\* place of a key it already has) and a flush is scheduled.  An observation
\* repeated within the dedupe window changes nothing and is no step.
Ingest(t, r) ==
  /\ pending' = [pending EXCEPT ![t] = IF r \in Buffered(t) THEN @ ELSE Append(@, r)]
  /\ accepted' = accepted \cup {r}
  /\ timer' = TRUE
  /\ UNCHANGED <<batch, gated, timeoutRun, failures, pool, stored, dropped>>

-----------------------------------------------------------------------------
(* Starting a flush *)

CanStart(t) == ~Flushing(t) /\ pending[t] # <<>>

Launch(t) ==
  /\ batch' = [batch EXCEPT ![t] = First(pending[t], MaxBatch)]
  /\ pending' = [pending EXCEPT ![t] = After(pending[t], MaxBatch)]
  /\ pool' = Append(pool, Query(t, ToSet(batch'[t])))

\* The timer callback runs flushPending, which gives up while the gate is armed
\* and otherwise starts with the quotes; it comes to the snapshots at once if
\* there is no quote flush to wait for.
TimerFires ==
  /\ timer
  /\ timer' = FALSE
  /\ \/ ~gated /\ CanStart("quote") /\ Launch("quote")
     \/ ~gated /\ ~CanStart("quote") /\ CanStart("snapshot") /\ Launch("snapshot")
     \/ /\ gated \/ ~(CanStart("quote") \/ CanStart("snapshot"))
        /\ UNCHANGED <<pending, batch, pool>>
  /\ UNCHANGED <<gated, timeoutRun, failures, stored, dropped, accepted>>

-----------------------------------------------------------------------------
(* Ending a flush *)

\* requeueQuoteRows, requeueSnapshotRows: a row whose id is buffered again takes
\* no room; the others are appended while the buffer is below its maximum.
Homeless(t, rows) ==
  LET rest[n \in 0..Len(rows)] ==
        IF n = 0 THEN <<>>
        ELSE IF rows[n] \in Buffered(t) THEN rest[n - 1] ELSE Append(rest[n - 1], rows[n])
  IN  rest[Len(rows)]

\* Slip: a full buffer takes one row more.
RoomOffByOne(t) ==
  IF Len(pending[t]) <= MaxPending THEN MaxPending + 1 - Len(pending[t]) ELSE 0

Room(t) == IF Len(pending[t]) < MaxPending THEN MaxPending - Len(pending[t]) ELSE 0

\* Slip: a row that finds no room is not counted.
DroppedUncounted(t, rows) == {}

Dropped(t, rows) == ToSet(After(Homeless(t, rows), Room(t)))

\* Slip: the end of a quote flush does not turn to the snapshots.
SettleAlone(t, rows, rest) ==
  LET after == [pending EXCEPT ![t] = @ \o First(Homeless(t, rows), Room(t))]
  IN  /\ timer' = (timer \/ after[t] # <<>>)
      /\ dropped' = dropped \cup Dropped(t, rows)
      /\ pending' = after
      /\ batch' = [batch EXCEPT ![t] = <<>>]
      /\ pool' = rest
      /\ UNCHANGED accepted

\* The flush of table t ends, leaving `rest` of the pool, and `rows` go back to
\* its buffer: the catch and finally blocks and, after a quote flush, the rest
\* of flushPending, which turns to the snapshots with no more look at the gate.
Settle(t, rows, rest) ==
  LET after == [pending EXCEPT ![t] = @ \o First(Homeless(t, rows), Room(t))]
      then  == First(after["snapshot"], MaxBatch)
      goOn  == t = "quote" /\ ~Flushing("snapshot") /\ then # <<>>
  IN  /\ timer' = (timer \/ after[t] # <<>>)
      /\ dropped' = dropped \cup Dropped(t, rows)
      /\ UNCHANGED accepted
      /\ \/ /\ goOn
            /\ pending' = [after EXCEPT !["snapshot"] = After(@, MaxBatch)]
            /\ batch' = [batch EXCEPT ![t] = <<>>, !["snapshot"] = then]
            /\ pool' = Append(rest, Query("snapshot", ToSet(then)))
         \/ /\ ~goOn
            /\ pending' = after
            /\ batch' = [batch EXCEPT ![t] = <<>>]
            /\ pool' = rest

\* Query i is the INSERT that the flush of t waits for; it is connected if it
\* has a connection, and cut off if the connection it had was destroyed.
Awaits(t, i)    == pool[i].table = t /\ pool[i].state = "awaited"
Connected(t, i) == Awaits(t, i) /\ i <= PoolSize
CutOff(t)       == \A i \in DOMAIN pool : ~Awaits(t, i)

\* Slip: a success leaves the run of timeouts as it was.
FlushOkKeepsRun(t) ==
  /\ Flushing(t)
  /\ \E i \in DOMAIN pool : Connected(t, i) /\ Settle(t, <<>>, RemoveAt(pool, i))
  /\ stored' = stored \cup ToSet(batch[t])
  /\ gated' = FALSE /\ failures' = 0
  /\ UNCHANGED timeoutRun

\* The INSERT is answered in time; noteFlushSuccess clears every trace of trouble.
FlushOk(t) ==
  /\ Flushing(t)
  /\ \E i \in DOMAIN pool : Connected(t, i) /\ Settle(t, <<>>, RemoveAt(pool, i))
  /\ stored' = stored \cup ToSet(batch[t])
  /\ timeoutRun' = 0 /\ gated' = FALSE /\ failures' = 0

\* The INSERT is rejected: neither the gate nor the health machine hears of it.
FlushFails(t) ==
  /\ Flushing(t)
  /\ \/ \E i \in DOMAIN pool :
           Connected(t, i) /\ Settle(t, batch[t], RemoveAt(pool, i))
     \/ CutOff(t) /\ Settle(t, batch[t], pool)
  /\ UNCHANGED <<gated, timeoutRun, failures, stored>>

\* The pool once the flush of t no longer waits for its query.
GivenUp(t) ==
  [i \in DOMAIN pool |->
     IF ~Awaits(t, i) THEN pool[i]
     ELSE [pool[i] EXCEPT !.state = IF i <= PoolSize THEN "wedged" ELSE "late"]]

\* Slip: the timeouts are counted and the pool is left alone.
FlushTimesOutNoRelease(t) ==
  /\ Flushing(t)
  /\ gated' = TRUE
  /\ failures' = Least(failures + 1, FailureCap)
  /\ timeoutRun' = Least(timeoutRun + 1, RecycleAfter - 1)
  /\ Settle(t, batch[t], GivenUp(t))
  /\ UNCHANGED stored

\* noteFlushTimeout; releasePoolConnections destroys every connection of the
\* pool, which the whole application shares: the queries on them are gone, even
\* one the other table still waits for, and the queries behind them move up.
FlushTimesOut(t) ==
  LET recycle == timeoutRun + 1 >= RecycleAfter
  IN  /\ Flushing(t)
      /\ gated' = TRUE
      /\ failures' = Least(failures + 1, FailureCap)
      /\ timeoutRun' = IF recycle THEN 0 ELSE timeoutRun + 1
      /\ Settle(t, batch[t], IF recycle THEN After(GivenUp(t), PoolSize) ELSE GivenUp(t))
      /\ UNCHANGED stored

FlushEnds(t) == FlushOk(t) \/ FlushFails(t) \/ FlushTimesOut(t)

-----------------------------------------------------------------------------
\* A query given up long ago is answered after all, or fails at last.
LateAnswer(i) ==
  /\ i <= PoolSize /\ pool[i].state # "awaited"
  /\ stored' \in {stored, stored \cup pool[i].rows}
  /\ pool' = RemoveAt(pool, i)
  /\ UNCHANGED <<pending, batch, timer, gated, timeoutRun, failures, dropped,
                 accepted>>

\* The backoff delay has passed.
GateOpens ==
  /\ gated
  /\ gated' = FALSE
  /\ UNCHANGED <<pending, batch, timer, timeoutRun, failures, pool, stored,
                 dropped, accepted>>

SomeIngest(t) == \E r \in RowsOf[t] : Ingest(t, r)

Next ==
  \/ \E t \in Tables : SomeIngest(t) \/ FlushEnds(t)
  \/ TimerFires \/ GateOpens
  \/ \E i \in DOMAIN pool : LateAnswer(i)

Spec == Init /\ [][Next]_vars

\* An outage ends: a row that is sent over and over is at last sent with a connection,
\* and accepted.
OutageEnds(t, r) ==
  []<>(r \in ToSet(batch[t])) => []<><<r \in ToSet(batch[t]) /\ FlushOk(t)>>_vars

\* Timers go off, an INSERT is answered or times out, and a late query that comes by a
\* connection is answered.  A wedged one need never be.
Fairness ==
  /\ WF_vars(TimerFires) /\ WF_vars(GateOpens)
  /\ WF_vars(\E i \in DOMAIN pool : pool[i].state = "late" /\ LateAnswer(i))
  /\ \A t \in Tables :
       /\ WF_vars(FlushEnds(t))
       /\ \A r \in RowsOf[t] : OutageEnds(t, r)

FairSpec == Spec /\ Fairness

\* During the session the tape never stops: each table keeps getting rows.
LiveTapeSpec == FairSpec /\ \A t \in Tables : WF_vars(SomeIngest(t))

-----------------------------------------------------------------------------
(* Properties *)

\* Every variable holds rows, counters and flags of the expected kind; a row
\* waits at most once in its buffer and the counters stay below their limits.
TypeOK ==
  /\ \A t \in Tables :
       /\ pending[t] \in Seq(RowsOf[t]) /\ IsInjective(pending[t])
       /\ batch[t] \in Seq(RowsOf[t]) /\ Len(batch[t]) <= MaxBatch
  /\ timer \in BOOLEAN /\ gated \in BOOLEAN
  /\ timeoutRun \in 0..(RecycleAfter - 1) /\ failures \in 0..FailureCap
  /\ pool \in Seq(Queries)
  /\ stored \subseteq Rows /\ dropped \subseteq Rows /\ accepted \subseteq Rows

\* The contract of ingestQuotes: a row that was accepted is waiting, in flight,
\* in the table, or was dropped and counted, through failures and timeouts.
NothingLostSilently ==
  \A t \in Tables : \A r \in accepted \cap RowsOf[t] :
    r \in Buffered(t) \cup ToSet(batch[t]) \cup stored \cup dropped

\* requeueQuoteRows: putting rows back never takes a buffer past its maximum.
RequeueStaysBounded ==
  [][\A t \in Tables :
       Flushing(t) /\ batch'[t] = <<>> =>
         \/ Len(pending'[t]) <= Len(pending[t])
         \/ Len(pending'[t]) <= MaxPending]_vars

\* What releasePoolConnections is for: the queries given up on never pile up
\* behind the pool, as they did when 119k waiters were retained.
AbandonedBounded == Len(pool) <= PoolSize + 2 * RecycleAfter - 1

\* The two counters of consecutive timeouts, in the service and in the health
\* machine, agree: connections are only ever destroyed by a persistence path
\* that is already reported as not healthy.
ReleaseOnlyWhenDegraded ==
  [][timeoutRun > 0 /\ timeoutRun' = 0 /\ gated' => Health' # "HEALTHY"]_vars

\* "The timeout releases the flag, re-queues the rows and lets the next tick try
\* again": a buffered row is in the table, or counted as dropped, in the end.
RowsReachStore ==
  \A t \in Tables : \A r \in RowsOf[t] :
    r \in Buffered(t) ~> r \in stored \cup dropped
=============================================================================
