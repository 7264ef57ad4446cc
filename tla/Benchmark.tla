------------------------------ MODULE Benchmark ------------------------------
(****************************************************************************)
(* gather_bench_stats: batches of runs are timed until the time is up; once *)
(* the warm-up is over the size of a batch is chosen anew, and what was     *)
(* measured so far becomes an estimate from which later times are counted.  *)
(* Times are whole ticks of the clock, which may not move during a batch    *)
(* but never goes back, as that of Windows.                                 *)
(****************************************************************************)
EXTENDS Integers, Sequences

CONSTANTS
  max_time_ns,
  WarmUps,          \* the warm-up times a client asks for
  ClockRuns,        \* the times between two readings of the clock, run by run
  batch_of_clock_accuracy_multiple,
  min_batch_size, min_end_checks,
  Ticks,            \* how far the clock moves during a batch
  HUGE              \* the first minimum

VARIABLES
  to_time, batch_time_ns,
  total_time,       \* now - start
  batch_size, batch_count, time_sum, squared_time_sum, min_batch_time, max_batch_time, mean_time_estimate,
  measured,         \* the sum, squares, least and greatest of the times that count
  returned

stats == <<batch_count, time_sum, squared_time_sum, min_batch_time, max_batch_time, measured>>
vars == <<to_time, batch_time_ns, total_time, batch_size, stats, mean_time_estimate, returned>>

Lesser(a, b) == IF a < b THEN a ELSE b
Greater(a, b) == IF a > b THEN a ELSE b

Nothing == [sum |-> 0, squares |-> 0, least |-> HUGE, greatest |-> 0]
NoStats == [count |-> 0, deltas |-> Nothing, measured |-> Nothing]

\* one time more
Added(s, t) == [sum |-> s.sum + t, squares |-> s.squares + t * t,
                least |-> Lesser(s.least, t), greatest |-> Greater(s.greatest, t)]

\* the time between two readings of the clock, never taken to be zero
calculate_clock_stats(runs) ==
  LET first[n \in 0 .. Len(runs)] == IF n = 0 THEN Nothing ELSE Added(first[n - 1], runs[n])
      s == first[Len(runs)]
      average == s.sum \div Len(runs)
  IN  [min |-> s.least, max |-> s.greatest, average |-> IF average = 0 THEN 1 ELSE average]

Init ==
  /\ \E warm_up \in WarmUps :
       to_time = IF warm_up > max_time_ns \/ warm_up <= 0 THEN max_time_ns ELSE warm_up
  /\ \E runs \in ClockRuns :
       batch_time_ns = Greater(batch_of_clock_accuracy_multiple * calculate_clock_stats(runs).average, 1)
  /\ total_time = 0 /\ batch_size = min_batch_size
  /\ batch_count = NoStats.count /\ measured = NoStats.measured
  /\ time_sum = Nothing.sum /\ squared_time_sum = Nothing.squares
  /\ min_batch_time = Nothing.least /\ max_batch_time = Nothing.greatest
  /\ mean_time_estimate = 0 /\ returned = FALSE

Deltas == [sum |-> time_sum, squares |-> squared_time_sum,
           least |-> min_batch_time, greatest |-> max_batch_time]

\* the batch counts, as its time beyond the estimate
Accepted(t) == [count |-> batch_count + 1, deltas |-> Added(Deltas, t - mean_time_estimate),
                measured |-> Added(measured, t)]

Rejected == [count |-> batch_count, deltas |-> Deltas, measured |-> measured]

Keep(s) ==
  /\ batch_count' = s.count /\ measured' = s.measured
  /\ time_sum' = s.deltas.sum /\ squared_time_sum' = s.deltas.squares
  /\ min_batch_time' = s.deltas.least /\ max_batch_time' = s.deltas.greatest

iterations(s) == Greater(s.count * batch_size, 1)

\* as many runs as take the remaining time, in at least min_end_checks batches
NewBatchSize(s, total) ==
  LET remaining == max_time_ns - total
      num_checks == Greater(remaining \div batch_time_ns, min_end_checks)
      den == Greater(total * num_checks, 1)
  IN  Greater((iterations(s) * remaining) \div den, min_batch_size)

\* mutant: the times so far, which no estimate was taken from, still count
EndWarmUpKeeping(s, total) ==
  /\ mean_time_estimate' = s.deltas.sum \div iterations(s)
  /\ batch_size' = NewBatchSize(s, total)
  /\ Keep(s)
  /\ to_time' = max_time_ns
  /\ UNCHANGED returned

\* the warm-up is over, and all that was measured is discarded
EndWarmUp(s, total) ==
  /\ mean_time_estimate' = s.deltas.sum \div iterations(s)
  /\ batch_size' = NewBatchSize(s, total)
  /\ Keep(NoStats)
  /\ to_time' = max_time_ns
  /\ UNCHANGED returned

\* one batch, during which the clock moves by t
Batch(t, rejects) ==
  LET total == total_time + t
      s == IF rejects THEN Rejected ELSE Accepted(t)
  IN  /\ ~returned
      /\ total_time' = total
      /\ IF total > to_time /\ total <= max_time_ns THEN EndWarmUp(s, total)
         ELSE /\ Keep(s)
              /\ returned' = (total > to_time)
              /\ UNCHANGED <<to_time, batch_size, mean_time_estimate>>
      /\ UNCHANGED batch_time_ns

\* the batches the model looks at
Bounded(t) == batch_count < max_time_ns \/ t > 0

Next == \E t \in Ticks, rejects \in BOOLEAN : Bounded(t) /\ Batch(t, rejects)

\* the clock moves on
Advance == \E t \in Ticks \ {0}, rejects \in BOOLEAN : Batch(t, rejects)

Spec == Init /\ [][Next]_vars /\ WF_vars(Advance)

\* The result in whole numbers: times are multiplied by the number of runs, and
\* of the deviation the square, by the batches and one less. The correction that
\* follows moves the least and the greatest time away from the mean, down to 0.
process_stats(runs_mult) ==
  LET n == batch_count
      size == batch_size * runs_mult
      adjusted(t) == IF size * n = 0 THEN 0 ELSE (t + mean_time_estimate) * n
  IN  [iters |-> size * n, batch_size |-> size,
       mean |-> IF size * n = 0 THEN 0 ELSE time_sum + mean_time_estimate * n,
       min |-> adjusted(min_batch_time), max |-> adjusted(max_batch_time),
       varience |-> IF n > 1 THEN n * squared_time_sum - time_sum * time_sum ELSE 0]

-----------------------------------------------------------------------------
\* What process_stats derives is true of the batches that were counted since the
\* warm-up: adding the estimate back gives their mean and their least time, and
\* no less than their greatest, and the deviation is not touched by it; and every
\* assertion holds, rejected batches, a clock that stands still and all.
MeasuredRight ==
  LET r == process_stats(2)
      n == batch_count
  IN  /\ min_batch_time * n <= time_sum /\ time_sum <= max_batch_time * n
      /\ r.mean = measured.sum
      /\ r.varience = IF n > 1 THEN n * measured.squares - measured.sum * measured.sum ELSE 0
      /\ n > 0 => /\ r.min = measured.least * n
                  /\ r.max = Greater(measured.greatest, mean_time_estimate) * n
      /\ 0 <= r.min /\ r.min <= r.mean /\ r.mean <= r.max /\ r.varience >= 0
      /\ returned => total_time > max_time_ns
=============================================================================
