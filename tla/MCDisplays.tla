------------------------------ MODULE MCDisplays -------------------------------
EXTENDS Displays

\* In seconds, the polls rounded to 2 s and 1 s; the thresholds of 10 s and 30 s
\* are cut to 1 s and 2 s and the retention to 5 s, which keeps their order.
SmallStale == [warm |-> 1, cold |-> 2]

\* Latencies below ok_ms and on slow_ms (warm), and on ok_ms (cold).
SmallOk == [warm |-> 1, cold |-> 1]
SmallSlow == [warm |-> 2, cold |-> 2]
SmallLatencies == [warm |-> {0, 2}, cold |-> {1}]

================================================================================
