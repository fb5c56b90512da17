---------------------------- MODULE MCMetricTable ---------------------------
(***************************************************************************)
(* Small instances of MetricTable for TLC.                                 *)
(***************************************************************************)
EXTENDS MetricTable, TLC

CONSTANTS u1, u2, h1, h2, agg, f1, f2, latency, memory, heap

Key(name, aggregate, immediate) ==
  [name |-> name, ts |-> 0, aggregate |-> aggregate, immediate |-> immediate]

\* update_average and update_histogram for metrics that are aggregated, and
\* update_numeric for one that is not.
Heap(u)    == [id |-> u, key |-> Key(heap, TRUE, FALSE)]
Latency(u) == [id |-> u, key |-> Key(latency, TRUE, FALSE)]
Memory(u)  == [id |-> u, key |-> Key(memory, FALSE, TRUE)]

\* Two updates of an average, of a histogram, and of a metric that is reported
\* at once.
TwoHeaps     == {Heap(u1), Heap(u2)}
TwoLatencies == {Latency(u1), Latency(u2)}
TwoMemories  == {Memory(u1), Memory(u2)}

EachMetric == {TwoHeaps, TwoLatencies, TwoMemories}
OnlyMemory == {TwoMemories}

Symmetry ==
  Permutations({u1, u2}) \cup Permutations(Handlers) \cup Permutations(Flushers)
=============================================================================
