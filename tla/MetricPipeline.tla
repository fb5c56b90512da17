---------------------------- MODULE MetricPipeline --------------------------
(***************************************************************************)
(* The way of a document through tracemate: it is read from its topic by   *)
(* an instance that makes updates of metrics and calls of the transaction  *)
(* store of it; the updates are kept in a table in memory, flushed to the  *)
(* topic of aggregates, read from there by the instance that owns them,    *)
(* added up in its table and reported.  Each of the two instances may      *)
(* crash and start again from the offset it has committed.                 *)
(*                                                                         *)
(* The table is that of MetricTable at the grain of classes of metrics,    *)
(* each of which is flushed by itself; a count for a position stands for   *)
(* the updates of that class of the document at that position.             *)
(***************************************************************************)
EXTENDS FiniteSets, TransactionMetrics, SpanMetrics, ReadingMetrics, OtelMetrics

CONSTANTS
  Messages,    \* a sequence of the messages that are looked at
  Scenarios,   \* what may arrive and go wrong, see ScenarioAssumption
  MaxBatch,    \* see KafkaReader
  LagLimit     \* the lag from which on traces are shed; 50000 in the code

ASSUME MessagesAssumption == Messages \in Seq(ToSet(Messages))

\* A document has every field that a reading depends on; only a nested one has
\* objects, and so empty ones.
ASSUME DocumentsAssumption == \A n \in DOMAIN Messages :
  LET d == Messages[n].doc
  IN  /\ {"version", "minor", "team", "lacks", "layout", "present", "hollow"} \subseteq DOMAIN d
      /\ d.layout = "flat" => d.hollow = {}

\* The parts of a type are a list and the code is a number; what is put together
\* of a subtype and a name is neither of them, nor "all".
ASSUME NamesAssumption == \A n \in DOMAIN Messages :
  LET d == Messages[n].doc
  IN  /\ d.parts \in Seq(ToSet(d.parts)) /\ d.code \in Nat
      /\ Operation(d) \notin {"all", Subtype(d), d.name}

\* In a scenario messages arrive in some order, given by their numbers, one of
\* the instances crashes up to so many times, and the broker refuses aggregates
\* or not.
ASSUME ScenarioAssumption ==
  Scenarios \subseteq [log : Seq(DOMAIN Messages), crashes : Nat, refuses : BOOLEAN]

ASSUME PipelineAssumption == MaxBatch \in Nat \ {0} /\ LagLimit \in Nat

VARIABLES
  scenario,
  sent,             \* how many of its messages have arrived
  phase1, next1, handed1, committed1, offset1, lag1,  \* the reader of the topic
  table1,           \* the table of the instance that reads it
  buffer,           \* the aggregates it has produced but not delivered
  aggregates,       \* the topic of aggregates
  phase2, next2, handed2, committed2, offset2, lag2,  \* its reader
  table2,           \* the table of the instance that owns the aggregates
  reported,         \* what has gone to the journal
  traced,           \* the calls of the transaction store
  excused,          \* history: what was in memory at a crash, or was refused
  redelivered,      \* history: the documents that are read once more
  crashes

reader1 == <<phase1, next1, handed1, committed1, offset1, lag1>>
reader2 == <<phase2, next2, handed2, committed2, offset2, lag2>>
history == <<excused, redelivered, crashes>>
vars == <<scenario, sent, reader1, table1, buffer, aggregates, reader2, table2,
          reported, traced, history>>

Reader1 == INSTANCE KafkaReader WITH phase <- phase1, next <- next1,
  handed <- handed1, committed <- committed1, offset <- offset1, lag <- lag1
Reader2 == INSTANCE KafkaReader WITH phase <- phase2, next <- next2,
  handed <- handed2, committed <- committed2, offset <- offset2, lag <- lag2

-----------------------------------------------------------------------------
\* What becomes of a message.

Handle(event, d, lagging) ==
  CASE event = "metric"      -> ReadingOutcome(d)
    [] event = "transaction" -> TransactionOutcome(d, lagging)
    [] event = "span"        -> SpanOutcome(d)
    [] event = "error"       -> ErrorOutcome(d)
    [] OTHER                 -> Nothing("errored")

\* The hook may abort a document, and may put another in its place or next to
\* it; m.more is what it puts.
HandleJson(m, lagging) ==
  LET first == IF m.form = "aborted" THEN Nothing("filtered")
               ELSE Handle(m.event, m.doc, lagging)
      more  == IF m.more = <<>> THEN Nothing("none")
               ELSE Handle(m.more[1].event, m.more[1].doc, lagging)
  IN  Outcome(first.status, first.updates \o more.updates, first.store \o more.store)

ProcessMessage(m, lagging) ==
  CASE m.form = "otlp"     -> OtelOutcome(m.doc)
    [] m.form = "garbled"  -> Nothing("garbled")   \* not JSON
    [] m.form = "headless" -> Nothing("errored")   \* without a processor
    [] OTHER               -> HandleJson(m, lagging)

\* The offset is kept of what is JSON.
Understood(m) == m.form \in {"json", "aborted", "headless"}

\* Of each message, for a reader that lags and one that does not; a sequence,
\* which TLC evaluates once.
OutcomesOf(lagging) ==
  <<>> \o [n \in DOMAIN Messages |-> ProcessMessage(Messages[n], lagging)]
Outcomes     == OutcomesOf(FALSE)
LaggardsOutcomes == OutcomesOf(TRUE)

\* Metrics that are not aggregated, totals of a service and all others.
Classes == {"at once", "total", "single"}
ClassOf(call) == IF ~call.aggregate THEN "at once"
                 ELSE IF call.name = "all" THEN "total" ELSE "single"

ClassesOf ==
  <<>> \o [n \in DOMAIN Messages |-> {ClassOf(call) : call \in ToSet(Outcomes[n].updates)}]

-----------------------------------------------------------------------------
log      == scenario.log
None     == [i \in DOMAIN log |-> 0]
Empty    == [c \in Classes |-> None]

PlusMutant(f, g) == g  \* what is there already is replaced
Plus(f, g)   == [i \in DOMAIN log |-> f[i] + g[i]]
EmptiedMutant(table, c) == table  \* what was sent stays and is sent again
Emptied(table, c)       == [table EXCEPT ![c] = None]
Added(table, c, counts) == [table EXCEPT ![c] = Plus(@, counts)]

Init ==
  /\ scenario \in Scenarios
  /\ sent = 0
  /\ Reader1!Init
  /\ Reader2!Init
  /\ table1 = Empty
  /\ table2 = Empty
  /\ reported = Empty
  /\ buffer = <<>>
  /\ aggregates = <<>>
  /\ traced = {}
  /\ excused = {}
  /\ redelivered = {}
  /\ crashes = 0

Arrive ==
  /\ sent < Len(log)
  /\ sent' = sent + 1
  /\ UNCHANGED <<scenario, reader1, table1, buffer, aggregates, reader2, table2,
                 reported, traced, history>>

-----------------------------------------------------------------------------
\* The instance that reads documents.

Lagging == lag1 >= LagLimit

TakeDocument ==
  LET n == log[next1]
      outcome == IF Lagging THEN LaggardsOutcomes[n] ELSE Outcomes[n]
  IN  /\ phase1 = "work"
      /\ Reader1!Take(Understood(Messages[n]))
      /\ table1' = [c \in Classes |->
           IF c \in ClassesOf[n] THEN [table1[c] EXCEPT ![next1] = @ + 1] ELSE table1[c]]
      /\ traced' = traced \cup {<<next1, call>> : call \in ToSet(outcome.store)}
      /\ UNCHANGED <<scenario, sent, buffer, aggregates, reader2, table2, reported, history>>

Read1 ==
  /\ \/ Reader1!ConsumeNone
     \/ Reader1!MeasureLag(sent)
     \/ Reader1!Commit
  /\ UNCHANGED <<scenario, sent, table1, buffer, aggregates, reader2, table2,
                 reported, traced, history>>

Fetch1 ==
  /\ Reader1!ConsumeSome(sent)
  /\ UNCHANGED <<scenario, sent, table1, buffer, aggregates, reader2, table2,
                 reported, traced, history>>

\* A flush sends what is aggregated to the producer's buffer and reports the
\* rest.
Flush(c) ==
  /\ table1[c] # None
  /\ table1' = Emptied(table1, c)
  /\ IF c = "at once"
     THEN /\ reported' = Added(reported, c, table1[c])
          /\ UNCHANGED buffer
     ELSE /\ buffer' = Append(buffer, [class |-> c, counts |-> table1[c]])
          /\ UNCHANGED reported
  /\ UNCHANGED <<scenario, sent, reader1, aggregates, reader2, table2, traced, history>>

DeliverMutant ==  \* waits for more
  /\ Len(buffer) > 1
  /\ aggregates' = Append(aggregates, Head(buffer))
  /\ buffer' = Tail(buffer)
  /\ UNCHANGED <<scenario, sent, reader1, table1, reader2, table2, reported, traced,
                 history>>

\* After at most a second the library sends what is in its buffer.
Deliver ==
  /\ buffer # <<>>
  /\ aggregates' = Append(aggregates, Head(buffer))
  /\ buffer' = Tail(buffer)
  /\ UNCHANGED <<scenario, sent, reader1, table1, reader2, table2, reported, traced, history>>

Within(message) == {<<message.class, i>> : i \in {j \in DOMAIN log : message.counts[j] > 0}}

\* msg_delivered only writes an error to the log.
Refuse ==
  /\ scenario.refuses
  /\ buffer # <<>>
  /\ buffer' = Tail(buffer)
  /\ excused' = excused \cup Within(Head(buffer))
  /\ UNCHANGED <<scenario, sent, reader1, table1, aggregates, reader2, table2, reported,
                 traced, redelivered, crashes>>

\* What is lost are documents that are not read again: those in the table, in
\* the buffer and in the batch whose offsets are committed.
CrashReader ==
  /\ crashes < scenario.crashes
  /\ crashes' = crashes + 1
  /\ Reader1!Restart
  /\ table1' = Empty
  /\ buffer' = <<>>
  /\ excused' = excused \cup
       {update \in Classes \X (1..committed1) :
          \/ update[2] >= next1
          \/ table1[update[1]][update[2]] > 0
          \/ \E message \in ToSet(buffer) : update \in Within(message)}
  /\ redelivered' = redelivered \cup ((committed1 + 1)..(next1 - 1))
  /\ UNCHANGED <<scenario, sent, aggregates, reader2, table2, reported, traced>>

-----------------------------------------------------------------------------
\* The instance that owns the aggregates.

TakeAggregate ==
  /\ phase2 = "work"
  /\ Reader2!Take(TRUE)
  /\ table2' = Added(table2, aggregates[next2].class, aggregates[next2].counts)
  /\ UNCHANGED <<scenario, sent, reader1, table1, buffer, aggregates, reported, traced, history>>

Read2 ==
  /\ \/ Reader2!ConsumeNone
     \/ Reader2!MeasureLag(Len(aggregates))
     \/ Reader2!Commit
  /\ UNCHANGED <<scenario, sent, reader1, table1, buffer, aggregates, table2,
                 reported, traced, history>>

Fetch2 ==
  /\ Reader2!ConsumeSome(Len(aggregates))
  /\ UNCHANGED <<scenario, sent, reader1, table1, buffer, aggregates, table2,
                 reported, traced, history>>

Report(c) ==
  /\ table2[c] # None
  /\ table2' = Emptied(table2, c)
  /\ reported' = Added(reported, c, table2[c])
  /\ UNCHANGED <<scenario, sent, reader1, table1, buffer, aggregates, reader2, traced, history>>

CrashOwner ==
  /\ crashes < scenario.crashes
  /\ crashes' = crashes + 1
  /\ Reader2!Restart
  /\ table2' = Empty
  /\ excused' = excused \cup
       {update \in Classes \X DOMAIN log :
          \E k \in 1..committed2 :
             /\ update \in Within(aggregates[k])
             /\ k >= next2 \/ table2[update[1]][update[2]] > 0}
  /\ redelivered' = redelivered \cup
       {i \in DOMAIN log : \E k \in (committed2 + 1)..(next2 - 1) :
                             aggregates[k].counts[i] > 0}
  /\ UNCHANGED <<scenario, sent, reader1, table1, buffer, aggregates, reported, traced>>

-----------------------------------------------------------------------------
Next ==
  \/ Arrive
  \/ Fetch1
  \/ Read1
  \/ TakeDocument
  \/ Deliver
  \/ Refuse
  \/ CrashReader
  \/ Fetch2
  \/ Read2
  \/ TakeAggregate
  \/ CrashOwner
  \/ \E c \in Classes : Flush(c) \/ Report(c)

\* The loops of the readers go on, a message that is there is handed over in
\* the end, the flush jobs are triggered again and again, and the library
\* delivers what it has or gives it up.  Documents need not arrive, and nothing
\* depends on commits.
Fairness ==
  /\ WF_vars(TakeDocument) /\ WF_vars(TakeAggregate)
  /\ WF_vars(Read1 /\ phase1' # phase1) /\ WF_vars(Read2 /\ phase2' # phase2)
  /\ SF_vars(Fetch1) /\ SF_vars(Fetch2)
  /\ WF_vars(Deliver \/ Refuse)
  /\ \A c \in Classes : WF_vars(Flush(c)) /\ WF_vars(Report(c))

Spec == Init /\ [][Next]_vars /\ Fairness

-----------------------------------------------------------------------------
\* Properties.

Counts == [Classes -> [DOMAIN log -> Nat]]

TypeOK ==
  /\ scenario \in Scenarios /\ sent \in 0..Len(log)
  /\ Reader1!TypeOK /\ handed1 <= sent
  /\ Reader2!TypeOK /\ handed2 <= Len(aggregates)
  /\ {table1, table2, reported} \subseteq Counts
  /\ {buffer, aggregates} \subseteq
       Seq([class : Classes \ {"at once"}, counts : [DOMAIN log -> Nat]])
  /\ traced \subseteq (DOMAIN log) \X {"add_child", "mark_traceable", "put"}
  /\ excused \subseteq Classes \X (DOMAIN log)
  /\ redelivered \subseteq DOMAIN log
  /\ crashes \in 0..scenario.crashes

\* Where updates may be: in a table, in the k-th message of the buffer or of
\* the topic behind its reader, or in what was reported.
Places ==
  {"table1", "table2", "reported"} \X {0}
  \cup {"buffer"} \X DOMAIN buffer \cup {"topic"} \X (next2..Len(aggregates))

\* How often the updates of class c of document i are there.
InMessage(message, c, i) == IF message.class = c THEN message.counts[i] ELSE 0
Held(place, c, i) ==
  CASE place[1] = "table1"   -> table1[c][i]
    [] place[1] = "table2"   -> table2[c][i]
    [] place[1] = "reported" -> reported[c][i]
    [] place[1] = "buffer"   -> InMessage(buffer[place[2]], c, i)
    [] place[1] = "topic"    -> InMessage(aggregates[place[2]], c, i)
IsHeld(c, i) == \E place \in Places : Held(place, c, i) > 0

\* The updates that were made of a document are in a table, under way or
\* reported, if they were not in memory at a crash and not refused.
NothingLostUnlessExcused ==
  \A i \in 1..(next1 - 1) : \A c \in ClassesOf[log[i]] :
    IsHeld(c, i) \/ <<c, i>> \in excused

\* They are in one place and counted once, unless the document or an aggregate
\* that it is in is read again after a crash (tm_kafka_consume_messages, tm_flush_team_metrics).
CountedOnce ==
  \A i \in DOMAIN log \ redelivered : \A c \in Classes : \A p, q \in Places :
     Held(p, c, i) > 0 /\ Held(q, c, i) > 0 => p = q /\ Held(p, c, i) = 1

\* What src/README.md:146-149 says: "Since kafka is durable, this pattern
\* survives crashes and restarts of tracemate instances.  They will merely
\* pick up from their last position and continue to aggregate."
AggregatesSurviveCrash ==
  \A i \in 1..(next1 - 1) : \A c \in ClassesOf[log[i]] : IsHeld(c, i)

At(i) == Messages[log[i]]

\* A trace that is marked as it is started has its root, however far the
\* reader has fallen behind (process_transaction_message): no trace is sent
\* that only lacks its root because of the lag.  A document that a hook adds may
\* mark another trace.
MarkedRootsKept ==
  \A i \in DOMAIN log :
    /\ At(i).event = "transaction" /\ At(i).more = <<>>
    /\ <<i, "mark_traceable">> \in traced
    => <<i, "put">> \in traced

\* What is made of the n-th message if it is handled for itself.
Updates(n) == Outcomes[n].updates
Times(n, key) == Cardinality({k \in DOMAIN Updates(n) : KeyOf(Updates(n)[k]) = key})
Handled == {n \in DOMAIN Messages :
              Outcomes[n].status = "handled" /\ Messages[n].more = <<>>}
Taken   == {log[i] : i \in 1..(next1 - 1)} \cap Handled

\* The metrics whose totals count what the latencies measure, and its errors.
CountsOf(latency) ==
  CASE latency = "transaction - latency" -> {"transaction - request_count"}
    [] latency = "db - latency"          -> {"db - stmt_count"}
    [] latency = "external - latency"    -> {"external - call_count"}
    [] latency = "internal - latency"    -> {"internal - call_count"}
    [] latency = "latency"               -> {"request_count", "execution_count"}
    [] OTHER                             -> {}
ErrorsOf(latency) ==
  CASE latency = "transaction - latency" -> {"transaction - error_count"}
    [] latency = "latency"               -> {"error_count"}
    [] OTHER                             -> {}

\* The document's own name is not "all" nor its subtype, nor is the subtype "all":
\* otherwise its own metrics are those that are kept besides.
OwnName(n) ==
  LET d == Messages[n].doc
      subtypes == {d.subtype, "unknown"} \cup ToSet(d.parts)
  IN  "all" \notin subtypes \cup {d.name} /\ d.name \notin subtypes

\* How many updates there are of the metric that is kept beside another's.
Beside(n, key, metrics) ==
  Cardinality({k \in DOMAIN Updates(n) : KeyOf(Updates(n)[k]) \in
                 {[key EXCEPT !.metric = metric] : metric \in metrics}})

Agreeing == {n \in Handled : OwnName(n) => \A k \in DOMAIN Updates(n) :
  LET key == KeyOf(Updates(n)[k])
  IN  key.name = "all" /\ CountsOf(key.metric) # {} =>
        /\ Beside(n, key, CountsOf(key.metric)) = Times(n, key)
        /\ Beside(n, key, ErrorsOf(key.metric)) <= Times(n, key)}

\* Whatever a total latency has a sample of is counted once beside it, and
\* is at most one error: rates that are computed of the totals are at most 1,
\* unless a document's own name is that of the total.
TotalsAgree == Taken \subseteq Agreeing

Single == {n \in Handled : OwnName(n) =>
             \A k \in DOMAIN Updates(n) : Times(n, KeyOf(Updates(n)[k])) = 1}

\* No document updates a metric twice (process_transaction_message, process_span_message,
\* process_metric_message), unless its own name is that of the total or of the
\* subtype that is counted besides.
NoMetricTwice == Taken \subseteq Single

\* The nested document with the readings of a flat one.
Nested(d) == [d EXCEPT !.minor = 14, !.layout = "nested"]

WithinNested == {n \in Handled :
  LET d == Messages[n].doc
      nested == ToSet(ReadingOutcome(Nested(d)).updates)
  IN  /\ Messages[n].form = "json" /\ Messages[n].event = "metric"
      /\ IsFlat(d) /\ d.layout = "flat"
      /\ d.present \cap {GoHeap, GoPause, GoCount, Routines} = {}
      => /\ ToSet(Updates(n)) = {call \in nested : call.metric \in d.present}
         /\ \A call \in nested : \E r \in d.present : call.metric \in ReadWith(r)}

\* Of a reading that a flat document of 7.15 has, the code makes the updates
\* that its second copy, 300 lines further on, makes of the same reading in a
\* nested document.  That copy also makes updates of readings that are missing,
\* as zero, but only next to one that is there (process_metric_message): where
\* no object lacks a member the two agree.  What Go programs report is not read
\* of flat documents.
FlatWithinNested == Taken \subseteq WithinNested

\* The count of a subtype and operation of a database span, which is kept by
\* host for every team.
KeptForAll(call, d) == call.metric = "db - stmt_count" /\ call.name = Operation(d)

AskedFor == {n \in Handled : \A call \in ToSet(Updates(n)) :
  LET d == Messages[n].doc
  IN  call.at = "host" /\ ~KeptForAll(call, d) =>
        d.team \in IF Messages[n].event = "metric" THEN CollectSystem ELSE CollectHost}

\* Metrics of single hosts, of which there are many, are kept for the teams
\* that ask for them; the only exception is the number of statements by
\* subtype and operation (process_span_message updates it unasked).
HostMetricsOnlyIfAsked == Taken \subseteq AskedFor

\* Traces are not shed for ever: once the reader has caught up, the lag it
\* goes by is small again, if what it read last could be understood.
SheddingEnds == <>[](sent > 0 /\ Understood(At(sent)) => ~Lagging)

\* Whatever is made of the documents that arrive is reported in the end, or
\* it is excused.
EveryDocumentCounted ==
  <>[] \A i \in 1..sent : \A c \in ClassesOf[log[i]] :
         reported[c][i] > 0 \/ <<c, i>> \in excused
=============================================================================
