# Tracemate in TLA+

Tracemate is a C daemon on libmtev.  It reads the documents of Elastic APM
agents (and OTLP spans) from Kafka, turns them into metrics for Circonus, and
keeps transactions, spans and errors in a local LMDB store until it can decide
which traces go to Jaeger (tail sampling).  This directory models the parts of
it whose correctness depends on interleavings, time, crashes and failures,
checks them with TLC on small instances and proves the main safety properties
with TLAPS for all instances.

Paths below are relative to the repository (`src/main.c` is the file
`src/src/main.c` of `PROJECT.json`).

## 1. Inventory of the system

| Component | Files | State | Operations | Talks to |
|---|---|---|---|---|
| Kafka client and consumer loops | `src/tm_kafka.c`, `src/main.c` | one consumer per topic, offsets stored and committed automatically | `kafka_read`, `handle_message`, `tm_kafka_process_message`, `produce` | handlers; Kafka |
| Handlers | `src/tm_process_{transaction,elastic_span,error,metric,aggregate,url,regex}.c`, `src/tm_process_otel_span.cc` | none | one per kind of document | metric table, transaction store, URL squasher, Kafka |
| Metric table | `src/tm_process.c`, `src/tm_metric.c`, `src/tm_process_aggregate.c` | per team: a hash of metrics with value, `last_seen_ms`, `flushed_ms`, `scheduled_for_destruction` | `update_*`, `aggregate_*`, flush every 10 s | Kafka `tracemate_aggregates`, journal |
| Circonus journal | `src/tm_circonus.c` | a jlog and a checkpoint on disk; one sender thread | `journal_output_metrics`, `send_thread` | Circonus HTTPTrap |
| Transaction store | `src/tm_transaction_store.c`, `src/bloom/` | LMDB environments `current` and `last`, two tables each; bloom filters; `rwlock` | `put`, `add_child`, `mark_traceable`, `process_jaeger`, `delete_old_transactions`, open | handlers, cleanup job, Jaeger |
| Cleanup job | `src/main.c` | a job queue with one thread | `transaction_clean` every 3 s | transaction store |
| Jaeger encoder | `src/tm_jaeger.cpp` | none | `jaegerize_transaction`, `jaegerize_span` | Jaeger collector |
| URL squasher | `src/tm_url_squasher.c`, `src/tm_utils.c` | per service: a tree of path segments and a list of regexes | `add_path`, `get_regexes`, `genericize_path` | Kafka `tracemate_urls`, `tracemate_regexes` |
| Configuration, hooks, visuals, web | `src/tm_hooks.*`, `src/tm_visuals.c`, `src/modules`, `src/tm-web`, ... | configuration | start-up and HTTP endpoints | - |

How the parts interact.  Each topic has a read job that runs on a thread of its
own and re-arms itself when it is done (`main.c:188-216`), so within a topic
handlers are sequential and between topics they are concurrent.  A handler
updates metrics in memory and calls the store.  The flush jobs move metrics to
Kafka (to be aggregated by whichever instance owns the key) or to the journal.
The cleanup job alternates `process_jaeger` and `delete_old_transactions`.

What is hard here:

- the store's operations are sequences of LMDB transactions, and the cleanup job
  swaps the environments between them under a lock that covers only parts;
- a trace's root, children and mark come from different topics in any order,
  before or after a rotation;
- bloom filters must follow the tables through puts, rotations and restarts;
- a rotation is three file operations, and the process may die between them;
- an export and the delete of its mark are two steps;
- posts fail one by one while the checkpoint of the journal is a single number;
- metrics are read and reset without a lock while handlers update them;
- the decision to destroy a metric is taken before other threads stop using it;
- offsets are committed by the clock, whatever has become of the messages, and
  the lag is measured from an offset that not every message moves;
- telemetry is read by two copies of the same code, and requests are counted in
  a dozen places that have to agree.

What makes each component correct:

- *Store*: what goes to Jaeger is a triggered trace; a triggered trace goes
  there; a mark is not lost before the export; a root lives at least one
  rotation period; the filters deny nothing that is stored; children follow
  their root.
- *Journal*: nothing is passed over unseen; the checkpoint does not move back
  or past what has not arrived; every message arrives.
- *Metric table*: every update is flushed exactly once; a metric is destroyed
  only when everything in it was flushed.
- *URL squasher*: squashing loses no path; a segment is replaced only if it
  varies more than allowed; what is squashed comes to be known to the handlers.
- *Handlers*: totals agree with each other, a document counts once in a metric,
  a reading that is there has the same effect in either layout of telemetry,
  metrics by host are kept only where they are asked for, a marked trace has its
  root.
- *Kafka loops*: what is made of a document is counted once, and at least once
  in spite of crashes; shedding ends when the reader has caught up.

## 2. Plan

| Step | Modules | Content | Status |
|---|---|---|---|
| 1 | `TransactionStore`, `MCTransactionStore`, `TransactionStoreProofs` | handlers, store, cleanup job, crash; eight theorems | done |
| 2 | `StoreAndForward`, `Journal`, `JournalProofs` | journal, its abstract specification, refinement; five theorems | done |
| 3 | `MetricTable`, `MCMetricTable`, `MetricTableProofs`, `MetricTableKeptProofs`, `MetricTableFlushProofs` | updates, flush and destruction of metrics as concurrent steps, averages with their counts; five theorems | done |
| 4 | `Documents`, `TransactionMetrics`, `SpanMetrics`, `ReadingMetrics`, `OtelMetrics`, `DocumentMetricsProofs` | what the handlers make of a document, as operators; four theorems | done |
| 5 | `KafkaReader`, `MetricPipeline`, `MCMetricPipeline`, `MetricPipelineProofs` | read loop, lag, automatic commits; two instances with Kafka between them, refusal, redelivery and crash; four theorems | done |
| 6 | `UrlSquasher`, `MCUrlSquasher`, `UrlSquasherProofs` | the path tree, its regexes and their publication; three theorems | done, for one service |
| 7 | `TailSampling` | abstract specification of the store (a trace is collected, triggered, planned, sent or forgotten), refined by `TransactionStore` | done |

An abstract specification that would be worth having and is not here: for
metrics, a single counter that is only added to and drained, refined by
`MetricTable`; `KeptUnlessExcused` and `SentOnce` say of it what can be said
without one.

## 3. Transaction store (`TransactionStore.tla`, `TailSampling.tla`)

### State and actions

| Model | Code |
|---|---|
| `roots[s][t]` | table `ts` of environment `s`: the record under key *trace id*, with `first_seen_ms` and `last_modified_ms` |
| `kids[s]` | the records under keys *trace id*`-`*kind*`-`*id* of the same table; errors too |
| `marks[s]` | table `jaeger` of environment `s` |
| `openMs`, `bloom[s]` | `current_open_ms`, `current_bloom` and `last_bloom` |
| `th[p]` | the handler that runs in the reader thread of topic `p`: its program counter and the locals that live across LMDB transactions |
| `job` | the cleanup job and what its read transaction sees |
| `leaked` | reader threads that left a read transaction on `last_env` open (`tm_transaction_store.c:401-409` jumps over the abort) |
| `inbox`, `seen`, `jaegered` | Kafka, and two history variables |

One action is one LMDB transaction or one step outside of any.  Read
transactions see a snapshot and write transactions are atomic (LMDB), so
`tm_transaction_store_put` is `PutStamp`, `PutCommit`, `PutBloom`;
`tm_transaction_store_add_child` is `AddLookup`, `AddParent`, `AddChild`;
`mark_traceable` is one step; a handler that meets an error of LMDB takes
`WriteFails`.  The reads of `last` and of `current` in `AddLookup` are one step
because roots enter `last` only through a rotation, which the read lock
excludes.  `Receive` is the part of the three handlers before their first call
of the store, with the shortcut for a lagging consumer
(`tm_process_transaction.c:557,581`).

The job is `JobScanCurrent`, `JobScanLast`, `JobExport`, `JobClear`,
`JobEndScan`, then `JobCheckAge` and, with the write lock, `JobUnlinkLast`,
`JobRename`, `JobReopen`.  The inner loop of `transaction_clean` repeats the
round without pause, which is the job starting again from idle.  The write lock
is `ck_rwlock`'s: a waiting writer keeps new readers out and waits for those
inside; that preference is the library's and is modelled from its use.

`Crash` kills the process at any step.  LMDB files keep what was committed:
with `MDB_NOSYNC` that is true of a process crash; a crash of the machine is not
modelled.  Kafka then delivers any subset of the documents again.

Abstracted: payloads, JSON and compression, and with them the branches for
undecodable or corrupt records; a service without a team; failures to begin a
transaction; the `transaction_trace` hook.  An error document travels inside
the span it belongs to; here it is handed over with its trace.  The results of
the `jaegerize_*` calls are ignored by the code, so "sent" means handed over.
`ttl` is stored and never read.  The clock does not go back.

### What the store promises (`TailSampling.tla`)

`TailSampling` is the store without environments, locks, filters and threads:
one collection of roots and children, a set of marks, a plan of what is to be
sent.  Under the mapping at the end of `TransactionStore` the roots held are
those of both environments together, likewise children and marks, and the plan
is the snapshot of the job (`job.todo`, `job.cargo`).  It says

- a document is stored or marks its trace only if it arrived; a root is stored
  with times in order and in the past, in place of at most one record of its
  trace (`Keep`, `Attach`, `Mark`);
- traces are planned that are marked and have a root that was quiet for the
  lookback, and what is sent of one was stored when it was planned, together
  with a root (`Plan`, `Send`);
- a mark goes after the root was sent, the mark of no other trace with it
  (`Settle`), or with a prune;
- a prune takes roots that are older than the retention, and comes when the
  generation is older than that and nothing is due (`Prune`, `Renew`);
- a crash forgets the plan and nothing that was stored (`Restart`).

`PutCommit` and `AddParent` are both `Keep`, `JobUnlinkLast` is `Prune`, and
`JobRename`, which moves everything, is not seen at all.  What it does not say
is what the code does not keep: that a trace that is due is sent (`store_apart`),
that a later record of a root is never replaced by an earlier one (two
`add_child` calls), that root, children and mark are planned together wherever
they are.

### Runs

All instances use `Lookback = RotateAfter = 1`.  "Quiet" is `>=` and "old" is
`>`, so a trace is quiet after one tick and an environment is rotated after two,
the ratio of 300 s and 600 s in the default configuration.

| Run | Instance | What it shows |
|---|---|---|
| `store_safety` | root and error of one trace, bloom filters with false positives, LMDB errors, one crash with redelivery, `MaxTime = 4` | `TypeOK`, `FiltersCoverRoots`, `ParentStaysPut`, `YoungRootsKept`, `ChildrenFollowRoot`, `ClearedOnlyAfterSent` hold; `ImplementsTailSampling`: every step is one of `TailSampling` or a stutter |
| `store_live` | two traces, triggered by an error and by latency, `FairSpec`, no filters, `MaxChildren = 1`, `MaxTime = 4` | `ReadyTracesAreSent`: a marked trace with a quiet root beside the mark is sent, unless it is touched again; `OnlyTriggeredTracesSent` and `ClearedOnlyAfterSent` hold with two traces, one of them truncated |
| `store_apart` | root and error | violation of `TriggeredTracesAreSent` (finding) |
| `store_late` | slow root and error | violation of `ErrorsAreSent` (finding) |

The runs have room for all their traces (`MaxExport = 10`), so that no scan is
cut short in them; that a cut takes no mark is part of the theorem
`ClearedAfterSent`, which holds for every `MaxExport`.

Bounds.  `MaxTime = 4` allows two rotations, so a root passes through `current`,
`last` and the prune; one crash is enough to separate any two steps, because
recovery itself is one step.  One trace is enough for all properties but those
about the job choosing between traces, since traces share only the environments
and the job's list.

Fairness.  Reader threads run until their handler is done and the job queue
starts a round every 3 s: weak fairness of each thread's steps and of the job's.
`ck_rwlock` lets the writer in once the readers inside have left.  The clock
advances infinitely often: strong fairness of `Tick`, which is not enabled while
a round runs when `SlowRounds` is `FALSE`.  No fairness for `Receive` (documents
need not come) or `Crash`.

`SlowRounds = FALSE` is needed for `ReadyTracesAreSent`: if the clock may advance
within a round, a trace that becomes quiet in the round that ends in a rotation
of `last` is pruned unsent.  Safety runs use `SlowRounds = TRUE`.

### Disagreements with the documentation

- `store_apart`: mark and root in different environments.  `process_jaeger` means
  to look into the other environment but opens the cursor in the same
  transaction.  The trace is never sent.
- `store_late`: the delete of a mark after the export also deletes a mark set
  since the snapshot; the error that set it is never sent.

Further consequences that no run checks: children rotated to `last` before
their root came are not sent with it; a marked trace that stays active may be
pruned, and so may a quiet one behind the cut of 200 (with `MaxExport = 2`, a
round that is cut short and ends in a rotation refutes `ReadyTracesAreSent`,
which is why `store_live` has room for all its traces); two `add_child` calls on one trace may
write `last_modified_ms` in the wrong order.  The model has all of these.

### Proofs (`TransactionStoreProofs.tla`)

The assumption is `ConstantsAssumption`: finitely many documents, each with a
trace and a kind; nothing about their number, the period or the bounds.  The
inductive invariant `IInv` conjoins

- `TypeOK`; `RootsAreGood` (a stored root lies under its own trace and its times
  are not in the future); `LastIsOlder` (roots in `last` are no younger than the
  stamp of `current`, the reason why pruning by that stamp is safe);
- `RotationIsAlone` (no thread is inside the read lock while files move);
- `ParentStaysPut`, `HandlersAgree` (what a handler holds agrees with the
  environment it will write to);
- `FiltersCoverRoots`, `FiltersAhead` (the filters within a rotation);
- `TriggersKnown` (marks and handlers about to mark have a trigger in `seen`),
  `OnlyTriggeredTracesSent`, `RootsInCargo` (the job's snapshot holds the root of
  every trace it is about to export).

The action properties (`YoungRootsKept`, `ClearedOnlyAfterSent`,
`ChildrenFollowRoot`) follow from `IInv` and a step.  The lemmas
`Transition`, `RootsWritten`, `MarksWritten` and `RotationPhases` say once which
steps touch which state, and the later lemmas split on them instead of on all
actions.

`Refinement` shows that `TransactionStore` implements `TailSampling`.  It needs
`PInv`, which adds to `IInv`:

- `RootsKnown`: what is stored, or carried by a handler to be stored, is a
  document that arrived, with `first_seen_ms` not after `last_modified_ms` and
  neither in the future;
- `ChildrenKnown`: roots are never stored as children, and `last` is empty of
  children too when `current` is renamed, so that the rename adds and loses
  nothing;
- `PlanKnown`: what the job has yet to send is still marked in the environment it
  scans, although marks are set meanwhile, the limit of a scan is a lookback in
  the past, and outside a scan the plan is empty.

Then there is one lemma per kind of step (`WrittenIsKept`, `SnapshotIsPlan`,
`ExportIsSend`, `ClearIsSettle`, `UnlinkIsPrune`, `RenameIsNotSeen`, ...), put
together in `StepSimulation`.  The one that is less than obvious is
`WrittenIsKept`: both environments may hold a record of one trace, and the same
one, so a write replaces one record of the union or none.

`ReadyTracesAreSent` is only model-checked: liveness is beyond the prover.

## 4. Journal (`Journal.tla`, `StoreAndForward.tla`)

`log` is the jlog, `ckpt` the checkpoint of subscriber `reader`, both files;
`pc`, `begin`, `finish` are the sender thread's place in `send_thread`;
`settled`, `dropped` and `visited` are history.  `ReadInterval` may end before
the last message, as jlog intervals end with a segment.  A message is `complete`
(posted), `incomplete` (no url or data: skipped and checkpointed) or
`unparsable` (passed over without checkpoint).  A post is accepted or fails, and
one that fails may have arrived.  jlog operations may fail (`MayFail`).  `Crash`
resumes from the checkpoint.

`StoreAndForward` is the queue behind what README.md:544-548 promises: messages
are stored, settled in any order, and released only when all before them are
settled or given up.  The README does not speak of giving up; the checkpoint of
a later message does it, and `dropped` records where.

| Run | Instance | What it shows |
|---|---|---|
| `journal_safety` | 4 messages of 3 classes, refused posts, jlog errors, one crash, `FairSpec` | `TypeOK`, `NothingSkippedUnseen`, `CheckpointMovesToSettled`, `CompleteIsPassed`, `ImplementsStoreAndForward` |
| `journal_lost` | 2 messages, refused posts | violation of `NoDataLost` (finding): a failed post is passed over when a later one of its interval succeeds |

Fairness: the sender loops for ever (weak), and a read, a post or a checkpoint
that is tried again and again succeeds at last (strong: the first and the last
are about the disk, the second about Circonus).  `CompleteIsPassed` excuses a
message with an unparsable one before it: one at the end of an interval is read
again and again with no checkpoint, and nothing behind it is reached.  Four
messages allow an interval with a refused post between accepted ones, before and
after the crash.

Proved in `JournalProofs.tla`, for any journal and any number of crashes:

- `TypeCorrect`, `Seen`, `Checkpoints` from `TypeOK` strengthened by `Progress`
  (all between the checkpoint and the sender was visited, and what it is about
  to checkpoint is settled);
- `Refinement`: every step of the journal, failures and crashes included, is a
  step of `StoreAndForward` or a stutter;
- `NothingLost`: under `Faultless` (no refused posts, no jlog errors, no
  unparsable messages) `NoDataLost` holds, with the invariant that all up to
  the sender's place is settled.  `journal_lost` shows that the assumption is
  needed.

## 5. Metric table (`MetricTable.tla`)

One team's metrics on one instance, with the aggregates topic looped back to it,
so that a value can be followed from the handler through Kafka and the
aggregator into the journal.  (On other instances the same table plays the
second part; teams are independent of each other.)

| Model | Code |
|---|---|
| `table[k]` | the entry in `td->hash`; the key holds name, timestamp, `aggregate` and `immediate_flush`, all of which are hashed |
| `gen` | which incarnation of the entry a pointer refers to: a thread that holds a deleted entry writes to memory nobody reads |
| `sum` | the value, as the set of updates it has added up |
| `th[t]` | an update in progress: looked up, waiting for `td->mutex`, storing `last_seen`, adding |
| `fl[f]` | a flush in progress: its clock, the keys left, the aggregate it is at, the JSON batch, the keys to delete |
| `started` | flushes begun: one job is queued every period, and late ones queue up |
| `reports` | what went to the journal; see `Journal` for the rest of its way |
| `done`, `excused`, `overlapped` | history |

`update_counter`, `update_numeric` and `update_histogram` have the same control:
look up without a lock, else lock, look up again, create.  `last_seen` and the
value are two stores (`StoreSeen`, `AddValue`); the aggregator merges a histogram
under its spinlock (`MergeHistogram`).  A flush visits the entries one by one:
it dooms, skips, reports or drains them.  Draining is a read, a reset by
`metric_to_json`, a second reset by `reset_value`, and the produce, with nothing
to keep updates out.  `flushed_ms` of a drained entry is the start of the flush,
that of a reported entry the time after the journal write.  Stamping a batch is
one step, since only flushes look at `flushed_ms`.

An average is its number and, in `Counts`, the number of what was added to it:
an update that finds the entry adds to one word after the other, the aggregator
takes an inbound count of zero for one (`Counted`), and a flush reads and resets
the two in turn.

Not modelled: texts, values that are replaced, rollups derived from a histogram,
timestamps other than as a guard, `scheduled_for_destruction` (it is only
logged); the publication of regexes at the end of a flush is in section 6.

| Run | Instance | What it shows |
|---|---|---|
| `metric_updates` | two updates of an aggregated average, of an aggregated histogram or of an immediate metric, two handlers, two flush jobs, failing produces and journal writes, `MaxTime = 3` | `TypeOK`, `KeptUnlessExcused`, `SentOnce`, `AveragesAgree`, `ReportsGrow` |
| `metric_straggler` | two updates of an immediate metric, `MaxTime = 4` | violation of `DestroyedOnlyIfReported` (finding) |

`KeptUnlessExcused` says exactly which updates the design may lose: those that
overlap with a flush of their own metric or fall in the millisecond of its
stamp, and those in a message whose produce fails.  Creation by two threads,
failed journal writes and destruction lose nothing by themselves.  `SentOnce` and
`ReportsGrow` hold except at metrics where two flush jobs met, which the queue's
maximum of four allows; `overlapped` records those.  `AveragesAgree`: outside the
same windows, the count by which an average is divided is the number of the
updates it sums up, in messages and in reports.

Bounds: two updates are what a race on one entry needs; `MaxTime = 3` allows a
flush, the aggregator's turn, a second flush and, with `DestroyAfter = 1`, the
destruction of an entry.  `QuietAfter = 0` and `FlushEvery = 1` make a tick
somewhat longer than 10 s.  The clock stands still at its bound, so that the
instance does not deadlock there.  Handlers and flush jobs are interchangeable
(`SYMMETRY`; the properties of these runs are invariants and action
properties).

### Proofs (`MetricTableProofs.tla`, `MetricTableKeptProofs.tla`, `MetricTableFlushProofs.tla`)

The assumption is `TableAssumption`: some update can be made, every update has a
well-formed key, no metric is both a histogram and an average, the aggregator's
thread is none of the handlers', and the periods and bounds are numbers.  The
theorems hold for any calls, any number of threads and of flush jobs, any
timestamps, any bound on the clock, with and without failures.

`MetricTableProofs` states the effect of every step once, as facts about the
fields it touches (`FindEffect` to `DeleteEffect`), so that no later proof opens
an action again; what a step is allowed to do to a part of the state is then a
lemma of its own (`UpdateKept`, `JobKept`, `UpdateSent`, `JobSent`,
`UpdateAverage`, `JobAverage`), and each action only has to meet its hypotheses.

- `TypeCorrect`, with `TypeInv`: no pointer is NULL or to an entry that was not
  created, nobody has seen a time that is yet to come, and a job drains
  aggregates and reports all others.
- `NothingLostSilently`, with `KeptInv`.  `KeptUnlessExcused` is not inductive,
  because a flush decides on what it has read and acts later.  `Covered` says
  what is in hand of each job: what it drains or deletes is already safe, what it
  stamps is in its JSON.  `Overlaps`, `Stale` and `Fresh` say of a thread
  that holds a pointer and is not excused that no job is there, that its entry
  is still in the table, and that its own `last_seen` will bring the next flush.
- `NothingSentTwice`, with `SentInv`: entry, value in hand and messages are
  disjoint (`Once`), and what a handler or a document has yet to add is in none of
  them (`Unspent`); that two jobs at one key were noticed (`Alone`) gives that
  nobody else deletes or creates the entry meanwhile (`StaysLive`).
- `StragglersAddUp`, an action property, with `Grows`: reports and JSON batches
  contain no more than the entry they were read from, and a batch contains the
  reports before it.
- `AveragesOfUpdates`, with `AverageInv` on top of the others: number and count
  agree in threads, entries, batches, messages and reports but for the updates of
  threads between the two additions (`Counting`).  The hard part is the message
  with no count at all, which the aggregator counts as one: it is shown to come
  only from an entry that an excused update has left behind (`Counted1` to
  `Counted3`).

The inductive invariants were checked by TLC on the instance of `metric_updates`
before they were proved.  `DestroyedOnlyIfReported` is refuted by
`metric_straggler`, and what `KeptUnlessExcused` excuses is exactly that window
and the ones like it.

## 6. URL squasher (`UrlSquasher.tla`)

One service on one instance.  URLs that no regex matches go to `tracemate_urls`;
the reader of that topic adds them to a tree of path segments, which replaces
("squashes") a level that has too many; flush jobs publish the paths with
replaced levels to `tracemate_regexes`; the reader of that topic adds them to the
table the handlers use.

| Model | Code |
|---|---|
| `urls`, `taken` | topic `tracemate_urls`, and how far it was read |
| `nodes`, `squashed` | the tree: a node is the sequence of segments leading to it; `children_squashed` |
| `locked`, `at` | `tm_path_squasher_add_path` in progress, and its `parent` |
| `batch[f]` | the regexes that a flush job got and has yet to publish |
| `unread`, `known` | topic `tracemate_regexes` before its reader, and `td->squash_regexes` |
| `added` | history |

`HandleUrl` is `genericize_path` up to the produce.  `BeginAdd`, `AddSegment`,
`EndAdd` are `add_path`, one segment at a time, under the squasher's lock;
`AddSegment` includes `squash_children`.  When a level is squashed that has
squashed levels below it, these become ordinary nodes whose child is named
"{...}" (`recurse_add_children` copies names only), and levels that are over
their limit after the merge are squashed when a later path passes them.
`FlushRead` is `tm_path_squasher_get_regexes`, `FlushPublish` and `FlushSkip` the
loop over its result, `LearnRegex` is `process_regex_message`.  `Crash` empties
the tree and the table; the topics are read again from some committed offset.

Abstracted: the text of a regex, and with it matches within a segment; ids and
numbers that are replaced before the squasher sees a URL; the URL that results
from a match; the printing of the tree.  `Configured` stands for the regexes of
the configuration and `Seeds` for regexes on the topic from elsewhere.

| Run | Instance | What it shows |
|---|---|---|
| `url_regexes` | 5 URLs with three variants at one level and two at the next, and one for the configuration; a regex of the service on the topic; failing produces, one crash with redelivery, `MaxDocs = 4` | `TypeOK`, `UrlsKeepTheirPlace`, `WildcardsAreEarned`, `RegexesAreLearned` |
| `url_unpublished` | the same URLs, nothing on the topic, no failures | violation of `SquashedIsPublished` (finding) |

Bounds.  `Factor = 12` makes the limits 2 below a first segment and 1 below a
second, so that four documents squash a level, and a level above it, in either
order; `MaxSegments = 3` cuts one URL short.  Nothing in a service depends on
another, so one is enough but for the hash of squashers, which is not modelled.

Fairness.  The readers of the topics are never idle while there is something to
read (weak).  A flush job comes every period and takes the lock when it is free,
and a produce that is tried every period succeeds at last (strong).  None for
documents and crashes.

*Disagreement with the documentation.*  `url_unpublished`: `tm_metric.c:494`
publishes a regex only for a service that has a table of regexes, and only a
published regex makes a table (`tm_process_regex.c:64-68`).  So nothing is ever
published unless some regex of the service is on the topic from elsewhere, which
is what `Seeds` is for and why `RegexesAreLearned` has `known # {}`.

No run checks two comments of `tm_url_squasher.h`.  "The tree is unchanged" when
a path arrives again (37): a merge may leave a level over its limit, and the next
path through it, an old one too, squashes it.  Regexes match "all paths that had
any component squashed" (55-56): a path that ends at a replaced segment where
others go on has none, because only leaves give regexes.

### Proofs (`UrlSquasherProofs.tla`)

From `SquasherAssumption` alone, for any sets of URLs, any factor and any number
of flush jobs:

- `TypeCorrect`.
- `PlacesKept`, with the strengthening `ComesToUrl` (the node `add_path` has come
  to stands for its URL).  A step of `add_path` moves every node by one function
  (`Moved`), which keeps its length and what it stands for; `SegmentAdded` says
  so once and the rest follows.
- `Wildcards`, with `TreeInv`: every node stands for some published URL
  (`NodesHaveUrls`), and a squashed level had too many variants
  (`SquashedEarned`).  The heart is `TooManyVariants`: when a level is over its
  limit, either one of the children is a "{...}" that was earned before, or the
  segments of the children are an injection into the variants.  Variants only
  become more, when URLs are published (`VariantsStay`) and when a segment before
  them is replaced (`VariantsGrow`), so what was earned stays earned on its way
  through the flush job, the topic and the table (`RegexesPassedOn`).

`RegexesAreLearned` is only model-checked.

## 7. Documents and what is made of them

`TransactionMetrics` (`process_transaction_message`), `SpanMetrics`
(`process_span_message`, `process_error_message`), `ReadingMetrics`
(`process_metric_message`) and `OtelMetrics` (`otel_process_jaeger_span`) are
pure: an outcome is the handler's early return or "handled", the sequence of its
calls of `update_*`, and its calls of the transaction store.  `Documents` has
what they share.

| Model | Code |
|---|---|
| a document `d` | a record of the fields the handlers branch on: version, team, the object that `d.lacks`, type (of spans: `d.parts`, the parts of "db.mysql.query"), status code, sampled, user agent, and for telemetry the layout, the readings that are `present` and, of nested ones, the objects that are empty (`hollow`, by a reading that would be in it) |
| `Call`, `KeyOf` | one call of `update_*`, and the key that `make_metric_key` makes of it: metric, name, and whether it is of the service, by host or by agent |
| `Malformed`, `Misshapen`, `Unwanted` | the early returns, in the order they are taken |
| `Gate`, `TransactionStoreCalls` | what a lagging reader does not put |
| `FlatSystem`, `NestedSystem`, ... | the two copies of the code for telemetry: keys with dots of version 7.15, nested objects of all others |
| `ReadWith`, `Reached` | what the second copy reads of `heap`, `non_heap` and `memory` once the object is there: all members, as zero where they are missing |

Amounts, names and tags are data.  Whether a request is slow or untraced, a path
is acceptable, and a document has an agent are flags.

The properties about them are invariants of `MetricPipeline`, over the documents
that have been taken:

- `TotalsAgree`: beside each sample of a total latency stands one count, and at
  most one error;
- `NoMetricTwice`: no metric gets two updates of one document.  Both hold of
  documents with names of their own (`OwnName`): a name or subtype "all" is the
  key of the total, and a name that is also the subtype is counted as both;
- `FlatWithinNested`: a flat document of 7.15 makes exactly those updates that
  the nested document with the same readings makes of these readings, and what
  else the nested one makes is of readings next to one that is there (`ReadWith`).
  The two are not equal, see the list below;
- `HostMetricsOnlyIfAsked`: metrics by host are kept for teams with
  `collect_host_level_metrics` (of telemetry: with the setting for systems); the
  only exception is the count by subtype and operation of database spans
  (`KeptForAll`, in the list below), and the same metric by host under any other
  name is not excepted.

Where the code and its comments part, without a run of their own:

- The two copies in `process_metric_message` differ where an object has only some
  of its members.  The one for nested documents looks for `heap`, `non_heap` and
  `memory` and updates all their members, as zero if they are missing
  (`tm_process_metric.c:525-540,637-720`); the one for dotted names updates what is
  there (`84-98,184-278`).  Of `heap.used` alone a flat document makes one
  update of the service and a nested one three, of which two are zeros that go
  into averages.  The comment at 60-76 speaks of a change of representation and
  promises nothing about this.
- `tm_process_elastic_span.c:243-245` updates `db - stmt_count` of a subtype and
  operation by host for every team.
- `tm_process_metric.c:57` takes the flat branch for versions that begin with
  7.15, while the comment below it says "after 7.15": the flat documents of 7.16
  and later are read as nested ones, which yields nothing (`FlatOnes(16)` has
  them).
- `tm_process_elastic_span.c:82` names "external.http.get" as a type of version
  6; the comparison at 269 does not take it for an external call.
- `update_numeric` adds to the number and not to the count
  (`tm_process.c:267`), so what an aggregator makes of such a value depends on
  how many updates each flush happened to find.
- The paths of `path_allowlist` are read from the configuration (`main.c:608`)
  and not used by the filter of paths (`is_path_ok`, `tm_utils.c:51-121`).
- An OTLP span without a kind or without the tags of HTTP has no defined
  outcome in the code (a null pointer is read); the instance has only spans
  with a kind.

### Proofs (`DocumentMetricsProofs.tla`)

`HostMetricsAskedFor`, `NoneTwice`, `TotalsAlwaysAgree` and
`FlatOnesWithinNested` hold of documents with any fields, not only of those of
the instance.  They assume `DocumentsAssumption` (a document has the fields that
the branches for telemetry look at, and a flat one, whose keys are dotted names,
has no objects and so no empty ones) and `NamesAssumption` (the parts of a type are a list, the
code of an answer is a number, and "subtype - name", which is longer than either
and has a dash in it, is neither of them nor "all").

The first is a property of every update of a list (`OnlyFor`), shown along the
way lists are put together: concatenation, `When`, and `FlattenSeq` for the groups of
readings.  The last is a recursive function over the length of the list.  That
such a function exists, and that all it returns is in the lists it was given, is
shown by induction over numbers; the library's induction theorems cannot be used
(they take an operator), so it is drawn from the fact that `<` is well-founded on
the numbers: the set of those for which a claim fails has no least element
(`LeastNumber`, `EveryNumber`, `FlatteningExists`, `OnlyForFlat`).

`NoneTwice` is about pairs of updates: a list is `Distinct` if no two of its
updates have the same key, and `Apart` from another if they have no key in
common; a concatenation of lists that are distinct and apart is distinct
(`DistinctConcat`).  Each branch of the handlers is put together that way, and
two updates are told apart by one field of the key (`KeysDiffer`): the metric,
the name, host or service, or the tags, as in the totals of requests, which are
kept by method and once more by user agent.  For a query there are four names
(its own, its subtype, both, the total), which are where `OwnName` is needed.
Client errors and server errors, which share the total of errors, are apart
because no code is in both ranges (`ErrorMetrics`).  Groups of readings are kept
apart by their sets of metrics (`DistinctIn`, `GroupsApart`).

`TotalsAlwaysAgree` rests on it: as every update is alone with its key, as many
counts as latencies means that there is one, of one of the kinds that belong to
the latency (`Totalled`), and at most one error.

For `FlatOnesWithinNested` the document is compared with the nested one of the same
readings (`Nested`).  What that one has is the same, and what is read of it is
`ReadOf` the readings that are there (`NestedIs`).  A list of updates is
`Selected` from another if it has those about a given set of readings and the other
none outside a larger set; this holds of single readings (`SelectedReading`) and is
kept by concatenation and `FlattenSeq` (`SelectedConcat`, `SelectedFlat`), hence
holds of each group (`SystemSelected`, `JvmSelected`, ...) and of the outcome
(`UpdatesSelected`).  The readings of Go are excluded, as the flat branch does not
know them.  A corollary, `WholeOnesAgree`, names the case in which the two copies
do agree: a document of which no object lacks a member.

## 8. Pipeline (`KafkaReader.tla`, `MetricPipeline.tla`)

`KafkaReader` is one partition of a topic and the loop that reads it:
`ConsumeSome`, `ConsumeNone` and `Take` are `tm_kafka_consume_messages`,
`MeasureLag` the end of `kafka_read`.  `handed` is the offset the library stores
as it hands a message over (`enable.auto.offset.store`), `committed` what its
timer has committed; `Restart` reads on from there.  `offset` and `lag` are
`stats->kafka_offset` and `stats->kafka_lag`: the first is set only by messages
that are JSON, and the second only while the first is behind the watermark.

`MetricPipeline` has two readers: of documents by one instance and of
`tracemate_aggregates` by the instance that owns them.  Between them are two
tables, the producer's buffer and the topic.  Both are the same program; the
second part of the first instance is the second instance.  The tables are those of
`MetricTable` at a coarser grain: a table holds, by class of metrics (reported at
once, totals, all others), how often the updates of each document are in it, and
a class is flushed in one step.  What is lost between the steps of a flush, and
what flush jobs do that run at once on one metric, is the subject of section 5
and outside of what is said here; what is lost between instances is the subject
here.

`Refuse` is a delivery report with an error, which `msg_delivered` only logs.
`CrashReader` and `CrashOwner` empty what is in memory.  `excused` collects what
was committed and in memory at a crash, or refused; `redelivered` what is read
again.

| Run | Instance | What it shows |
|---|---|---|
| `pipeline` | some 300 documents one by one; messages of which three come in a row, which are not understood, which a hook aborts, replaces or doubles, with refusals; one or two crashes of either instance; `MaxBatch = 2`, `LagLimit = 2` | `TypeOK`, `NothingLostUnlessExcused`, `CountedOnce`, `MarkedRootsKept`, the four properties of section 7, `SheddingEnds`, `EveryDocumentCounted` |
| `pipeline_crash` | one document, one crash | violation of `AggregatesSurviveCrash` (finding): the offset is committed while the updates are in memory |

Bounds.  Documents are handled independently but for the lag, so all kinds come
alone, and the rows are for the reader: two messages and a third behind them
are two batches, with a lag of two at the slow request, the only document whose
handling depends on it.  Two documents in one aggregate and one crash separate
what is committed, in the table, in the buffer and in the topic; two crashes let
both instances fail, or one fail twice.  The limits of the code, 5000 and 50000,
are far apart; with both at two a reader can lag after a full batch, as it can
there after ten.

Fairness.  The loops re-arm themselves and flush jobs are triggered every period
(weak); the library delivers what is in its buffer or reports that it could not
(weak, of either).  A batch may be empty again and again while something is
there, but not for ever (strong, of `Fetch1` and `Fetch2`).  None for documents,
commits and crashes.

`SheddingEnds` has a premise: the last message must be one that moves the
offset.  Behind others the lag stays what it was.

### Proofs (`MetricPipelineProofs.tla`)

The assumptions are `SettingsAssumption`, `MessagesAssumption`,
`ScenarioAssumption` and `PipelineAssumption`: the settings are about
configured teams, messages and what arrives of them are sequences, and batches and
limits are numbers.  The theorems hold for any messages in any order, any number
of crashes of either instance, with and without refusals.

- `TypeCorrect`, with `TypeInv`: besides the types, `Batches` places the position
  of each reader within what was handed over.  `OutcomesAre` and
  `ToSetOfConcat` are what it needs of the handlers: that their store calls are
  of three kinds.
- `NothingLost`, with `LostInv`.  The property alone is not inductive: at
  `CrashOwner` what `table2` holds must be found again in the topic, so `Sources` says
  that it came from a message behind the reader, and `KeptSomewhere` is the property
  with the places spelled out (`Somewhere`).
- `NothingCountedTwice`, with `OnceInv`: for each class and document that is not
  read again there is one kind of place and one position in it that has the count
  1 while all others have 0, or it is nowhere (`OnlyAt`, `Nowhere`); what is yet to
  be read is nowhere.  Each step moves that place: a flush from the table to the end of
  the buffer, a delivery to the end of the topic, and so on.
- `MarkedRoots`: inductive as it stands, from what `TransactionOutcome` puts
  together (`TransactionCalls`).

What each step does to the counts is stated once (`TakenIs`, `FlushIs`,
`DeliverIs`, `TailIs`, `TakeAggregateIs`, `ReportIs`), so that the invariants are
kept without opening an action again.  `AggregatesSurviveCrash` is refuted by
`pipeline_crash`: `excused` is where what it loses goes.

## 9. Not modelled

- *Jaeger encoder* (`tm_jaeger.cpp`): pure encoding and a send whose result its
  caller ignores.
- *Visuals and web*, *configuration*, *hooks*: start-up code and HTTP requests
  made from the settings.  `service_info_t`, which the handlers fill in and only
  the visuals read, is left out with them.  The hook that may replace a document
  is in `MetricPipeline`.
- `otel_process_otel_span`: nothing calls it.
- *Hashes*: the bits of the bloom filters and `xxhash.c`; a filter is the set of
  its keys, with false positives.
- *Kafka client*: a producer's queue that is full (`QUEUE_FULL`, tried again in a
  loop), reads with a configured delay, partitions that move between instances.
  Before the first commit a group is taken to start at the beginning of the
  topic; what the library does by default is not set in the code.
- *Handlers*: an error document whose `trace` has no `id`, of which
  `process_error_message` takes the length of a null pointer
  (`tm_process_error.c:69-72`), and with it the crash of the process; documents in the
  instances have one.
- *Metric table*: texts, values that replace the last one (and the lifetime of an
  entry that `mtev_hash_replace` frees), rollups derived from a histogram.
- *Transaction store*: the lifetime of the JSON of a trace under export.
- Crashes of the machine (LMDB runs without sync), corrupt files, memory
  exhaustion.

Model-checked and not proved: all liveness (`SheddingEnds`,
`EveryDocumentCounted` and the temporal properties of the other sections), which
rests on fairness and is out of the prover's reach.
