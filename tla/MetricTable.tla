----------------------------- MODULE MetricTable ----------------------------
(***************************************************************************)
(* The in-memory metrics of one team: the update_* functions of            *)
(* src/src/tm_process.c and their twins for inbound aggregates in          *)
(* src/src/tm_process_aggregate.c, which run in the reader threads, and    *)
(* tm_flush_team_metrics of src/src/tm_metric.c, which runs in up to four  *)
(* jobs of the flush queue.                                                *)
(*                                                                         *)
(* Entries are found in a concurrent hash without a lock, created and      *)
(* deleted under the team's mutex, and updated and flushed with neither.   *)
(* The value of a metric is the set of updates that it has added up; a     *)
(* pointer to an entry is its key and the number of its incarnation.       *)
(***************************************************************************)
EXTENDS Integers, Sequences

CONSTANTS
  Workloads,     \* sets of calls of update_*: records with a field "key"
  Histograms,    \* the names of the metrics that are histograms
  Averages,      \* the names of the metrics that are a number and a count
  Nobody,        \* what a message without a count counts for
  Handlers,      \* reader threads of the Elastic APM topics
  Aggregator,    \* the reader thread of the tracemate_aggregates topic
  Flushers,      \* flush jobs
  FlushEvery,    \* the period of metric_trigger_flush, in ticks
  QuietAfter,    \* 10 seconds, in ticks
  DestroyAfter,  \* 10 minutes, in ticks
  MayFail,       \* whether a produce or a journal write may fail
  MaxTime        \* bound on the clock

\* metric_key_t: the flags and the timestamp are part of the hash key.
IsKey(k) ==
  /\ {"name", "ts", "aggregate", "immediate"} = DOMAIN k
  /\ k.ts \in Nat /\ k.aggregate \in BOOLEAN /\ k.immediate \in BOOLEAN

\* The calls that may be made.
Updates == UNION Workloads

ASSUME TableAssumption ==
  /\ Updates # {}
  /\ \A u \in Updates : IsKey(u.key)
  /\ Histograms \cap Averages = {}
  /\ Nobody \notin Updates
  /\ Aggregator \notin Handlers
  /\ FlushEvery \in Nat \ {0}
  /\ QuietAfter \in Nat /\ DestroyAfter \in Nat /\ MaxTime \in Nat
  /\ MayFail \in BOOLEAN

Threads == Handlers \cup {Aggregator}

\* The key under which process_aggregate_message adds up the messages that
\* were flushed from key k.
TotalKey(k) == [k EXCEPT !.aggregate = FALSE, !.immediate = FALSE]

Keys == {u.key : u \in Updates} \cup {TotalKey(u.key) : u \in Updates}

VARIABLES
  now,         \* mtev_now_ms()
  inbox,       \* updates whose document was not read yet
  table,       \* table[k]: the entry of key k in td->hash, or NoEntry
  born,        \* number of entries created so far
  th,          \* th[t]: the update thread t is performing
  fl,          \* fl[f]: the flush job f is performing
  started,     \* number of flushes begun so far
  topic,       \* the tracemate_aggregates topic
  taken,       \* how much of it the aggregator has read
  reports,     \* what was written to the journal (history)
  done,        \* done[k]: updates added to an entry of key k (history)
  excused,     \* excused[k]: the ones that overlapped a flush of it (history)
  overlapped   \* keys at which two flush jobs have been at once (history)

vars == <<now, inbox, table, born, th, fl, started, topic, taken, reports, done,
          excused, overlapped>>

\* What a count may have counted: updates, and messages with no count at all.
Counts == SUBSET (Updates \cup {Nobody})

\* metric_value_t: its value, the count of an average, last_seen, flushed_ms.
Entry   == [gen : Nat \ {0}, sum : SUBSET Updates, cnt : Counts, seen : Nat \ {0},
            flushed : Nat]
NoEntry == [gen |-> 0, sum |-> {}, cnt |-> {}, seen |-> 0, flushed |-> 0]
Present(k) == table[k] # NoEntry

\* An update: the key, what it adds, and the entry it found.
ThreadPhases == {"idle", "find", "lock", "seen", "add", "count"}
Thread == [pc : ThreadPhases, key : Keys, sum : SUBSET Updates, cnt : Counts,
           gen : Nat, locked : BOOLEAN]

\* A flush job: when it began, the keys its iterator has yet to reach; the
\* aggregate it is at and what it read of it; the entries in the JSON under
\* construction; and the keys it is going to delete.
FlushPhases == {"idle", "visit", "zero", "reset", "produce", "delete"}
Item  == [key : Keys, gen : Nat, sum : SUBSET Updates, cnt : Counts]
Flush == [pc : FlushPhases, start : Nat, todo : SUBSET Keys, at : Item,
          batch : SUBSET Item, doomed : SUBSET Keys]

NoKey  == CHOOSE k \in Keys : TRUE
NoItem == [key |-> NoKey, gen |-> 0, sum |-> {}, cnt |-> {}]
IdleThread == [pc |-> "idle", key |-> NoKey, sum |-> {}, cnt |-> {}, gen |-> 0,
               locked |-> FALSE]
IdleFlush  == [pc |-> "idle", start |-> 0, todo |-> {}, at |-> NoItem, batch |-> {},
               doomed |-> {}]

\* td->mutex
MutexFree == \A t \in Threads : ~th[t].locked

Init ==
  /\ now = 1
  /\ inbox \in Workloads
  /\ table = [k \in Keys |-> NoEntry]
  /\ born = 0
  /\ th = [t \in Threads |-> IdleThread]
  /\ fl = [f \in Flushers |-> IdleFlush]
  /\ started = 0
  /\ topic = <<>>
  /\ taken = 0
  /\ reports = {}
  /\ done = [k \in Keys |-> {}]
  /\ excused = [k \in Keys |-> {}]
  /\ overlapped = {}

\* Flush job f has read, or is about to delete, the entry of key k.
AtKey(f, k) ==
  \/ fl[f].pc \in {"zero", "reset", "produce"} /\ fl[f].at.key = k
  \/ \E i \in fl[f].batch : i.key = k
  \/ k \in fl[f].doomed

(***************************************************************************)
(* Updates.                                                                *)
(***************************************************************************)

Goto(t, pc) == th' = [th EXCEPT ![t].pc = pc]

\* A step of an update of thread t while a flush job is at its metric.
NoteOverlap(t) ==
  excused' = IF \E f \in Flushers : AtKey(f, th[t].key)
             THEN [excused EXCEPT ![th[t].key] = @ \cup th[t].sum]
             ELSE excused

\* The update is complete.
Done(t) ==
  /\ th' = [th EXCEPT ![t] = IdleThread]
  /\ done' = [done EXCEPT ![th[t].key] = @ \cup th[t].sum]

IsAverage(k) == k.name \in Averages

\* A handler calls update_*.
Call(t) ==
  /\ t \in Handlers
  /\ th[t].pc = "idle"
  /\ \E u \in inbox :
       /\ inbox' = inbox \ {u}
       /\ th' = [th EXCEPT ![t] = [IdleThread EXCEPT !.pc = "find", !.key = u.key,
                               !.sum = {u}, !.cnt = IF IsAverage(u.key) THEN {u} ELSE {}]]
  /\ UNCHANGED <<now, table, born, fl, started, topic, taken, reports, done,
                 excused, overlapped>>

CountedMutant(m) ==  \* a message counts for one
  IF IsAverage(m.key) THEN {Nobody} ELSE m.cnt

\* What the count of message m counts for: a count of zero is taken for one.
Counted(m) == IF IsAverage(m.key) /\ m.cnt = {} THEN {Nobody} ELSE m.cnt

\* The aggregator reads the next message.
CallAggregate ==
  /\ th[Aggregator].pc = "idle"
  /\ taken < Len(topic)
  /\ taken' = taken + 1
  /\ th' = [th EXCEPT ![Aggregator] = [IdleThread EXCEPT
              !.pc = "find", !.key = TotalKey(topic[taken + 1].key),
              !.sum = topic[taken + 1].sum, !.cnt = Counted(topic[taken + 1])]]
  /\ UNCHANGED <<now, inbox, table, born, fl, started, topic, reports, done,
                 excused, overlapped>>

\* The entry is looked up without the lock.
Find(t) ==
  /\ th[t].pc = "find"
  /\ IF Present(th[t].key)
     THEN th' = [th EXCEPT ![t].pc = "seen", ![t].gen = table[th[t].key].gen]
     ELSE Goto(t, "lock")
  /\ NoteOverlap(t)
  /\ UNCHANGED <<now, inbox, table, born, fl, started, topic, taken, reports,
                 done, overlapped>>

NewEntryMutant(t) ==  \* last_seen is not set
  [gen |-> born + 1, sum |-> th[t].sum, cnt |-> th[t].cnt, seen |-> 0, flushed |-> 0]
NewEntry(t) ==
  [gen |-> born + 1, sum |-> th[t].sum, cnt |-> th[t].cnt, seen |-> now, flushed |-> 0]

FoundAtLastMutant(t) == FALSE  \* the entry is not looked for again
FoundAtLast(t)       == Present(th[t].key)

\* A flush job that is iterating may reach the entry that is created, or not.
Iterators(k) ==
  \E reach \in SUBSET {f \in Flushers : fl[f].pc \in {"visit", "zero", "reset", "produce"}} :
    fl' = [f \in Flushers |->
             [fl[f] EXCEPT !.todo = IF f \in reach THEN @ \cup {k} ELSE @ \ {k}]]

\* Not found: with the lock it is looked up again, and created if it is
\* still not there.  If it is, the lock is held to the end of the update.
LockAndCreate(t) ==
  /\ th[t].pc = "lock"
  /\ MutexFree
  /\ IF FoundAtLast(t)
     THEN /\ th' = [th EXCEPT ![t].pc = "seen", ![t].gen = table[th[t].key].gen,
                              ![t].locked = TRUE]
          /\ UNCHANGED <<table, born, done, fl>>
     ELSE /\ table' = [table EXCEPT ![th[t].key] = NewEntry(t)]
          /\ born' = born + 1
          /\ Done(t)
          /\ Iterators(th[t].key)
  /\ NoteOverlap(t)
  /\ UNCHANGED <<now, inbox, started, topic, taken, reports, overlapped>>

\* Thread t holds a pointer to the entry that is in the table.
Live(t) == table[th[t].key].gen = th[t].gen

\* The aggregator merges a histogram under its spinlock, last_seen included.
HoldsSpinlock(t) == t = Aggregator /\ th[t].key.name \in Histograms

\* An update in the millisecond in which the entry was flushed does not make
\* it newer than flushed_ms.
NoteTie(t) ==
  IF table[th[t].key].flushed = now
  THEN excused' = [excused EXCEPT ![th[t].key] = @ \cup th[t].sum]
  ELSE NoteOverlap(t)

\* last_seen is stored, ...
StoreSeen(t) ==
  /\ th[t].pc = "seen"
  /\ ~HoldsSpinlock(t)
  /\ table' = IF Live(t) THEN [table EXCEPT ![th[t].key].seen = now] ELSE table
  /\ Goto(t, "add")
  /\ NoteTie(t)
  /\ UNCHANGED <<now, inbox, born, fl, started, topic, taken, reports, done,
                 overlapped>>

\* ... then the value is added ...
AddValue(t) ==
  /\ th[t].pc = "add"
  /\ table' = IF Live(t) THEN [table EXCEPT ![th[t].key].sum = @ \cup th[t].sum] ELSE table
  /\ IF IsAverage(th[t].key)
     THEN Goto(t, "count") /\ UNCHANGED done
     ELSE Done(t)
  /\ NoteOverlap(t)
  /\ UNCHANGED <<now, inbox, born, fl, started, topic, taken, reports, overlapped>>

\* ... and, to an average, the count.
AddCount(t) ==
  /\ th[t].pc = "count"
  /\ table' = IF Live(t) THEN [table EXCEPT ![th[t].key].cnt = @ \cup th[t].cnt] ELSE table
  /\ Done(t)
  /\ NoteOverlap(t)
  /\ UNCHANGED <<now, inbox, born, fl, started, topic, taken, reports, overlapped>>

MergeHistogram(t) ==
  /\ th[t].pc = "seen"
  /\ HoldsSpinlock(t)
  /\ table' = IF Live(t)
              THEN [table EXCEPT ![th[t].key].seen = now,
                                 ![th[t].key].sum = @ \cup th[t].sum]
              ELSE table
  /\ Done(t)
  /\ NoteTie(t)
  /\ UNCHANGED <<now, inbox, born, fl, started, topic, taken, reports, overlapped>>

(***************************************************************************)
(* The flush.                                                              *)
(***************************************************************************)

\* A job is queued every period and begins when a thread of the queue is free:
\* tm_flush_team_metrics reads the clock and begins to iterate.
FlushBegin(f) ==
  /\ fl[f].pc = "idle"
  /\ started < now \div FlushEvery
  /\ started' = started + 1
  /\ fl' = [fl EXCEPT ![f] = [IdleFlush EXCEPT
              !.pc = "visit", !.start = now, !.todo = {k \in Keys : Present(k)}]]
  /\ UNCHANGED <<now, inbox, table, born, th, topic, taken, reports, done, excused,
                 overlapped>>

\* The conditions on an entry, with the clock as it was at the beginning.
Flushed(e) == e.flushed > 0 /\ e.flushed >= e.seen
Quiet(f, e) == fl[f].start - e.seen > QuietAfter
Expired(f, e) == Flushed(e) /\ fl[f].start - e.seen > DestroyAfter

IsDue(f, k, e) ==
  IF k.aggregate
  THEN Quiet(f, e)
  ELSE k.immediate \/ (fl[f].start > k.ts /\ Quiet(f, e))

\* Job f gets to the entry of key k: updates in progress on it overlap with
\* the flush.
Reaches(f, k) ==
  /\ excused' = [excused EXCEPT ![k] = @ \cup
       UNION {th[t].sum : t \in {s \in Threads : th[s].key = k /\ th[s].pc \in {"seen", "add", "count"}}}]
  /\ overlapped' = IF \E g \in Flushers \ {f} : AtKey(g, k)
                   THEN overlapped \cup {k} ELSE overlapped

\* The next entry is to be deleted, ...
VisitExpired(f, k) ==
  /\ Expired(f, table[k])
  /\ fl' = [fl EXCEPT ![f].todo = @ \ {k}, ![f].doomed = @ \cup {k}]
  /\ Reaches(f, k)
  /\ UNCHANGED table

\* ... or there is nothing to do with it, ...
VisitIdly(f, k) ==
  /\ ~Expired(f, table[k])
  /\ Flushed(table[k]) \/ ~IsDue(f, k, table[k])
  /\ fl' = [fl EXCEPT ![f].todo = @ \ {k}]
  /\ UNCHANGED <<table, excused, overlapped>>

\* The count is read before the number, which updates add to in the opposite
\* order: reading both at once misses nothing.
ItemOf(k) == [key |-> k, gen |-> table[k].gen, sum |-> table[k].sum, cnt |-> table[k].cnt]

VisitReportMutant(f, k) ==  \* the value is reset, as it is for aggregates
  /\ ~Flushed(table[k]) /\ IsDue(f, k, table[k]) /\ ~k.aggregate
  /\ fl' = [fl EXCEPT ![f].todo = @ \ {k}, ![f].batch = @ \cup {ItemOf(k)}]
  /\ table' = [table EXCEPT ![k].sum = {}]
  /\ Reaches(f, k)

\* ... or its value goes to the JSON and stays in the entry, ...
VisitReport(f, k) ==
  /\ ~Flushed(table[k]) /\ IsDue(f, k, table[k]) /\ ~k.aggregate
  /\ fl' = [fl EXCEPT ![f].todo = @ \ {k}, ![f].batch = @ \cup {ItemOf(k)}]
  /\ Reaches(f, k)
  /\ UNCHANGED table

\* ... or its value is read to be produced, and set to zero.  A histogram is
\* read and cleared under its spinlock; a number is read and then stored.
VisitAggregate(f, k) ==
  /\ ~Flushed(table[k]) /\ IsDue(f, k, table[k]) /\ k.aggregate
  /\ fl' = [fl EXCEPT ![f].todo = @ \ {k}, ![f].at = ItemOf(k),
                      ![f].pc = IF k.name \in Histograms THEN "reset" ELSE "zero"]
  /\ table' = IF k.name \in Histograms THEN [table EXCEPT ![k].sum = {}] ELSE table
  /\ Reaches(f, k)

FlushVisit(f) ==
  /\ fl[f].pc = "visit"
  /\ \E k \in fl[f].todo :
       /\ Present(k)
       /\ VisitExpired(f, k) \/ VisitIdly(f, k) \/ VisitReport(f, k) \/ VisitAggregate(f, k)
  /\ UNCHANGED <<now, inbox, born, th, started, topic, taken, reports, done>>

AtLiveMutant(f) == FALSE  \* the job works on a copy of the entry

\* The entry job f is at is still the one in the table.
AtLive(f)       == table[fl[f].at.key].gen = fl[f].at.gen
Zeroed(f) ==
  IF AtLive(f) THEN [table EXCEPT ![fl[f].at.key].sum = {}, ![fl[f].at.key].cnt = {}]
  ELSE table

FlushZero(f) ==
  /\ fl[f].pc = "zero"
  /\ table' = Zeroed(f)
  /\ fl' = [fl EXCEPT ![f].pc = "reset"]
  /\ UNCHANGED <<now, inbox, born, th, started, topic, taken, reports, done,
                 excused, overlapped>>

\* reset_value: the value and the count once more, and flushed_ms.
ResetValue(f) ==
  IF AtLive(f) THEN [table EXCEPT ![fl[f].at.key].sum = {}, ![fl[f].at.key].cnt = {},
                                  ![fl[f].at.key].flushed = 0] ELSE table

FlushReset(f) ==
  /\ fl[f].pc = "reset"
  /\ table' = ResetValue(f)
  /\ fl' = [fl EXCEPT ![f].pc = "produce"]
  /\ UNCHANGED <<now, inbox, born, th, started, topic, taken, reports, done,
                 excused, overlapped>>

\* The message is produced, and flushed_ms is the beginning of the flush; or
\* the produce fails, and the value is gone.
FlushProduce(f) ==
  /\ fl[f].pc = "produce"
  /\ \/ /\ topic' = Append(topic, [key |-> fl[f].at.key, sum |-> fl[f].at.sum,
                                  cnt |-> fl[f].at.cnt])
        /\ table' = IF AtLive(f)
                    THEN [table EXCEPT ![fl[f].at.key].flushed = fl[f].start] ELSE table
        /\ UNCHANGED excused
     \/ /\ MayFail
        /\ excused' = [excused EXCEPT ![fl[f].at.key] = @ \cup fl[f].at.sum]
        /\ UNCHANGED <<topic, table>>
  /\ fl' = [fl EXCEPT ![f].pc = "visit", ![f].at = NoItem]
  /\ UNCHANGED <<now, inbox, born, th, started, taken, reports, done, overlapped>>

\* Nothing is left to visit but keys that have no entry.
Visited(f) == \A k \in fl[f].todo : ~Present(k)

\* The entries of the JSON that was written are stamped with the clock.
Stamped(f) ==
  [k \in Keys |-> IF \E i \in fl[f].batch : i.key = k /\ i.gen = table[k].gen
                  THEN [table[k] EXCEPT !.flushed = now] ELSE table[k]]

\* journal_output_metrics, at the end of the iteration or when the JSON has
\* grown beyond two megabytes.  After a failure the rest is not visited.
FlushJournal(f) ==
  /\ fl[f].pc = "visit"
  /\ fl[f].batch # {} \/ Visited(f)
  /\ \/ /\ reports' = reports \cup fl[f].batch
        /\ table' = Stamped(f)
        /\ fl' = [fl EXCEPT ![f].batch = {},
                            ![f].pc = IF Visited(f) THEN "delete" ELSE "visit"]
     \/ /\ MayFail
        /\ fl' = [fl EXCEPT ![f].batch = {}, ![f].todo = {}, ![f].pc = "delete"]
        /\ UNCHANGED <<reports, table>>
  /\ UNCHANGED <<now, inbox, born, th, started, topic, taken, done, excused,
                 overlapped>>

\* The expired keys are deleted one by one under the mutex, whatever became
\* of their entries since.
FlushDelete(f) ==
  /\ fl[f].pc = "delete"
  /\ \/ /\ MutexFree
        /\ \E k \in fl[f].doomed :
             /\ table' = [table EXCEPT ![k] = NoEntry]
             /\ fl' = [fl EXCEPT ![f].doomed = @ \ {k}]
     \/ /\ fl[f].doomed = {}
        /\ fl' = [fl EXCEPT ![f] = IdleFlush]
        /\ UNCHANGED table
  /\ UNCHANGED <<now, inbox, born, th, started, topic, taken, reports, done,
                 excused, overlapped>>

Tick ==  \* the clock stands still at the bound
  /\ now' = IF now < MaxTime THEN now + 1 ELSE now
  /\ UNCHANGED <<inbox, table, born, th, fl, started, topic, taken, reports,
                 done, excused,
                 overlapped>>

UpdateStep(t) ==
  \/ Find(t)
  \/ LockAndCreate(t)
  \/ StoreSeen(t)
  \/ AddValue(t)
  \/ AddCount(t)
  \/ MergeHistogram(t)

FlushStep(f) ==
  \/ FlushBegin(f)
  \/ FlushVisit(f)
  \/ FlushZero(f)
  \/ FlushReset(f)
  \/ FlushProduce(f)
  \/ FlushJournal(f)
  \/ FlushDelete(f)

Next ==
  \/ \E t \in Threads : Call(t) \/ UpdateStep(t)
  \/ CallAggregate
  \/ \E f \in Flushers : FlushStep(f)
  \/ Tick

Spec == Init /\ [][Next]_vars

(***************************************************************************)
(* Properties.                                                             *)
(***************************************************************************)

\* Types; at most one thread holds the mutex; entries have distinct numbers
\* and a job's iterator stays within the keys.
TypeOK ==
  /\ now \in Nat \ {0} /\ born \in Nat /\ started \in Nat
  /\ inbox \subseteq Updates
  /\ table \in [Keys -> Entry \cup {NoEntry}]
  /\ th \in [Threads -> Thread]
  /\ fl \in [Flushers -> Flush]
  /\ topic \in Seq([key : Keys, sum : SUBSET Updates, cnt : Counts])
  /\ taken \in 0 .. Len(topic)
  /\ reports \subseteq Item
  /\ done \in [Keys -> SUBSET Updates] /\ excused \in [Keys -> SUBSET Updates]
  /\ overlapped \subseteq Keys
  /\ \A t, u \in Threads : th[t].locked /\ th[u].locked => t = u
  /\ \A k \in Keys : table[k].gen <= born

\* Where an update of key k is still accounted for: in the entry (which, if
\* it is not an aggregate, will be flushed again), in a message or about to
\* be in one, or in a report.
InEntry(k, u) == u \in table[k].sum /\ (k.aggregate \/ ~Flushed(table[k]))
InMessage(k, u) ==
  \/ \E n \in 1 .. Len(topic) : topic[n].key = k /\ u \in topic[n].sum
  \/ \E f \in Flushers : fl[f].pc \in {"zero", "reset", "produce"} /\ fl[f].at.key = k
                          /\ u \in fl[f].at.sum
InReport(k, u) == \E i \in reports : i.key = k /\ u \in i.sum

\* An update is lost only if it overlaps with a flush of its own metric,
\* falls in the millisecond of the flush, or is in a message whose produce
\* fails: never by two threads that create the same entry, by a flush that
\* fails to write the journal, or by the destruction of the entry.
KeptUnlessExcused ==
  \A k \in Keys : \A u \in done[k] \ excused[k] :
     InEntry(k, u) \/ InMessage(k, u) \/ InReport(k, u)

\* No update is in two messages, so that aggregators add it up once, unless
\* two flush jobs were at the same metric at once.
SentOnce ==
  \A m, n \in 1 .. Len(topic) :
     (m # n /\ topic[m].key = topic[n].key /\ topic[m].key \notin overlapped)
       => topic[m].sum \cap topic[n].sum = {}

Origins(k) == {j \in Keys : j = k \/ TotalKey(j) = k}
Skewed(k) ==
  LET e == UNION {excused[j] : j \in Origins(k)}
  IN IF e = {} THEN {} ELSE e \cup {Nobody}
Amiss(i) == (i.sum \ i.cnt) \cup (i.cnt \ i.sum)

\* An average is the sum of the updates it counts, in messages and in reports,
\* unless two flush jobs were at it at once: only an update that overlaps with
\* a flush may be in its number and not in its count, or the other way round.
AveragesAgree ==
  \A i \in {topic[n] : n \in 1 .. Len(topic)} \cup reports :
     (IsAverage(i.key) /\ Origins(i.key) \cap overlapped = {})
       => Amiss(i) \subseteq Skewed(i.key)

\* "Straggler data might come in and make the numbers more accurate over
\* time": a later report of an entry contains what the earlier ones did,
\* unless two flush jobs were at it at once.
ReportsGrow ==
  [][\A i \in reports' \ reports : \A j \in reports :
        (j.key = i.key /\ j.gen = i.gen /\ i.key \notin overlapped) => j.sum \subseteq i.sum]_vars

\* The comment in tm_flush_team_metrics: stragglers are reflushed "with the
\* updated numbers but if nothing new came in for a while (10 minutes) we can
\* delete it".  Here: what is in an entry that is destroyed was reported.  An
\* update between the read of the value and the stamp of flushed_ms is older
\* than the stamp, and is never flushed.
DestroyedOnlyIfReported ==
  [][\A k \in Keys : (Present(k) /\ ~Present(k)' /\ ~k.aggregate)
        => \A u \in table[k].sum : InReport(k, u)]_vars
=============================================================================
