----------------------- MODULE MetricTableKeptProofs ------------------------
(***************************************************************************)
(* That no update is lost without an excuse, for any number of threads,    *)
(* flush jobs and calls: KeptUnlessExcused of MetricTable.                 *)
(*                                                                         *)
(* A flush job reads an entry and later zeroes, stamps or deletes it, and  *)
(* a thread adds to it in between, neither with a lock. The invariant      *)
(* therefore speaks of whoever is in the middle of something: what a       *)
(* thread that holds a pointer may still do, and what a job that has read  *)
(* an entry has yet to write.                                              *)
(***************************************************************************)
EXTENDS MetricTableProofs

(***************************************************************************)
(* The inductive invariant.                                                *)
(***************************************************************************)

\* Who holds a pointer to a metric that a flush job is at has been excused,
Overlaps == \A t \in Threads, f \in Flushers :
  Busy(t) /\ AtKey(f, th[t].key) => th[t].sum \subseteq excused[th[t].key]
\* and so has who holds a pointer to an entry that was deleted.
Stale == \A t \in Threads :
  Busy(t) /\ ~Live(t) => th[t].sum \subseteq excused[th[t].key]
\* Who is going to add, unexcused, has had last_seen stored after any stamp.
Fresh == \A t \in Threads :
  th[t].pc \in {"add", "count"} /\ ~(th[t].sum \subseteq excused[th[t].key]) =>
    ~Flushed(table[th[t].key])
\* Between the two steps of an average the number has been added.
Summed == \A t \in Threads :
  th[t].pc = "count" => th[t].sum \subseteq table[th[t].key].sum \cup excused[th[t].key]

\* Update u is where no flush can lose it.
Safe(k, u) == InMessage(k, u) \/ InReport(k, u)
\* The updates of key k that must not be lost.
Left(k) == done[k] \ excused[k]
\* An entry that a job is at, has read or is going to delete holds nothing but
\* what is already safe, or is in what the job has read of it.
Covered == \A f \in Flushers, k \in Keys :
  /\ (AtWork(f) /\ fl[f].at.key = k) \/ k \in fl[f].doomed => \A u \in Left(k) : Safe(k, u)
  /\ \A i \in fl[f].batch : i.key = k => \A u \in Left(k) : u \in i.sum \/ Safe(k, u)
\* Each update is in its entry, which will be flushed, or is safe.
Kept == \A k \in Keys : \A u \in Left(k) :
  (u \in table[k].sum /\ ~Flushed(table[k])) \/ Safe(k, u)

\* The inductive invariant.
KeptInv == Overlaps /\ Stale /\ Fresh /\ Summed /\ Covered /\ Kept

\* What a step of one thread leaves as it is.
LEMMA SameJobs ==
  ASSUME \A f \in Flushers : SameJob(f)
  PROVE  \A f \in Flushers, k \in Keys : AtKey(f, k)' <=> AtKey(f, k)
BY DEF SameJob, AtKey

\* Nor what is already in a message or a report.
LEMMA SameSafe ==
  ASSUME \A f \in Flushers : SameJob(f), UNCHANGED <<topic, reports>>
  PROVE  \A k \in Keys : \A u : Safe(k, u)' <=> Safe(k, u)
BY DEF SameJob, Safe, InMessage, InReport

\* What thread t has after the step, if it holds a pointer to an entry.
Carries(t) ==
  Busy(t)' =>
    /\ th'[t].key = th[t].key /\ th'[t].sum = th[t].sum
    /\ \/ th[t].sum \subseteq excused'[th[t].key]
       \/ /\ \A f \in Flushers : ~AtKey(f, th[t].key)
          /\ Live(t)'
          /\ th'[t].pc \in {"add", "count"} => ~Flushed(table'[th[t].key])
          /\ th'[t].pc = "count" => th[t].sum \subseteq table'[th[t].key].sum

\* What thread t has completed by the step.
Completes(t) ==
  \A k \in Keys :
    \/ done'[k] = done[k]
    \/ /\ k = th[t].key /\ done'[k] = done[k] \cup th[t].sum
       /\ \/ th[t].sum \subseteq excused'[k]
          \/ /\ \A f \in Flushers : ~AtKey(f, k)
             /\ th[t].sum \subseteq table'[k].sum \cup excused'[k] /\ ~Flushed(table'[k])

\* A step of an update keeps the invariant if the thread carries its update to an
\* entry no job is at, or the update is excused.
LEMMA UpdateKept ==
  ASSUME TypeInv, KeptInv, NEW t \in Threads, OtherThreads(t),
         \A f \in Flushers : SameJob(f), UNCHANGED <<topic, reports>>,
         \A k \in Keys : excused[k] \subseteq excused'[k],
         \A k \in Keys : table'[k].gen = table[k].gen \/ table[k].gen = 0,
         \A k \in Keys : table[k].sum \subseteq table'[k].sum,
         \A k \in Keys : Flushed(table'[k]) => Flushed(table[k]),
         Carries(t), Completes(t)
  PROVE  KeptInv'
<1>1. \A s \in Threads : th[s].key \in Keys /\ (Busy(s) => th[s].gen # 0)
  BY InvParts, FieldTypes, PointersNotNil DEF Parts
<1>2. \A s \in Threads : s # t => th'[s] = th[s]
  BY DEF OtherThreads
<1>3. Overlaps'
  <2> SUFFICES ASSUME NEW s \in Threads, NEW f \in Flushers, Busy(s)', AtKey(f, th[s].key)'
               PROVE  th'[s].sum \subseteq excused'[th'[s].key]
    BY DEF Overlaps
  <2>1. CASE s = t
    BY <1>1, <2>1, SameJobs DEF Carries
  <2>2. CASE s # t
    <3>1. th'[s] = th[s] /\ Busy(s)
      BY <1>2, <2>2 DEF Busy
    <3>2. AtKey(f, th[s].key)
      BY <1>1, <3>1, SameJobs
    <3> QED
      BY <1>1, <3>1, <3>2 DEF KeptInv, Overlaps
  <2> QED
    BY <2>1, <2>2
<1>4. Stale'
  <2> SUFFICES ASSUME NEW s \in Threads, Busy(s)', ~Live(s)'
               PROVE  th'[s].sum \subseteq excused'[th'[s].key]
    BY DEF Stale
  <2>1. CASE s = t
    BY <1>1, <2>1 DEF Carries
  <2>2. CASE s # t
    BY <1>1, <1>2, <2>2 DEF KeptInv, Stale, Busy, Live
  <2> QED
    BY <2>1, <2>2
<1>5. Fresh'
  <2> SUFFICES ASSUME NEW s \in Threads, th'[s].pc \in {"add", "count"},
                      ~(th'[s].sum \subseteq excused'[th'[s].key])
               PROVE  ~Flushed(table'[th'[s].key])
    BY DEF Fresh
  <2>1. CASE s = t
    BY <1>1, <2>1 DEF Carries, Busy
  <2>2. CASE s # t
    <3>1. th'[s] = th[s]
      BY <1>2, <2>2
    <3> QED
      BY <1>1, <3>1 DEF KeptInv, Fresh
  <2> QED
    BY <2>1, <2>2
<1>6. Summed'
  <2> SUFFICES ASSUME NEW s \in Threads, th'[s].pc = "count"
               PROVE  th'[s].sum \subseteq table'[th'[s].key].sum \cup excused'[th'[s].key]
    BY DEF Summed
  <2>1. CASE s = t
    BY <1>1, <2>1 DEF Carries, Busy
  <2>2. CASE s # t
    <3>1. th'[s] = th[s]
      BY <1>2, <2>2
    <3> QED
      BY <1>1, <3>1 DEF KeptInv, Summed
  <2> QED
    BY <2>1, <2>2
<1>7. ASSUME NEW f \in Flushers, NEW k \in Keys, AtKey(f, k)
      PROVE  Left(k)' \subseteq Left(k)
  BY <1>7 DEF Left, Completes
<1>8. Covered'
  <2> SUFFICES ASSUME NEW f \in Flushers, NEW k \in Keys, NEW u \in Left(k)'
               PROVE  /\ (AtWork(f)' /\ fl'[f].at.key = k) \/ k \in fl'[f].doomed => Safe(k, u)'
                      /\ \A i \in fl'[f].batch : i.key = k => u \in i.sum \/ Safe(k, u)'
    BY DEF Covered
  <2>1. CASE AtKey(f, k)
    <3>1. u \in Left(k)
      BY <1>7, <2>1
    <3>2. SameJob(f)
      OBVIOUS
    <3>3. Safe(k, u) => Safe(k, u)'
      BY SameSafe
    <3> QED
      BY <3>1, <3>2, <3>3 DEF KeptInv, Covered, SameJob, AtWork
  <2>2. CASE ~AtKey(f, k)
    BY <2>2 DEF SameJob, AtKey, AtWork
  <2> QED
    BY <2>1, <2>2
<1>9. Kept'
  <2> SUFFICES ASSUME NEW k \in Keys, NEW u \in Left(k)', ~Safe(k, u)'
               PROVE  u \in table'[k].sum /\ ~Flushed(table'[k])
    BY DEF Kept
  <2>1. CASE u \in Left(k)
    BY <2>1, SameSafe DEF KeptInv, Kept
  <2>2. CASE u \notin Left(k)
    BY <2>2 DEF Completes, Left
  <2> QED
    BY <2>1, <2>2
<1> QED
  BY <1>3, <1>4, <1>5, <1>6, <1>8, <1>9 DEF KeptInv

LEMMA SameJobsIfUnchanged ==
  ASSUME UNCHANGED fl
  PROVE  \A f \in Flushers : SameJob(f)
BY DEF SameJob

LEMMA CallKept ==
  ASSUME TypeInv, KeptInv, NEW t \in Threads, Call(t)
  PROVE  KeptInv'
<1>1. OtherThreads(t) /\ th'[t].pc = "find"
  BY InvParts, CallEffect DEF Parts, LogsOK
<1>2. UNCHANGED <<table, fl, topic, reports, done, excused>>
  BY DEF Call
<1>3. Carries(t) /\ Completes(t)
  BY <1>1, <1>2 DEF Carries, Completes, Busy
<1> QED
  BY <1>1, <1>2, <1>3, SameJobsIfUnchanged, UpdateKept

LEMMA CallAggregateKept ==
  ASSUME TypeInv, KeptInv, CallAggregate
  PROVE  KeptInv'
<1>1. OtherThreads(Aggregator) /\ th'[Aggregator].pc = "find" /\ Aggregator \in Threads
  BY InvParts, CallAggregateEffect DEF Parts, LogsOK, Threads
<1>2. UNCHANGED <<table, fl, topic, reports, done, excused>>
  BY DEF CallAggregate
<1>3. Carries(Aggregator) /\ Completes(Aggregator)
  BY <1>1, <1>2 DEF Carries, Completes, Busy
<1> QED
  BY <1>1, <1>2, <1>3, SameJobsIfUnchanged, UpdateKept

LEMMA FindKept ==
  ASSUME TypeInv, KeptInv, NEW t \in Threads, Find(t)
  PROVE  KeptInv'
<1>1. /\ OtherThreads(t) /\ NotesOverlap(t)
      /\ \/ Present(th[t].key) /\ Moves(t, "seen", table[th[t].key].gen, th[t].locked)
         \/ ~Present(th[t].key) /\ Moves(t, "lock", th[t].gen, th[t].locked)
  BY InvParts, FindEffect DEF Parts
<1>2. UNCHANGED <<table, fl, topic, reports, done>>
  BY DEF Find
<1>3. Carries(t) /\ Completes(t)
  BY <1>1, <1>2 DEF Carries, Completes, Busy, Moves, NotesOverlap, Live
<1> QED
  BY <1>1, <1>2, <1>3, SameJobsIfUnchanged, UpdateKept DEF NotesOverlap

LEMMA LockKept ==
  ASSUME TypeInv, KeptInv, NEW t \in Threads, LockAndCreate(t)
  PROVE  KeptInv'
<1>0. Parts /\ th[t].key \in Keys
  BY InvParts, FieldTypes DEF Parts
<1>1. /\ OtherThreads(t) /\ NotesOverlap(t)
      /\ \/ /\ Present(th[t].key) /\ Moves(t, "seen", table[th[t].key].gen, TRUE)
            /\ UNCHANGED <<table, born, done, fl>>
         \/ /\ ~Present(th[t].key) /\ th'[t] = IdleThread
            /\ OtherKeys(th[t].key) /\ table'[th[t].key] = NewEntry(t)
            /\ \A j \in Keys : done'[j] = IF j = th[t].key THEN done[j] \cup th[t].sum ELSE done[j]
            /\ \A f \in Flushers : SameJob(f)
  BY <1>0, LockEffect DEF Parts
<1>2. UNCHANGED <<topic, reports>>
  BY DEF LockAndCreate
<1>3. CASE /\ Present(th[t].key) /\ Moves(t, "seen", table[th[t].key].gen, TRUE)
           /\ UNCHANGED <<table, born, done, fl>>
  <2>1. Carries(t) /\ Completes(t)
    BY <1>1, <1>3 DEF Carries, Completes, Busy, Moves, NotesOverlap, Live
  <2> QED
    BY <1>1, <1>2, <1>3, <2>1, SameJobsIfUnchanged, UpdateKept DEF NotesOverlap
<1>4. CASE /\ ~Present(th[t].key) /\ th'[t] = IdleThread
           /\ OtherKeys(th[t].key) /\ table'[th[t].key] = NewEntry(t)
           /\ \A j \in Keys : done'[j] = IF j = th[t].key THEN done[j] \cup th[t].sum ELSE done[j]
           /\ \A f \in Flushers : SameJob(f)
  <2>1. NewEntry(t).sum = th[t].sum /\ ~Flushed(NewEntry(t))
    BY DEF NewEntry, Flushed
  <2>2. table[th[t].key].gen = 0 /\ table[th[t].key].sum = {}
    BY <1>4 DEF Present, NoEntry
  <2>3. /\ \A k \in Keys : table'[k].gen = table[k].gen \/ table[k].gen = 0
        /\ \A k \in Keys : table[k].sum \subseteq table'[k].sum
        /\ \A k \in Keys : Flushed(table'[k]) => Flushed(table[k])
    BY <1>0, <1>4, <2>1, <2>2 DEF OtherKeys
  <2>4. Carries(t)
    BY <1>4 DEF Carries, Busy, IdleThread
  <2>5. Completes(t)
    BY <1>0, <1>1, <1>4, <2>1 DEF Completes, NotesOverlap
  <2> QED
    BY <1>1, <1>2, <1>4, <2>3, <2>4, <2>5, UpdateKept DEF NotesOverlap
<1> QED
  BY <1>1, <1>3, <1>4

\* An entry that is seen now is to be flushed, unless it was flushed now.
LEMMA SeenNow ==
  ASSUME TypeInv, NEW k \in Keys, NEW e, e.seen = now, e.flushed = table[k].flushed
  PROVE  /\ Flushed(e) => Flushed(table[k])
         /\ table[k].flushed # now => ~Flushed(e)
BY InvParts, FieldTypes DEF Parts, StateOK, Times, Flushed

\* A step of an update of thread t on an entry, for the facts about the table.
LEMMA TouchKept ==
  ASSUME TypeInv, KeptInv, NEW t \in Threads, Busy(t), OtherThreads(t), NotesOverlap(t),
         NEW sum, NEW cnt, NEW seen \in {table[th[t].key].seen, now},
         table[th[t].key].sum \subseteq sum,
         table' = table \/ Rewrites(th[t].key, sum, cnt, seen, table[th[t].key].flushed),
         Carries(t), Completes(t), UNCHANGED <<fl, topic, reports>>
  PROVE  KeptInv'
<1>1. th[t].key \in Keys
  BY InvParts, FieldTypes DEF Parts
<1>2. /\ \A k \in Keys : table'[k].gen = table[k].gen \/ table[k].gen = 0
      /\ \A k \in Keys : table[k].sum \subseteq table'[k].sum
  BY <1>1 DEF Rewrites, OtherKeys
<1>3. \A k \in Keys : Flushed(table'[k]) => Flushed(table[k])
  <2>1. TAKE k \in Keys
  <2>2. CASE table'[k] = table[k]
    BY <2>2
  <2>3. CASE k = th[t].key /\ Rewrites(th[t].key, sum, cnt, seen, table[th[t].key].flushed)
    <3>1. CASE seen = now
      BY <2>3, <3>1, SeenNow DEF Rewrites
    <3>2. CASE seen = table[th[t].key].seen
      BY <2>3, <3>2 DEF Rewrites, Flushed
    <3> QED
      BY <3>1, <3>2
  <2> QED
    BY <2>2, <2>3 DEF Rewrites, OtherKeys
<1> QED
  BY <1>2, <1>3, SameJobsIfUnchanged, UpdateKept DEF NotesOverlap

LEMMA StoreSeenKept ==
  ASSUME TypeInv, KeptInv, NEW t \in Threads, StoreSeen(t)
  PROVE  KeptInv'
<1>0. Parts /\ th[t].key \in Keys /\ th[t].gen # 0 /\ Busy(t)
  BY InvParts, FieldTypes, PointersNotNil DEF Parts, StoreSeen, Busy
<1>1. /\ OtherThreads(t) /\ NotesOverlap(t)
      /\ Moves(t, "add", th[t].gen, th[t].locked)
      /\ table[th[t].key].flushed = now => th[t].sum \subseteq excused'[th[t].key]
      /\ \/ ~Live(t) /\ UNCHANGED table
         \/ /\ Live(t)
            /\ Rewrites(th[t].key, table[th[t].key].sum, table[th[t].key].cnt, now,
                        table[th[t].key].flushed)
  BY <1>0, StoreSeenEffect DEF Parts
<1>2. UNCHANGED <<fl, topic, reports, done>>
  BY DEF StoreSeen
<1>3. Live(t) \/ th[t].sum \subseteq excused'[th[t].key]
  BY <1>0, <1>1 DEF KeptInv, Stale, NotesOverlap
<1>4. Carries(t)
  <2>1. CASE Live(t) /\ ~(th[t].sum \subseteq excused'[th[t].key])
    <3>1. ~Flushed(table'[th[t].key]) /\ Live(t)'
      BY <1>0, <1>1, <2>1, SeenNow DEF Rewrites, Live, Moves
    <3> QED
      BY <1>1, <3>1 DEF Carries, Moves, NotesOverlap
  <2>2. CASE th[t].sum \subseteq excused'[th[t].key]
    BY <1>1, <2>2 DEF Carries, Moves
  <2> QED
    BY <1>3, <2>1, <2>2
<1>5. Completes(t)
  BY <1>2 DEF Completes
<1> QED
  BY <1>0, <1>1, <1>2, <1>4, <1>5, TouchKept

LEMMA AddValueKept ==
  ASSUME TypeInv, KeptInv, NEW t \in Threads, AddValue(t)
  PROVE  KeptInv'
<1>0. Parts /\ th[t].key \in Keys /\ th[t].gen # 0 /\ Busy(t) /\ th[t].pc = "add"
  BY InvParts, FieldTypes, PointersNotNil DEF Parts, AddValue, Busy
<1>1. /\ OtherThreads(t) /\ NotesOverlap(t)
      /\ \/ IsAverage(th[t].key) /\ Moves(t, "count", th[t].gen, th[t].locked) /\ UNCHANGED done
         \/ ~IsAverage(th[t].key) /\ Ends(t)
      /\ \/ ~Live(t) /\ UNCHANGED table
         \/ /\ Live(t)
            /\ Rewrites(th[t].key, table[th[t].key].sum \cup th[t].sum, table[th[t].key].cnt,
                        table[th[t].key].seen, table[th[t].key].flushed)
  BY <1>0, AddValueEffect DEF Parts
<1>2. UNCHANGED <<fl, topic, reports>>
  BY DEF AddValue
<1>3. \/ th[t].sum \subseteq excused'[th[t].key]
      \/ /\ \A f \in Flushers : ~AtKey(f, th[t].key)
         /\ Live(t) /\ table'[th[t].key].gen = th[t].gen
         /\ ~Flushed(table'[th[t].key]) /\ th[t].sum \subseteq table'[th[t].key].sum
  <2>1. CASE ~(th[t].sum \subseteq excused'[th[t].key])
    <3>1. ~(th[t].sum \subseteq excused[th[t].key]) /\ \A f \in Flushers : ~AtKey(f, th[t].key)
      BY <1>0, <1>1, <2>1 DEF NotesOverlap
    <3>2. Live(t) /\ ~Flushed(table[th[t].key])
      BY <1>0, <3>1 DEF KeptInv, Stale, Fresh
    <3> QED
      BY <1>1, <3>1, <3>2 DEF Rewrites, Flushed, Live
  <2> QED
    BY <2>1
<1>4. Carries(t)
  BY <1>1, <1>3 DEF Carries, Moves, Ends, Busy, IdleThread, Live
<1>5. Completes(t)
  BY <1>1, <1>3 DEF Completes, Ends
<1> QED
  BY <1>0, <1>1, <1>2, <1>4, <1>5, TouchKept

LEMMA AddCountKept ==
  ASSUME TypeInv, KeptInv, NEW t \in Threads, AddCount(t)
  PROVE  KeptInv'
<1>0. Parts /\ th[t].key \in Keys /\ th[t].gen # 0 /\ Busy(t) /\ th[t].pc = "count"
  BY InvParts, FieldTypes, PointersNotNil DEF Parts, AddCount, Busy
<1>1. /\ OtherThreads(t) /\ NotesOverlap(t) /\ Ends(t)
      /\ \/ ~Live(t) /\ UNCHANGED table
         \/ /\ Live(t)
            /\ Rewrites(th[t].key, table[th[t].key].sum, table[th[t].key].cnt \cup th[t].cnt,
                        table[th[t].key].seen, table[th[t].key].flushed)
  BY <1>0, AddCountEffect DEF Parts
<1>2. UNCHANGED <<fl, topic, reports>>
  BY DEF AddCount
<1>3. Carries(t)
  BY <1>1 DEF Carries, Ends, Busy, IdleThread
<1>4. Completes(t)
  <2>1. CASE th[t].sum \subseteq excused'[th[t].key]
    BY <1>1, <2>1 DEF Completes, Ends
  <2>2. CASE ~(th[t].sum \subseteq excused'[th[t].key])
    <3>1. ~(th[t].sum \subseteq excused[th[t].key]) /\ \A f \in Flushers : ~AtKey(f, th[t].key)
      BY <1>0, <1>1, <2>2 DEF NotesOverlap
    <3>2. /\ Live(t) /\ ~Flushed(table[th[t].key])
          /\ th[t].sum \subseteq table[th[t].key].sum \cup excused[th[t].key]
      BY <1>0, <3>1 DEF KeptInv, Stale, Fresh, Summed
    <3>3. ~Flushed(table'[th[t].key]) /\ table'[th[t].key].sum = table[th[t].key].sum
      BY <1>1, <3>2 DEF Rewrites, Flushed
    <3> QED
      BY <1>0, <1>1, <3>1, <3>2, <3>3 DEF Completes, Ends, NotesOverlap
  <2> QED
    BY <2>1, <2>2
<1> QED
  BY <1>0, <1>1, <1>2, <1>3, <1>4, TouchKept

LEMMA MergeKept ==
  ASSUME TypeInv, KeptInv, NEW t \in Threads, MergeHistogram(t)
  PROVE  KeptInv'
<1>0. Parts /\ th[t].key \in Keys /\ th[t].gen # 0 /\ Busy(t)
  BY InvParts, FieldTypes, PointersNotNil DEF Parts, MergeHistogram, Busy
<1>1. /\ OtherThreads(t) /\ NotesOverlap(t) /\ Ends(t)
      /\ table[th[t].key].flushed = now => th[t].sum \subseteq excused'[th[t].key]
      /\ \/ ~Live(t) /\ UNCHANGED table
         \/ /\ Live(t)
            /\ Rewrites(th[t].key, table[th[t].key].sum \cup th[t].sum, table[th[t].key].cnt,
                        now, table[th[t].key].flushed)
  BY <1>0, MergeEffect DEF Parts
<1>2. UNCHANGED <<fl, topic, reports>>
  BY DEF MergeHistogram
<1>3. Carries(t)
  BY <1>1 DEF Carries, Ends, Busy, IdleThread
<1>4. Completes(t)
  <2>1. CASE th[t].sum \subseteq excused'[th[t].key]
    BY <1>1, <2>1 DEF Completes, Ends
  <2>2. CASE ~(th[t].sum \subseteq excused'[th[t].key])
    <3>1. /\ ~(th[t].sum \subseteq excused[th[t].key]) /\ \A f \in Flushers : ~AtKey(f, th[t].key)
          /\ table[th[t].key].flushed # now
      BY <1>0, <1>1, <2>2 DEF NotesOverlap
    <3>2. Live(t)
      BY <1>0, <3>1 DEF KeptInv, Stale
    <3>3. ~Flushed(table'[th[t].key]) /\ th[t].sum \subseteq table'[th[t].key].sum
      BY <1>0, <1>1, <3>1, <3>2, SeenNow DEF Rewrites
    <3> QED
      BY <1>1, <3>1, <3>3 DEF Completes, Ends
  <2> QED
    BY <2>1, <2>2
<1> QED
  BY <1>0, <1>1, <1>2, <1>3, <1>4, TouchKept

\* The updates in progress on the entry of key k are excused.
Clear(k) == \A t \in Threads : th[t].key = k /\ Busy(t) => th[t].sum \subseteq excused'[k]

\* What is accounted for stays so: what job f has is produced, or excused.
LEMMA SafeStays ==
  ASSUME TypeInv, NEW f \in Flushers, OtherJobs(f), reports \subseteq reports',
         topic' = topic \/ topic' = Append(topic, MessageOf(f)),
         AtWork(f) => \/ AtWork(f)' /\ fl'[f].at = fl[f].at
                      \/ fl[f].at.sum \subseteq excused'[fl[f].at.key]
                      \/ topic' = Append(topic, MessageOf(f))
  PROVE  \A k \in Keys : \A u : Safe(k, u) /\ u \notin excused'[k] => Safe(k, u)'
<1> SUFFICES ASSUME NEW k \in Keys, NEW u, Safe(k, u), u \notin excused'[k]
             PROVE  Safe(k, u)'
  OBVIOUS
<1>0. topic \in Seq(Message)
  BY InvParts DEF Parts, LogsOK
<1>1. CASE \E n \in 1..Len(topic) : topic[n].key = k /\ u \in topic[n].sum
  <2>1. PICK n \in 1..Len(topic) : topic[n].key = k /\ u \in topic[n].sum
    BY <1>1
  <2>2. n \in 1..Len(topic') /\ topic'[n] = topic[n]
    BY <1>0, <2>1
  <2> QED
    BY <2>1, <2>2 DEF Safe, InMessage
<1>2. CASE \E g \in Flushers : AtWork(g) /\ fl[g].at.key = k /\ u \in fl[g].at.sum
  <2>1. PICK g \in Flushers : AtWork(g) /\ fl[g].at.key = k /\ u \in fl[g].at.sum
    BY <1>2
  <2>2. CASE AtWork(g)' /\ fl'[g].at = fl[g].at
    BY <2>1, <2>2 DEF Safe, InMessage, AtWork
  <2>3. CASE g = f /\ topic' = Append(topic, MessageOf(f))
    <3>1. Len(topic) + 1 \in 1..Len(topic') /\ topic'[Len(topic) + 1] = MessageOf(f)
      BY <1>0, <2>3
    <3>2. MessageOf(f).key = k /\ u \in MessageOf(f).sum
      BY <2>1, <2>3 DEF MessageOf
    <3> QED
      BY <3>1, <3>2 DEF Safe, InMessage
  <2> QED
    BY <2>1, <2>2, <2>3 DEF OtherJobs, AtWork
<1>3. CASE InReport(k, u)
  BY <1>3 DEF Safe, InReport
<1> QED
  BY <1>1, <1>2, <1>3 DEF Safe, InMessage, AtWork

\* A step of a job keeps the invariant if what it takes out of an entry, or stamps,
\* is safe elsewhere or excused.
LEMMA JobKept ==
  ASSUME TypeInv, KeptInv, NEW f \in Flushers, OtherJobs(f), UNCHANGED <<th, done>>,
         \A k \in Keys : excused[k] \subseteq excused'[k],
         \A k \in Keys : \A u : Safe(k, u) /\ u \notin excused'[k] => Safe(k, u)',
         \A k \in Keys :
           \/ table'[k] = table[k]
           \/ /\ AtKey(f, k) \/ Clear(k)
              /\ \A u \in Left(k) \ excused'[k] :
                   (u \in table'[k].sum /\ ~Flushed(table'[k])) \/ Safe(k, u)',
         \A k \in Keys : AtKey(f, k)' => AtKey(f, k) \/ Clear(k),
         \A k \in Keys : \A u \in Left(k) \ excused'[k] :
           /\ (AtWork(f)' /\ fl'[f].at.key = k) \/ k \in fl'[f].doomed => Safe(k, u)'
           /\ \A i \in fl'[f].batch : i.key = k => u \in i.sum \/ Safe(k, u)'
  PROVE  KeptInv'
<1>1. \A t \in Threads : th[t].key \in Keys
  BY InvParts, FieldTypes DEF Parts
<1>2. ASSUME NEW k \in Keys, AtKey(f, k) \/ Clear(k) PROVE Clear(k)
  BY <1>2 DEF Clear, KeptInv, Overlaps
<1>3. \A k \in Keys : table'[k] = table[k] \/ Clear(k)
  BY <1>2
<1>4. \A t \in Threads : Busy(t)' <=> Busy(t)
  BY DEF Busy
<1>5. Overlaps'
  <2> SUFFICES ASSUME NEW t \in Threads, NEW g \in Flushers, Busy(t), AtKey(g, th[t].key)'
               PROVE  th[t].sum \subseteq excused'[th[t].key]
    BY <1>4 DEF Overlaps
  <2>1. CASE g = f
    BY <1>1, <1>2, <2>1 DEF Clear
  <2>2. CASE g # f
    <3>1. AtKey(g, th[t].key)
      BY <2>2 DEF OtherJobs, AtKey
    <3> QED
      BY <1>1, <3>1 DEF KeptInv, Overlaps
  <2> QED
    BY <2>1, <2>2
<1>6. Stale'
  BY <1>1, <1>3, <1>4 DEF KeptInv, Stale, Live, Clear
<1>7. Fresh'
  BY <1>1, <1>3, <1>4 DEF KeptInv, Fresh, Busy, Clear
<1>8. Summed'
  BY <1>1, <1>3, <1>4 DEF KeptInv, Summed, Busy, Clear
<1>9. \A k \in Keys : Left(k)' = Left(k) \ excused'[k]
  BY DEF Left
<1>10. Covered'
  <2> SUFFICES ASSUME NEW g \in Flushers, NEW k \in Keys, NEW u \in Left(k) \ excused'[k]
               PROVE  /\ (AtWork(g)' /\ fl'[g].at.key = k) \/ k \in fl'[g].doomed => Safe(k, u)'
                      /\ \A i \in fl'[g].batch : i.key = k => u \in i.sum \/ Safe(k, u)'
    BY <1>9 DEF Covered
  <2>1. CASE g = f
    BY <2>1
  <2>2. CASE g # f
    <3>1. fl'[g] = fl[g]
      BY <2>2 DEF OtherJobs
    <3>2. Safe(k, u) => Safe(k, u)'
      OBVIOUS
    <3> QED
      BY <3>1, <3>2 DEF KeptInv, Covered, AtWork
  <2> QED
    BY <2>1, <2>2
<1>11. Kept'
  <2> SUFFICES ASSUME NEW k \in Keys, NEW u \in Left(k) \ excused'[k]
               PROVE  (u \in table'[k].sum /\ ~Flushed(table'[k])) \/ Safe(k, u)'
    BY <1>9 DEF Kept
  <2>1. (u \in table[k].sum /\ ~Flushed(table[k])) \/ Safe(k, u)
    BY DEF KeptInv, Kept
  <2> QED
    BY <2>1
<1> QED
  BY <1>5, <1>6, <1>7, <1>8, <1>10, <1>11 DEF KeptInv

LEMMA BeginKept ==
  ASSUME TypeInv, KeptInv, NEW f \in Flushers, FlushBegin(f)
  PROVE  KeptInv'
<1>1. /\ fl[f].pc = "idle" /\ OtherJobs(f)
      /\ fl'[f].pc = "visit" /\ fl'[f].batch = {} /\ fl'[f].doomed = {}
  BY InvParts, BeginEffect DEF Parts
<1>2. UNCHANGED <<table, th, topic, reports, done, excused>>
  BY DEF FlushBegin
<1>3. \A k \in Keys : \A u : Safe(k, u) /\ u \notin excused'[k] => Safe(k, u)'
  BY <1>1, <1>2, SafeStays DEF AtWork
<1>4. \A k \in Keys : ~AtKey(f, k)'
  BY <1>1 DEF AtKey
<1> QED
  BY <1>1, <1>2, <1>3, <1>4, JobKept DEF AtWork

\* The entry that the iterator reaches is no other job's, or what was in it is
\* excused.
LEMMA VisitKept ==
  ASSUME TypeInv, KeptInv, NEW f \in Flushers, FlushVisit(f)
  PROVE  KeptInv'
<1>0. Parts
  BY InvParts
<1>1. fl[f].pc = "visit"
  BY <1>0, VisitEffect DEF Parts
<1>2. PICK k \in Keys : Visits(f, k)
  BY <1>0, VisitEffect DEF Parts
<1>3. UNCHANGED <<th, topic, reports, done>>
  BY DEF FlushVisit
<1>4. OtherJobs(f) /\ \A j \in Keys : excused[j] \subseteq excused'[j]
  BY <1>2 DEF Visits, Stays, Enters
<1>5. \A j \in Keys : \A u : Safe(j, u) /\ u \notin excused'[j] => Safe(j, u)'
  BY <1>1, <1>3, <1>4, SafeStays DEF AtWork
<1>6. \A u \in Left(k) \ excused'[k] : (u \in table[k].sum /\ ~Flushed(table[k])) \/ Safe(k, u)'
  BY <1>5 DEF KeptInv, Kept
<1>7. \A j \in Keys : \A u \in Left(j) \ excused'[j] :
           /\ j \in fl[f].doomed => Safe(j, u)'
           /\ \A i \in fl[f].batch : i.key = j => u \in i.sum \/ Safe(j, u)'
  BY <1>5 DEF KeptInv, Covered
<1>8. CASE Enters(f, k) /\ UNCHANGED table
        /\ \/ /\ Flushed(table[k]) 
              /\ Stays(f, "visit", fl[f].at, fl[f].batch, fl[f].doomed \cup {k})
           \/ Stays(f, "visit", fl[f].at, fl[f].batch \cup {ItemOf(k)}, fl[f].doomed)
  <2>1. Clear(k)
    BY <1>8 DEF Clear, Enters
  <2>2. ItemOf(k).key = k /\ ItemOf(k).sum = table[k].sum
    BY DEF ItemOf
  <2>3. \A j \in Keys : AtKey(f, j)' => AtKey(f, j) \/ Clear(j)
    BY <1>8, <2>1, <2>2 DEF AtKey, Stays
  <2>4. \A j \in Keys : \A u \in Left(j) \ excused'[j] :
           /\ (AtWork(f)' /\ fl'[f].at.key = j) \/ j \in fl'[f].doomed => Safe(j, u)'
           /\ \A i \in fl'[f].batch : i.key = j => u \in i.sum \/ Safe(j, u)'
    BY <1>6, <1>7, <1>8, <2>2 DEF Stays, AtWork
  <2> QED
    BY <1>3, <1>4, <1>5, <1>8, <2>3, <2>4, JobKept
<1>9. CASE /\ Stays(f, "visit", fl[f].at, fl[f].batch, fl[f].doomed) /\ UNCHANGED <<table, excused, overlapped>>
  <2>3. \A j \in Keys : AtKey(f, j)' => AtKey(f, j) \/ Clear(j)
    BY <1>9 DEF AtKey, Stays
  <2>4. \A j \in Keys : \A u \in Left(j) \ excused'[j] :
           /\ (AtWork(f)' /\ fl'[f].at.key = j) \/ j \in fl'[f].doomed => Safe(j, u)'
           /\ \A i \in fl'[f].batch : i.key = j => u \in i.sum \/ Safe(j, u)'
    BY <1>7, <1>9 DEF Stays, AtWork
  <2> QED
    BY <1>3, <1>4, <1>5, <1>9, <2>3, <2>4, JobKept
<1>10. CASE /\ ~Flushed(table[k]) /\ Enters(f, k)
            /\ \/ UNCHANGED table
               \/ Rewrites(k, {}, table[k].cnt, table[k].seen, table[k].flushed)
            /\ \/ Stays(f, "zero", ItemOf(k), fl[f].batch, fl[f].doomed)
               \/ Stays(f, "reset", ItemOf(k), fl[f].batch, fl[f].doomed)
  <2>1. Clear(k)
    BY <1>10 DEF Clear, Enters
  <2>2. ItemOf(k).key = k /\ ItemOf(k).sum = table[k].sum
    BY DEF ItemOf
  <2>3. \A j \in Keys : AtKey(f, j)' => AtKey(f, j) \/ Clear(j)
    BY <1>10, <2>1, <2>2 DEF AtKey, Stays
  <2>4. AtWork(f)' /\ fl'[f].at = ItemOf(k)
    BY <1>10 DEF Stays, AtWork
  <2>5. \A u \in table[k].sum : Safe(k, u)'
    BY <2>2, <2>4 DEF Safe, InMessage, AtWork
  <2>6. \A u \in Left(k) \ excused'[k] : Safe(k, u)'
    BY <1>6, <2>5
  <2>7. \A j \in Keys : \A u \in Left(j) \ excused'[j] :
           /\ (AtWork(f)' /\ fl'[f].at.key = j) \/ j \in fl'[f].doomed => Safe(j, u)'
           /\ \A i \in fl'[f].batch : i.key = j => u \in i.sum \/ Safe(j, u)'
    BY <1>7, <1>10, <2>2, <2>4, <2>6 DEF Stays
  <2>8. \A j \in Keys : table'[j] = table[j] \/ j = k
    BY <1>10 DEF Rewrites, OtherKeys
  <2> QED
    BY <1>3, <1>4, <1>5, <2>1, <2>3, <2>6, <2>7, <2>8, JobKept
<1> QED
  BY <1>2, <1>8, <1>9, <1>10 DEF Visits

\* A step of job f on the aggregate it is at, whose value it has read.
LEMMA WorkKept ==
  ASSUME TypeInv, KeptInv, NEW f \in Flushers, AtWork(f), UNCHANGED <<th, done, reports>>,
         NEW pc \in {"zero", "reset", "produce", "visit"}, NEW at,
         Stays(f, pc, at, fl[f].batch, fl[f].doomed),
         pc = "visit" \/ at = fl[f].at,
         \A k \in Keys : excused[k] \subseteq excused'[k],
         \A k \in Keys : k # fl[f].at.key => table'[k] = table[k],
         topic' = topic \/ topic' = Append(topic, MessageOf(f)),
         pc = "visit" => fl[f].at.sum \subseteq excused'[fl[f].at.key] \/ topic' = Append(topic, MessageOf(f))
  PROVE  KeptInv'
<1>1. OtherJobs(f)
  BY DEF Stays
<1>2. AtWork(f) => \/ AtWork(f)' /\ fl'[f].at = fl[f].at
                   \/ fl[f].at.sum \subseteq excused'[fl[f].at.key]
                   \/ topic' = Append(topic, MessageOf(f))
  BY DEF Stays, AtWork
<1>3. \A k \in Keys : \A u : Safe(k, u) /\ u \notin excused'[k] => Safe(k, u)'
  BY <1>1, <1>2, SafeStays
<1>4. \A k \in Keys : AtKey(f, k)' => AtKey(f, k)
  BY DEF AtKey, Stays, AtWork
<1>5. \A k \in Keys : \A u \in Left(k) \ excused'[k] :
           /\ fl[f].at.key = k \/ k \in fl[f].doomed => Safe(k, u)'
           /\ \A i \in fl[f].batch : i.key = k => u \in i.sum \/ Safe(k, u)'
  BY <1>3 DEF KeptInv, Covered
<1>6. \A k \in Keys : \A u \in Left(k) \ excused'[k] :
           /\ (AtWork(f)' /\ fl'[f].at.key = k) \/ k \in fl'[f].doomed => Safe(k, u)'
           /\ \A i \in fl'[f].batch : i.key = k => u \in i.sum \/ Safe(k, u)'
  BY <1>5 DEF Stays, AtWork
<1>7. AtKey(f, fl[f].at.key)
  BY DEF AtKey, AtWork
<1>8. \A k \in Keys :
           \/ table'[k] = table[k]
           \/ /\ AtKey(f, k)
              /\ \A u \in Left(k) \ excused'[k] : Safe(k, u)'
  BY <1>5, <1>7
<1> QED
  BY <1>1, <1>3, <1>4, <1>6, <1>8, JobKept

LEMMA ZeroKept ==
  ASSUME TypeInv, KeptInv, NEW f \in Flushers, FlushZero(f)
  PROVE  KeptInv'
<1>0. Parts /\ AtWork(f)
  BY InvParts DEF AtWork, FlushZero
<1>1. /\ Stays(f, "reset", fl[f].at, fl[f].batch, fl[f].doomed)
      /\ \A k \in Keys : k # fl[f].at.key => table'[k] = table[k]
  BY <1>0, InHand, ZeroEffect DEF Parts, Rewrites, OtherKeys
<1>2. UNCHANGED <<th, topic, reports, done, excused>>
  BY DEF FlushZero
<1> QED
  BY <1>0, <1>1, <1>2, WorkKept

LEMMA ResetKept ==
  ASSUME TypeInv, KeptInv, NEW f \in Flushers, FlushReset(f)
  PROVE  KeptInv'
<1>0. Parts /\ AtWork(f)
  BY InvParts DEF AtWork, FlushReset
<1>1. /\ Stays(f, "produce", fl[f].at, fl[f].batch, fl[f].doomed)
      /\ \A k \in Keys : k # fl[f].at.key => table'[k] = table[k]
  BY <1>0, InHand, ResetEffect DEF Parts, Rewrites, OtherKeys
<1>2. UNCHANGED <<th, topic, reports, done, excused>>
  BY DEF FlushReset
<1> QED
  BY <1>0, <1>1, <1>2, WorkKept

LEMMA ProduceKept ==
  ASSUME TypeInv, KeptInv, NEW f \in Flushers, FlushProduce(f)
  PROVE  KeptInv'
<1>0. Parts /\ AtWork(f)
  BY InvParts DEF AtWork, FlushProduce
<1>1. Stays(f, "visit", NoItem, fl[f].batch, fl[f].doomed) /\ Produces(f)
  BY <1>0, InHand, ProduceEffect DEF Parts
<1>2. UNCHANGED <<th, reports, done>>
  BY DEF FlushProduce
<1>3. /\ \A k \in Keys : excused[k] \subseteq excused'[k]
      /\ \A k \in Keys : k # fl[f].at.key => table'[k] = table[k]
      /\ topic' = topic \/ topic' = Append(topic, MessageOf(f))
      /\ fl[f].at.sum \subseteq excused'[fl[f].at.key] \/ topic' = Append(topic, MessageOf(f))
  BY <1>1 DEF Produces, Rewrites, OtherKeys
<1> QED
  BY <1>0, <1>1, <1>2, <1>3, WorkKept

\* What was read and was not written is still in its entry, which is not stamped.
LEMMA JournalKept ==
  ASSUME TypeInv, KeptInv, NEW f \in Flushers, FlushJournal(f)
  PROVE  KeptInv'
<1>0. Parts
  BY InvParts
<1>1. /\ fl[f].pc = "visit"
      /\ \/ reports' = reports \cup fl[f].batch /\ Stamps(f)
         \/ UNCHANGED <<reports, table>>
      /\ \E pc \in {"visit", "delete"} : Stays(f, pc, fl[f].at, {}, fl[f].doomed)
  BY <1>0, InHand, JournalEffect DEF Parts
<1>2. UNCHANGED <<th, topic, done, excused>>
  BY DEF FlushJournal
<1>3. /\ OtherJobs(f) /\ ~AtWork(f)' /\ ~AtWork(f)
      /\ fl'[f].batch = {} /\ fl'[f].doomed = fl[f].doomed
  BY <1>1 DEF Stays, AtWork
<1>4. \A k \in Keys : \A u : Safe(k, u) /\ u \notin excused'[k] => Safe(k, u)'
  BY <1>1, <1>2, <1>3, SafeStays
<1>5. \A k \in Keys : AtKey(f, k)' => AtKey(f, k)
  BY <1>3 DEF AtKey, AtWork
<1>6. \A k \in Keys : \A u \in Left(k) \ excused'[k] :
           /\ (AtWork(f)' /\ fl'[f].at.key = k) \/ k \in fl'[f].doomed => Safe(k, u)'
           /\ \A i \in fl'[f].batch : i.key = k => u \in i.sum \/ Safe(k, u)'
  BY <1>3, <1>4 DEF KeptInv, Covered
<1>7. ASSUME NEW k \in Keys, table'[k] # table[k]
      PROVE  AtKey(f, k) /\ \A u \in Left(k) \ excused'[k] : Safe(k, u)'
  <2>1. reports' = reports \cup fl[f].batch /\ \E i \in fl[f].batch : i.key = k
    BY <1>1, <1>7 DEF Stamps
  <2>2. PICK i \in fl[f].batch : i.key = k
    BY <2>1
  <2>3. \A u \in i.sum : Safe(k, u)'
    BY <2>1, <2>2 DEF Safe, InReport
  <2> QED
    BY <1>4, <2>2, <2>3 DEF AtKey, KeptInv, Covered
<1> QED
  BY <1>2, <1>3, <1>4, <1>5, <1>6, <1>7, JobKept

LEMMA DeleteKept ==
  ASSUME TypeInv, KeptInv, NEW f \in Flushers, FlushDelete(f)
  PROVE  KeptInv'
<1>0. Parts
  BY InvParts
<1>1. /\ fl[f].pc = "delete" /\ OtherJobs(f)
      /\ \/ \E k \in fl[f].doomed :
              /\ k \in Keys /\ OtherKeys(k) /\ table'[k] = NoEntry
              /\ Stays(f, "delete", fl[f].at, fl[f].batch, fl[f].doomed \ {k})
         \/ fl'[f] = IdleFlush /\ UNCHANGED table
  BY <1>0, DeleteEffect DEF Parts
<1>2. UNCHANGED <<th, topic, reports, done, excused>>
  BY DEF FlushDelete
<1>3. /\ ~AtWork(f)' /\ ~AtWork(f)
      /\ fl'[f].batch \subseteq fl[f].batch /\ fl'[f].doomed \subseteq fl[f].doomed
  BY <1>1 DEF Stays, AtWork, IdleFlush
<1>4. \A k \in Keys : \A u : Safe(k, u) /\ u \notin excused'[k] => Safe(k, u)'
  BY <1>1, <1>2, <1>3, SafeStays
<1>5. \A k \in Keys : AtKey(f, k)' => AtKey(f, k)
  BY <1>3 DEF AtKey, AtWork
<1>6. \A k \in Keys : \A u \in Left(k) \ excused'[k] :
           /\ (AtWork(f)' /\ fl'[f].at.key = k) \/ k \in fl'[f].doomed => Safe(k, u)'
           /\ \A i \in fl'[f].batch : i.key = k => u \in i.sum \/ Safe(k, u)'
  BY <1>3, <1>4 DEF KeptInv, Covered
<1>7. ASSUME NEW k \in Keys, table'[k] # table[k]
      PROVE  AtKey(f, k) /\ \A u \in Left(k) \ excused'[k] : Safe(k, u)'
  BY <1>1, <1>4, <1>7 DEF OtherKeys, AtKey, KeptInv, Covered
<1> QED
  BY <1>1, <1>2, <1>3, <1>4, <1>5, <1>6, <1>7, JobKept

\* The clock and what is read next do not matter.
LEMMA IdleKept ==
  ASSUME KeptInv, UNCHANGED <<table, th, fl, topic, reports, done, excused>>
  PROVE  KeptInv'
BY DEF KeptInv, Overlaps, Stale, Fresh, Summed, Covered, Kept, Busy, AtWork, AtKey, Live, Left,
   Safe, InMessage, InReport

\* Nothing was added yet.
LEMMA InitKept == Init => KeptInv
<1> SUFFICES ASSUME Init PROVE KeptInv
  OBVIOUS
<1>1. \A t \in Threads : th[t].pc = "idle"
  BY DEF Init, IdleThread
<1>2. \A k \in Keys : Left(k) = {}
  BY DEF Init, Left
<1> QED
  BY <1>1, <1>2 DEF KeptInv, Overlaps, Stale, Fresh, Summed, Covered, Kept, Busy

\* Every step keeps KeptInv.
LEMMA StepKept == ASSUME TypeInv, KeptInv, [Next]_vars PROVE KeptInv'
<1>1. CASE Tick \/ UNCHANGED vars
  BY <1>1, IdleKept DEF Tick, vars
<1> QED
  BY <1>1, CallKept, CallAggregateKept, FindKept, LockKept, StoreSeenKept, AddValueKept,
     AddCountKept, MergeKept, BeginKept, VisitKept, ZeroKept, ResetKept, ProduceKept,
     JournalKept, DeleteKept DEF Next, UpdateStep, FlushStep

\* An update that update_* completed is in its metric's entry and will be flushed, or
\* is in a message or a report, unless it overlapped a flush of its own metric
\* (tm_flush_team_metrics reads and zeroes without the lock) or its produce failed.
THEOREM NothingLostSilently == Spec => []KeptUnlessExcused
<1>1. Init => TypeInv /\ KeptInv
  BY InitTyped, InitKept
<1>2. TypeInv /\ KeptInv /\ [Next]_vars => (TypeInv /\ KeptInv)'
  BY StepTyped, StepKept
<1>3. TypeInv /\ KeptInv => KeptUnlessExcused
  BY DEF KeptInv, Kept, Safe, Left, KeptUnlessExcused, InEntry
<1> QED
  BY <1>1, <1>2, <1>3, PTL DEF Spec

=============================================================================
