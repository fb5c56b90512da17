------------------------- MODULE MetricTableProofs --------------------------
(***************************************************************************)
(* What holds of the metrics of a team for any calls, any number of reader *)
(* threads and flush jobs, any period and any bound on the clock: proofs   *)
(* for TLAPS.                                                              *)
(*                                                                         *)
(* First the effect of each step, as facts about the fields of the         *)
(* entries, threads and jobs that it touches; every later proof rests on   *)
(* these. Then type correctness.                                           *)
(***************************************************************************)
EXTENDS MetricTable, TLAPS

(***************************************************************************)
(* The inductive invariant. TypeOK alone does not say that the pointers in *)
(* the threads and jobs are entries that were created, nor what kind of    *)
(* metric a job is at.                                                     *)
(***************************************************************************)

\* Thread t holds a pointer to an entry, flush job f has read one.
Busy(t)   == th[t].pc \in {"seen", "add", "count"}
AtWork(f) == fl[f].pc \in {"zero", "reset", "produce"}

\* A pointer is never NULL, and points to an entry that was created.
Pointers ==
  /\ \A t \in Threads : Busy(t) => th[t].gen \in 1..born
  /\ \A f \in Flushers : AtWork(f) => fl[f].at.gen \in 1..born
  /\ \A f \in Flushers : \A i \in fl[f].batch : i.gen \in 1..born
  /\ \A i \in reports : i.gen \in 1..born

\* Nobody has seen, or flushed at, a time that is yet to come.
Times ==
  /\ \A k \in Keys : table[k].seen <= now /\ table[k].flushed <= now
  /\ \A f \in Flushers : fl[f].pc # "idle" => fl[f].start \in 1..now

\* What is produced comes from aggregates, what is reported does not; the
\* aggregator's thread never works on an aggregate; who works carries something.
Kinds ==
  /\ \A f \in Flushers : AtWork(f) => fl[f].at.key.aggregate
  /\ \A f \in Flushers : \A i \in fl[f].batch : ~i.key.aggregate
  /\ \A i \in reports : ~i.key.aggregate
  /\ \A n \in 1..Len(topic) : topic[n].key.aggregate
  /\ \A t \in Threads : th[t].pc = "idle" => th[t].sum = {} /\ th[t].cnt = {}
  /\ \A t \in Threads : th[t].pc # "idle" /\ th[t].key.aggregate =>
       t \in Handlers /\ th[t].sum # {} /\ (IsAverage(th[t].key) => th[t].cnt # {})

\* The inductive invariant of the types.
TypeInv == TypeOK /\ Pointers /\ Times /\ Kinds

(***************************************************************************)
(* Keys, and the parts of the state.                                       *)
(***************************************************************************)

\* The aggregator's key for a message: never an aggregate, and its own total.
LEMMA TotalKeyFacts ==
  ASSUME NEW k, IsKey(k)
  PROVE  /\ IsKey(TotalKey(k))
         /\ TotalKey(k).aggregate = FALSE
         /\ TotalKey(k).name = k.name
         /\ TotalKey(TotalKey(k)) = TotalKey(k)
BY DEF IsKey, TotalKey

\* The keys of a team are closed under "the key that adds up the messages".
LEMMA KeysAreKeys ==
  ASSUME NEW k \in Keys
  PROVE  /\ TotalKey(k) \in Keys
         /\ TotalKey(k).aggregate = FALSE
         /\ TotalKey(k).name = k.name
         /\ k.aggregate \in BOOLEAN /\ k.immediate \in BOOLEAN /\ k.ts \in Nat
<1>1. PICK u \in Updates : k = u.key \/ k = TotalKey(u.key)
  BY DEF Keys
<1>2. IsKey(u.key)
  BY TableAssumption
<1>3. IsKey(k) /\ TotalKey(k) = TotalKey(u.key)
  BY <1>1, <1>2, TotalKeyFacts
<1>4. TotalKey(k) \in Keys
  BY <1>3 DEF Keys
<1> QED
  BY <1>3, <1>4, TotalKeyFacts DEF IsKey

\* NoKey, which idle threads and jobs carry, is a key.
LEMMA SomeKey == ASSUME NEW k \in Keys PROVE NoKey \in Keys
BY DEF NoKey

\* A message of tracemate_aggregates.
Message == [key : Keys, sum : SUBSET Updates, cnt : Counts]
\* The parts of TypeOK that the steps' effects are stated with.
TableOK   == table \in [Keys -> Entry \cup {NoEntry}]
ThreadsOK == th \in [Threads -> Thread]
JobsOK    == fl \in [Flushers -> Flush]
HistoryOK == done \in [Keys -> SUBSET Updates] /\ excused \in [Keys -> SUBSET Updates]

\* A step of one thread, key or job leaves the others alone.
OtherThreads(t) == \A s \in Threads : s # t => th'[s] = th[s]
OtherKeys(k) == \A j \in Keys : j # k => table'[j] = table[j]
OtherJobs(f) == \A g \in Flushers : g # f => fl'[g] = fl[g]

\* Thread t goes on with the same update.
Moves(t, pc, gen, locked) ==
  /\ th'[t].pc = pc /\ th'[t].gen = gen /\ th'[t].locked = locked
  /\ th'[t].key = th[t].key /\ th'[t].sum = th[t].sum /\ th'[t].cnt = th[t].cnt

\* Job f is where it was, but for the keys that it has yet to visit.
SameJob(f) ==
  /\ fl'[f].pc = fl[f].pc /\ fl'[f].start = fl[f].start /\ fl'[f].at = fl[f].at
  /\ fl'[f].batch = fl[f].batch /\ fl'[f].doomed = fl[f].doomed

\* The entry of key k gets other values.
Rewrites(k, sum, cnt, seen, flushed) ==
  /\ TableOK' /\ OtherKeys(k)
  /\ table'[k].gen = table[k].gen /\ table'[k].sum = sum /\ table'[k].cnt = cnt
  /\ table'[k].seen = seen /\ table'[k].flushed = flushed

\* Init's threads and jobs are well typed.
LEMMA IdleOK ==
  ASSUME NEW k \in Keys
  PROVE  IdleThread \in Thread /\ IdleFlush \in Flush
BY SomeKey DEF IdleThread, Thread, ThreadPhases, IdleFlush, Flush, FlushPhases, NoItem,
   Item, Counts

\* A thread goes on to another step of the same update.
LEMMA GotoEffect ==
  ASSUME ThreadsOK, NEW t \in Threads, NEW pc \in ThreadPhases, Goto(t, pc)
  PROVE  /\ ThreadsOK' /\ OtherThreads(t)
         /\ Moves(t, pc, th[t].gen, th[t].locked)
BY DEF ThreadsOK, Goto, OtherThreads, Thread, Moves

\* update_* returns: the thread is idle and what it added is recorded.
LEMMA DoneEffect ==
  ASSUME ThreadsOK, HistoryOK, NEW t \in Threads, Done(t)
  PROVE  /\ ThreadsOK' /\ OtherThreads(t)
         /\ th'[t] = IdleThread
         /\ done' \in [Keys -> SUBSET Updates]
         /\ \A j \in Keys : done'[j] = IF j = th[t].key THEN done[j] \cup th[t].sum ELSE done[j]
<1>1. th[t] \in Thread /\ th[t].key \in Keys /\ th[t].sum \subseteq Updates
  BY DEF ThreadsOK, Thread
<1>2. IdleThread \in Thread
  BY <1>1, IdleOK
<1> QED
  BY <1>1, <1>2 DEF ThreadsOK, HistoryOK, Done, OtherThreads

\* What is excused after thread t touched an entry.
NotesOverlap(t) ==
  /\ excused' \in [Keys -> SUBSET Updates]
  /\ \A j \in Keys : excused[j] \subseteq excused'[j]
  /\ (\E f \in Flushers : AtKey(f, th[t].key)) => th[t].sum \subseteq excused'[th[t].key]

\* An update that meets a flush job at its metric is excused from then on.
LEMMA NoteOverlapEffect ==
  ASSUME ThreadsOK, HistoryOK, NEW t \in Threads, NoteOverlap(t)
  PROVE  NotesOverlap(t)
BY DEF ThreadsOK, Thread, HistoryOK, NoteOverlap, NotesOverlap

\* So is one that falls in the millisecond of the entry's flush stamp.
LEMMA NoteTieEffect ==
  ASSUME ThreadsOK, HistoryOK, NEW t \in Threads, NoteTie(t)
  PROVE  NotesOverlap(t) /\ (table[th[t].key].flushed = now => th[t].sum \subseteq excused'[th[t].key])
BY NoteOverlapEffect DEF ThreadsOK, Thread, HistoryOK, NoteTie, NotesOverlap
(***************************************************************************)
(* The effects of the steps of an update.                                  *)
(***************************************************************************)

StateOK == TableOK /\ ThreadsOK /\ JobsOK /\ HistoryOK /\ born \in Nat /\ now \in Nat \ {0}

\* A handler takes one update of its document and turns to update_*.
LEMMA CallEffect ==
  ASSUME StateOK, inbox \subseteq Updates, NEW t \in Threads, Call(t)
  PROVE  \E u \in inbox :
           /\ t \in Handlers /\ th[t].pc = "idle"
           /\ inbox' = inbox \ {u}
           /\ ThreadsOK' /\ OtherThreads(t)
           /\ th'[t].pc = "find" /\ th'[t].key = u.key /\ th'[t].sum = {u}
           /\ th'[t].cnt = (IF IsAverage(u.key) THEN {u} ELSE {})
           /\ th'[t].gen = 0 /\ th'[t].locked = FALSE
<1>1. PICK u \in inbox :
        /\ inbox' = inbox \ {u}
        /\ th' = [th EXCEPT ![t] = [IdleThread EXCEPT !.pc = "find", !.key = u.key,
                               !.sum = {u}, !.cnt = IF IsAverage(u.key) THEN {u} ELSE {}]]
  BY DEF Call
<1>2. u.key \in Keys /\ {u} \subseteq Updates /\ {u} \in Counts
  BY DEF Keys, Counts
<1>3. IdleThread \in Thread
  BY <1>2, IdleOK
<1> QED
  BY <1>1, <1>2, <1>3 DEF Call, StateOK, ThreadsOK, OtherThreads, Thread, ThreadPhases,
     IdleThread, Counts

\* The aggregator reads a message and adds it up under the total's key.
LEMMA CallAggregateEffect ==
  ASSUME StateOK, topic \in Seq(Message), taken \in 0..Len(topic), CallAggregate
  PROVE  /\ taken + 1 \in 1..Len(topic) /\ taken' = taken + 1 /\ topic[taken + 1] \in Message
         /\ th[Aggregator].pc = "idle"
         /\ ThreadsOK' /\ OtherThreads(Aggregator)
         /\ th'[Aggregator].pc = "find" /\ th'[Aggregator].key = TotalKey(topic[taken + 1].key)
         /\ th'[Aggregator].sum = topic[taken + 1].sum
         /\ th'[Aggregator].cnt = Counted(topic[taken + 1])
         /\ th'[Aggregator].gen = 0 /\ th'[Aggregator].locked = FALSE
<1>1. taken + 1 \in 1..Len(topic) /\ topic[taken + 1] \in Message
  BY DEF CallAggregate
<1> DEFINE m == topic[taken + 1]
<1>2. m.key \in Keys /\ TotalKey(m.key) \in Keys /\ m.sum \subseteq Updates /\ Counted(m) \in Counts
  BY <1>1, KeysAreKeys DEF Message, Counted, Counts
<1>3. IdleThread \in Thread
  BY <1>2, IdleOK
<1>4. Aggregator \in Threads
  BY DEF Threads
<1> HIDE DEF m
<1>5. th' = [th EXCEPT ![Aggregator] = [IdleThread EXCEPT
              !.pc = "find", !.key = TotalKey(m.key), !.sum = m.sum, !.cnt = Counted(m)]]
  BY DEF CallAggregate, m
<1>6. ThreadsOK' /\ OtherThreads(Aggregator)
         /\ th'[Aggregator].pc = "find" /\ th'[Aggregator].key = TotalKey(m.key)
         /\ th'[Aggregator].sum = m.sum
         /\ th'[Aggregator].cnt = Counted(m)
         /\ th'[Aggregator].gen = 0 /\ th'[Aggregator].locked = FALSE
  BY <1>2, <1>3, <1>4, <1>5 DEF StateOK, ThreadsOK, OtherThreads, Thread, ThreadPhases,
     IdleThread, Counts
<1> QED
  BY <1>1, <1>6 DEF CallAggregate, m

\* mtev_hash_retrieve without the lock: an entry, or the way to the mutex.
LEMMA FindEffect ==
  ASSUME StateOK, NEW t \in Threads, Find(t)
  PROVE  /\ th[t].pc = "find" /\ ThreadsOK' /\ OtherThreads(t) /\ NotesOverlap(t)
         /\ \/ Present(th[t].key) /\ Moves(t, "seen", table[th[t].key].gen, th[t].locked)
            \/ ~Present(th[t].key) /\ Moves(t, "lock", th[t].gen, th[t].locked)
<1>1. th[t] \in Thread /\ th[t].key \in Keys /\ table[th[t].key].gen \in Nat
  BY DEF StateOK, ThreadsOK, TableOK, Thread, Entry, NoEntry
<1>2. NotesOverlap(t)
  BY NoteOverlapEffect DEF Find, StateOK
<1>3. CASE Present(th[t].key)
  <2>1. th' = [th EXCEPT ![t].pc = "seen", ![t].gen = table[th[t].key].gen]
    BY <1>3 DEF Find
  <2>2. ThreadsOK' /\ OtherThreads(t) /\ Moves(t, "seen", table[th[t].key].gen, th[t].locked)
    BY <1>1, <2>1 DEF StateOK, ThreadsOK, OtherThreads, Thread, ThreadPhases, Moves
  <2> QED
    BY <1>2, <1>3, <2>2 DEF Find
<1>4. CASE ~Present(th[t].key)
  BY <1>2, <1>4, GotoEffect DEF Find, StateOK, ThreadPhases
<1> QED
  BY <1>3, <1>4

\* The second look under td->mutex: an entry, or a new one with the update in it.
LEMMA LockEffect ==
  ASSUME StateOK, NEW t \in Threads, LockAndCreate(t)
  PROVE  /\ th[t].pc = "lock" /\ MutexFree /\ ThreadsOK' /\ OtherThreads(t) /\ NotesOverlap(t)
         /\ \/ /\ Present(th[t].key) /\ Moves(t, "seen", table[th[t].key].gen, TRUE)
               /\ UNCHANGED <<table, born, done, fl>>
            \/ /\ ~Present(th[t].key) /\ th'[t] = IdleThread
               /\ TableOK' /\ OtherKeys(th[t].key)
               /\ table'[th[t].key] = NewEntry(t) /\ born' = born + 1
               /\ done' \in [Keys -> SUBSET Updates]
               /\ \A j \in Keys : done'[j] = IF j = th[t].key THEN done[j] \cup th[t].sum ELSE done[j]
               /\ JobsOK' /\ \A f \in Flushers : SameJob(f)
<1>1. /\ th[t] \in Thread /\ th[t].key \in Keys /\ table[th[t].key].gen \in Nat
      /\ th[t].sum \subseteq Updates /\ th[t].cnt \in Counts
  BY DEF StateOK, ThreadsOK, TableOK, Thread, Entry, NoEntry
<1>2. NotesOverlap(t)
  BY NoteOverlapEffect DEF LockAndCreate, StateOK
<1>3. CASE Present(th[t].key)
  <2>1. th' = [th EXCEPT ![t].pc = "seen", ![t].gen = table[th[t].key].gen, ![t].locked = TRUE]
    BY <1>3 DEF LockAndCreate, FoundAtLast
  <2>2. ThreadsOK' /\ OtherThreads(t) /\ Moves(t, "seen", table[th[t].key].gen, TRUE)
    BY <1>1, <2>1 DEF StateOK, ThreadsOK, OtherThreads, Thread, ThreadPhases, Moves
  <2> QED
    BY <1>2, <1>3, <2>2 DEF LockAndCreate, FoundAtLast
<1>4. CASE ~Present(th[t].key)
  <2>1. /\ table' = [table EXCEPT ![th[t].key] = NewEntry(t)] /\ born' = born + 1
        /\ Done(t) /\ Iterators(th[t].key)
    BY <1>4 DEF LockAndCreate, FoundAtLast
  <2>2. NewEntry(t) \in Entry
    BY <1>1 DEF NewEntry, Entry, StateOK
  <2>3. TableOK' /\ OtherKeys(th[t].key) /\ table'[th[t].key] = NewEntry(t)
    BY <1>1, <2>1, <2>2 DEF StateOK, TableOK, OtherKeys
  <2>4. JobsOK' /\ \A f \in Flushers : SameJob(f)
    BY <1>1, <2>1 DEF Iterators, StateOK, JobsOK, Flush, SameJob
  <2> QED
    BY <1>2, <1>4, <2>1, <2>3, <2>4, DoneEffect DEF LockAndCreate, StateOK
<1> QED
  BY <1>3, <1>4

\* A pointer that is not NULL points to an entry with all its fields.
LEMMA LiveIsEntry ==
  ASSUME TableOK, NEW k \in Keys, table[k].gen # 0
  PROVE  table[k] \in Entry
BY DEF TableOK, NoEntry

\* last_seen is stored, into the entry or into one that was freed.
LEMMA StoreSeenEffect ==
  ASSUME StateOK, NEW t \in Threads, th[t].gen # 0, StoreSeen(t)
  PROVE  /\ th[t].pc = "seen" /\ ThreadsOK' /\ OtherThreads(t) /\ NotesOverlap(t)
         /\ Moves(t, "add", th[t].gen, th[t].locked)
         /\ table[th[t].key].flushed = now => th[t].sum \subseteq excused'[th[t].key]
         /\ \/ ~Live(t) /\ UNCHANGED table
            \/ /\ Live(t)
               /\ Rewrites(th[t].key, table[th[t].key].sum, table[th[t].key].cnt, now,
                           table[th[t].key].flushed)
<1>1. th[t] \in Thread /\ th[t].key \in Keys
  BY DEF StateOK, ThreadsOK, Thread
<1>2. NotesOverlap(t) /\ (table[th[t].key].flushed = now => th[t].sum \subseteq excused'[th[t].key])
  BY NoteTieEffect DEF StoreSeen, StateOK
<1>3. CASE Live(t)
  <2>1. table[th[t].key] \in Entry
    BY <1>1, <1>3, LiveIsEntry DEF Live, StateOK
  <2>2. table' = [table EXCEPT ![th[t].key].seen = now]
    BY <1>3 DEF StoreSeen
  <2>3. Rewrites(th[t].key, table[th[t].key].sum, table[th[t].key].cnt, now,
                 table[th[t].key].flushed)
    BY <1>1, <2>1, <2>2 DEF Rewrites, OtherKeys, StateOK, TableOK, Entry
  <2> QED
    BY <1>2, <1>3, <2>3, GotoEffect DEF StoreSeen, StateOK, ThreadPhases
<1> QED
  BY <1>2, <1>3, GotoEffect DEF StoreSeen, StateOK, ThreadPhases

\* What becomes of an update that is complete.
Ends(t) ==
  /\ th'[t] = IdleThread
  /\ done' \in [Keys -> SUBSET Updates]
  /\ \A j \in Keys : done'[j] = IF j = th[t].key THEN done[j] \cup th[t].sum ELSE done[j]

\* The value is added, and for all but averages the update is over.
LEMMA AddValueEffect ==
  ASSUME StateOK, NEW t \in Threads, th[t].gen # 0, AddValue(t)
  PROVE  /\ th[t].pc = "add" /\ ThreadsOK' /\ OtherThreads(t) /\ NotesOverlap(t)
         /\ \/ IsAverage(th[t].key) /\ Moves(t, "count", th[t].gen, th[t].locked) /\ UNCHANGED done
            \/ ~IsAverage(th[t].key) /\ Ends(t)
         /\ \/ ~Live(t) /\ UNCHANGED table
            \/ /\ Live(t)
               /\ Rewrites(th[t].key, table[th[t].key].sum \cup th[t].sum, table[th[t].key].cnt,
                           table[th[t].key].seen, table[th[t].key].flushed)
<1>1. th[t] \in Thread /\ th[t].key \in Keys /\ th[t].sum \subseteq Updates
  BY DEF StateOK, ThreadsOK, Thread
<1>2. NotesOverlap(t)
  BY NoteOverlapEffect DEF AddValue, StateOK
<1>3. ASSUME Live(t)
      PROVE  Rewrites(th[t].key, table[th[t].key].sum \cup th[t].sum, table[th[t].key].cnt,
                      table[th[t].key].seen, table[th[t].key].flushed)
  <2>1. table[th[t].key] \in Entry
    BY <1>1, <1>3, LiveIsEntry DEF Live, StateOK
  <2>2. table' = [table EXCEPT ![th[t].key].sum = @ \cup th[t].sum]
    BY <1>3 DEF AddValue
  <2> QED
    BY <1>1, <2>1, <2>2 DEF Rewrites, OtherKeys, StateOK, TableOK, Entry
<1>4. CASE IsAverage(th[t].key)
  BY <1>2, <1>3, <1>4, GotoEffect DEF AddValue, StateOK, ThreadPhases
<1>5. CASE ~IsAverage(th[t].key)
  BY <1>2, <1>3, <1>5, DoneEffect DEF AddValue, StateOK, Ends
<1> QED
  BY <1>4, <1>5

\* The count of an average is added, and the update is over.
LEMMA AddCountEffect ==
  ASSUME StateOK, NEW t \in Threads, th[t].gen # 0, AddCount(t)
  PROVE  /\ th[t].pc = "count" /\ ThreadsOK' /\ OtherThreads(t) /\ NotesOverlap(t) /\ Ends(t)
         /\ \/ ~Live(t) /\ UNCHANGED table
            \/ /\ Live(t)
               /\ Rewrites(th[t].key, table[th[t].key].sum, table[th[t].key].cnt \cup th[t].cnt,
                           table[th[t].key].seen, table[th[t].key].flushed)
<1>1. th[t] \in Thread /\ th[t].key \in Keys /\ th[t].cnt \in Counts
  BY DEF StateOK, ThreadsOK, Thread
<1>2. NotesOverlap(t) /\ Ends(t) /\ ThreadsOK' /\ OtherThreads(t)
  BY NoteOverlapEffect, DoneEffect DEF AddCount, StateOK, Ends
<1>3. ASSUME Live(t)
      PROVE  Rewrites(th[t].key, table[th[t].key].sum, table[th[t].key].cnt \cup th[t].cnt,
                      table[th[t].key].seen, table[th[t].key].flushed)
  <2>1. table[th[t].key] \in Entry
    BY <1>1, <1>3, LiveIsEntry DEF Live, StateOK
  <2>2. table' = [table EXCEPT ![th[t].key].cnt = @ \cup th[t].cnt]
    BY <1>3 DEF AddCount
  <2> QED
    BY <1>1, <2>1, <2>2 DEF Rewrites, OtherKeys, StateOK, TableOK, Entry, Counts
<1> QED
  BY <1>2, <1>3 DEF AddCount

\* A histogram is merged under the team's spinlock, in one step.
LEMMA MergeEffect ==
  ASSUME StateOK, NEW t \in Threads, th[t].gen # 0, MergeHistogram(t)
  PROVE  /\ th[t].pc = "seen" /\ ThreadsOK' /\ OtherThreads(t) /\ NotesOverlap(t) /\ Ends(t)
         /\ t = Aggregator /\ ~IsAverage(th[t].key)
         /\ table[th[t].key].flushed = now => th[t].sum \subseteq excused'[th[t].key]
         /\ \/ ~Live(t) /\ UNCHANGED table
            \/ /\ Live(t)
               /\ Rewrites(th[t].key, table[th[t].key].sum \cup th[t].sum, table[th[t].key].cnt,
                           now, table[th[t].key].flushed)
<1>1. th[t] \in Thread /\ th[t].key \in Keys /\ th[t].sum \subseteq Updates
  BY DEF StateOK, ThreadsOK, Thread
<1>2. NotesOverlap(t) /\ Ends(t) /\ ThreadsOK' /\ OtherThreads(t)
      /\ (table[th[t].key].flushed = now => th[t].sum \subseteq excused'[th[t].key])
  BY NoteTieEffect, DoneEffect DEF MergeHistogram, StateOK, Ends
<1>3. ASSUME Live(t)
      PROVE  Rewrites(th[t].key, table[th[t].key].sum \cup th[t].sum, table[th[t].key].cnt,
                      now, table[th[t].key].flushed)
  <2>1. table[th[t].key] \in Entry
    BY <1>1, <1>3, LiveIsEntry DEF Live, StateOK
  <2>2. table' = [table EXCEPT ![th[t].key].seen = now, ![th[t].key].sum = @ \cup th[t].sum]
    BY <1>3 DEF MergeHistogram
  <2> QED
    BY <1>1, <2>1, <2>2 DEF Rewrites, OtherKeys, StateOK, TableOK, Entry
<1>4. t = Aggregator /\ ~IsAverage(th[t].key)
  BY TableAssumption DEF MergeHistogram, HoldsSpinlock, IsAverage
<1> QED
  BY <1>2, <1>3, <1>4 DEF MergeHistogram

(***************************************************************************)
(* The effects of the steps of a flush.                                    *)
(***************************************************************************)

\* Job f is at the same aggregate as before, with what it has in its JSON.
Stays(f, pc, at, batch, doomed) ==
  /\ JobsOK' /\ OtherJobs(f)
  /\ fl'[f].pc = pc /\ fl'[f].start = fl[f].start /\ fl'[f].at = at
  /\ fl'[f].batch = batch /\ fl'[f].doomed = doomed

\* A flush job begins: its time is now, it has read and doomed nothing.
LEMMA BeginEffect ==
  ASSUME StateOK, NEW f \in Flushers, FlushBegin(f)
  PROVE  /\ fl[f].pc = "idle" /\ JobsOK' /\ OtherJobs(f)
         /\ fl'[f].pc = "visit" /\ fl'[f].start = now
         /\ fl'[f].batch = {} /\ fl'[f].doomed = {}
<1>1. fl[f] \in Flush /\ fl[f].at \in Item /\ fl[f].at.key \in Keys
  BY DEF StateOK, JobsOK, Flush, Item
<1>2. IdleFlush \in Flush
  BY <1>1, IdleOK
<1>3. /\ fl[f].pc = "idle"
      /\ fl' = [fl EXCEPT ![f] = [IdleFlush EXCEPT
                 !.pc = "visit", !.start = now, !.todo = {k \in Keys : Present(k)}]]
  BY DEF FlushBegin
<1> QED
  BY <1>2, <1>3 DEF StateOK, JobsOK, OtherJobs, Flush, FlushPhases, IdleFlush

\* Entering the entry of key k.
Enters(f, k) ==
  /\ excused' \in [Keys -> SUBSET Updates]
  /\ \A j \in Keys : excused[j] \subseteq excused'[j]
  /\ \A t \in Threads : th[t].key = k /\ Busy(t) => th[t].sum \subseteq excused'[k]
  /\ overlapped' = overlapped \/ overlapped' = overlapped \cup {k}
  /\ (\E g \in Flushers \ {f} : AtKey(g, k)) => k \in overlapped'

\* A job reaches an entry: the threads that hold it, and the jobs that are there,
\* are recorded.
LEMMA ReachesEffect ==
  ASSUME StateOK, NEW f \in Flushers, NEW k \in Keys, Reaches(f, k)
  PROVE  Enters(f, k)
<1> DEFINE S == UNION {th[t].sum : t \in {s \in Threads : th[s].key = k /\ th[s].pc \in {"seen", "add", "count"}}}
<1>1. S \subseteq Updates
  BY DEF StateOK, ThreadsOK, Thread
<1>2. \A t \in Threads : th[t].key = k /\ Busy(t) => th[t].sum \subseteq S
  BY DEF Busy
<1>3. excused' = [excused EXCEPT ![k] = @ \cup S]
  BY DEF Reaches
<1> HIDE DEF S
<1> QED
  BY <1>1, <1>2, <1>3 DEF Reaches, Enters, StateOK, HistoryOK

\* Job f gets to the entry of key k.
Visits(f, k) ==
  /\ Present(k)
  /\ \/ /\ Flushed(table[k]) /\ Enters(f, k) /\ UNCHANGED table
        /\ Stays(f, "visit", fl[f].at, fl[f].batch, fl[f].doomed \cup {k})
     \/ /\ Stays(f, "visit", fl[f].at, fl[f].batch, fl[f].doomed)
        /\ UNCHANGED <<table, excused, overlapped>>
     \/ /\ ~Flushed(table[k]) /\ ~k.aggregate /\ Enters(f, k) /\ UNCHANGED table
        /\ Stays(f, "visit", fl[f].at, fl[f].batch \cup {ItemOf(k)}, fl[f].doomed)
     \/ /\ ~Flushed(table[k]) /\ k.aggregate /\ Enters(f, k) /\ UNCHANGED table
        /\ Quiet(f, table[k])
        /\ Stays(f, "zero", ItemOf(k), fl[f].batch, fl[f].doomed)
     \/ /\ ~Flushed(table[k]) /\ k.aggregate /\ Enters(f, k)
        /\ Quiet(f, table[k]) /\ ~IsAverage(k)
        /\ Rewrites(k, {}, table[k].cnt, table[k].seen, table[k].flushed)
        /\ Stays(f, "reset", ItemOf(k), fl[f].batch, fl[f].doomed)

\* An entry in the table has a number, and can be read into the JSON.
LEMMA PresentIsEntry ==
  ASSUME TableOK, NEW k \in Keys, Present(k)
  PROVE  table[k] \in Entry /\ table[k].gen # 0 /\ ItemOf(k) \in Item
BY DEF TableOK, Present, Entry, ItemOf, Item

\* The flush iterator at one key: the entry was flushed, or is doomed, or is read
\* for the journal, or is an aggregate whose value is taken.
LEMMA VisitEffect ==
  ASSUME StateOK, NEW f \in Flushers, FlushVisit(f)
  PROVE  fl[f].pc = "visit" /\ \E k \in Keys : Visits(f, k)
<1>1. PICK k \in fl[f].todo :
        /\ Present(k)
        /\ VisitExpired(f, k) \/ VisitIdly(f, k) \/ VisitReport(f, k) \/ VisitAggregate(f, k)
  BY DEF FlushVisit
<1>2. fl[f] \in Flush /\ k \in Keys /\ fl[f].pc = "visit"
  BY DEF FlushVisit, StateOK, JobsOK, Flush
<1>3. table[k] \in Entry /\ ItemOf(k) \in Item
  BY <1>1, <1>2, PresentIsEntry DEF StateOK
<1>4. CASE VisitExpired(f, k)
  <2>1. Enters(f, k)
    BY <1>2, <1>4, ReachesEffect DEF VisitExpired
  <2>2. fl' = [fl EXCEPT ![f].todo = @ \ {k}, ![f].doomed = @ \cup {k}]
    BY <1>4 DEF VisitExpired
  <2>3. Stays(f, "visit", fl[f].at, fl[f].batch, fl[f].doomed \cup {k})
    BY <1>2, <2>2 DEF StateOK, JobsOK, Stays, OtherJobs, Flush
  <2> QED
    BY <1>1, <1>2, <1>4, <2>1, <2>3 DEF VisitExpired, Visits, Expired
<1>5. CASE VisitIdly(f, k)
  <2>2. fl' = [fl EXCEPT ![f].todo = @ \ {k}]
    BY <1>5 DEF VisitIdly
  <2>3. Stays(f, "visit", fl[f].at, fl[f].batch, fl[f].doomed)
    BY <1>2, <2>2 DEF StateOK, JobsOK, Stays, OtherJobs, Flush
  <2> QED
    BY <1>1, <1>2, <1>5, <2>3 DEF VisitIdly, Visits
<1>6. CASE VisitReport(f, k)
  <2>1. Enters(f, k)
    BY <1>2, <1>6, ReachesEffect DEF VisitReport
  <2>2. fl' = [fl EXCEPT ![f].todo = @ \ {k}, ![f].batch = @ \cup {ItemOf(k)}]
    BY <1>6 DEF VisitReport
  <2>3. Stays(f, "visit", fl[f].at, fl[f].batch \cup {ItemOf(k)}, fl[f].doomed)
    BY <1>2, <1>3, <2>2 DEF StateOK, JobsOK, Stays, OtherJobs, Flush
  <2> QED
    BY <1>1, <1>2, <1>6, <2>1, <2>3 DEF VisitReport, Visits
<1>7. CASE VisitAggregate(f, k)
  <2>1. Enters(f, k) /\ Quiet(f, table[k]) /\ k.aggregate /\ ~Flushed(table[k])
    BY <1>2, <1>7, ReachesEffect DEF VisitAggregate, IsDue
  <2>2. CASE k.name \in Histograms
    <3>1. /\ fl' = [fl EXCEPT ![f].todo = @ \ {k}, ![f].at = ItemOf(k), ![f].pc = "reset"]
          /\ table' = [table EXCEPT ![k].sum = {}]
      BY <1>7, <2>2 DEF VisitAggregate
    <3>2. Stays(f, "reset", ItemOf(k), fl[f].batch, fl[f].doomed)
      BY <1>2, <1>3, <3>1 DEF StateOK, JobsOK, Stays, OtherJobs, Flush, FlushPhases
    <3>3. Rewrites(k, {}, table[k].cnt, table[k].seen, table[k].flushed)
      BY <1>2, <1>3, <3>1 DEF Rewrites, OtherKeys, StateOK, TableOK, Entry
    <3>4. ~IsAverage(k)
      BY <2>2, TableAssumption DEF IsAverage
    <3> QED
      BY <1>1, <1>2, <2>1, <3>2, <3>3, <3>4 DEF Visits
  <2>3. CASE k.name \notin Histograms
    <3>1. /\ fl' = [fl EXCEPT ![f].todo = @ \ {k}, ![f].at = ItemOf(k), ![f].pc = "zero"]
          /\ table' = table
      BY <1>7, <2>3 DEF VisitAggregate
    <3>2. Stays(f, "zero", ItemOf(k), fl[f].batch, fl[f].doomed)
      BY <1>2, <1>3, <3>1 DEF StateOK, JobsOK, Stays, OtherJobs, Flush, FlushPhases
    <3> QED
      BY <1>1, <1>2, <2>1, <3>1, <3>2 DEF Visits
  <2> QED
    BY <2>2, <2>3
<1> QED
  BY <1>1, <1>2, <1>4, <1>5, <1>6, <1>7

\* The value and the count of an average are set to zero.
LEMMA ZeroEffect ==
  ASSUME StateOK, NEW f \in Flushers, fl[f].at.gen # 0, FlushZero(f)
  PROVE  /\ fl[f].pc = "zero"
         /\ Stays(f, "reset", fl[f].at, fl[f].batch, fl[f].doomed)
         /\ \/ ~AtLive(f) /\ UNCHANGED table
            \/ /\ AtLive(f)
               /\ Rewrites(fl[f].at.key, {}, {}, table[fl[f].at.key].seen, table[fl[f].at.key].flushed)
<1>1. fl[f] \in Flush /\ fl[f].at.key \in Keys
  BY DEF StateOK, JobsOK, Flush, Item
<1>2. Stays(f, "reset", fl[f].at, fl[f].batch, fl[f].doomed)
  BY <1>1 DEF FlushZero, StateOK, JobsOK, Stays, OtherJobs, Flush, FlushPhases
<1>3. CASE AtLive(f)
  <2>1. table[fl[f].at.key] \in Entry
    BY <1>1, <1>3, LiveIsEntry DEF AtLive, StateOK
  <2>2. table' = [table EXCEPT ![fl[f].at.key].sum = {}, ![fl[f].at.key].cnt = {}]
    BY <1>3 DEF FlushZero, Zeroed
  <2>3. Rewrites(fl[f].at.key, {}, {}, table[fl[f].at.key].seen, table[fl[f].at.key].flushed)
    BY <1>1, <2>1, <2>2 DEF Rewrites, OtherKeys, StateOK, TableOK, Entry, Counts
  <2> QED
    BY <1>2, <1>3, <2>3 DEF FlushZero
<1> QED
  BY <1>2, <1>3 DEF FlushZero, Zeroed

\* flushed_ms of an aggregate is reset.
LEMMA ResetEffect ==
  ASSUME StateOK, NEW f \in Flushers, fl[f].at.gen # 0, FlushReset(f)
  PROVE  /\ fl[f].pc = "reset"
         /\ Stays(f, "produce", fl[f].at, fl[f].batch, fl[f].doomed)
         /\ \/ ~AtLive(f) /\ UNCHANGED table
            \/ /\ AtLive(f)
               /\ Rewrites(fl[f].at.key, {}, {}, table[fl[f].at.key].seen, 0)
<1>1. fl[f] \in Flush /\ fl[f].at.key \in Keys
  BY DEF StateOK, JobsOK, Flush, Item
<1>2. Stays(f, "produce", fl[f].at, fl[f].batch, fl[f].doomed)
  BY <1>1 DEF FlushReset, StateOK, JobsOK, Stays, OtherJobs, Flush, FlushPhases
<1>3. CASE AtLive(f)
  <2>1. table[fl[f].at.key] \in Entry
    BY <1>1, <1>3, LiveIsEntry DEF AtLive, StateOK
  <2>2. table' = [table EXCEPT ![fl[f].at.key].sum = {}, ![fl[f].at.key].cnt = {}, ![fl[f].at.key].flushed = 0]
    BY <1>3 DEF FlushReset, ResetValue
  <2>3. Rewrites(fl[f].at.key, {}, {}, table[fl[f].at.key].seen, 0)
    BY <1>1, <2>1, <2>2 DEF Rewrites, OtherKeys, StateOK, TableOK, Entry, Counts
  <2> QED
    BY <1>2, <1>3, <2>3 DEF FlushReset
<1> QED
  BY <1>2, <1>3 DEF FlushReset, ResetValue

\* The message that job f has made of the entry it is at.
MessageOf(f) == [key |-> fl[f].at.key, sum |-> fl[f].at.sum, cnt |-> fl[f].at.cnt]

\* Job f produces its message, or fails to.
Produces(f) ==
  \/ /\ topic' = Append(topic, MessageOf(f)) /\ UNCHANGED excused
     /\ \/ ~AtLive(f) /\ UNCHANGED table
        \/ /\ AtLive(f)
           /\ Rewrites(fl[f].at.key, table[fl[f].at.key].sum, table[fl[f].at.key].cnt,
                       table[fl[f].at.key].seen, fl[f].start)
  \/ /\ UNCHANGED <<topic, table>>
     /\ excused' \in [Keys -> SUBSET Updates]
     /\ \A j \in Keys : excused[j] \subseteq excused'[j]
     /\ fl[f].at.sum \subseteq excused'[fl[f].at.key]

\* The message is produced, or the produce fails and its updates are excused.
LEMMA ProduceEffect ==
  ASSUME StateOK, NEW f \in Flushers, fl[f].at.gen # 0, FlushProduce(f)
  PROVE  /\ fl[f].pc = "produce"
         /\ Stays(f, "visit", NoItem, fl[f].batch, fl[f].doomed)
         /\ MessageOf(f) \in Message
         /\ Produces(f)
<1>1. fl[f] \in Flush /\ fl[f].at.key \in Keys /\ fl[f].at \in Item /\ NoItem \in Item
  BY SomeKey DEF StateOK, JobsOK, Flush, Item, NoItem, Counts
<1>2. Stays(f, "visit", NoItem, fl[f].batch, fl[f].doomed)
  BY <1>1 DEF FlushProduce, StateOK, JobsOK, Stays, OtherJobs, Flush, FlushPhases
<1>3. MessageOf(f) \in Message
  BY <1>1 DEF MessageOf, Message, Item
<1>4. CASE /\ topic' = Append(topic, MessageOf(f))
           /\ table' = IF AtLive(f)
                       THEN [table EXCEPT ![fl[f].at.key].flushed = fl[f].start] ELSE table
           /\ UNCHANGED excused
  <2>1. CASE AtLive(f)
    <3>1. table[fl[f].at.key] \in Entry /\ fl[f].start \in Nat
      BY <1>1, <2>1, LiveIsEntry DEF AtLive, StateOK, Flush
    <3>2. table' = [table EXCEPT ![fl[f].at.key].flushed = fl[f].start]
      BY <1>4, <2>1
    <3>3. Rewrites(fl[f].at.key, table[fl[f].at.key].sum, table[fl[f].at.key].cnt,
                       table[fl[f].at.key].seen, fl[f].start)
      BY <1>1, <3>1, <3>2 DEF Rewrites, OtherKeys, StateOK, TableOK, Entry
    <3> QED
      BY <1>2, <1>3, <1>4, <2>1, <3>3 DEF FlushProduce, Produces
  <2> QED
    BY <1>2, <1>3, <1>4, <2>1 DEF FlushProduce, Produces
<1>5. CASE /\ excused' = [excused EXCEPT ![fl[f].at.key] = @ \cup fl[f].at.sum]
           /\ UNCHANGED <<topic, table>>
  <2>1. fl[f].at.sum \subseteq Updates
    BY <1>1 DEF Item
  <2>2. /\ excused' \in [Keys -> SUBSET Updates]
        /\ \A j \in Keys : excused[j] \subseteq excused'[j]
        /\ fl[f].at.sum \subseteq excused'[fl[f].at.key]
    BY <1>1, <1>5, <2>1 DEF StateOK, HistoryOK
  <2> QED
    BY <1>2, <1>3, <1>5, <2>2 DEF FlushProduce, Produces
<1> QED
  BY <1>4, <1>5 DEF FlushProduce, MessageOf

\* Job f stamps the entries of its JSON.
Stamps(f) ==
  /\ TableOK'
  /\ \A k \in Keys :
       \/ table'[k] = table[k] /\ \A i \in fl[f].batch : i.key = k => i.gen # table[k].gen
       \/ /\ \E i \in fl[f].batch : i.key = k /\ i.gen = table[k].gen
          /\ table'[k].gen = table[k].gen /\ table'[k].sum = table[k].sum
          /\ table'[k].cnt = table[k].cnt /\ table'[k].seen = table[k].seen
          /\ table'[k].flushed = now

\* The journal write: what was read is reported and stamped, or nothing is.
LEMMA JournalEffect ==
  ASSUME StateOK, NEW f \in Flushers, \A i \in fl[f].batch : i.gen # 0, FlushJournal(f)
  PROVE  /\ fl[f].pc = "visit"
         /\ \/ reports' = reports \cup fl[f].batch /\ Stamps(f)
            \/ UNCHANGED <<reports, table>>
         /\ \E pc \in {"visit", "delete"} : Stays(f, pc, fl[f].at, {}, fl[f].doomed)
<1>1. fl[f] \in Flush
  BY DEF StateOK, JobsOK
<1>2. CASE /\ reports' = reports \cup fl[f].batch
           /\ table' = Stamped(f)
           /\ fl' = [fl EXCEPT ![f].batch = {}, ![f].pc = IF Visited(f) THEN "delete" ELSE "visit"]
  <2>1. PICK pc \in {"visit", "delete"} : fl' = [fl EXCEPT ![f].batch = {}, ![f].pc = pc]
    BY <1>2
  <2>2. Stays(f, pc, fl[f].at, {}, fl[f].doomed)
    BY <1>1, <2>1 DEF StateOK, JobsOK, Stays, OtherJobs, Flush, FlushPhases
  <2>3. ASSUME NEW k \in Keys
        PROVE  /\ table'[k] \in Entry \cup {NoEntry}
               /\ \/ table'[k] = table[k] /\ \A i \in fl[f].batch : i.key = k => i.gen # table[k].gen
                  \/ /\ \E i \in fl[f].batch : i.key = k /\ i.gen = table[k].gen
                     /\ table'[k].gen = table[k].gen /\ table'[k].sum = table[k].sum
                     /\ table'[k].cnt = table[k].cnt /\ table'[k].seen = table[k].seen
                     /\ table'[k].flushed = now
    <3>1. CASE \E i \in fl[f].batch : i.key = k /\ i.gen = table[k].gen
      <4>1. table[k] \in Entry
        BY <3>1, LiveIsEntry DEF StateOK
      <4>2. table'[k] = [table[k] EXCEPT !.flushed = now]
        BY <1>2, <3>1 DEF Stamped
      <4> QED
        BY <3>1, <4>1, <4>2 DEF Entry, StateOK
    <3>2. CASE ~ \E i \in fl[f].batch : i.key = k /\ i.gen = table[k].gen
      BY <1>2, <3>2 DEF Stamped, StateOK, TableOK
    <3> QED
      BY <3>1, <3>2
  <2>4. Stamps(f)
    BY <1>2, <2>3 DEF Stamps, TableOK, Stamped
  <2> QED
    BY <1>2, <2>2, <2>4 DEF FlushJournal
<1>3. CASE /\ fl' = [fl EXCEPT ![f].batch = {}, ![f].todo = {}, ![f].pc = "delete"]
           /\ UNCHANGED <<reports, table>>
  <2>1. Stays(f, "delete", fl[f].at, {}, fl[f].doomed)
    BY <1>1, <1>3 DEF StateOK, JobsOK, Stays, OtherJobs, Flush, FlushPhases
  <2> QED
    BY <1>3, <2>1 DEF FlushJournal
<1> QED
  BY <1>2, <1>3 DEF FlushJournal

\* The doomed entries are deleted one by one, then the job ends.
LEMMA DeleteEffect ==
  ASSUME StateOK, NEW f \in Flushers, FlushDelete(f)
  PROVE  /\ fl[f].pc = "delete" /\ JobsOK' /\ OtherJobs(f)
         /\ \/ \E k \in fl[f].doomed :
                 /\ k \in Keys /\ TableOK' /\ OtherKeys(k) /\ table'[k] = NoEntry
                 /\ Stays(f, "delete", fl[f].at, fl[f].batch, fl[f].doomed \ {k})
            \/ fl'[f] = IdleFlush /\ UNCHANGED table
<1>1. fl[f] \in Flush /\ fl[f].at.key \in Keys
  BY DEF StateOK, JobsOK, Flush, Item
<1>2. ASSUME NEW k \in fl[f].doomed, table' = [table EXCEPT ![k] = NoEntry],
             fl' = [fl EXCEPT ![f].doomed = @ \ {k}]
      PROVE  /\ k \in Keys /\ TableOK' /\ OtherKeys(k) /\ table'[k] = NoEntry
             /\ JobsOK' /\ OtherJobs(f)
             /\ Stays(f, "delete", fl[f].at, fl[f].batch, fl[f].doomed \ {k})
  <2>1. k \in Keys
    BY <1>1 DEF Flush
  <2>2. Stays(f, "delete", fl[f].at, fl[f].batch, fl[f].doomed \ {k})
    BY <1>1, <1>2 DEF FlushDelete, StateOK, JobsOK, Stays, OtherJobs, Flush, FlushPhases
  <2> QED
    BY <1>2, <2>1, <2>2 DEF OtherKeys, StateOK, TableOK, Stays
<1>3. IdleFlush \in Flush
  BY <1>1, IdleOK
<1>4. CASE /\ fl' = [fl EXCEPT ![f] = IdleFlush]
           /\ UNCHANGED table
  BY <1>1, <1>3, <1>4 DEF FlushDelete, StateOK, JobsOK, OtherJobs
<1> QED
  BY <1>2, <1>4 DEF FlushDelete

(***************************************************************************)
(* Type correctness: one lemma for each step.                              *)
(***************************************************************************)

\* The rest of TypeOK: the logs, the mutex, the numbers of the entries.
LogsOK ==
  /\ started \in Nat /\ inbox \subseteq Updates
  /\ topic \in Seq(Message) /\ taken \in 0..Len(topic)
  /\ reports \subseteq Item /\ overlapped \subseteq Keys
LocksOK == \A t, u \in Threads : th[t].locked /\ th[u].locked => t = u
GensOK == \A k \in Keys : table[k].gen <= born

\* TypeOK in the parts that the lemmas speak of.
LEMMA TypeParts ==
  /\ TypeOK  <=> StateOK  /\ LogsOK  /\ LocksOK  /\ GensOK
  /\ TypeOK' <=> StateOK' /\ LogsOK' /\ LocksOK' /\ GensOK'
BY DEF TypeOK, StateOK, LogsOK, LocksOK, GensOK, TableOK, ThreadsOK, JobsOK, HistoryOK, Message

\* The inductive invariant of the types, taken apart.
Parts == StateOK /\ LogsOK /\ LocksOK /\ GensOK /\ Pointers /\ Times /\ Kinds

\* The same for the inductive invariant.
LEMMA InvParts == (TypeInv <=> Parts) /\ (TypeInv' <=> Parts')
BY TypeParts DEF TypeInv, Parts

\* A pointer that is held is never 0, the number of NoEntry.
LEMMA PointersNotNil ==
  ASSUME Pointers, StateOK
  PROVE  /\ \A t \in Threads : Busy(t) => th[t].gen # 0
         /\ \A f \in Flushers : AtWork(f) => fl[f].at.gen # 0
         /\ \A f \in Flushers : \A i \in fl[f].batch : i.gen # 0
BY DEF Pointers, StateOK

\* The types of the fields of entries, threads and jobs.
LEMMA FieldTypes ==
  ASSUME StateOK
  PROVE  /\ \A k \in Keys : table[k].gen \in Nat /\ table[k].sum \subseteq Updates
              /\ table[k].seen \in Nat /\ table[k].flushed \in Nat /\ table[k].cnt \in Counts
         /\ \A t \in Threads : th[t].key \in Keys /\ th[t].sum \subseteq Updates /\ th[t].gen \in Nat
              /\ th[t].cnt \in Counts /\ th[t].locked \in BOOLEAN /\ th[t].pc \in ThreadPhases
         /\ \A f \in Flushers : fl[f].at.key \in Keys /\ fl[f].start \in Nat
              /\ fl[f].batch \subseteq Item /\ fl[f].doomed \subseteq Keys /\ fl[f].at \in Item
              /\ fl[f].pc \in FlushPhases
<1>1. TableOK /\ ThreadsOK /\ JobsOK
  BY DEF StateOK
<1>2. \A k \in Keys : table[k] \in Entry \cup {NoEntry}
  BY <1>1 DEF TableOK
<1>3. \A t \in Threads : th[t] \in Thread
  BY <1>1 DEF ThreadsOK
<1>4. \A f \in Flushers : fl[f] \in Flush
  BY <1>1 DEF JobsOK
<1>5. \A e \in Entry \cup {NoEntry} : e.gen \in Nat /\ e.sum \subseteq Updates
              /\ e.seen \in Nat /\ e.flushed \in Nat /\ e.cnt \in Counts
  BY DEF Entry, NoEntry, Counts
<1>6. \A x \in Thread : x.key \in Keys /\ x.sum \subseteq Updates /\ x.gen \in Nat
              /\ x.cnt \in Counts /\ x.locked \in BOOLEAN /\ x.pc \in ThreadPhases
  BY DEF Thread
<1>7. \A x \in Flush : x.at.key \in Keys /\ x.start \in Nat
              /\ x.batch \subseteq Item /\ x.doomed \subseteq Keys /\ x.at \in Item
              /\ x.pc \in FlushPhases
  BY DEF Flush, Item
<1> QED
  BY <1>2, <1>3, <1>4, <1>5, <1>6, <1>7

\* The invariant holds of a team that was just created.
LEMMA InitTyped == Init => TypeInv
<1> SUFFICES ASSUME Init PROVE Parts
  BY InvParts
<1>1. NoEntry.gen = 0 /\ NoEntry.seen = 0 /\ NoEntry.flushed = 0
  BY DEF NoEntry
<1>2. IdleThread.pc = "idle" /\ IdleThread.locked = FALSE /\ IdleThread.sum = {} /\ IdleThread.cnt = {}
  BY DEF IdleThread
<1>3. IdleFlush.pc = "idle" /\ IdleFlush.batch = {} /\ IdleFlush.doomed = {}
  BY DEF IdleFlush
<1>4. NoKey \in Keys
  <2>1. PICK u : u \in Updates
    BY TableAssumption
  <2> QED
    BY <2>1, SomeKey DEF Keys
<1>5. IdleThread \in Thread /\ IdleFlush \in Flush
  BY <1>4, IdleOK
<1>6. StateOK
  BY <1>5 DEF Init, StateOK, TableOK, ThreadsOK, JobsOK, HistoryOK
<1>7. LogsOK
  BY DEF Init, LogsOK, Updates
<1>8. LocksOK /\ GensOK
  BY <1>1, <1>2 DEF Init, LocksOK, GensOK
<1>9. Pointers /\ Times /\ Kinds
  BY <1>1, <1>2, <1>3 DEF Init, Pointers, Times, Kinds, Busy, AtWork
<1> QED
  BY <1>6, <1>7, <1>8, <1>9 DEF Parts

LEMMA CallTyped == ASSUME TypeInv, NEW t \in Threads, Call(t) PROVE TypeInv'
<1> USE InvParts DEF Parts
<1>1. PICK u \in inbox :
           /\ t \in Handlers /\ th[t].pc = "idle"
           /\ inbox' = inbox \ {u}
           /\ ThreadsOK' /\ OtherThreads(t)
           /\ th'[t].pc = "find" /\ th'[t].key = u.key /\ th'[t].sum = {u}
           /\ th'[t].cnt = (IF IsAverage(u.key) THEN {u} ELSE {})
           /\ th'[t].gen = 0 /\ th'[t].locked = FALSE
  BY CallEffect DEF LogsOK
<1>2. UNCHANGED <<now, table, born, fl, started, topic, taken, reports, done,
                 excused, overlapped>>
  BY DEF Call
<1>3. StateOK'
  BY <1>1, <1>2 DEF StateOK, TableOK, JobsOK, HistoryOK
<1>4. LogsOK' /\ LocksOK' /\ GensOK'
  BY <1>1, <1>2 DEF LogsOK, LocksOK, GensOK, OtherThreads
<1>5. Pointers' /\ Times' /\ Kinds'
  BY <1>1, <1>2 DEF Pointers, Times, Kinds, Busy, AtWork, OtherThreads
<1> QED
  BY <1>3, <1>4, <1>5

LEMMA CallAggregateTyped == ASSUME TypeInv, CallAggregate PROVE TypeInv'
<1> USE InvParts DEF Parts
<1>1. /\ taken + 1 \in 1..Len(topic) /\ taken' = taken + 1 /\ topic[taken + 1] \in Message
      /\ ThreadsOK' /\ OtherThreads(Aggregator)
      /\ th'[Aggregator].pc = "find" /\ th'[Aggregator].key = TotalKey(topic[taken + 1].key)
      /\ th'[Aggregator].locked = FALSE
  BY CallAggregateEffect DEF LogsOK
<1>2. UNCHANGED <<now, inbox, table, born, fl, started, topic, reports, done,
                 excused, overlapped>>
  BY DEF CallAggregate
<1>3. TotalKey(topic[taken + 1].key).aggregate = FALSE
  BY <1>1, KeysAreKeys DEF Message
<1>4. StateOK'
  BY <1>1, <1>2 DEF StateOK, TableOK, JobsOK, HistoryOK
<1>5. LogsOK' /\ LocksOK' /\ GensOK'
  BY <1>1, <1>2 DEF LogsOK, LocksOK, GensOK, OtherThreads
<1>6. Pointers' /\ Times' /\ Kinds'
  BY <1>1, <1>2, <1>3 DEF Pointers, Times, Kinds, Busy, AtWork, OtherThreads
<1> QED
  BY <1>4, <1>5, <1>6

\* The state of the threads after a step in which thread t goes on.
LEMMA MovesTyped ==
  ASSUME Parts, NEW t \in Threads, NEW pc, NEW gen, NEW locked, th[t].pc # "idle", pc # "idle",
         ThreadsOK', OtherThreads(t), Moves(t, pc, gen, locked)
  PROVE  /\ \A s \in Threads : th'[s].pc = "idle" => th'[s].sum = {} /\ th'[s].cnt = {}
         /\ \A s \in Threads : th'[s].pc # "idle" /\ th'[s].key.aggregate =>
              s \in Handlers /\ th'[s].sum # {} /\ (IsAverage(th'[s].key) => th'[s].cnt # {})
BY DEF Parts, Kinds, OtherThreads, Moves

LEMMA FindTyped == ASSUME TypeInv, NEW t \in Threads, Find(t) PROVE TypeInv'
<1> USE InvParts DEF Parts
<1>1. /\ th[t].pc = "find" /\ ThreadsOK' /\ OtherThreads(t) /\ NotesOverlap(t)
      /\ \/ Present(th[t].key) /\ Moves(t, "seen", table[th[t].key].gen, th[t].locked)
         \/ ~Present(th[t].key) /\ Moves(t, "lock", th[t].gen, th[t].locked)
  BY FindEffect
<1>2. UNCHANGED <<now, inbox, table, born, fl, started, topic, taken, reports,
                 done, overlapped>>
  BY DEF Find
<1>3. th[t].key \in Keys /\ (Present(th[t].key) => table[th[t].key].gen \in 1..born)
  BY FieldTypes, PresentIsEntry DEF StateOK, GensOK, Entry
<1>4. StateOK'
  BY <1>1, <1>2 DEF StateOK, TableOK, JobsOK, HistoryOK, NotesOverlap
<1>5. LogsOK' /\ LocksOK' /\ GensOK'
  BY <1>1, <1>2 DEF LogsOK, LocksOK, GensOK, OtherThreads, Moves
<1>6. Pointers' /\ Times'
  BY <1>1, <1>2, <1>3 DEF Pointers, Times, Busy, AtWork, OtherThreads, Moves
<1>7. Kinds'
  BY <1>1, <1>2, MovesTyped DEF Kinds, AtWork
<1> QED
  BY <1>4, <1>5, <1>6, <1>7

\* The state of the threads after a step in which thread t ends its update.
LEMMA EndsTyped ==
  ASSUME Parts, NEW t \in Threads, th'[t] = IdleThread, ThreadsOK', OtherThreads(t), born' \in Nat
  PROVE  /\ \A s \in Threads : th'[s].pc = "idle" => th'[s].sum = {} /\ th'[s].cnt = {}
         /\ \A s \in Threads : th'[s].pc # "idle" /\ th'[s].key.aggregate =>
              s \in Handlers /\ th'[s].sum # {} /\ (IsAverage(th'[s].key) => th'[s].cnt # {})
         /\ LocksOK'
         /\ born <= born' => \A s \in Threads : Busy(s)' => th'[s].gen \in 1..born'
BY DEF Parts, Kinds, OtherThreads, IdleThread, LocksOK, Pointers, Busy, StateOK

LEMMA LockTyped ==
  ASSUME TypeInv, NEW t \in Threads, LockAndCreate(t)
  PROVE  TypeInv'
<1> USE InvParts DEF Parts
<1>1. /\ th[t].pc = "lock" /\ MutexFree /\ ThreadsOK' /\ OtherThreads(t) /\ NotesOverlap(t)
      /\ \/ /\ Present(th[t].key) /\ Moves(t, "seen", table[th[t].key].gen, TRUE)
            /\ UNCHANGED <<table, born, done, fl>>
         \/ /\ ~Present(th[t].key) /\ th'[t] = IdleThread
            /\ TableOK' /\ OtherKeys(th[t].key)
            /\ table'[th[t].key] = NewEntry(t) /\ born' = born + 1
            /\ done' \in [Keys -> SUBSET Updates]
            /\ JobsOK' /\ \A f \in Flushers : SameJob(f)
  BY LockEffect
<1>2. UNCHANGED <<now, inbox, started, topic, taken, reports, overlapped>>
  BY DEF LockAndCreate
<1>3. th[t].key \in Keys /\ (Present(th[t].key) => table[th[t].key].gen \in 1..born)
  BY FieldTypes, PresentIsEntry DEF StateOK, GensOK, Entry
<1>4. CASE UNCHANGED <<table, born, done, fl>> /\ Present(th[t].key) /\ Moves(t, "seen", table[th[t].key].gen, TRUE)
  <2>1. StateOK'
    BY <1>1, <1>2, <1>4 DEF StateOK, TableOK, JobsOK, HistoryOK, NotesOverlap
  <2>2. LogsOK' /\ LocksOK' /\ GensOK'
    BY <1>1, <1>2, <1>4 DEF LogsOK, LocksOK, GensOK, OtherThreads, Moves, MutexFree
  <2>3. Pointers' /\ Times'
    BY <1>1, <1>2, <1>3, <1>4 DEF Pointers, Times, Busy, AtWork, OtherThreads, Moves
  <2>4. Kinds'
    BY <1>1, <1>2, <1>4, MovesTyped DEF Kinds, AtWork
  <2> QED
    BY <2>1, <2>2, <2>3, <2>4
<1>5. CASE  /\ ~Present(th[t].key) /\ th'[t] = IdleThread
            /\ TableOK' /\ OtherKeys(th[t].key)
            /\ table'[th[t].key] = NewEntry(t) /\ born' = born + 1
            /\ done' \in [Keys -> SUBSET Updates]
            /\ JobsOK' /\ \A f \in Flushers : SameJob(f)
  <2>1. StateOK'
    BY <1>1, <1>2, <1>5 DEF StateOK, HistoryOK, NotesOverlap
  <2>2. NewEntry(t).gen = born + 1 /\ NewEntry(t).seen = now /\ NewEntry(t).flushed = 0
    BY DEF NewEntry
  <2>3. LogsOK' /\ GensOK'
    BY <1>2, <1>3, <1>5, <2>2, FieldTypes DEF LogsOK, GensOK, OtherKeys, StateOK
  <2>4. born <= born' /\ born \in Nat /\ born' \in Nat
    BY <1>5 DEF StateOK
  <2>5. LocksOK' /\ \A s \in Threads : Busy(s)' => th'[s].gen \in 1..born'
    BY <1>1, <1>5, <2>4, EndsTyped
  <2>6. Pointers'
    BY <1>2, <1>5, <2>4, <2>5 DEF Pointers, AtWork, SameJob
  <2>7. Times'
    BY <1>2, <1>3, <1>5, <2>2 DEF Times, SameJob, OtherKeys, StateOK
  <2>8. Kinds'
    BY <1>1, <1>2, <1>5, <2>4, EndsTyped DEF Kinds, AtWork, SameJob
  <2> QED
    BY <2>1, <2>3, <2>5, <2>6, <2>7, <2>8
<1> QED
  BY <1>1, <1>4, <1>5

\* A step of an update of thread t on an entry.
LEMMA TouchTyped ==
  ASSUME TypeInv, NEW t \in Threads, Busy(t), ThreadsOK', OtherThreads(t),
         NEW pc \in {"add", "count"},
         Moves(t, pc, th[t].gen, th[t].locked) \/ th'[t] = IdleThread,
         NEW sum, NEW cnt, NEW seen \in {table[th[t].key].seen, now},
         table' = table \/ Rewrites(th[t].key, sum, cnt, seen, table[th[t].key].flushed),
         HistoryOK',
         UNCHANGED <<now, inbox, born, fl, started, topic, taken, reports, overlapped>>
  PROVE  TypeInv'
<1> USE InvParts DEF Parts
<1>1. StateOK'
  BY DEF StateOK, TableOK, JobsOK, Rewrites
<1>2. th[t].key \in Keys /\ born \in Nat /\ born' \in Nat
  BY FieldTypes, <1>1 DEF StateOK
<1>3. LogsOK' /\ GensOK'
  BY <1>2 DEF LogsOK, GensOK, OtherKeys, Rewrites
<1>4. Times'
  BY <1>2 DEF Times, OtherKeys, Rewrites, StateOK
<1>5. CASE Moves(t, pc, th[t].gen, th[t].locked)
  <2>1. LocksOK' /\ Pointers'
    BY <1>5 DEF LocksOK, Pointers, OtherThreads, Moves, Busy, AtWork
  <2>2. Kinds'
    <3>1. th[t].pc # "idle" /\ pc # "idle"
      BY DEF Busy
    <3> QED
      BY <1>5, <3>1, MovesTyped DEF Kinds, AtWork
  <2> QED
    BY <1>1, <1>3, <1>4, <2>1, <2>2
<1>6. CASE th'[t] = IdleThread
  <2>1. LocksOK' /\ Pointers'
    BY <1>2, <1>6, EndsTyped DEF Pointers, AtWork
  <2>2. Kinds'
    BY <1>2, <1>6, EndsTyped DEF Kinds, AtWork
  <2> QED
    BY <1>1, <1>3, <1>4, <2>1, <2>2
<1> QED
  BY <1>5, <1>6

LEMMA StoreSeenTyped ==
  ASSUME TypeInv, NEW t \in Threads, StoreSeen(t)
  PROVE  TypeInv'
<1>1. Parts /\ th[t].gen # 0 /\ Busy(t)
  BY InvParts, PointersNotNil DEF Parts, StoreSeen, Busy
<1>2. /\ ThreadsOK' /\ OtherThreads(t) /\ NotesOverlap(t)
      /\ Moves(t, "add", th[t].gen, th[t].locked)
      /\ table' = table \/ Rewrites(th[t].key, table[th[t].key].sum, table[th[t].key].cnt, now,
                                    table[th[t].key].flushed)
  BY <1>1, StoreSeenEffect DEF Parts
<1>3. UNCHANGED <<now, inbox, born, fl, started, topic, taken, reports, overlapped>> /\ HistoryOK'
  BY <1>1, <1>2 DEF StoreSeen, NotesOverlap, HistoryOK, StateOK, Parts
<1> QED
  BY <1>1, <1>2, <1>3, TouchTyped

LEMMA AddValueTyped ==
  ASSUME TypeInv, NEW t \in Threads, AddValue(t)
  PROVE  TypeInv'
<1>1. Parts /\ th[t].gen # 0 /\ Busy(t)
  BY InvParts, PointersNotNil DEF Parts, AddValue, Busy
<1>2. /\ ThreadsOK' /\ OtherThreads(t) /\ NotesOverlap(t)
      /\ \/ Moves(t, "count", th[t].gen, th[t].locked) /\ UNCHANGED done
         \/ Ends(t)
      /\ table' = table \/ Rewrites(th[t].key, table[th[t].key].sum \cup th[t].sum, table[th[t].key].cnt,
                           table[th[t].key].seen, table[th[t].key].flushed)
  BY <1>1, AddValueEffect DEF Parts
<1>3. UNCHANGED <<now, inbox, born, fl, started, topic, taken, reports, overlapped>> /\ HistoryOK'
  BY <1>1, <1>2 DEF AddValue, NotesOverlap, HistoryOK, StateOK, Parts, Ends
<1> QED
  BY <1>1, <1>2, <1>3, TouchTyped DEF Ends

LEMMA AddCountTyped ==
  ASSUME TypeInv, NEW t \in Threads, AddCount(t)
  PROVE  TypeInv'
<1>1. Parts /\ th[t].gen # 0 /\ Busy(t)
  BY InvParts, PointersNotNil DEF Parts, AddCount, Busy
<1>2. /\ ThreadsOK' /\ OtherThreads(t) /\ NotesOverlap(t) /\ Ends(t)
      /\ table' = table \/ Rewrites(th[t].key, table[th[t].key].sum, table[th[t].key].cnt \cup th[t].cnt,
                           table[th[t].key].seen, table[th[t].key].flushed)
  BY <1>1, AddCountEffect DEF Parts
<1>3. UNCHANGED <<now, inbox, born, fl, started, topic, taken, reports, overlapped>> /\ HistoryOK'
  BY <1>1, <1>2 DEF AddCount, NotesOverlap, HistoryOK, StateOK, Parts, Ends
<1> QED
  BY <1>1, <1>2, <1>3, TouchTyped DEF Ends

LEMMA MergeTyped ==
  ASSUME TypeInv, NEW t \in Threads, MergeHistogram(t)
  PROVE  TypeInv'
<1>1. Parts /\ th[t].gen # 0 /\ Busy(t)
  BY InvParts, PointersNotNil DEF Parts, MergeHistogram, Busy
<1>2. /\ ThreadsOK' /\ OtherThreads(t) /\ NotesOverlap(t) /\ Ends(t)
      /\ table' = table \/ Rewrites(th[t].key, table[th[t].key].sum \cup th[t].sum, table[th[t].key].cnt,
                           now, table[th[t].key].flushed)
  BY <1>1, MergeEffect DEF Parts
<1>3. UNCHANGED <<now, inbox, born, fl, started, topic, taken, reports, overlapped>> /\ HistoryOK'
  BY <1>1, <1>2 DEF MergeHistogram, NotesOverlap, HistoryOK, StateOK, Parts, Ends
<1> QED
  BY <1>1, <1>2, <1>3, TouchTyped DEF Ends

LEMMA BeginTyped ==
  ASSUME TypeInv, NEW f \in Flushers, FlushBegin(f)
  PROVE  TypeInv'
<1> USE InvParts DEF Parts
<1>1. /\ fl[f].pc = "idle" /\ JobsOK' /\ OtherJobs(f)
      /\ fl'[f].pc = "visit" /\ fl'[f].start = now
      /\ fl'[f].batch = {} /\ fl'[f].doomed = {}
  BY BeginEffect
<1>2. /\ started' = started + 1
      /\ UNCHANGED <<now, inbox, table, born, th, topic, taken, reports, done, excused, overlapped>>
  BY DEF FlushBegin
<1>3. StateOK'
  BY <1>1, <1>2 DEF StateOK, TableOK, ThreadsOK, HistoryOK
<1>4. LogsOK' /\ LocksOK' /\ GensOK'
  BY <1>2 DEF LogsOK, LocksOK, GensOK
<1>5. Pointers' /\ Times' /\ Kinds'
  BY <1>1, <1>2 DEF Pointers, Times, Kinds, Busy, AtWork, OtherJobs, StateOK
<1> QED
  BY <1>3, <1>4, <1>5

\* A step of flush job f that leaves the threads and the clock alone.
LEMMA JobTyped ==
  ASSUME TypeInv, NEW f \in Flushers, fl[f].pc # "idle",
         NEW pc, NEW at, NEW batch, NEW doomed, Stays(f, pc, at, batch, doomed),
         pc \in {"zero", "reset", "produce"} => at.gen \in 1..born /\ at.key.aggregate,
         \A i \in batch : i.gen \in 1..born /\ ~i.key.aggregate,
         TableOK',
         \A k \in Keys : table'[k].gen <= table[k].gen /\ table'[k].seen <= table[k].seen
                           /\ table'[k].flushed \in Nat /\ table'[k].flushed <= now,
         HistoryOK', LogsOK', reports' \subseteq reports \cup fl[f].batch,
         topic' = topic \/ (topic' = Append(topic, MessageOf(f)) /\ AtWork(f)),
         UNCHANGED <<now, born, th>>
  PROVE  TypeInv'
<1> USE InvParts DEF Parts
<1>1. StateOK'
  BY DEF StateOK, Stays, ThreadsOK
<1>2. LocksOK' /\ GensOK'
  <2>1. \A k \in Keys : table'[k].gen \in Nat /\ table[k].gen \in Nat
    BY <1>1, FieldTypes DEF StateOK, TableOK, Entry, NoEntry
  <2> QED
    BY <2>1 DEF LocksOK, GensOK, StateOK
<1>3. Pointers'
  BY DEF Pointers, Stays, OtherJobs, Busy, AtWork
<1>4. Times'
  <2>1. \A k \in Keys : table'[k].seen \in Nat /\ table[k].seen \in Nat
    BY <1>1, FieldTypes DEF StateOK, TableOK, Entry, NoEntry
  <2> QED
    BY <2>1 DEF Times, StateOK, Stays, OtherJobs
<1>5. Kinds'
  <2>1. \A n \in 1..Len(topic)' : topic'[n].key.aggregate
    <3>1. CASE topic' = topic
      BY <3>1 DEF Kinds
    <3>2. CASE topic' = Append(topic, MessageOf(f)) /\ AtWork(f)
      <4>1. MessageOf(f).key.aggregate
        BY <3>2 DEF MessageOf, Kinds
      <4>2. topic \in Seq(Message)
        BY DEF LogsOK
      <4> QED
        BY <3>2, <4>1, <4>2 DEF Kinds
    <3> QED
      BY <3>1, <3>2
  <2>2. \A g \in Flushers : (AtWork(g) => fl[g].at.key.aggregate)'
    BY DEF Kinds, Stays, OtherJobs, AtWork
  <2>3. \A g \in Flushers : \A i \in fl'[g].batch : ~i.key.aggregate
    BY DEF Kinds, Stays, OtherJobs
  <2>4. \A i \in reports' : ~i.key.aggregate
    BY DEF Kinds
  <2> QED
    BY <2>1, <2>2, <2>3, <2>4 DEF Kinds
<1> QED
  BY <1>1, <1>2, <1>3, <1>4, <1>5

LEMMA VisitTyped ==
  ASSUME TypeInv, NEW f \in Flushers, FlushVisit(f)
  PROVE  TypeInv'
<1>0. Parts
  BY InvParts
<1>1. fl[f].pc = "visit"
  BY <1>0, VisitEffect DEF Parts
<1>2. PICK k \in Keys : Visits(f, k)
  BY <1>0, VisitEffect DEF Parts
<1>3. UNCHANGED <<now, inbox, born, th, started, topic, taken, reports, done>>
  BY DEF FlushVisit
<1>4. ItemOf(k).gen \in 1..born /\ ItemOf(k).key = k
  BY <1>0, <1>2, PresentIsEntry DEF Visits, Parts, StateOK, GensOK, ItemOf, Entry
<1>5. HistoryOK' /\ LogsOK'
  BY <1>0, <1>2, <1>3 DEF Visits, Parts, StateOK, HistoryOK, LogsOK, Enters
<1>6. /\ TableOK'
      /\ \A j \in Keys : table'[j].gen = table[j].gen /\ table'[j].seen = table[j].seen
                           /\ table'[j].flushed = table[j].flushed
  BY <1>0, <1>2 DEF Visits, Rewrites, OtherKeys, Parts, StateOK, TableOK
<1>7. \A j \in Keys : table'[j].gen <= table[j].gen /\ table'[j].seen <= table[j].seen
                       /\ table'[j].flushed \in Nat /\ table'[j].flushed <= now
  BY <1>0, <1>6, FieldTypes DEF Parts, Times
<1>8. \A i \in fl[f].batch : i.gen \in 1..born /\ ~i.key.aggregate
  BY <1>0 DEF Parts, Pointers, Kinds
<1>9. \E pc, at, batch, doomed :
        /\ Stays(f, pc, at, batch, doomed)
        /\ pc \in {"zero", "reset", "produce"} => at.gen \in 1..born /\ at.key.aggregate
        /\ \A i \in batch : i.gen \in 1..born /\ ~i.key.aggregate
  <2>1. CASE Stays(f, "visit", fl[f].at, fl[f].batch, fl[f].doomed \cup {k})
    BY <1>8, <2>1
  <2>2. CASE Stays(f, "visit", fl[f].at, fl[f].batch, fl[f].doomed)
    BY <1>8, <2>2
  <2>3. CASE ~k.aggregate /\ Stays(f, "visit", fl[f].at, fl[f].batch \cup {ItemOf(k)}, fl[f].doomed)
    <3>1. \A i \in fl[f].batch \cup {ItemOf(k)} : i.gen \in 1..born /\ ~i.key.aggregate
      BY <1>4, <1>8, <2>3
    <3> QED
      BY <2>3, <3>1
  <2>4. CASE k.aggregate /\ Stays(f, "zero", ItemOf(k), fl[f].batch, fl[f].doomed)
    BY <1>4, <1>8, <2>4
  <2>5. CASE k.aggregate /\ Stays(f, "reset", ItemOf(k), fl[f].batch, fl[f].doomed)
    BY <1>4, <1>8, <2>5
  <2> QED
    BY <1>2, <2>1, <2>2, <2>3, <2>4, <2>5 DEF Visits
<1>10. reports' \subseteq reports \cup fl[f].batch /\ topic' = topic /\ fl[f].pc # "idle"
  BY <1>1, <1>3
<1> QED
  BY <1>3, <1>5, <1>6, <1>7, <1>9, <1>10, JobTyped

\* What job f has in hand is well formed, and stays so.
LEMMA InHand ==
  ASSUME TypeInv, NEW f \in Flushers
  PROVE  /\ AtWork(f) => fl[f].at.gen \in 1..born /\ fl[f].at.key.aggregate /\ fl[f].at.gen # 0
         /\ \A i \in fl[f].batch : i.gen \in 1..born /\ ~i.key.aggregate /\ i.gen # 0
         /\ fl[f].pc # "idle" => fl[f].start \in 1..now
         /\ fl[f].at.key \in Keys
BY InvParts, FieldTypes DEF Parts, Pointers, Kinds, Times, StateOK

\* A table in which the entry of one key got another value, and was not
\* flushed later than now.
LEMMA RewriteTyped ==
  ASSUME TypeInv, NEW k \in Keys, NEW sum, NEW cnt, NEW flushed \in Nat, flushed <= now,
         table' = table \/ Rewrites(k, sum, cnt, table[k].seen, flushed)
  PROVE  /\ TableOK'
         /\ \A j \in Keys : table'[j].gen <= table[j].gen /\ table'[j].seen <= table[j].seen
                             /\ table'[j].flushed \in Nat /\ table'[j].flushed <= now
BY InvParts, FieldTypes DEF Parts, StateOK, Times, Rewrites, OtherKeys, TableOK

LEMMA ZeroTyped ==
  ASSUME TypeInv, NEW f \in Flushers, FlushZero(f)
  PROVE  TypeInv'
<1>0. Parts /\ AtWork(f) /\ fl[f].pc # "idle"
  BY InvParts DEF AtWork, FlushZero
<1>1. /\ Stays(f, "reset", fl[f].at, fl[f].batch, fl[f].doomed)
      /\ table' = table \/ Rewrites(fl[f].at.key, {}, {}, table[fl[f].at.key].seen, table[fl[f].at.key].flushed)
  BY <1>0, InHand, ZeroEffect DEF Parts
<1>2. UNCHANGED <<now, inbox, born, th, started, topic, taken, reports, done, excused, overlapped>>
  BY DEF FlushZero
<1>3. HistoryOK' /\ LogsOK'
  BY <1>0, <1>2 DEF Parts, StateOK, HistoryOK, LogsOK
<1>4. table[fl[f].at.key].flushed \in Nat /\ table[fl[f].at.key].flushed <= now
  BY <1>0, InHand, FieldTypes DEF Parts, Times
<1> QED
  BY <1>0, <1>1, <1>2, <1>3, <1>4, InHand, RewriteTyped, JobTyped

LEMMA ResetTyped ==
  ASSUME TypeInv, NEW f \in Flushers, FlushReset(f)
  PROVE  TypeInv'
<1>0. Parts /\ AtWork(f) /\ fl[f].pc # "idle"
  BY InvParts DEF AtWork, FlushReset
<1>1. /\ Stays(f, "produce", fl[f].at, fl[f].batch, fl[f].doomed)
      /\ table' = table \/ Rewrites(fl[f].at.key, {}, {}, table[fl[f].at.key].seen, 0)
  BY <1>0, InHand, ResetEffect DEF Parts
<1>2. UNCHANGED <<now, inbox, born, th, started, topic, taken, reports, done, excused, overlapped>>
  BY DEF FlushReset
<1>3. HistoryOK' /\ LogsOK'
  BY <1>0, <1>2 DEF Parts, StateOK, HistoryOK, LogsOK
<1>4. 0 \in Nat /\ 0 <= now
  BY <1>0 DEF Parts, StateOK
<1> QED
  BY <1>0, <1>1, <1>2, <1>3, <1>4, InHand, RewriteTyped, JobTyped

LEMMA ProduceTyped ==
  ASSUME TypeInv, NEW f \in Flushers, FlushProduce(f)
  PROVE  TypeInv'
<1>0. Parts /\ AtWork(f) /\ fl[f].pc # "idle"
  BY InvParts DEF AtWork, FlushProduce
<1>1. /\ Stays(f, "visit", NoItem, fl[f].batch, fl[f].doomed)
      /\ MessageOf(f) \in Message /\ Produces(f)
  BY <1>0, InHand, ProduceEffect DEF Parts
<1>2. UNCHANGED <<now, inbox, born, th, started, taken, reports, done, overlapped>>
  BY DEF FlushProduce
<1>3. topic' = topic \/ topic' = Append(topic, MessageOf(f))
  BY <1>1 DEF Produces
<1>4. topic' \in Seq(Message) /\ taken' \in 0..Len(topic')
  BY <1>0, <1>1, <1>2, <1>3 DEF Parts, LogsOK
<1>5. HistoryOK' /\ LogsOK'
  BY <1>0, <1>1, <1>2, <1>4 DEF Parts, StateOK, HistoryOK, LogsOK, Produces
<1>6. fl[f].start \in Nat /\ fl[f].start <= now
  BY <1>0, InHand DEF Parts, StateOK
<1>7. table' = table \/ Rewrites(fl[f].at.key, table[fl[f].at.key].sum, table[fl[f].at.key].cnt,
                       table[fl[f].at.key].seen, fl[f].start)
  BY <1>1 DEF Produces
<1> QED
  BY <1>0, <1>1, <1>2, <1>3, <1>5, <1>6, <1>7, InHand, RewriteTyped, JobTyped

LEMMA JournalTyped ==
  ASSUME TypeInv, NEW f \in Flushers, FlushJournal(f)
  PROVE  TypeInv'
<1>0. Parts
  BY InvParts
<1>1. /\ fl[f].pc = "visit"
      /\ \/ reports' = reports \cup fl[f].batch /\ Stamps(f)
         \/ UNCHANGED <<reports, table>>
      /\ \E pc \in {"visit", "delete"} : Stays(f, pc, fl[f].at, {}, fl[f].doomed)
  BY <1>0, InHand, JournalEffect DEF Parts
<1>2. UNCHANGED <<now, inbox, born, th, started, topic, taken, done, excused, overlapped>>
  BY DEF FlushJournal
<1>3. HistoryOK' /\ LogsOK'
  BY <1>0, <1>1, <1>2, FieldTypes DEF Parts, StateOK, HistoryOK, LogsOK
<1>4. /\ TableOK'
      /\ \A j \in Keys : table'[j].gen <= table[j].gen /\ table'[j].seen <= table[j].seen
                          /\ table'[j].flushed \in Nat /\ table'[j].flushed <= now
  BY <1>0, <1>1, FieldTypes DEF Parts, StateOK, Times, Stamps, TableOK
<1> QED
  BY <1>0, <1>1, <1>2, <1>3, <1>4, InHand, JobTyped

LEMMA DeleteTyped ==
  ASSUME TypeInv, NEW f \in Flushers, FlushDelete(f)
  PROVE  TypeInv'
<1>0. Parts
  BY InvParts
<1>1. /\ fl[f].pc = "delete" /\ JobsOK' /\ OtherJobs(f)
      /\ \/ \E k \in fl[f].doomed :
              /\ k \in Keys /\ TableOK' /\ OtherKeys(k) /\ table'[k] = NoEntry
              /\ Stays(f, "delete", fl[f].at, fl[f].batch, fl[f].doomed \ {k})
         \/ fl'[f] = IdleFlush /\ UNCHANGED table
  BY <1>0, DeleteEffect DEF Parts
<1>2. UNCHANGED <<now, inbox, born, th, started, topic, taken, reports, done, excused, overlapped>>
  BY DEF FlushDelete
<1>3. HistoryOK' /\ LogsOK'
  BY <1>0, <1>2 DEF Parts, StateOK, HistoryOK, LogsOK
<1>4. NoEntry.gen = 0 /\ NoEntry.seen = 0 /\ NoEntry.flushed = 0
  BY DEF NoEntry
<1>5. CASE \E k \in fl[f].doomed :
              /\ k \in Keys /\ TableOK' /\ OtherKeys(k) /\ table'[k] = NoEntry
              /\ Stays(f, "delete", fl[f].at, fl[f].batch, fl[f].doomed \ {k})
  <2>1. PICK k \in fl[f].doomed :
              /\ k \in Keys /\ TableOK' /\ OtherKeys(k) /\ table'[k] = NoEntry
              /\ Stays(f, "delete", fl[f].at, fl[f].batch, fl[f].doomed \ {k})
    BY <1>5
  <2>2. \A j \in Keys : table'[j].gen <= table[j].gen /\ table'[j].seen <= table[j].seen
                          /\ table'[j].flushed \in Nat /\ table'[j].flushed <= now
    BY <1>0, <1>4, <2>1, FieldTypes DEF Parts, StateOK, Times, OtherKeys
  <2> QED
    BY <1>0, <1>1, <1>2, <1>3, <2>1, <2>2, InHand, JobTyped
<1>6. CASE fl'[f] = IdleFlush /\ UNCHANGED table
  <2>0. IdleFlush.pc = "idle" /\ IdleFlush.batch = {}
    BY DEF IdleFlush
  <2>1. StateOK'
    BY <1>0, <1>1, <1>2, <1>6 DEF Parts, StateOK, TableOK, ThreadsOK, HistoryOK
  <2>2. LocksOK' /\ GensOK'
    BY <1>0, <1>2, <1>6 DEF Parts, LocksOK, GensOK
  <2>3. Pointers' /\ Times' /\ Kinds'
    BY <1>0, <1>1, <1>2, <1>6, <2>0 DEF Parts, Pointers, Times, Kinds, Busy, AtWork, OtherJobs
  <2> QED
    BY <1>3, <2>1, <2>2, <2>3, InvParts DEF Parts
<1> QED
  BY <1>1, <1>5, <1>6

LEMMA TickTyped == ASSUME TypeInv, Tick PROVE TypeInv'
<1> USE InvParts DEF Parts
<1>1. /\ UNCHANGED <<inbox, table, born, th, fl, started, topic, taken, reports, done, excused, overlapped>>
      /\ now' \in Nat \ {0} /\ now <= now' /\ now \in Nat
  BY TableAssumption DEF Tick, StateOK
<1>2. StateOK' /\ LogsOK' /\ LocksOK' /\ GensOK'
  BY <1>1 DEF StateOK, TableOK, ThreadsOK, JobsOK, HistoryOK, LogsOK, LocksOK, GensOK
<1>3. Pointers' /\ Kinds'
  BY <1>1 DEF Pointers, Kinds, Busy, AtWork
<1>4. Times'
  BY <1>1, FieldTypes DEF Times
<1> QED
  BY <1>2, <1>3, <1>4

LEMMA UnchangedTyped == ASSUME TypeInv, UNCHANGED vars PROVE TypeInv'
<1> USE InvParts DEF Parts
<1>1. StateOK' /\ LogsOK' /\ LocksOK' /\ GensOK'
  BY DEF vars, StateOK, TableOK, ThreadsOK, JobsOK, HistoryOK, LogsOK, LocksOK, GensOK
<1>2. Pointers' /\ Kinds' /\ Times'
  BY DEF vars, Pointers, Kinds, Busy, AtWork, Times
<1> QED
  BY <1>1, <1>2

\* Every step keeps it.
LEMMA StepTyped == ASSUME TypeInv, [Next]_vars PROVE TypeInv'
BY CallTyped, CallAggregateTyped, FindTyped, LockTyped, StoreSeenTyped, AddValueTyped,
   AddCountTyped, MergeTyped, BeginTyped, VisitTyped, ZeroTyped, ResetTyped, ProduceTyped,
   JournalTyped, DeleteTyped, TickTyped, UnchangedTyped DEF Next, UpdateStep, FlushStep

\* tm_flush_team_metrics, update_* and their twins keep every field within its
\* type: in particular the team's mutex has one holder, and no entry has a number
\* that was not given out.
THEOREM TypeCorrect == Spec => []TypeOK
<1>1. Init => TypeInv
  BY InitTyped
<1>2. TypeInv /\ [Next]_vars => TypeInv'
  BY StepTyped
<1>3. TypeInv => TypeOK
  BY DEF TypeInv
<1> QED
  BY <1>1, <1>2, <1>3, PTL DEF Spec

=============================================================================
