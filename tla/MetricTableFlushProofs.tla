----------------------- MODULE MetricTableFlushProofs -----------------------
(***************************************************************************)
(* What flushes send, for any number of threads, flush jobs and calls:     *)
(* SentOnce, ReportsGrow and AveragesAgree of MetricTable.                 *)
(***************************************************************************)
EXTENDS MetricTableKeptProofs

(***************************************************************************)
(* Nothing is sent twice. Inductive together with the fact that a metric   *)
(* is an aggregate or not for good (Kinds), and that the history of        *)
(* overlaps tells when two jobs were at one entry.                         *)
(***************************************************************************)

\* Two jobs at one key have been noticed.
Alone == \A f, g \in Flushers, k \in Keys :
  f # g /\ AtKey(f, k) /\ AtKey(g, k) => k \in overlapped
\* Where they have not met, nobody deletes what a job is at.
StaysLive == \A f \in Flushers :
  AtWork(f) /\ fl[f].at.key \notin overlapped => AtLive(f)

\* Update u was added to the entry of key k, and perhaps sent since.
Spent(k, u) ==
  \/ u \in table[k].sum
  \/ \E f \in Flushers : AtWork(f) /\ fl[f].at.key = k /\ u \in fl[f].at.sum
  \/ \E n \in 1..Len(topic) : topic[n].key = k /\ u \in topic[n].sum
\* An update that is yet to be added, of a document that was not read or of a
\* thread that has not got that far, is nowhere else, and in one place.
Unspent ==
  /\ \A t \in Handlers : th[t].sum \cap inbox = {}
  /\ \A s, t \in Handlers : s # t => th[s].sum \cap th[t].sum = {}
  /\ \A k \in Keys : k.aggregate =>
       /\ \A u \in inbox : ~Spent(k, u)
       /\ \A t \in Handlers : th[t].pc # "count" => \A u \in th[t].sum : ~Spent(k, u)
\* An entry, the value a job has read of it since it was set to zero, and the
\* messages sent have no update in common.
Once == \A k \in Keys : k.aggregate /\ k \notin overlapped =>
  /\ \A n \in 1..Len(topic) : topic[n].key = k => table[k].sum \cap topic[n].sum = {}
  /\ \A f \in Flushers : fl[f].pc \in {"reset", "produce"} /\ fl[f].at.key = k =>
       table[k].sum \cap fl[f].at.sum = {}
  /\ \A f \in Flushers, n \in 1..Len(topic) : AtWork(f) /\ fl[f].at.key = k /\ topic[n].key = k =>
       fl[f].at.sum \cap topic[n].sum = {}
\* The inductive invariant.
SentInv == Alone /\ StaysLive /\ Unspent /\ Once /\ SentOnce

\* Thread t adds no more to the entry of an aggregate than it has to add.
Adds(t, k) ==
  \/ table'[k].sum = table[k].sum
  \/ /\ t \in Handlers /\ th[t].pc # "count"
     /\ table'[k].sum \subseteq table[k].sum \cup th[t].sum
     /\ th'[t].pc = "count" \/ th'[t].sum = {}

\* Thread t has nothing else to add after the step than before.
Goes(t) ==
  /\ th'[t].sum \subseteq th[t].sum
  /\ th[t].pc = "count" => th'[t].pc = "count" \/ th'[t].sum = {}

\* A thread that ends an update has nothing left to add.
LEMMA EndsIdle ==
  ASSUME NEW t \in Threads, Ends(t)
  PROVE  th'[t].pc = "idle" /\ th'[t].sum = {} /\ th'[t].cnt = {}
BY DEF Ends, IdleThread

\* What is spent after a step that no job takes was spent before, or was added.
LEMMA SameSpent ==
  ASSUME \A f \in Flushers : SameJob(f), UNCHANGED topic, NEW k \in Keys, NEW u, Spent(k, u)'
  PROVE  Spent(k, u) \/ (u \in table'[k].sum /\ u \notin table[k].sum)
BY DEF SameJob, Spent, AtWork

\* A step of an update keeps SentInv if the thread adds at most what it carries,
\* and carries it no further.
LEMMA UpdateSent ==
  ASSUME TypeInv, SentInv, NEW t \in Threads, OtherThreads(t),
         \A f \in Flushers : SameJob(f), UNCHANGED <<topic, overlapped, inbox>>,
         \A k \in Keys : table'[k].gen = table[k].gen \/ table[k].gen = 0,
         \A k \in Keys : k.aggregate => Adds(t, k),
         t \in Handlers => Goes(t)
  PROVE  SentInv'
<1>0. /\ \A f \in Flushers : fl[f].at.key \in Keys /\ (AtWork(f) => fl[f].at.gen # 0)
      /\ topic \in Seq(Message)
  BY InvParts, FieldTypes, PointersNotNil DEF Parts, LogsOK
<1>1. Alone'
  BY SameJobs DEF SentInv, Alone
<1>2. StaysLive'
  BY <1>0 DEF SentInv, StaysLive, SameJob, AtWork, AtLive
<1>3. \A s \in Handlers : s \in Threads /\ (s # t => th'[s] = th[s])
  BY DEF OtherThreads, Threads
<1>4. Unspent'
  <2>1. \A s \in Handlers : th'[s].sum \cap inbox' = {}
    BY <1>3 DEF SentInv, Unspent, Goes
  <2>2. \A r, s \in Handlers : r # s => th'[r].sum \cap th'[s].sum = {}
    BY <1>3 DEF SentInv, Unspent, Goes
  <2>3. ASSUME NEW k \in Keys, k.aggregate, NEW u, Spent(k, u)'
        PROVE  u \notin inbox /\ \A s \in Handlers : th'[s].pc # "count" => u \notin th'[s].sum
    <3>1. CASE Spent(k, u)
      BY <1>3, <2>3, <3>1 DEF SentInv, Unspent, Goes
    <3>2. CASE u \in table'[k].sum /\ u \notin table[k].sum
      <4>1. /\ t \in Handlers /\ u \in th[t].sum
            /\ th'[t].pc = "count" \/ th'[t].sum = {}
        BY <2>3, <3>2 DEF Adds
      <4> QED
        BY <1>3, <4>1 DEF SentInv, Unspent
    <3> QED
      BY <2>3, <3>1, <3>2, SameSpent
  <2> QED
    BY <2>1, <2>2, <2>3 DEF Unspent
<1>5. ASSUME NEW k \in Keys, k.aggregate, NEW u, u \in table'[k].sum, u \notin table[k].sum
      PROVE  ~Spent(k, u)
  <2>1. t \in Handlers /\ th[t].pc # "count" /\ u \in th[t].sum
    BY <1>5 DEF Adds
  <2> QED
    BY <1>5, <2>1 DEF SentInv, Unspent
<1>6. Once'
  <2> SUFFICES ASSUME NEW k \in Keys, k.aggregate, k \notin overlapped
               PROVE  /\ \A n \in 1..Len(topic) : topic[n].key = k => table'[k].sum \cap topic[n].sum = {}
                      /\ \A f \in Flushers : fl[f].pc \in {"reset", "produce"} /\ fl[f].at.key = k =>
                           table'[k].sum \cap fl[f].at.sum = {}
                      /\ \A f \in Flushers, n \in 1..Len(topic) : AtWork(f) /\ fl[f].at.key = k /\ topic[n].key = k =>
                           fl[f].at.sum \cap topic[n].sum = {}
    BY DEF Once, SameJob, AtWork
  <2>1. ASSUME NEW n \in 1..Len(topic), topic[n].key = k, NEW u \in table'[k].sum, u \in topic[n].sum
        PROVE  FALSE
    <3>1. u \notin table[k].sum
      BY <2>1 DEF SentInv, Once
    <3> QED
      BY <1>5, <2>1, <3>1 DEF Spent
  <2>2. ASSUME NEW f \in Flushers, fl[f].pc \in {"reset", "produce"}, fl[f].at.key = k,
               NEW u \in table'[k].sum, u \in fl[f].at.sum
        PROVE  FALSE
    <3>1. u \notin table[k].sum
      BY <2>2 DEF SentInv, Once
    <3> QED
      BY <1>5, <2>2, <3>1 DEF Spent, AtWork
  <2> QED
    BY <2>1, <2>2 DEF SentInv, Once
<1>7. SentOnce'
  BY DEF SentInv, SentOnce
<1> QED
  BY <1>1, <1>2, <1>4, <1>6, <1>7 DEF SentInv

LEMMA CallSent ==
  ASSUME TypeInv, SentInv, NEW t \in Threads, Call(t)
  PROVE  SentInv'
<1>1. PICK u \in inbox :
           /\ t \in Handlers
           /\ inbox' = inbox \ {u} /\ OtherThreads(t) /\ th'[t].sum = {u}
  BY InvParts, CallEffect DEF Parts, LogsOK
<1>2. UNCHANGED <<table, fl, topic, overlapped>>
  BY DEF Call
<1>3. \A s \in Handlers : s # t => th'[s] = th[s]
  BY <1>1 DEF OtherThreads, Threads
<1>4. \A k \in Keys : \A v : Spent(k, v)' <=> Spent(k, v)
  BY <1>2 DEF Spent, AtWork
<1>5. Unspent'
  BY <1>1, <1>3, <1>4 DEF SentInv, Unspent
<1>6. Alone' /\ StaysLive' /\ Once' /\ SentOnce'
  BY <1>2 DEF SentInv, Alone, AtKey, StaysLive, AtWork, AtLive, Once, SentOnce
<1> QED
  BY <1>5, <1>6 DEF SentInv

LEMMA CallAggregateSent ==
  ASSUME TypeInv, SentInv, CallAggregate
  PROVE  SentInv'
<1>1. OtherThreads(Aggregator) /\ Aggregator \in Threads /\ Aggregator \notin Handlers
  BY InvParts, CallAggregateEffect, TableAssumption DEF Parts, LogsOK, Threads
<1>2. UNCHANGED <<inbox, table, fl, topic, overlapped>>
  BY DEF CallAggregate
<1> QED
  BY <1>1, <1>2, SameJobsIfUnchanged, UpdateSent DEF Adds

LEMMA FindSent ==
  ASSUME TypeInv, SentInv, NEW t \in Threads, Find(t)
  PROVE  SentInv'
<1>1. /\ OtherThreads(t) /\ th[t].pc = "find"
      /\ th'[t].sum = th[t].sum
  BY InvParts, FindEffect DEF Parts, Moves
<1>2. UNCHANGED <<inbox, table, fl, topic, overlapped>>
  BY DEF Find
<1> QED
  BY <1>1, <1>2, SameJobsIfUnchanged, UpdateSent DEF Adds, Goes

\* Only handlers add to the entries of aggregates.
LEMMA HandlersAdd ==
  ASSUME TypeInv, NEW t \in Threads, th[t].pc # "idle", th[t].key.aggregate
  PROVE  t \in Handlers
BY DEF TypeInv, Kinds

LEMMA LockSent ==
  ASSUME TypeInv, SentInv, NEW t \in Threads, LockAndCreate(t)
  PROVE  SentInv'
<1>0. Parts /\ th[t].key \in Keys
  BY InvParts, FieldTypes DEF Parts
<1>1. /\ OtherThreads(t) /\ th[t].pc = "lock"
      /\ \/ /\ Moves(t, "seen", table[th[t].key].gen, TRUE)
            /\ UNCHANGED <<table, fl>>
         \/ /\ ~Present(th[t].key) /\ th'[t] = IdleThread
            /\ OtherKeys(th[t].key) /\ table'[th[t].key] = NewEntry(t)
            /\ \A f \in Flushers : SameJob(f)
  BY <1>0, LockEffect DEF Parts
<1>2. UNCHANGED <<inbox, topic, overlapped>>
  BY DEF LockAndCreate
<1>3. CASE Moves(t, "seen", table[th[t].key].gen, TRUE) /\ UNCHANGED <<table, fl>>
  BY <1>1, <1>2, <1>3, SameJobsIfUnchanged, UpdateSent DEF Adds, Goes, Moves
<1>4. CASE /\ ~Present(th[t].key) /\ th'[t] = IdleThread
           /\ OtherKeys(th[t].key) /\ table'[th[t].key] = NewEntry(t)
           /\ \A f \in Flushers : SameJob(f)
  <2>1. NewEntry(t).sum = th[t].sum /\ IdleThread.sum = {}
    BY DEF NewEntry, IdleThread
  <2>2. table[th[t].key].gen = 0
    BY <1>4 DEF Present, NoEntry
  <2>3. \A k \in Keys : table'[k].gen = table[k].gen \/ table[k].gen = 0
    BY <1>0, <1>4, <2>2 DEF OtherKeys
  <2>4. \A k \in Keys : k.aggregate => Adds(t, k)
    BY <1>1, <1>4, <2>1, HandlersAdd DEF Adds, OtherKeys
  <2>5. Goes(t)
    BY <1>4, <2>1 DEF Goes
  <2> QED
    BY <1>1, <1>2, <1>4, <2>3, <2>4, <2>5, UpdateSent
<1> QED
  BY <1>1, <1>3, <1>4

\* A step of an update on an entry adds what the thread carries, once.
LEMMA TouchSent ==
  ASSUME TypeInv, SentInv, NEW t \in Threads, Busy(t), OtherThreads(t),
         NEW sum, NEW cnt, NEW seen,
         table' = table \/ Rewrites(th[t].key, sum, cnt, seen, table[th[t].key].flushed),
         th[t].key.aggregate => \/ sum = table[th[t].key].sum
                                \/ /\ sum \subseteq table[th[t].key].sum \cup th[t].sum
                                   /\ th[t].pc # "count"
                                   /\ th'[t].pc = "count" \/ th'[t].sum = {},
         Goes(t), UNCHANGED <<inbox, fl, topic, overlapped>>
  PROVE  SentInv'
<1>1. th[t].key \in Keys /\ th[t].pc # "idle"
  BY InvParts, FieldTypes DEF Parts, Busy
<1>2. \A k \in Keys : table'[k].gen = table[k].gen \/ table[k].gen = 0
  BY <1>1 DEF Rewrites, OtherKeys
<1>3. \A k \in Keys : k.aggregate => Adds(t, k)
  BY <1>1, HandlersAdd DEF Adds, Rewrites, OtherKeys
<1> QED
  BY <1>2, <1>3, SameJobsIfUnchanged, UpdateSent

LEMMA StoreSeenSent ==
  ASSUME TypeInv, SentInv, NEW t \in Threads, StoreSeen(t)
  PROVE  SentInv'
<1>0. Parts /\ th[t].gen # 0 /\ Busy(t)
  BY InvParts, PointersNotNil DEF Parts, StoreSeen, Busy
<1>1. /\ OtherThreads(t) /\ th[t].pc = "seen" /\ th'[t].sum = th[t].sum
      /\ \/ table' = table
         \/ Rewrites(th[t].key, table[th[t].key].sum, table[th[t].key].cnt, now,
                     table[th[t].key].flushed)
  BY <1>0, StoreSeenEffect DEF Parts, Moves
<1>2. UNCHANGED <<inbox, fl, topic, overlapped>> /\ Goes(t)
  BY <1>1 DEF StoreSeen, Goes
<1> QED
  BY <1>0, <1>1, <1>2, TouchSent

LEMMA AddValueSent ==
  ASSUME TypeInv, SentInv, NEW t \in Threads, AddValue(t)
  PROVE  SentInv'
<1>0. Parts /\ th[t].gen # 0 /\ Busy(t)
  BY InvParts, PointersNotNil DEF Parts, AddValue, Busy
<1>1. /\ OtherThreads(t) /\ th[t].pc = "add"
      /\ (th'[t].pc = "count" /\ th'[t].sum = th[t].sum) \/ th'[t].sum = {}
      /\ \/ table' = table
         \/ Rewrites(th[t].key, table[th[t].key].sum \cup th[t].sum, table[th[t].key].cnt,
                     table[th[t].key].seen, table[th[t].key].flushed)
  BY <1>0, AddValueEffect, EndsIdle DEF Parts, Moves
<1>2. UNCHANGED <<inbox, fl, topic, overlapped>> /\ Goes(t)
  BY <1>1 DEF AddValue, Goes
<1> QED
  BY <1>0, <1>1, <1>2, TouchSent

LEMMA AddCountSent ==
  ASSUME TypeInv, SentInv, NEW t \in Threads, AddCount(t)
  PROVE  SentInv'
<1>0. Parts /\ th[t].gen # 0 /\ Busy(t)
  BY InvParts, PointersNotNil DEF Parts, AddCount, Busy
<1>1. /\ OtherThreads(t) /\ th'[t].sum = {}
      /\ \/ table' = table
         \/ Rewrites(th[t].key, table[th[t].key].sum, table[th[t].key].cnt \cup th[t].cnt,
                     table[th[t].key].seen, table[th[t].key].flushed)
  BY <1>0, AddCountEffect, EndsIdle DEF Parts
<1>2. UNCHANGED <<inbox, fl, topic, overlapped>> /\ Goes(t)
  BY <1>1 DEF AddCount, Goes
<1> QED
  BY <1>0, <1>1, <1>2, TouchSent

LEMMA MergeSent ==
  ASSUME TypeInv, SentInv, NEW t \in Threads, MergeHistogram(t)
  PROVE  SentInv'
<1>0. Parts /\ th[t].gen # 0 /\ Busy(t) /\ th[t].pc = "seen"
  BY InvParts, PointersNotNil DEF Parts, MergeHistogram, Busy
<1>1. /\ OtherThreads(t) /\ th'[t].sum = {}
      /\ \/ table' = table
         \/ Rewrites(th[t].key, table[th[t].key].sum \cup th[t].sum, table[th[t].key].cnt,
                     now, table[th[t].key].flushed)
  BY <1>0, MergeEffect, EndsIdle DEF Parts
<1>2. UNCHANGED <<inbox, fl, topic, overlapped>> /\ Goes(t)
  BY <1>1 DEF MergeHistogram, Goes
<1> QED
  BY <1>0, <1>1, <1>2, TouchSent

\* Job f goes on with what it has read, or reads the entry of a key.
Reads(f) ==
  AtWork(f)' => \/ AtWork(f) /\ fl'[f].at = fl[f].at
                \/ /\ ~AtWork(f) /\ fl'[f].at.key \in Keys
                   /\ fl'[f].at.gen = table[fl'[f].at.key].gen
                   /\ fl'[f].at.sum = table[fl'[f].at.key].sum

\* Once an aggregate was set to zero it has nothing of what was read of it.
Zeroes(f) ==
  fl'[f].pc \in {"reset", "produce"} /\ fl'[f].at.key \notin overlapped' =>
    \/ fl[f].pc \in {"reset", "produce"} /\ fl'[f].at = fl[f].at
    \/ table'[fl'[f].at.key].sum = {}

\* Job f produces the message it has in hand, and leaves the aggregate.
Sends(f) == topic' = Append(topic, MessageOf(f)) /\ fl[f].pc = "produce" /\ ~AtWork(f)'

\* A flush job moves what is spent, and spends nothing.
LEMMA SpentByJob ==
  ASSUME TypeInv, NEW f \in Flushers, OtherJobs(f), Reads(f), topic' = topic \/ Sends(f),
         \A k \in Keys : table'[k].sum \subseteq table[k].sum,
         NEW k \in Keys, NEW u, Spent(k, u)'
  PROVE  Spent(k, u)
<1>0. topic \in Seq(Message)
  BY InvParts DEF Parts, LogsOK
<1>1. CASE u \in table'[k].sum
  BY <1>1 DEF Spent
<1>2. CASE \E g \in Flushers : AtWork(g)' /\ fl'[g].at.key = k /\ u \in fl'[g].at.sum
  <2>1. PICK g \in Flushers : AtWork(g)' /\ fl'[g].at.key = k /\ u \in fl'[g].at.sum
    BY <1>2
  <2>2. CASE g = f
    BY <2>1, <2>2 DEF Reads, Spent
  <2>3. CASE g # f
    BY <2>1, <2>3 DEF OtherJobs, Spent, AtWork
  <2> QED
    BY <2>2, <2>3
<1>3. CASE \E n \in 1..Len(topic') : topic'[n].key = k /\ u \in topic'[n].sum
  <2>1. PICK n \in 1..Len(topic') : topic'[n].key = k /\ u \in topic'[n].sum
    BY <1>3
  <2>2. CASE n \in 1..Len(topic) /\ topic'[n] = topic[n]
    BY <2>1, <2>2 DEF Spent
  <2>3. CASE Sends(f) /\ topic'[n] = MessageOf(f)
    BY <2>1, <2>3 DEF Spent, Sends, MessageOf, AtWork
  <2> QED
    BY <1>0, <2>1, <2>2, <2>3 DEF Sends
<1> QED
  BY <1>1, <1>2, <1>3 DEF Spent

\* A step of a job keeps SentInv if it records whom it meets at a metric, and an
\* aggregate that it leaves behind was set to zero.
LEMMA JobSent ==
  ASSUME TypeInv, TypeInv', SentInv, NEW f \in Flushers, OtherJobs(f), UNCHANGED <<th, inbox>>,
         overlapped \subseteq overlapped', Reads(f), Zeroes(f), topic' = topic \/ Sends(f),
         \A k \in Keys : table'[k].sum \subseteq table[k].sum,
         \A k \in Keys : table'[k].gen = table[k].gen \/ (k \in fl[f].doomed /\ ~AtWork(f)'),
         \A k \in Keys : AtKey(f, k)' =>
           AtKey(f, k) \/ ((\E g \in Flushers \ {f} : AtKey(g, k)) => k \in overlapped')
  PROVE  SentInv'
<1>0. /\ topic \in Seq(Message)
      /\ \A g \in Flushers : fl[g].at.key \in Keys
      /\ \A g \in Flushers : fl'[g].at.key \in Keys
  BY InvParts, InHand, FieldTypes DEF Parts, LogsOK, StateOK, JobsOK, Flush, Item
<1>1. \A g \in Flushers : g # f => fl'[g] = fl[g] /\ (AtWork(g)' <=> AtWork(g))
  BY DEF OtherJobs, AtWork
<1>2. \A g \in Flushers, k \in Keys : g # f => (AtKey(g, k)' <=> AtKey(g, k))
  BY <1>1 DEF AtKey
<1>3. Alone'
  <2> SUFFICES ASSUME NEW g \in Flushers, NEW h \in Flushers, NEW k \in Keys, g # h,
                      AtKey(g, k)', AtKey(h, k)'
               PROVE  k \in overlapped'
    BY DEF Alone
  <2>1. CASE g # f /\ h # f
    BY <1>2, <2>1 DEF SentInv, Alone
  <2>2. CASE g = f
    BY <1>2, <2>2 DEF SentInv, Alone
  <2>3. CASE h = f
    BY <1>2, <2>3 DEF SentInv, Alone
  <2> QED
    BY <2>1, <2>2, <2>3
<1>4. StaysLive'
  <2> SUFFICES ASSUME NEW g \in Flushers, AtWork(g)', fl'[g].at.key \notin overlapped'
               PROVE  table'[fl'[g].at.key].gen = fl'[g].at.gen
    BY DEF StaysLive, AtLive
  <2>1. CASE g = f
    <3>1. table'[fl'[f].at.key].gen = table[fl'[f].at.key].gen
      BY <1>0, <2>1
    <3> QED
      BY <2>1, <3>1 DEF Reads, SentInv, StaysLive, AtLive
  <2>2. CASE g # f
    <3>1. AtWork(g) /\ fl'[g] = fl[g] /\ AtKey(g, fl[g].at.key)
      BY <1>1, <2>2 DEF AtKey, AtWork
    <3>2. fl[g].at.key \notin fl[f].doomed
      <4>1. SUFFICES ASSUME fl[g].at.key \in fl[f].doomed PROVE FALSE
        OBVIOUS
      <4>2. AtKey(f, fl[g].at.key)
        BY <4>1 DEF AtKey
      <4> QED
        BY <1>0, <2>2, <3>1, <4>2 DEF SentInv, Alone
    <3> QED
      BY <1>0, <3>1, <3>2 DEF SentInv, StaysLive, AtLive
  <2> QED
    BY <2>1, <2>2
<1>5. Unspent'
  <2>1. \A k \in Keys : \A u : Spent(k, u)' => Spent(k, u)
    BY SpentByJob
  <2> QED
    BY <2>1 DEF SentInv, Unspent
<1>6. ASSUME NEW k \in Keys, k.aggregate, k \notin overlapped', NEW n \in 1..Len(topic'), topic'[n].key = k
      PROVE  \/ n \in 1..Len(topic) /\ topic'[n] = topic[n]
             \/ Sends(f) /\ topic'[n] = MessageOf(f) /\ fl[f].at.key = k /\ topic'[n].sum = fl[f].at.sum /\ n = Len(topic) + 1
  BY <1>0, <1>6 DEF Sends, MessageOf
<1>7. ASSUME NEW k \in Keys, k.aggregate, k \notin overlapped', NEW n \in 1..Len(topic'), topic'[n].key = k
      PROVE  table[k].sum \cap topic'[n].sum = {}
  BY <1>6, <1>7 DEF SentInv, Once, Sends
<1>8. ASSUME NEW k \in Keys, k.aggregate, k \notin overlapped',
             NEW g \in Flushers, fl'[g].pc \in {"reset", "produce"}, fl'[g].at.key = k
      PROVE  table'[k].sum \cap fl'[g].at.sum = {}
  <2>1. CASE g = f
    <3>1. CASE table'[k].sum = {}
      BY <3>1
    <3>2. CASE fl[f].pc \in {"reset", "produce"} /\ fl'[f].at = fl[f].at
      BY <1>8, <2>1, <3>2 DEF SentInv, Once
    <3> QED
      BY <1>8, <2>1, <3>1, <3>2 DEF Zeroes
  <2>2. CASE g # f
    BY <1>1, <1>8, <2>2 DEF SentInv, Once
  <2> QED
    BY <2>1, <2>2
<1>9. ASSUME NEW k \in Keys, k.aggregate, k \notin overlapped', NEW g \in Flushers,
             NEW n \in 1..Len(topic'), AtWork(g)', fl'[g].at.key = k, topic'[n].key = k
      PROVE  fl'[g].at.sum \cap topic'[n].sum = {}
  <2>1. CASE g = f
    <3>1. topic' = topic
      BY <1>9, <2>1 DEF Sends
    <3>2. CASE AtWork(f) /\ fl'[f].at = fl[f].at
      BY <1>9, <2>1, <3>1, <3>2 DEF SentInv, Once
    <3>3. CASE fl'[f].at.sum = table[fl'[f].at.key].sum
      BY <1>7, <1>9, <2>1, <3>3
    <3> QED
      BY <1>9, <2>1, <3>2, <3>3 DEF Reads
  <2>2. CASE g # f
    <3>1. AtWork(g) /\ fl'[g] = fl[g]
      BY <1>1, <1>9, <2>2
    <3>2. CASE n \in 1..Len(topic) /\ topic'[n] = topic[n]
      BY <1>9, <3>1, <3>2 DEF SentInv, Once
    <3>3. CASE Sends(f) /\ fl[f].at.key = k
      <4>1. AtKey(f, k) /\ AtKey(g, k)
        BY <1>9, <3>1, <3>3 DEF AtKey, AtWork, Sends
      <4> QED
        BY <1>9, <2>2, <4>1 DEF SentInv, Alone
    <3> QED
      BY <1>6, <1>9, <3>2, <3>3
  <2> QED
    BY <2>1, <2>2
<1>10. Once'
  BY <1>7, <1>8, <1>9 DEF Once
<1>11. SentOnce'
  <2> SUFFICES ASSUME NEW m \in 1..Len(topic'), NEW n \in 1..Len(topic'), m # n,
                      topic'[m].key = topic'[n].key, topic'[m].key \notin overlapped'
               PROVE  topic'[m].sum \cap topic'[n].sum = {}
    BY DEF SentOnce
  <2> DEFINE k == topic'[m].key
  <2>1. topic' \in Seq(Message)
    BY InvParts DEF Parts, LogsOK
  <2>2. k \in Keys /\ k.aggregate /\ k \notin overlapped
    <3>1. topic'[m] \in Message
      BY <2>1
    <3>2. Kinds'
      BY InvParts DEF Parts
    <3> QED
      BY <3>1, <3>2 DEF Kinds, Message
  <2>3. CASE m \in 1..Len(topic) /\ topic'[m] = topic[m] /\ n \in 1..Len(topic) /\ topic'[n] = topic[n]
    BY <2>3 DEF SentInv, SentOnce
  <2>4. ASSUME NEW i \in 1..Len(topic'), NEW j \in 1..Len(topic'), topic'[i].key = k, topic'[j].key = k,
               i \in 1..Len(topic), topic'[i] = topic[i],
               Sends(f), fl[f].at.key = k, topic'[j].sum = fl[f].at.sum
        PROVE  topic'[i].sum \cap topic'[j].sum = {}
    <3>1. AtWork(f) /\ topic[i].key = k
      BY <2>4 DEF Sends, AtWork
    <3>2. fl[f].at.sum \cap topic[i].sum = {}
      BY <2>2, <2>4, <3>1 DEF SentInv, Once
    <3> QED
      BY <2>4, <3>2
  <2> QED
    BY <1>6, <2>2, <2>3, <2>4
<1> QED
  BY <1>3, <1>4, <1>5, <1>10, <1>11 DEF SentInv

LEMMA BeginSent ==
  ASSUME TypeInv, TypeInv', SentInv, NEW f \in Flushers, FlushBegin(f)
  PROVE  SentInv'
<1>1. /\ fl[f].pc = "idle" /\ OtherJobs(f)
      /\ fl'[f].pc = "visit" /\ fl'[f].batch = {} /\ fl'[f].doomed = {}
  BY InvParts, BeginEffect DEF Parts
<1>2. UNCHANGED <<table, th, inbox, topic, overlapped>>
  BY DEF FlushBegin
<1>3. \A k \in Keys : ~AtKey(f, k)'
  BY <1>1 DEF AtKey
<1>4. Reads(f) /\ Zeroes(f)
  BY <1>1 DEF Reads, Zeroes, AtWork
<1> QED
  BY <1>1, <1>2, <1>3, <1>4, JobSent

LEMMA VisitSent ==
  ASSUME TypeInv, TypeInv', SentInv, NEW f \in Flushers, FlushVisit(f)
  PROVE  SentInv'
<1>0. Parts
  BY InvParts
<1>1. fl[f].pc = "visit" /\ ~AtWork(f)
  BY <1>0, VisitEffect DEF Parts, AtWork
<1>2. PICK k \in Keys : Visits(f, k)
  BY <1>0, VisitEffect DEF Parts
<1>3. UNCHANGED <<th, inbox, topic>>
  BY DEF FlushVisit
<1>4. /\ OtherJobs(f) /\ overlapped \subseteq overlapped'
      /\ \A j \in Keys : table'[j].sum \subseteq table[j].sum /\ table'[j].gen = table[j].gen
  BY <1>2 DEF Visits, Stays, Enters, Rewrites, OtherKeys
<1>5. ItemOf(k).key = k /\ ItemOf(k).sum = table[k].sum /\ ItemOf(k).gen = table[k].gen
  BY DEF ItemOf
<1>6. \A j \in Keys : AtKey(f, j)' => AtKey(f, j) \/ (j = k /\ Enters(f, k))
  BY <1>2, <1>5 DEF Visits, AtKey, Stays
<1>7. \A j \in Keys : AtKey(f, j)' =>
           AtKey(f, j) \/ ((\E g \in Flushers \ {f} : AtKey(g, j)) => j \in overlapped')
  BY <1>6 DEF Enters
<1>8. Reads(f) /\ Zeroes(f)
  BY <1>1, <1>2, <1>5 DEF Visits, Stays, Reads, Zeroes, AtWork, Rewrites
<1> QED
  BY <1>3, <1>4, <1>7, <1>8, JobSent

\* A step of job f that is at an aggregate and reads nothing.
LEMMA WorkSent ==
  ASSUME TypeInv, TypeInv', SentInv, NEW f \in Flushers, UNCHANGED <<th, inbox, overlapped>>,
         NEW pc, NEW at, NEW batch, NEW doomed,
         Stays(f, pc, at, batch, doomed), batch \subseteq fl[f].batch, doomed \subseteq fl[f].doomed,
         pc \in {"visit", "delete"} \/ (AtWork(f) /\ at = fl[f].at), Zeroes(f),
         topic' = topic \/ Sends(f),
         \A k \in Keys : table'[k].sum \subseteq table[k].sum,
         \A k \in Keys : table'[k].gen = table[k].gen \/ (k \in fl[f].doomed /\ ~AtWork(f)')
  PROVE  SentInv'
<1>1. OtherJobs(f)
  BY DEF Stays
<1>2. \A k \in Keys : AtKey(f, k)' => AtKey(f, k)
  BY DEF AtKey, Stays, AtWork
<1>3. Reads(f)
  BY DEF Reads, Stays, AtWork
<1> QED
  BY <1>1, <1>2, <1>3, JobSent

LEMMA ZeroSent ==
  ASSUME TypeInv, TypeInv', SentInv, NEW f \in Flushers, FlushZero(f)
  PROVE  SentInv'
<1>0. Parts /\ AtWork(f) /\ fl[f].at.key \in Keys
  BY InvParts, InHand DEF AtWork, FlushZero
<1>1. /\ Stays(f, "reset", fl[f].at, fl[f].batch, fl[f].doomed)
      /\ \/ ~AtLive(f) /\ UNCHANGED table
         \/ /\ AtLive(f)
            /\ Rewrites(fl[f].at.key, {}, {}, table[fl[f].at.key].seen, table[fl[f].at.key].flushed)
  BY <1>0, InHand, ZeroEffect DEF Parts
<1>2. UNCHANGED <<th, inbox, topic, overlapped>>
  BY DEF FlushZero
<1>3. \A k \in Keys : table'[k].sum \subseteq table[k].sum /\ table'[k].gen = table[k].gen
  BY <1>1 DEF Rewrites, OtherKeys
<1>4. fl[f].at.key \notin overlapped => table'[fl[f].at.key].sum = {}
  BY <1>0, <1>1 DEF SentInv, StaysLive, Rewrites
<1>5. Zeroes(f)
  BY <1>1, <1>2, <1>4 DEF Zeroes, Stays
<1> QED
  BY <1>0, <1>1, <1>2, <1>3, <1>5, WorkSent

LEMMA ResetSent ==
  ASSUME TypeInv, TypeInv', SentInv, NEW f \in Flushers, FlushReset(f)
  PROVE  SentInv'
<1>0. Parts /\ AtWork(f) /\ fl[f].pc = "reset"
  BY InvParts DEF AtWork, FlushReset
<1>1. /\ Stays(f, "produce", fl[f].at, fl[f].batch, fl[f].doomed)
      /\ table' = table \/ Rewrites(fl[f].at.key, {}, {}, table[fl[f].at.key].seen, 0)
  BY <1>0, InHand, ResetEffect DEF Parts
<1>2. UNCHANGED <<th, inbox, topic, overlapped>>
  BY DEF FlushReset
<1>3. \A k \in Keys : table'[k].sum \subseteq table[k].sum /\ table'[k].gen = table[k].gen
  BY <1>1 DEF Rewrites, OtherKeys
<1>4. Zeroes(f)
  BY <1>0, <1>1 DEF Zeroes, Stays
<1> QED
  BY <1>0, <1>1, <1>2, <1>3, <1>4, WorkSent

LEMMA ProduceSent ==
  ASSUME TypeInv, TypeInv', SentInv, NEW f \in Flushers, FlushProduce(f)
  PROVE  SentInv'
<1>0. Parts /\ AtWork(f) /\ fl[f].pc = "produce"
  BY InvParts DEF AtWork, FlushProduce
<1>1. Stays(f, "visit", NoItem, fl[f].batch, fl[f].doomed) /\ Produces(f)
  BY <1>0, InHand, ProduceEffect DEF Parts
<1>2. UNCHANGED <<th, inbox, overlapped>>
  BY DEF FlushProduce
<1>3. \A k \in Keys : table'[k].sum \subseteq table[k].sum /\ table'[k].gen = table[k].gen
  BY <1>1 DEF Produces, Rewrites, OtherKeys
<1>4. Zeroes(f) /\ ~AtWork(f)'
  BY <1>1 DEF Zeroes, Stays, AtWork
<1>5. topic' = topic \/ Sends(f)
  BY <1>0, <1>1, <1>4 DEF Produces, Sends
<1> QED
  BY <1>1, <1>2, <1>3, <1>4, <1>5, WorkSent

LEMMA JournalSent ==
  ASSUME TypeInv, TypeInv', SentInv, NEW f \in Flushers, FlushJournal(f)
  PROVE  SentInv'
<1>1. /\ Stamps(f) \/ UNCHANGED table
      /\ \E pc \in {"visit", "delete"} : Stays(f, pc, fl[f].at, {}, fl[f].doomed)
  BY InvParts, InHand, JournalEffect DEF Parts
<1>2. UNCHANGED <<th, inbox, topic, overlapped>>
  BY DEF FlushJournal
<1>3. \A k \in Keys : table'[k].sum \subseteq table[k].sum /\ table'[k].gen = table[k].gen
  BY <1>1 DEF Stamps
<1>4. Zeroes(f)
  BY <1>1 DEF Zeroes, Stays
<1> QED
  BY <1>1, <1>2, <1>3, <1>4, WorkSent

LEMMA DeleteSent ==
  ASSUME TypeInv, TypeInv', SentInv, NEW f \in Flushers, FlushDelete(f)
  PROVE  SentInv'
<1>1. /\ fl[f].pc = "delete" /\ OtherJobs(f)
      /\ \/ \E k \in fl[f].doomed :
              /\ k \in Keys /\ OtherKeys(k) /\ table'[k] = NoEntry
              /\ Stays(f, "delete", fl[f].at, fl[f].batch, fl[f].doomed \ {k})
         \/ fl'[f] = IdleFlush /\ UNCHANGED table
  BY InvParts, DeleteEffect DEF Parts
<1>2. UNCHANGED <<th, inbox, topic, overlapped>>
  BY DEF FlushDelete
<1>3. CASE \E k \in fl[f].doomed :
              /\ k \in Keys /\ OtherKeys(k) /\ table'[k] = NoEntry
              /\ Stays(f, "delete", fl[f].at, fl[f].batch, fl[f].doomed \ {k})
  <2>1. PICK k \in fl[f].doomed :
              /\ k \in Keys /\ OtherKeys(k) /\ table'[k] = NoEntry
              /\ Stays(f, "delete", fl[f].at, fl[f].batch, fl[f].doomed \ {k})
    BY <1>3
  <2>2. ~AtWork(f)' /\ Zeroes(f)
    BY <2>1 DEF Stays, AtWork, Zeroes
  <2>3. \A j \in Keys : table'[j].sum \subseteq table[j].sum
    BY <2>1 DEF OtherKeys, NoEntry
  <2>4. \A j \in Keys : table'[j].gen = table[j].gen \/ (j \in fl[f].doomed /\ ~AtWork(f)')
    BY <2>1, <2>2 DEF OtherKeys
  <2> QED
    BY <1>2, <2>1, <2>2, <2>3, <2>4, WorkSent
<1>4. CASE fl'[f] = IdleFlush /\ UNCHANGED table
  <2>1. Reads(f) /\ Zeroes(f) /\ \A k \in Keys : ~AtKey(f, k)'
    BY <1>4 DEF Reads, Zeroes, AtWork, AtKey, IdleFlush
  <2> QED
    BY <1>1, <1>2, <1>4, <2>1, JobSent
<1> QED
  BY <1>1, <1>3, <1>4

\* The clock does not matter.
LEMMA IdleSent ==
  ASSUME SentInv, UNCHANGED <<inbox, table, th, fl, topic, overlapped>>
  PROVE  SentInv'
BY DEF SentInv, Alone, StaysLive, Unspent, Once, SentOnce, Spent, AtWork, AtKey, AtLive

\* Nothing was added yet.
LEMMA InitSent == Init => SentInv
<1> SUFFICES ASSUME Init PROVE SentInv
  OBVIOUS
<1>1. \A t \in Handlers : th[t].sum = {}
  BY DEF Init, IdleThread, Threads
<1>2. \A f \in Flushers : ~AtWork(f) /\ \A k \in Keys : ~AtKey(f, k)
  BY DEF Init, IdleFlush, AtWork, AtKey
<1>3. \A k \in Keys : table[k].sum = {}
  BY DEF Init, NoEntry
<1>4. topic = <<>>
  BY DEF Init
<1>5. \A k \in Keys : \A u : ~Spent(k, u)
  BY <1>2, <1>3, <1>4 DEF Spent
<1>6. Unspent
  BY <1>1, <1>5 DEF Unspent
<1>7. Alone /\ StaysLive /\ SentOnce
  BY <1>2, <1>4 DEF Alone, StaysLive, SentOnce
<1>8. Once
  BY <1>3, <1>4 DEF Once
<1> QED
  BY <1>6, <1>7, <1>8 DEF SentInv

\* Every step keeps SentInv.
LEMMA StepSent ==
  ASSUME TypeInv, TypeInv', SentInv, [Next]_vars
  PROVE  SentInv'
<1>1. CASE Tick \/ UNCHANGED vars
  BY <1>1, IdleSent DEF Tick, vars
<1> QED
  BY <1>1, CallSent, CallAggregateSent, FindSent, LockSent, StoreSeenSent, AddValueSent,
     AddCountSent, MergeSent, BeginSent, VisitSent, ZeroSent, ResetSent, ProduceSent,
     JournalSent, DeleteSent DEF Next, UpdateStep, FlushStep

\* No update is in two messages of one aggregated metric, and none is both in a
\* message and in the entry that will make the next: rd_kafka_produce of a value
\* comes with setting that value to zero. Metrics at which two flush jobs met are
\* excepted.
THEOREM NothingSentTwice == Spec => []SentOnce
<1>1. Init => TypeInv /\ SentInv
  BY InitTyped, InitSent
<1>2. TypeInv /\ SentInv /\ [Next]_vars => (TypeInv /\ SentInv)'
  BY StepTyped, StepSent
<1>3. SentInv => SentOnce
  BY DEF SentInv
<1> QED
  BY <1>1, <1>2, <1>3, PTL DEF Spec

(***************************************************************************)
(* Reports of one incarnation of a metric grow.                            *)
(***************************************************************************)

\* What was reported of the entry that is in the table is still in it, and so is
\* what a job has read for its JSON, which is all that was reported before.
Grows ==
  /\ \A i \in reports : i.gen = table[i.key].gen => i.sum \subseteq table[i.key].sum
  /\ \A f \in Flushers : \A i \in fl[f].batch :
       /\ i.gen = table[i.key].gen => i.sum \subseteq table[i.key].sum
       /\ \A j \in reports : j.key = i.key /\ j.gen = i.gen /\ i.key \notin overlapped =>
            j.sum \subseteq i.sum

\* The value of an entry that is reported only grows while it is in the table.
Keeps ==
  \A k \in Keys : ~k.aggregate =>
    \/ table'[k].gen = table[k].gen /\ table[k].sum \subseteq table'[k].sum
    \/ table'[k].gen \notin 1..born

\* What is reported, or about to be, is an entry of a metric that is no aggregate.
LEMMA ItemTypes ==
  ASSUME TypeInv
  PROVE  /\ \A i \in reports : i.key \in Keys /\ ~i.key.aggregate /\ i.gen \in 1..born
         /\ \A f \in Flushers : \A i \in fl[f].batch : i.key \in Keys /\ ~i.key.aggregate /\ i.gen \in 1..born
<1>1. /\ \A i \in reports : i \in Item
      /\ \A f \in Flushers : \A i \in fl[f].batch : i \in Item
  BY InvParts, FieldTypes DEF Parts, LogsOK
<1> QED
  BY <1>1, InvParts DEF Parts, Pointers, Kinds, Item

\* What was reported of an entry is still part of it after a step that keeps it.
LEMMA UpdateGrows ==
  ASSUME TypeInv, Grows, Keeps, \A f \in Flushers : fl'[f].batch \subseteq fl[f].batch,
         UNCHANGED reports, overlapped \subseteq overlapped'
  PROVE  Grows'
<1>1. ASSUME NEW i, i.key \in Keys, ~i.key.aggregate, i.gen \in 1..born,
             i.gen = table[i.key].gen => i.sum \subseteq table[i.key].sum
      PROVE  i.gen = table'[i.key].gen => i.sum \subseteq table'[i.key].sum
  BY <1>1 DEF Keeps
<1>2. \A i \in reports' : i.gen = table'[i.key].gen => i.sum \subseteq table'[i.key].sum
  BY <1>1, ItemTypes DEF Grows
<1>3. \A f \in Flushers : \A i \in fl'[f].batch :
        i.gen = table'[i.key].gen => i.sum \subseteq table'[i.key].sum
  BY <1>1, ItemTypes DEF Grows
<1>4. \A f \in Flushers : \A i \in fl'[f].batch : \A j \in reports' :
        j.key = i.key /\ j.gen = i.gen /\ i.key \notin overlapped' => j.sum \subseteq i.sum
  BY DEF Grows
<1> QED
  BY <1>2, <1>3, <1>4 DEF Grows

LEMMA KeepsIfSame ==
  ASSUME \A k \in Keys : ~k.aggregate => table'[k].gen = table[k].gen /\ table'[k].sum = table[k].sum
  PROVE  Keeps
BY DEF Keeps

\* Updates only add: no update_* takes a value out of a reported entry.
LEMMA ThreadGrows ==
  ASSUME TypeInv, Grows, NEW t \in Threads, Call(t) \/ UpdateStep(t)
  PROVE  Grows'
<1>0. Parts /\ th[t].key \in Keys /\ born \in Nat
  BY InvParts, FieldTypes DEF Parts, StateOK
<1>1. UNCHANGED <<reports, overlapped>>
  BY DEF Call, UpdateStep, Find, LockAndCreate, StoreSeen, AddValue, AddCount, MergeHistogram
<1>2. CASE LockAndCreate(t)
  <2>1. \/ UNCHANGED <<table, fl>>
        \/ /\ OtherKeys(th[t].key) /\ table'[th[t].key] = NewEntry(t)
           /\ \A f \in Flushers : SameJob(f)
    BY <1>0, <1>2, LockEffect DEF Parts
  <2>2. NewEntry(t).gen \notin 1..born
    BY <1>0 DEF NewEntry
  <2>3. Keeps /\ \A f \in Flushers : fl'[f].batch \subseteq fl[f].batch
    BY <1>0, <2>1, <2>2 DEF Keeps, OtherKeys, SameJob
  <2> QED
    BY <1>1, <2>3, UpdateGrows
<1>3. ASSUME NEW sum, NEW cnt, NEW seen, NEW flushed, UNCHANGED fl,
             table' = table \/ Rewrites(th[t].key, sum, cnt, seen, flushed),
             table[th[t].key].sum \subseteq sum
      PROVE  Grows'
  <2>1. Keeps /\ \A f \in Flushers : fl'[f].batch \subseteq fl[f].batch
    BY <1>0, <1>3 DEF Keeps, Rewrites, OtherKeys
  <2> QED
    BY <1>1, <2>1, UpdateGrows
<1>4. CASE Call(t) \/ Find(t)
  BY <1>3, <1>4 DEF Call, Find
<1>5. CASE StoreSeen(t)
  <2>1. th[t].gen # 0 /\ UNCHANGED fl
    BY <1>0, <1>5, PointersNotNil DEF Parts, StoreSeen, Busy
  <2>2. table' = table \/ Rewrites(th[t].key, table[th[t].key].sum, table[th[t].key].cnt, now,
                                   table[th[t].key].flushed)
    BY <1>0, <1>5, <2>1, StoreSeenEffect DEF Parts
  <2> QED
    BY <1>3, <2>1, <2>2
<1>6. CASE AddValue(t)
  <2>1. th[t].gen # 0 /\ UNCHANGED fl
    BY <1>0, <1>6, PointersNotNil DEF Parts, AddValue, Busy
  <2>2. table' = table \/ Rewrites(th[t].key, table[th[t].key].sum \cup th[t].sum, table[th[t].key].cnt,
                           table[th[t].key].seen, table[th[t].key].flushed)
    BY <1>0, <1>6, <2>1, AddValueEffect DEF Parts
  <2> QED
    BY <1>3, <2>1, <2>2
<1>7. CASE AddCount(t)
  <2>1. th[t].gen # 0 /\ UNCHANGED fl
    BY <1>0, <1>7, PointersNotNil DEF Parts, AddCount, Busy
  <2>2. table' = table \/ Rewrites(th[t].key, table[th[t].key].sum, table[th[t].key].cnt \cup th[t].cnt,
                           table[th[t].key].seen, table[th[t].key].flushed)
    BY <1>0, <1>7, <2>1, AddCountEffect DEF Parts
  <2> QED
    BY <1>3, <2>1, <2>2
<1>8. CASE MergeHistogram(t)
  <2>1. th[t].gen # 0 /\ UNCHANGED fl
    BY <1>0, <1>8, PointersNotNil DEF Parts, MergeHistogram, Busy
  <2>2. table' = table \/ Rewrites(th[t].key, table[th[t].key].sum \cup th[t].sum, table[th[t].key].cnt,
                           now, table[th[t].key].flushed)
    BY <1>0, <1>8, <2>1, MergeEffect DEF Parts
  <2> QED
    BY <1>3, <2>1, <2>2
<1> QED
  BY <1>2, <1>4, <1>5, <1>6, <1>7, <1>8 DEF UpdateStep

\* A step of a job that is not at the end of an iteration, and reads no value
\* for its JSON.
LEMMA JobGrows ==
  ASSUME TypeInv, Grows, Keeps, NEW f \in Flushers, OtherJobs(f), fl'[f].batch \subseteq fl[f].batch,
         UNCHANGED reports, overlapped \subseteq overlapped'
  PROVE  Grows'
<1>1. \A g \in Flushers : fl'[g].batch \subseteq fl[g].batch
  BY DEF OtherJobs
<1> QED
  BY <1>1, UpdateGrows

LEMMA BeginGrows ==
  ASSUME TypeInv, Grows, NEW f \in Flushers, FlushBegin(f)
  PROVE  Grows'
<1>1. OtherJobs(f) /\ fl'[f].batch \subseteq fl[f].batch
  BY InvParts, BeginEffect DEF Parts
<1>2. UNCHANGED <<table, reports, overlapped>>
  BY DEF FlushBegin
<1> QED
  BY <1>1, <1>2, KeepsIfSame, JobGrows

LEMMA VisitGrows ==
  ASSUME TypeInv, Grows, NEW f \in Flushers, FlushVisit(f)
  PROVE  Grows'
<1>0. Parts
  BY InvParts
<1>1. PICK k \in Keys : Visits(f, k)
  BY <1>0, VisitEffect DEF Parts
<1>2. UNCHANGED <<reports>>
  BY DEF FlushVisit
<1>3. CASE ~k.aggregate /\ Enters(f, k) /\ UNCHANGED table
           /\ Stays(f, "visit", fl[f].at, fl[f].batch \cup {ItemOf(k)}, fl[f].doomed)
  <2>1. overlapped \subseteq overlapped'
    BY <1>3 DEF Enters
  <2>2. ItemOf(k).key = k /\ ItemOf(k).gen = table[k].gen /\ ItemOf(k).sum = table[k].sum
    BY DEF ItemOf
  <2>3. \A j \in reports : j.key = k /\ j.gen = table[k].gen => j.sum \subseteq table[k].sum
    BY DEF Grows
  <2>4. ASSUME NEW g \in Flushers, NEW i \in fl'[g].batch
        PROVE  i = ItemOf(k) \/ i \in fl[g].batch
    BY <1>3, <2>4 DEF Stays, OtherJobs
  <2>5. \A g \in Flushers : \A i \in fl'[g].batch :
           /\ i.gen = table'[i.key].gen => i.sum \subseteq table'[i.key].sum
           /\ \A j \in reports' : j.key = i.key /\ j.gen = i.gen /\ i.key \notin overlapped' =>
                j.sum \subseteq i.sum
    BY <1>2, <1>3, <2>1, <2>2, <2>3, <2>4 DEF Grows
  <2> QED
    BY <1>2, <1>3, <2>5 DEF Grows
<1>4. CASE /\ OtherJobs(f) /\ fl'[f].batch = fl[f].batch /\ overlapped \subseteq overlapped'
           /\ table' = table \/ (k.aggregate /\ OtherKeys(k))
  <2>1. Keeps
    BY <1>4 DEF Keeps, OtherKeys
  <2> QED
    BY <1>2, <1>4, <2>1, JobGrows
<1> QED
  BY <1>1, <1>3, <1>4 DEF Visits, Stays, Enters, Rewrites

\* A step of job f at an aggregate leaves the entries that are reported alone.
LEMMA WorkGrows ==
  ASSUME TypeInv, Grows, NEW f \in Flushers, FlushZero(f) \/ FlushReset(f) \/ FlushProduce(f)
  PROVE  Grows'
<1>0. Parts /\ AtWork(f) /\ fl[f].at.gen # 0 /\ fl[f].at.key.aggregate
  BY InvParts, InHand DEF AtWork, FlushZero, FlushReset, FlushProduce
<1>1. UNCHANGED <<reports, overlapped>>
  BY DEF FlushZero, FlushReset, FlushProduce
<1>2. /\ OtherJobs(f) /\ fl'[f].batch = fl[f].batch
      /\ table' = table \/ OtherKeys(fl[f].at.key)
  <2>1. CASE FlushZero(f)
    BY <1>0, <2>1, ZeroEffect DEF Parts, Stays, Rewrites
  <2>2. CASE FlushReset(f)
    BY <1>0, <2>2, ResetEffect DEF Parts, Stays, Rewrites
  <2>3. CASE FlushProduce(f)
    BY <1>0, <2>3, ProduceEffect DEF Parts, Stays, Produces, Rewrites
  <2> QED
    BY <2>1, <2>2, <2>3
<1>3. Keeps
  BY <1>0, <1>2 DEF Keeps, OtherKeys
<1> QED
  BY <1>1, <1>2, <1>3, JobGrows

\* A journal write reports at least what was reported of the same entry before.
LEMMA JournalGrows ==
  ASSUME TypeInv, Alone, Grows, NEW f \in Flushers, FlushJournal(f)
  PROVE  Grows'
<1>1. /\ \/ reports' = reports \cup fl[f].batch /\ Stamps(f)
         \/ UNCHANGED <<reports, table>>
      /\ OtherJobs(f) /\ fl'[f].batch = {}
  BY InvParts, InHand, JournalEffect DEF Parts, Stays
<1>2. UNCHANGED overlapped
  BY DEF FlushJournal
<1>3. \A k \in Keys : table'[k].gen = table[k].gen /\ table'[k].sum = table[k].sum
  BY <1>1 DEF Stamps
<1>4. \A i \in reports' : i.key \in Keys /\ (i \in reports \/ i \in fl[f].batch)
  BY <1>1, ItemTypes
<1>5. \A i \in reports' : i.gen = table'[i.key].gen => i.sum \subseteq table'[i.key].sum
  BY <1>3, <1>4 DEF Grows
<1>6. ASSUME NEW g \in Flushers, NEW i \in fl'[g].batch
      PROVE  g # f /\ i \in fl[g].batch /\ i.key \in Keys
  BY <1>1, <1>6, ItemTypes DEF OtherJobs
<1>7. \A g \in Flushers : \A i \in fl'[g].batch :
        i.gen = table'[i.key].gen => i.sum \subseteq table'[i.key].sum
  BY <1>3, <1>6 DEF Grows
<1>8. ASSUME NEW g \in Flushers, NEW i \in fl'[g].batch, NEW j \in reports',
             j.key = i.key, j.gen = i.gen, i.key \notin overlapped
      PROVE  j.sum \subseteq i.sum
  <2>1. CASE j \in reports
    BY <1>6, <1>8, <2>1 DEF Grows
  <2>2. CASE j \in fl[f].batch
    <3>1. AtKey(f, i.key) /\ AtKey(g, i.key)
      BY <1>6, <1>8, <2>2 DEF AtKey
    <3> QED
      BY <1>6, <1>8, <3>1 DEF Alone
  <2> QED
    BY <1>4, <2>1, <2>2
<1> QED
  BY <1>2, <1>5, <1>7, <1>8 DEF Grows

LEMMA DeleteGrows ==
  ASSUME TypeInv, Grows, NEW f \in Flushers, FlushDelete(f)
  PROVE  Grows'
<1>1. /\ OtherJobs(f) /\ fl'[f].batch \subseteq fl[f].batch
      /\ table' = table \/ \E k \in Keys : OtherKeys(k) /\ table'[k] = NoEntry
  BY InvParts, DeleteEffect DEF Parts, Stays, IdleFlush
<1>2. UNCHANGED <<reports, overlapped>>
  BY DEF FlushDelete
<1>3. Keeps
  BY <1>1 DEF Keeps, OtherKeys, NoEntry
<1> QED
  BY <1>1, <1>2, <1>3, JobGrows

LEMMA InitGrows == Init => Grows
BY DEF Init, Grows, IdleFlush

LEMMA StepGrows == ASSUME TypeInv, Alone, Grows, [Next]_vars PROVE Grows'
<1>1. CASE CallAggregate \/ Tick \/ UNCHANGED vars
  BY <1>1, KeepsIfSame, UpdateGrows DEF CallAggregate, Tick, vars
<1> QED
  BY <1>1, ThreadGrows, BeginGrows, VisitGrows, WorkGrows, JournalGrows, DeleteGrows
     DEF Next, FlushStep

\* What a report adds to the journal.
LEMMA NewReports ==
  ASSUME TypeInv, [Next]_vars
  PROVE  reports' = reports \/ \E f \in Flushers : reports' = reports \cup fl[f].batch
<1>1. ASSUME NEW f \in Flushers, FlushJournal(f)
      PROVE  reports' = reports \/ reports' = reports \cup fl[f].batch
  BY <1>1 DEF FlushJournal
<1>2. ASSUME NEW f \in Flushers, FlushStep(f), ~FlushJournal(f)
      PROVE  reports' = reports
  BY <1>2 DEF FlushStep, FlushBegin, FlushVisit, FlushZero, FlushReset, FlushProduce,
     FlushDelete
<1>3. ASSUME NEW t \in Threads, Call(t) \/ UpdateStep(t)
      PROVE  reports' = reports
  BY <1>3 DEF Call, UpdateStep, Find, LockAndCreate, StoreSeen, AddValue, AddCount,
     MergeHistogram
<1>4. CASE CallAggregate \/ Tick \/ UNCHANGED vars
  BY <1>4 DEF CallAggregate, Tick, vars
<1> QED
  BY <1>1, <1>2, <1>3, <1>4 DEF Next

\* Two reports of one incarnation of a metric, one after the other: the later one
\* contains the earlier, unless two flush jobs met there: a straggler that is
\* flushed again makes the numbers of tm_flush_team_metrics more accurate.
THEOREM StragglersAddUp == Spec => ReportsGrow
<1> DEFINE Inv == TypeInv /\ SentInv /\ Grows
           Step == \A i \in reports' \ reports : \A j \in reports :
                     (j.key = i.key /\ j.gen = i.gen /\ i.key \notin overlapped) => j.sum \subseteq i.sum
<1>1. Init => Inv
  BY InitTyped, InitSent, InitGrows
<1>2. Inv /\ [Next]_vars => Inv'
  BY StepTyped, StepSent, StepGrows DEF SentInv
<1>3. Inv /\ [Next]_vars => [Step]_vars
  BY NewReports DEF Grows
<1> HIDE DEF Inv
<1>4. Init /\ [][Next]_vars => [][Step]_vars
  BY <1>1, <1>2, <1>3, PTL
<1> QED
  BY <1>4 DEF Spec, ReportsGrow

(***************************************************************************)
(* An average's number and count agree. fetch_add of the number and of the *)
(* count are two steps, and a flush zeroes both in one and reads them in   *)
(* another: what comes in between is in Skewed, or is still in a thread.   *)
(***************************************************************************)

\* No two jobs have met at key k, nor where the messages it adds up come from.
Untroubled(k) == IsAverage(k) /\ Origins(k) \cap overlapped = {}
\* The number and the count agree in what the threads add,
ThreadsAgree == \A t \in Threads, k \in Keys :
  th[t].key = k /\ Untroubled(k) => Amiss(th[t]) \subseteq Skewed(k)
\* The threads that are between the two steps of an average.
Counting(k) == {t \in Threads : th[t].pc = "count" /\ th[t].key = k}
\* in the entries, but for what these threads have yet to count,
TableAgrees == \A k \in Keys : Untroubled(k) =>
  Amiss(table[k]) \subseteq Skewed(k) \cup UNION {th[t].sum : t \in Counting(k)}
\* in what the jobs have read
FlushesAgree == \A f \in Flushers, k \in Keys : Untroubled(k) =>
  /\ AtWork(f) /\ fl[f].at.key = k => Amiss(fl[f].at) \subseteq Skewed(k)
  /\ \A i \in fl[f].batch : i.key = k => Amiss(i) \subseteq Skewed(k)
\* and in what was written.
WrittenAgree == \A k \in Keys : Untroubled(k) =>
  /\ \A n \in 1..Len(topic) : topic[n].key = k => Amiss(topic[n]) \subseteq Skewed(k)
  /\ \A i \in reports : i.key = k => Amiss(i) \subseteq Skewed(k)
\* A message without a count, which the aggregator takes for a count of one, comes
\* from an entry that an excused update left behind;
Counted1 == \A k \in Keys : Untroubled(k) =>
  \A n \in 1..Len(topic) : topic[n].key = k /\ topic[n].cnt = {} => excused[k] # {}
\* so does a value without a count that a job has read, and it has read it after
\* last_seen was stored for the last time;
Counted2 == \A f \in Flushers, k \in Keys : AtWork(f) /\ fl[f].at.key = k /\ Untroubled(k) =>
  /\ fl[f].at.cnt = {} => excused[k] # {}
  /\ table[k].seen <= fl[f].start \/ excused[k] # {}
\* so does an entry without a count that will be flushed, if nobody is at it.
Counted3 == \A k \in Keys :
  k.aggregate /\ Untroubled(k) /\ Present(k) /\ ~Flushed(table[k]) /\ table[k].cnt = {} =>
    \/ excused[k] # {}
    \/ \E t \in Threads : th[t].pc \in {"add", "count"} /\ th[t].key = k
    \/ \E f \in Flushers : AtWork(f) /\ fl[f].at.key = k
\* The inductive invariant, given KeptInv and SentInv.
AverageInv == ThreadsAgree /\ TableAgrees /\ FlushesAgree /\ WrittenAgree /\ Counted1 /\ Counted2 /\ Counted3

\* What was excused at a key, or at the key of a message that it adds up, may be
\* amiss there.
LEMMA SkewedHas ==
  ASSUME NEW k \in Keys, NEW j \in Keys, j = k \/ TotalKey(j) = k
  PROVE  /\ excused[j] \subseteq Skewed(k)
         /\ excused[j] # {} => Nobody \in Skewed(k)
BY DEF Skewed, Origins

\* The same after the step.
LEMMA SkewedHasLater ==
  ASSUME NEW k \in Keys, NEW j \in Keys, j = k \/ TotalKey(j) = k
  PROVE  /\ excused'[j] \subseteq Skewed(k)'
         /\ excused'[j] # {} => Nobody \in Skewed(k)'
BY DEF Skewed, Origins

\* What may be amiss only grows.
LEMMA SkewedGrows ==
  ASSUME NEW k \in Keys, \A j \in Keys : excused[j] \subseteq excused'[j]
  PROVE  Skewed(k) \subseteq Skewed(k)'
<1>1. UNION {excused[j] : j \in Origins(k)} \subseteq UNION {excused'[j] : j \in Origins(k)}
  BY DEF Origins
<1> QED
  BY <1>1 DEF Skewed

\* An aggregated metric adds up no messages: what is amiss there is its own, and is
\* passed on to its total.
LEMMA AggregateOrigins ==
  ASSUME NEW k \in Keys, k.aggregate
  PROVE  /\ Origins(k) = {k}
         /\ Skewed(k) \subseteq Skewed(TotalKey(k))
         /\ Untroubled(TotalKey(k)) => Untroubled(k)
         /\ Skewed(k) # {} => excused[k] # {}
<1>1. \A j \in Keys : TotalKey(j) # k
  BY KeysAreKeys
<1>2. Origins(k) = {k}
  BY <1>1 DEF Origins
<1>3. TotalKey(k) \in Keys /\ k \in Origins(TotalKey(k)) /\ TotalKey(k).name = k.name
  BY KeysAreKeys DEF Origins
<1>4. UNION {excused[j] : j \in {k}} = excused[k]
  OBVIOUS
<1>5. Skewed(k) = IF excused[k] = {} THEN {} ELSE excused[k] \cup {Nobody}
  BY <1>2, <1>4 DEF Skewed
<1>6. Skewed(k) \subseteq Skewed(TotalKey(k))
  BY <1>3, <1>5, SkewedHas
<1> QED
  BY <1>2, <1>3, <1>5, <1>6 DEF Untroubled, IsAverage

\* A metric at which no two jobs have met has been so all along.
LEMMA StillUntroubled ==
  ASSUME NEW k \in Keys, overlapped \subseteq overlapped', Untroubled(k)'
  PROVE  Untroubled(k) /\ k \notin overlapped'
BY DEF Untroubled, Origins

\* Thread t and the table, after a step of thread t.
LEMMA UpdateAverage ==
  ASSUME TypeInv, AverageInv, NEW t \in Threads, OtherThreads(t),
         \A f \in Flushers : SameJob(f), UNCHANGED <<topic, reports, overlapped>>,
         \A k \in Keys : excused[k] \subseteq excused'[k],
         \A k \in Keys : th'[t].key = k /\ Untroubled(k) => Amiss(th'[t]) \subseteq Skewed(k)',
         \A k \in Keys : Untroubled(k) =>
           \/ table'[k] = table[k] /\ t \notin Counting(k)
           \/ Amiss(table'[k]) \subseteq Skewed(k)' \cup UNION {th'[s].sum : s \in Counting(k)'},
         \A k \in Keys : k.aggregate /\ Untroubled(k) =>
           \/ table'[k].seen = table[k].seen
           \/ excused'[k] # {}
           \/ \A f \in Flushers : ~AtKey(f, k),
         \A k \in Keys : k.aggregate /\ Untroubled(k) =>
           \/ table'[k].cnt # {}
           \/ excused'[k] # {}
           \/ th'[t].pc \in {"add", "count"} /\ th'[t].key = k
           \/ table'[k] = table[k] /\ ~(th[t].pc \in {"add", "count"} /\ th[t].key = k)
  PROVE  AverageInv'
<1>0. \A f \in Flushers : AtWork(f) => fl[f].at.key.aggregate
  BY InvParts DEF Parts, Kinds
<1>1. \A k \in Keys : Untroubled(k)' <=> Untroubled(k)
  BY DEF Untroubled
<1>2. \A k \in Keys : Skewed(k) \subseteq Skewed(k)'
  BY SkewedGrows
<1>3. \A f \in Flushers : /\ AtWork(f)' <=> AtWork(f)
                          /\ fl'[f].at = fl[f].at /\ fl'[f].batch = fl[f].batch /\ fl'[f].start = fl[f].start
  BY DEF SameJob, AtWork
<1>4. \A s \in Threads : s # t => th'[s] = th[s]
  BY DEF OtherThreads
<1>5. ThreadsAgree'
  <2> SUFFICES ASSUME NEW s \in Threads, NEW k \in Keys, th'[s].key = k, Untroubled(k)
               PROVE  Amiss(th'[s]) \subseteq Skewed(k)'
    BY <1>1 DEF ThreadsAgree
  <2>1. CASE s = t
    BY <2>1
  <2>2. CASE s # t
    BY <1>2, <1>4, <2>2 DEF AverageInv, ThreadsAgree
  <2> QED
    BY <2>1, <2>2
<1>6. TableAgrees'
  <2> SUFFICES ASSUME NEW k \in Keys, Untroubled(k), table'[k] = table[k], t \notin Counting(k)
               PROVE  Amiss(table'[k]) \subseteq Skewed(k)' \cup UNION {th'[s].sum : s \in Counting(k)'}
    BY <1>1 DEF TableAgrees
  <2>1. \A s \in Counting(k) : s \in Counting(k)' /\ th'[s].sum = th[s].sum
    BY <1>4 DEF Counting
  <2>2. UNION {th[s].sum : s \in Counting(k)} \subseteq UNION {th'[s].sum : s \in Counting(k)'}
    BY <2>1
  <2>3. Amiss(table[k]) \subseteq Skewed(k) \cup UNION {th[s].sum : s \in Counting(k)}
    BY DEF AverageInv, TableAgrees
  <2> QED
    BY <1>2, <2>2, <2>3
<1>7. FlushesAgree'
  BY <1>1, <1>2, <1>3 DEF AverageInv, FlushesAgree
<1>8. WrittenAgree'
  BY <1>1, <1>2 DEF AverageInv, WrittenAgree
<1>9. Counted1'
  BY <1>1 DEF AverageInv, Counted1
<1>10. Counted2'
  <2> SUFFICES ASSUME NEW f \in Flushers, NEW k \in Keys, AtWork(f), fl[f].at.key = k, Untroubled(k)
               PROVE  /\ fl[f].at.cnt = {} => excused'[k] # {}
                      /\ table'[k].seen <= fl[f].start \/ excused'[k] # {}
    BY <1>1, <1>3 DEF Counted2
  <2>1. AtKey(f, k) /\ k.aggregate
    BY <1>0 DEF AtKey, AtWork
  <2>2. /\ fl[f].at.cnt = {} => excused[k] # {}
        /\ table[k].seen <= fl[f].start \/ excused[k] # {}
    BY DEF AverageInv, Counted2
  <2> QED
    BY <2>1, <2>2
<1>11. Counted3'
  <2> SUFFICES ASSUME NEW k \in Keys, k.aggregate, Untroubled(k), Present(k)', ~Flushed(table'[k]),
                      table'[k].cnt = {}, excused'[k] = {}
               PROVE  \/ \E s \in Threads : th'[s].pc \in {"add", "count"} /\ th'[s].key = k
                      \/ \E f \in Flushers : AtWork(f) /\ fl[f].at.key = k
    BY <1>1, <1>3 DEF Counted3
  <2>1. CASE th'[t].pc \in {"add", "count"} /\ th'[t].key = k
    BY <2>1
  <2>2. CASE table'[k] = table[k] /\ ~(th[t].pc \in {"add", "count"} /\ th[t].key = k)
    <3>1. Present(k) /\ excused[k] = {}
      BY <2>2 DEF Present
    <3>2. \/ \E s \in Threads : th[s].pc \in {"add", "count"} /\ th[s].key = k
          \/ \E f \in Flushers : AtWork(f) /\ fl[f].at.key = k
      BY <2>2, <3>1 DEF AverageInv, Counted3
    <3> QED
      BY <1>4, <2>2, <3>2
  <2> QED
    BY <2>1, <2>2
<1> QED
  BY <1>5, <1>6, <1>7, <1>8, <1>9, <1>10, <1>11 DEF AverageInv

\* What is amiss is a matter of the number and the count alone.
LEMMA SameAmiss ==
  ASSUME NEW x, NEW y, x.sum = y.sum, x.cnt = y.cnt
  PROVE  Amiss(x) = Amiss(y)
BY DEF Amiss

\* Nothing is amiss with nothing.
LEMMA IdleAmiss == Amiss(IdleThread) = {} /\ Amiss(NoEntry) = {} /\ IdleThread.pc = "idle" /\ NoEntry.seen = 0
BY DEF Amiss, IdleThread, NoEntry

LEMMA CallAverage ==
  ASSUME TypeInv, AverageInv, NEW t \in Threads, Call(t)
  PROVE  AverageInv'
<1>1. PICK u \in inbox :
           /\ th[t].pc = "idle" /\ OtherThreads(t)
           /\ th'[t].pc = "find" /\ th'[t].key = u.key /\ th'[t].sum = {u}
           /\ th'[t].cnt = (IF IsAverage(u.key) THEN {u} ELSE {})
  BY InvParts, CallEffect DEF Parts, LogsOK
<1>2. UNCHANGED <<table, fl, topic, reports, excused, overlapped>>
  BY DEF Call
<1>3. \A k \in Keys : th'[t].key = k /\ Untroubled(k) => Amiss(th'[t]) \subseteq Skewed(k)'
  BY <1>1 DEF Untroubled, Amiss
<1>4. \A k \in Keys : t \notin Counting(k)
  BY <1>1 DEF Counting
<1> QED
  BY <1>1, <1>2, <1>3, <1>4, SameJobsIfUnchanged, UpdateAverage

LEMMA CallAggregateAverage ==
  ASSUME TypeInv, AverageInv, CallAggregate
  PROVE  AverageInv'
<1> DEFINE m == topic[taken + 1]
           t == Aggregator
<1>1. /\ taken + 1 \in 1..Len(topic) /\ m \in Message
      /\ th[t].pc = "idle" /\ OtherThreads(t) /\ t \in Threads
      /\ th'[t].pc = "find" /\ th'[t].key = TotalKey(m.key)
      /\ th'[t].sum = m.sum /\ th'[t].cnt = Counted(m)
  BY InvParts, CallAggregateEffect DEF Parts, LogsOK, Threads
<1>2. UNCHANGED <<table, fl, topic, reports, excused, overlapped>>
  BY DEF CallAggregate
<1>3. m.key \in Keys /\ m.key.aggregate /\ TotalKey(m.key) \in Keys
  BY <1>1, InvParts, KeysAreKeys DEF Parts, Kinds, Message
<1>4. ASSUME NEW k \in Keys, th'[t].key = k, Untroubled(k)
      PROVE  Amiss(th'[t]) \subseteq Skewed(k)'
  <2>1. /\ k = TotalKey(m.key) /\ Untroubled(m.key) /\ Skewed(m.key) \subseteq Skewed(k)
    BY <1>1, <1>3, <1>4, AggregateOrigins
  <2>2. Amiss(m) \subseteq Skewed(m.key)
    BY <1>1, <1>3, <2>1 DEF AverageInv, WrittenAgree
  <2>3. Skewed(k)' = Skewed(k)
    BY <1>2 DEF Skewed
  <2>4. CASE m.cnt # {} \/ ~IsAverage(m.key)
    <3>1. th'[t].cnt = m.cnt
      BY <1>1, <2>4 DEF Counted
    <3> QED
      BY <1>1, <2>1, <2>2, <2>3, <3>1, SameAmiss
  <2>5. CASE m.cnt = {}
    <3>1. Nobody \in Skewed(k)
      <4>1. excused[m.key] # {}
        BY <1>1, <1>3, <2>1, <2>5 DEF AverageInv, Counted1
      <4> QED
        BY <1>3, <2>1, <4>1, SkewedHas
    <3>2. th'[t].cnt \subseteq {Nobody} /\ m.sum \subseteq Amiss(m)
      BY <1>1, <2>5 DEF Counted, Amiss
    <3> QED
      BY <1>1, <2>1, <2>2, <2>3, <3>1, <3>2 DEF Amiss
  <2> QED
    BY <2>4, <2>5
<1>5. \A k \in Keys : t \notin Counting(k)
  BY <1>1 DEF Counting
<1> HIDE DEF m, t
<1> QED
  BY <1>1, <1>2, <1>4, <1>5, SameJobsIfUnchanged, UpdateAverage

\* The number and the count that thread t has are off as little as before.
LEMMA SameThreadAmiss ==
  ASSUME TypeInv, AverageInv, NEW t \in Threads, UNCHANGED overlapped,
         \A k \in Keys : excused[k] \subseteq excused'[k],
         \/ th'[t].key = th[t].key /\ th'[t].sum = th[t].sum /\ th'[t].cnt = th[t].cnt
         \/ th'[t] = IdleThread
  PROVE  \A k \in Keys : th'[t].key = k /\ Untroubled(k) => Amiss(th'[t]) \subseteq Skewed(k)'
<1> SUFFICES ASSUME NEW k \in Keys, th'[t].key = k, Untroubled(k)
             PROVE  Amiss(th'[t]) \subseteq Skewed(k)'
  OBVIOUS
<1>1. CASE th'[t] = IdleThread
  BY <1>1, IdleAmiss
<1>2. CASE th'[t].key = th[t].key /\ th'[t].sum = th[t].sum /\ th'[t].cnt = th[t].cnt
  <2>1. Amiss(th'[t]) = Amiss(th[t])
    BY <1>2, SameAmiss
  <2> QED
    BY <1>2, <2>1, SkewedGrows DEF AverageInv, ThreadsAgree
<1> QED
  BY <1>1, <1>2

LEMMA FindAverage ==
  ASSUME TypeInv, AverageInv, NEW t \in Threads, Find(t)
  PROVE  AverageInv'
<1>1. /\ OtherThreads(t) /\ th[t].pc = "find" /\ NotesOverlap(t)
      /\ th'[t].key = th[t].key /\ th'[t].sum = th[t].sum /\ th'[t].cnt = th[t].cnt
  BY InvParts, FindEffect DEF Parts, Moves
<1>2. UNCHANGED <<table, fl, topic, reports, overlapped>>
  BY DEF Find
<1>3. \A k \in Keys : t \notin Counting(k)
  BY <1>1 DEF Counting
<1> QED
  BY <1>1, <1>2, <1>3, SameThreadAmiss, SameJobsIfUnchanged, UpdateAverage DEF NotesOverlap

\* An update of an aggregate that overlaps with a flush is an update.
LEMMA OverlapExcuses ==
  ASSUME TypeInv, NEW t \in Threads, th[t].pc # "idle", th[t].key.aggregate, NotesOverlap(t)
  PROVE  /\ th[t].sum # {} /\ (IsAverage(th[t].key) => th[t].cnt # {})
         /\ excused'[th[t].key] # {} \/ \A f \in Flushers : ~AtKey(f, th[t].key)
<1>1. th[t].sum # {} /\ (IsAverage(th[t].key) => th[t].cnt # {})
  BY InvParts DEF Parts, Kinds
<1> QED
  BY <1>1 DEF NotesOverlap

LEMMA LockAverage ==
  ASSUME TypeInv, AverageInv, NEW t \in Threads, LockAndCreate(t)
  PROVE  AverageInv'
<1>0. Parts /\ th[t].key \in Keys
  BY InvParts, FieldTypes DEF Parts
<1>1. /\ OtherThreads(t) /\ th[t].pc = "lock" /\ NotesOverlap(t)
      /\ \/ /\ Moves(t, "seen", table[th[t].key].gen, TRUE)
            /\ UNCHANGED <<table, fl>>
         \/ /\ th'[t] = IdleThread
            /\ OtherKeys(th[t].key) /\ table'[th[t].key] = NewEntry(t)
            /\ \A f \in Flushers : SameJob(f)
  BY <1>0, LockEffect DEF Parts
<1>2. UNCHANGED <<topic, reports, overlapped>>
  BY DEF LockAndCreate
<1>3. \A k \in Keys : t \notin Counting(k)
  BY <1>1 DEF Counting
<1>4. \A k \in Keys : th'[t].key = k /\ Untroubled(k) => Amiss(th'[t]) \subseteq Skewed(k)'
  BY <1>1, <1>2, SameThreadAmiss DEF NotesOverlap, Moves
<1>5. CASE Moves(t, "seen", table[th[t].key].gen, TRUE) /\ UNCHANGED <<table, fl>>
  BY <1>1, <1>2, <1>3, <1>4, <1>5, SameJobsIfUnchanged, UpdateAverage DEF NotesOverlap
<1>6. CASE /\ th'[t] = IdleThread
           /\ OtherKeys(th[t].key) /\ table'[th[t].key] = NewEntry(t)
           /\ \A f \in Flushers : SameJob(f)
  <2>1. NewEntry(t).sum = th[t].sum /\ NewEntry(t).cnt = th[t].cnt
    BY DEF NewEntry
  <2>2. Untroubled(th[t].key) => Amiss(table'[th[t].key]) \subseteq Skewed(th[t].key)
    BY <1>0, <1>6, <2>1, SameAmiss DEF AverageInv, ThreadsAgree
  <2>3. \A k \in Keys : Untroubled(k) =>
           \/ table'[k] = table[k] /\ t \notin Counting(k)
           \/ Amiss(table'[k]) \subseteq Skewed(k)' \cup UNION {th'[s].sum : s \in Counting(k)'}
    <3>1. TAKE k \in Keys
    <3>2. CASE k = th[t].key
      <4>1. Skewed(k) \subseteq Skewed(k)'
        BY <1>1, SkewedGrows DEF NotesOverlap
      <4> QED
        BY <2>2, <3>2, <4>1
    <3> QED
      BY <1>3, <1>6, <3>2 DEF OtherKeys
  <2>4. \A k \in Keys : k.aggregate /\ Untroubled(k) =>
           /\ table'[k] = table[k] \/ excused'[k] # {} \/ \A f \in Flushers : ~AtKey(f, k)
           /\ table'[k] = table[k] \/ table'[k].cnt # {}
    BY <1>1, <1>6, <2>1, OverlapExcuses DEF OtherKeys, Untroubled
  <2> QED
    BY <1>1, <1>2, <1>4, <1>6, <2>3, <2>4, UpdateAverage DEF NotesOverlap
<1> QED
  BY <1>1, <1>5, <1>6

LEMMA StoreSeenAverage ==
  ASSUME TypeInv, AverageInv, NEW t \in Threads, StoreSeen(t)
  PROVE  AverageInv'
<1>0. Parts /\ th[t].gen # 0 /\ Busy(t) /\ th[t].key \in Keys
  BY InvParts, PointersNotNil, FieldTypes DEF Parts, StoreSeen, Busy
<1>1. /\ OtherThreads(t) /\ th[t].pc = "seen" /\ NotesOverlap(t)
      /\ Moves(t, "add", th[t].gen, th[t].locked)
      /\ \/ table' = table
         \/ Rewrites(th[t].key, table[th[t].key].sum, table[th[t].key].cnt, now,
                     table[th[t].key].flushed)
  BY <1>0, StoreSeenEffect DEF Parts
<1>2. UNCHANGED <<fl, topic, reports, overlapped>>
  BY DEF StoreSeen
<1>3. \A k \in Keys : t \notin Counting(k)
  BY <1>1 DEF Counting
<1>4. \A k \in Keys : th'[t].key = k /\ Untroubled(k) => Amiss(th'[t]) \subseteq Skewed(k)'
  BY <1>1, <1>2, SameThreadAmiss DEF NotesOverlap, Moves
<1>5. \A k \in Keys : Untroubled(k) =>
           \/ table'[k] = table[k] /\ t \notin Counting(k)
           \/ Amiss(table'[k]) \subseteq Skewed(k)' \cup UNION {th'[s].sum : s \in Counting(k)'}
  <2> SUFFICES ASSUME NEW k \in Keys, Untroubled(k)
               PROVE  Amiss(table'[k]) \subseteq Skewed(k)' \cup UNION {th'[s].sum : s \in Counting(k)'}
    OBVIOUS
  <2>1. Amiss(table'[k]) = Amiss(table[k])
    BY <1>1, SameAmiss DEF Rewrites, OtherKeys
  <2>2. \A s \in Counting(k) : s \in Counting(k)' /\ th'[s] = th[s]
    BY <1>1 DEF Counting, OtherThreads
  <2>3. UNION {th[s].sum : s \in Counting(k)} \subseteq UNION {th'[s].sum : s \in Counting(k)'}
    BY <2>2
  <2>4. Skewed(k) \subseteq Skewed(k)'
    BY <1>1, SkewedGrows DEF NotesOverlap
  <2> QED
    BY <2>1, <2>3, <2>4 DEF AverageInv, TableAgrees
<1>6. \A k \in Keys : k # th[t].key => table'[k] = table[k]
  BY <1>1 DEF Rewrites, OtherKeys
<1>7. \A k \in Keys : k.aggregate /\ Untroubled(k) =>
           \/ table'[k].seen = table[k].seen
           \/ excused'[k] # {}
           \/ \A f \in Flushers : ~AtKey(f, k)
  BY <1>1, <1>6, OverlapExcuses
<1>8. th'[t].pc = "add" /\ th'[t].key = th[t].key
  BY <1>1 DEF Moves
<1> QED
  BY <1>1, <1>2, <1>4, <1>5, <1>6, <1>7, <1>8, SameJobsIfUnchanged,
     UpdateAverage DEF NotesOverlap

LEMMA AddValueAverage ==
  ASSUME TypeInv, AverageInv, NEW t \in Threads, AddValue(t)
  PROVE  AverageInv'
<1>0. Parts /\ th[t].gen # 0 /\ Busy(t) /\ th[t].key \in Keys
  BY InvParts, PointersNotNil, FieldTypes DEF Parts, AddValue, Busy
<1>1. /\ OtherThreads(t) /\ th[t].pc = "add" /\ NotesOverlap(t)
      /\ \/ IsAverage(th[t].key) /\ Moves(t, "count", th[t].gen, th[t].locked)
         \/ ~IsAverage(th[t].key) /\ th'[t] = IdleThread
      /\ \/ table' = table
         \/ Rewrites(th[t].key, table[th[t].key].sum \cup th[t].sum, table[th[t].key].cnt,
                     table[th[t].key].seen, table[th[t].key].flushed)
  BY <1>0, AddValueEffect DEF Parts, Ends
<1>2. UNCHANGED <<fl, topic, reports, overlapped>>
  BY DEF AddValue
<1>3. \A k \in Keys : th'[t].key = k /\ Untroubled(k) => Amiss(th'[t]) \subseteq Skewed(k)'
  BY <1>1, <1>2, SameThreadAmiss DEF NotesOverlap, Moves
<1>4. \A k \in Keys : k # th[t].key => table'[k] = table[k]
  BY <1>1 DEF Rewrites, OtherKeys
<1>5. \A k \in Keys : table'[k].seen = table[k].seen
  BY <1>1 DEF Rewrites, OtherKeys
<1>6. t \notin Counting(th[t].key) /\ \A k \in Keys : k # th[t].key => t \notin Counting(k)
  BY <1>1 DEF Counting
<1>7. CASE IsAverage(th[t].key) /\ Moves(t, "count", th[t].gen, th[t].locked)
  <2>0. PICK k \in Keys : k = th[t].key
    BY <1>0
  <2> DEFINE later == UNION {th'[s].sum : s \in Counting(k)'}
  <2>1. th'[t].pc = "count" /\ th'[t].key = k /\ th'[t].sum = th[t].sum
    BY <1>7, <2>0 DEF Moves
  <2>2. \A s \in Counting(k) : s \in Counting(k)' /\ th'[s].sum = th[s].sum
    BY <1>1, <1>6, <2>0 DEF Counting, OtherThreads
  <2>3. UNION {th[s].sum : s \in Counting(k)} \subseteq later
    BY <2>2
  <2>4. th[t].sum \subseteq later
    <3>1. t \in Counting(k)'
      BY <2>1 DEF Counting
    <3> QED
      BY <2>1, <3>1
  <2>5. Amiss(table'[k]) \subseteq Amiss(table[k]) \cup th[t].sum
    BY <1>0, <1>1, <2>0 DEF Rewrites, Amiss
  <2>6. Skewed(k) \subseteq Skewed(k)'
    BY <1>1, SkewedGrows DEF NotesOverlap
  <2>7. Untroubled(k) => Amiss(table'[k]) \subseteq Skewed(k)' \cup later
    BY <2>3, <2>4, <2>5, <2>6 DEF AverageInv, TableAgrees
  <2>8. \A j \in Keys : Untroubled(j) =>
           \/ table'[j] = table[j] /\ t \notin Counting(j)
           \/ Amiss(table'[j]) \subseteq Skewed(j)' \cup UNION {th'[s].sum : s \in Counting(j)'}
    BY <1>4, <1>6, <2>0, <2>7
  <2>9. \A j \in Keys : j # k => table'[j] = table[j] /\ th[t].key # j
    BY <1>4, <2>0
  <2> QED
    BY <1>1, <1>2, <1>3, <1>5, <2>1, <2>8, <2>9, SameJobsIfUnchanged,
       UpdateAverage DEF NotesOverlap
<1>8. CASE ~IsAverage(th[t].key)
  <2>1. \A j \in Keys : Untroubled(j) => j # th[t].key
    BY <1>8 DEF Untroubled
  <2> QED
    BY <1>1, <1>2, <1>3, <1>4, <1>5, <1>6, <2>1, SameJobsIfUnchanged,
       UpdateAverage DEF NotesOverlap
<1> QED
  BY <1>1, <1>7, <1>8

LEMMA AddCountAverage ==
  ASSUME TypeInv, KeptInv, AverageInv, NEW t \in Threads, AddCount(t)
  PROVE  AverageInv'
<1>0. Parts /\ th[t].gen # 0 /\ Busy(t) /\ th[t].key \in Keys /\ th[t].pc = "count"
  BY InvParts, PointersNotNil, FieldTypes DEF Parts, AddCount, Busy
<1>1. /\ OtherThreads(t) /\ NotesOverlap(t) /\ th'[t] = IdleThread
      /\ \/ ~Live(t) /\ table' = table
         \/ Rewrites(th[t].key, table[th[t].key].sum, table[th[t].key].cnt \cup th[t].cnt,
                     table[th[t].key].seen, table[th[t].key].flushed)
  BY <1>0, AddCountEffect DEF Parts, Ends
<1>2. UNCHANGED <<fl, topic, reports, overlapped>>
  BY DEF AddCount
<1>3. \A k \in Keys : th'[t].key = k /\ Untroubled(k) => Amiss(th'[t]) \subseteq Skewed(k)'
  BY <1>1, <1>2, SameThreadAmiss DEF NotesOverlap
<1>4. \A k \in Keys : k # th[t].key => table'[k] = table[k] /\ t \notin Counting(k)
  BY <1>1 DEF Rewrites, OtherKeys, Counting
<1>5. \A k \in Keys : table'[k].seen = table[k].seen
  BY <1>1 DEF Rewrites, OtherKeys
<1>6. ASSUME NEW k \in Keys, k = th[t].key, Untroubled(k)
      PROVE  /\ Amiss(table'[k]) \subseteq Skewed(k)' \cup UNION {th'[s].sum : s \in Counting(k)'}
             /\ k.aggregate => table'[k].cnt # {} \/ excused'[k] # {}
  <2> DEFINE before == UNION {th[s].sum : s \in Counting(k)}
             later  == UNION {th'[s].sum : s \in Counting(k)'}
  <2>1. \A s \in Counting(k) : s = t \/ (s \in Counting(k)' /\ th'[s].sum = th[s].sum)
    BY <1>1 DEF Counting, OtherThreads
  <2>2. before \subseteq later \cup th[t].sum
    BY <2>1
  <2>3. Skewed(k) \subseteq Skewed(k)' /\ excused[k] \subseteq Skewed(k)
    BY <1>1, SkewedGrows, SkewedHas DEF NotesOverlap
  <2>4. Amiss(th[t]) \subseteq Skewed(k)
    BY <1>6 DEF AverageInv, ThreadsAgree
  <2>5. Amiss(table[k]) \subseteq Skewed(k) \cup before
    BY <1>6 DEF AverageInv, TableAgrees
  <2>6. th[t].sum \subseteq table[k].sum \cup excused[k]
    BY <1>0, <1>6 DEF KeptInv, Summed
  <2> HIDE DEF before, later
  <2>7. CASE ~Live(t) /\ table' = table
    <3>1. th[t].sum \subseteq excused[k] /\ th[t].sum \subseteq excused'[k]
      BY <1>0, <1>1, <1>6, <2>7 DEF KeptInv, Stale, NotesOverlap
    <3>2. k.aggregate => th[t].sum # {}
      BY <1>0, <1>6 DEF Parts, Kinds
    <3> QED
      BY <2>2, <2>3, <2>5, <2>7, <3>1, <3>2 DEF later
  <2>8. CASE table'[k].sum = table[k].sum /\ table'[k].cnt = table[k].cnt \cup th[t].cnt
    <3>1. Amiss(table'[k]) \subseteq Skewed(k) \cup later
      <4>1. SUFFICES ASSUME NEW x \in Amiss(table'[k]), x \notin Skewed(k)
                     PROVE  x \in later
        OBVIOUS
      <4>2. x \notin excused[k] /\ (x \in th[t].sum <=> x \in th[t].cnt)
        BY <2>3, <2>4, <4>1 DEF Amiss
      <4>3. x \in Amiss(table[k]) /\ x \notin th[t].sum
        BY <2>6, <2>8, <4>1, <4>2 DEF Amiss
      <4> QED
        BY <2>2, <2>5, <4>1, <4>3
    <3>2. k.aggregate => th[t].cnt # {}
      BY <1>0, <1>6 DEF Parts, Kinds, Untroubled
    <3> QED
      BY <2>3, <2>8, <3>1, <3>2 DEF later
  <2> QED
    BY <1>1, <1>6, <2>7, <2>8 DEF Rewrites
<1>7. /\ \A k \in Keys : Untroubled(k) =>
           \/ table'[k] = table[k] /\ t \notin Counting(k)
           \/ Amiss(table'[k]) \subseteq Skewed(k)' \cup UNION {th'[s].sum : s \in Counting(k)'}
      /\ \A k \in Keys : k.aggregate /\ Untroubled(k) =>
           \/ table'[k].cnt # {}
           \/ excused'[k] # {}
           \/ table'[k] = table[k] /\ ~(th[t].pc \in {"add", "count"} /\ th[t].key = k)
  BY <1>4, <1>6
<1> QED
  BY <1>1, <1>2, <1>3, <1>5, <1>7, SameJobsIfUnchanged, UpdateAverage DEF NotesOverlap

LEMMA MergeAverage ==
  ASSUME TypeInv, AverageInv, NEW t \in Threads, MergeHistogram(t)
  PROVE  AverageInv'
<1>0. Parts /\ th[t].gen # 0 /\ Busy(t) /\ th[t].pc = "seen"
  BY InvParts, PointersNotNil DEF Parts, MergeHistogram, Busy
<1>1. /\ OtherThreads(t) /\ NotesOverlap(t) /\ th'[t] = IdleThread /\ ~IsAverage(th[t].key)
      /\ \/ table' = table
         \/ Rewrites(th[t].key, table[th[t].key].sum \cup th[t].sum, table[th[t].key].cnt,
                     now, table[th[t].key].flushed)
  BY <1>0, MergeEffect DEF Parts, Ends
<1>2. UNCHANGED <<fl, topic, reports, overlapped>>
  BY DEF MergeHistogram
<1>3. \A k \in Keys : th'[t].key = k /\ Untroubled(k) => Amiss(th'[t]) \subseteq Skewed(k)'
  BY <1>1, <1>2, SameThreadAmiss DEF NotesOverlap
<1>4. \A k \in Keys : Untroubled(k) => table'[k] = table[k] /\ t \notin Counting(k) /\ th[t].key # k
  BY <1>0, <1>1 DEF Rewrites, OtherKeys, Untroubled, Counting
<1> QED
  BY <1>1, <1>2, <1>3, <1>4, SameJobsIfUnchanged, UpdateAverage DEF NotesOverlap

\* What was written so far agrees after the step, and what job f holds does.
WritesAgree(k) ==
  /\ \A n \in 1..Len(topic') : topic'[n].key = k =>
       Amiss(topic'[n]) \subseteq Skewed(k)' /\ (topic'[n].cnt = {} => excused'[k] # {})
  /\ \A i \in reports' : i.key = k => Amiss(i) \subseteq Skewed(k)'
\* The same for what job f has in hand.
HoldsAgree(f, k) ==
  /\ AtWork(f)' /\ fl'[f].at.key = k =>
       /\ Amiss(fl'[f].at) \subseteq Skewed(k)'
       /\ fl'[f].at.cnt = {} => excused'[k] # {}
       /\ table'[k].seen <= fl'[f].start \/ excused'[k] # {}
  /\ \A i \in fl'[f].batch : i.key = k => Amiss(i) \subseteq Skewed(k)'

\* A step of a job keeps AverageInv if what it reads, holds and writes agrees, and an
\* aggregate it leaves without a count is excused.
LEMMA JobAverage ==
  ASSUME TypeInv, TypeInv', AverageInv, NEW f \in Flushers, OtherJobs(f), UNCHANGED th,
         \A k \in Keys : excused[k] \subseteq excused'[k], overlapped \subseteq overlapped',
         \A k \in Keys : table'[k].seen <= table[k].seen,
         \A k \in Keys : Untroubled(k)' =>
           /\ Amiss(table'[k]) = {} \/ Amiss(table'[k]) = Amiss(table[k])
           /\ HoldsAgree(f, k)
           /\ WritesAgree(k),
         \A k \in Keys :
           k.aggregate /\ Untroubled(k)' /\ Present(k)' /\ ~Flushed(table'[k])
             /\ table'[k].cnt = {} /\ excused'[k] = {} =>
             \/ /\ Present(k) /\ ~Flushed(table[k]) /\ table[k].cnt = {}
                /\ ~(AtWork(f) /\ fl[f].at.key = k)
             \/ AtWork(f)' /\ fl'[f].at.key = k
  PROVE  AverageInv'
<1>1. \A k \in Keys : Untroubled(k)' => Untroubled(k)
  BY StillUntroubled
<1>2. \A k \in Keys : Skewed(k) \subseteq Skewed(k)'
  BY SkewedGrows
<1>3. \A g \in Flushers : g # f => fl'[g] = fl[g] /\ (AtWork(g)' <=> AtWork(g))
  BY DEF OtherJobs, AtWork
<1>4. ThreadsAgree'
  BY <1>1, <1>2 DEF AverageInv, ThreadsAgree
<1>5. TableAgrees'
  <2> SUFFICES ASSUME NEW k \in Keys, Untroubled(k)'
               PROVE  Amiss(table'[k]) \subseteq Skewed(k)' \cup UNION {th'[s].sum : s \in Counting(k)'}
    BY DEF TableAgrees
  <2>1. UNION {th'[s].sum : s \in Counting(k)'} = UNION {th[s].sum : s \in Counting(k)}
    BY DEF Counting
  <2> QED
    BY <1>1, <1>2, <2>1 DEF AverageInv, TableAgrees
<1>6. FlushesAgree'
  <2> SUFFICES ASSUME NEW g \in Flushers, NEW k \in Keys, Untroubled(k)'
               PROVE  /\ AtWork(g)' /\ fl'[g].at.key = k => Amiss(fl'[g].at) \subseteq Skewed(k)'
                      /\ \A i \in fl'[g].batch : i.key = k => Amiss(i) \subseteq Skewed(k)'
    BY DEF FlushesAgree
  <2>1. CASE g = f
    BY <2>1 DEF HoldsAgree
  <2>2. CASE g # f
    BY <1>1, <1>2, <1>3, <2>2 DEF AverageInv, FlushesAgree
  <2> QED
    BY <2>1, <2>2
<1>7. WrittenAgree' /\ Counted1'
  BY DEF WrittenAgree, Counted1, WritesAgree
<1>8. Counted2'
  <2> SUFFICES ASSUME NEW g \in Flushers, NEW k \in Keys, AtWork(g)', fl'[g].at.key = k, Untroubled(k)'
               PROVE  /\ fl'[g].at.cnt = {} => excused'[k] # {}
                      /\ table'[k].seen <= fl'[g].start \/ excused'[k] # {}
    BY DEF Counted2
  <2>1. CASE g = f
    BY <2>1 DEF HoldsAgree
  <2>2. CASE g # f
    <3>1. AtWork(g) /\ fl'[g] = fl[g] /\ Untroubled(k)
      BY <1>1, <1>3, <2>2
    <3>2. /\ fl[g].at.cnt = {} => excused[k] # {}
          /\ table[k].seen <= fl[g].start \/ excused[k] # {}
      BY <3>1 DEF AverageInv, Counted2
    <3>3. table'[k].seen \in Nat /\ table[k].seen \in Nat /\ fl[g].start \in Nat
      BY InvParts, FieldTypes DEF Parts, StateOK, TableOK, Entry, NoEntry
    <3> QED
      BY <3>1, <3>2, <3>3
  <2> QED
    BY <2>1, <2>2
<1>9. Counted3'
  <2> SUFFICES ASSUME NEW k \in Keys, k.aggregate, Untroubled(k)', Present(k)', ~Flushed(table'[k]),
                      table'[k].cnt = {}, excused'[k] = {}
               PROVE  \/ \E s \in Threads : th[s].pc \in {"add", "count"} /\ th[s].key = k
                      \/ \E g \in Flushers : AtWork(g)' /\ fl'[g].at.key = k
    BY DEF Counted3
  <2>1. CASE AtWork(f)' /\ fl'[f].at.key = k
    BY <2>1
  <2>2. CASE /\ Present(k) /\ ~Flushed(table[k]) /\ table[k].cnt = {}
             /\ ~(AtWork(f) /\ fl[f].at.key = k)
    <3>1. excused[k] = {}
      OBVIOUS
    <3>2. \/ \E s \in Threads : th[s].pc \in {"add", "count"} /\ th[s].key = k
          \/ \E g \in Flushers : AtWork(g) /\ fl[g].at.key = k
      BY <1>1, <2>2, <3>1 DEF AverageInv, Counted3
    <3> QED
      BY <1>3, <2>2, <3>2
  <2> QED
    BY <2>1, <2>2
<1> QED
  BY <1>4, <1>5, <1>6, <1>7, <1>8, <1>9 DEF AverageInv

\* What was written still agrees.
LEMMA SameWrites ==
  ASSUME AverageInv, UNCHANGED <<topic, reports>>, overlapped \subseteq overlapped',
         \A k \in Keys : excused[k] \subseteq excused'[k], NEW k \in Keys, Untroubled(k)'
  PROVE  WritesAgree(k)
<1>1. Untroubled(k) /\ Skewed(k) \subseteq Skewed(k)'
  BY StillUntroubled, SkewedGrows
<1> QED
  BY <1>1 DEF WritesAgree, AverageInv, WrittenAgree, Counted1

\* What job f held and still holds.
LEMMA SameHolds ==
  ASSUME TypeInv, TypeInv', AverageInv, overlapped \subseteq overlapped', NEW f \in Flushers,
         \A k \in Keys : excused[k] \subseteq excused'[k], NEW k \in Keys, Untroubled(k)',
         table'[k].seen <= table[k].seen, fl'[f].start = fl[f].start,
         AtWork(f)' /\ fl'[f].at.key = k => AtWork(f) /\ fl'[f].at = fl[f].at,
         fl'[f].batch \subseteq fl[f].batch
  PROVE  HoldsAgree(f, k)
<1>1. Untroubled(k) /\ Skewed(k) \subseteq Skewed(k)'
  BY StillUntroubled, SkewedGrows
<1>2. table'[k].seen \in Nat /\ table[k].seen \in Nat /\ fl[f].start \in Nat
  BY InvParts, FieldTypes DEF Parts, StateOK, TableOK, Entry, NoEntry
<1>3. \A i \in fl'[f].batch : i.key = k => Amiss(i) \subseteq Skewed(k)'
  BY <1>1 DEF AverageInv, FlushesAgree
<1>4. ASSUME AtWork(f)', fl'[f].at.key = k
      PROVE  /\ Amiss(fl'[f].at) \subseteq Skewed(k)'
             /\ fl'[f].at.cnt = {} => excused'[k] # {}
             /\ table'[k].seen <= fl'[f].start \/ excused'[k] # {}
  <2>1. /\ Amiss(fl[f].at) \subseteq Skewed(k)
        /\ fl[f].at.cnt = {} => excused[k] # {}
        /\ table[k].seen <= fl[f].start \/ excused[k] # {}
    BY <1>1, <1>4 DEF AverageInv, FlushesAgree, Counted2
  <2> QED
    BY <1>1, <1>2, <1>4, <2>1
<1> QED
  BY <1>3, <1>4 DEF HoldsAgree

\* A step of job f that reads nothing and writes nothing.
LEMMA QuietAverage ==
  ASSUME TypeInv, TypeInv', AverageInv, NEW f \in Flushers, OtherJobs(f),
         UNCHANGED <<th, topic, reports>>,
         \A k \in Keys : excused[k] \subseteq excused'[k], overlapped \subseteq overlapped',
         \A k \in Keys : table'[k].seen <= table[k].seen,
         \A k \in Keys : Untroubled(k)' =>
           Amiss(table'[k]) = {} \/ Amiss(table'[k]) = Amiss(table[k]),
         AtWork(f)' => AtWork(f) /\ fl'[f].at = fl[f].at, fl'[f].start = fl[f].start \/ ~AtWork(f)',
         fl'[f].batch \subseteq fl[f].batch,
         \A k \in Keys :
           k.aggregate /\ Untroubled(k)' /\ Present(k)' /\ ~Flushed(table'[k])
             /\ table'[k].cnt = {} /\ excused'[k] = {} =>
             \/ /\ Present(k) /\ ~Flushed(table[k]) /\ table[k].cnt = {}
                /\ ~(AtWork(f) /\ fl[f].at.key = k)
             \/ AtWork(f)' /\ fl'[f].at.key = k
  PROVE  AverageInv'
<1>1. ASSUME NEW k \in Keys, Untroubled(k)' PROVE WritesAgree(k)
  BY <1>1, SameWrites
<1>2. ASSUME NEW k \in Keys, Untroubled(k)' PROVE HoldsAgree(f, k)
  <2>1. CASE AtWork(f)'
    BY <1>2, <2>1, SameHolds
  <2>2. CASE ~AtWork(f)'
    <3>1. Untroubled(k) /\ Skewed(k) \subseteq Skewed(k)'
      BY <1>2, StillUntroubled, SkewedGrows
    <3> QED
      BY <2>2, <3>1 DEF HoldsAgree, AverageInv, FlushesAgree
  <2> QED
    BY <2>1, <2>2
<1> QED
  BY <1>1, <1>2, JobAverage

LEMMA BeginAverage ==
  ASSUME TypeInv, TypeInv', AverageInv, NEW f \in Flushers, FlushBegin(f)
  PROVE  AverageInv'
<1>1. OtherJobs(f) /\ fl'[f].batch = {} /\ ~AtWork(f) /\ ~AtWork(f)'
  BY InvParts, BeginEffect DEF Parts, AtWork
<1>2. UNCHANGED <<table, th, topic, reports, excused, overlapped>>
  BY DEF FlushBegin
<1>3. \A k \in Keys : table[k].seen <= table[k].seen
  BY InvParts, FieldTypes DEF Parts
<1> QED
  BY <1>1, <1>2, <1>3, QuietAverage DEF Present

LEMMA VisitAverage ==
  ASSUME TypeInv, TypeInv', AverageInv, NEW f \in Flushers, FlushVisit(f)
  PROVE  AverageInv'
<1>0. Parts
  BY InvParts
<1>1. fl[f].pc = "visit" /\ ~AtWork(f)
  BY <1>0, VisitEffect DEF Parts, AtWork
<1>2. PICK k \in Keys : Visits(f, k)
  BY <1>0, VisitEffect DEF Parts
<1>3. UNCHANGED <<th, topic, reports>>
  BY DEF FlushVisit
<1>4. /\ OtherJobs(f) /\ \A j \in Keys : excused[j] \subseteq excused'[j]
      /\ overlapped \subseteq overlapped' /\ fl'[f].start = fl[f].start
      /\ \A j \in Keys : table'[j].seen = table[j].seen
      /\ \A j \in Keys : IsAverage(j) => table'[j] = table[j]
  BY <1>2 DEF Visits, Stays, Enters, Rewrites, OtherKeys
<1>5. \A j \in Keys : table'[j].seen \in Nat /\ table'[j].seen <= table[j].seen
  BY <1>0, <1>4, FieldTypes DEF Parts
<1>6. \A j \in Keys : Untroubled(j)' => IsAverage(j) /\ Untroubled(j) /\ Skewed(j) \subseteq Skewed(j)' /\ j \notin overlapped'
  BY <1>4, StillUntroubled, SkewedGrows DEF Untroubled
<1>7. ASSUME NEW j \in Keys, Untroubled(j)' PROVE WritesAgree(j)
  BY <1>3, <1>4, <1>7, SameWrites
<1>8. ItemOf(k).key = k /\ Amiss(ItemOf(k)) = Amiss(table[k]) /\ ItemOf(k).cnt = table[k].cnt
  BY DEF ItemOf, Amiss
<1>9. ASSUME Enters(f, k), Untroubled(k)' PROVE Amiss(table[k]) \subseteq Skewed(k)'
  <2>1. Amiss(table[k]) \subseteq Skewed(k) \cup UNION {th[s].sum : s \in Counting(k)}
    BY <1>6, <1>9 DEF AverageInv, TableAgrees
  <2>2. UNION {th[s].sum : s \in Counting(k)} \subseteq excused'[k]
    BY <1>9 DEF Enters, Counting, Busy
  <2> QED
    BY <1>6, <1>9, <2>1, <2>2, SkewedHasLater
<1>10. CASE \E doomed : Stays(f, "visit", fl[f].at, fl[f].batch, doomed)
  <2>1. ~AtWork(f)' /\ fl'[f].batch \subseteq fl[f].batch
    BY <1>10 DEF Stays, AtWork
  <2> QED
    BY <1>1, <1>3, <1>4, <1>5, <1>6, <2>1, QuietAverage DEF Present, Untroubled
<1>11. CASE Enters(f, k) /\ Stays(f, "visit", fl[f].at, fl[f].batch \cup {ItemOf(k)}, fl[f].doomed)
  <2>1. ASSUME NEW j \in Keys, Untroubled(j)' PROVE HoldsAgree(f, j)
    BY <1>6, <1>8, <1>9, <1>11, <2>1 DEF HoldsAgree, Stays, AtWork, AverageInv, FlushesAgree
  <2>2. ~AtWork(f)'
    BY <1>11 DEF Stays, AtWork
  <2> QED
    BY <1>1, <1>3, <1>4, <1>5, <1>6, <1>7, <2>1, JobAverage DEF Present, Untroubled
<1>12. CASE /\ Enters(f, k) /\ k.aggregate /\ ~Flushed(table[k]) /\ Quiet(f, table[k]) /\ Present(k)
            /\ \/ Stays(f, "zero", ItemOf(k), fl[f].batch, fl[f].doomed)
               \/ Stays(f, "reset", ItemOf(k), fl[f].batch, fl[f].doomed)
  <2>1. AtWork(f)' /\ fl'[f].at = ItemOf(k) /\ fl'[f].batch = fl[f].batch
    BY <1>12 DEF Stays, AtWork
  <2>2. ASSUME Untroubled(k)', table[k].cnt = {} PROVE excused'[k] # {}
    <3>1. \/ excused[k] # {}
          \/ \E t \in Threads : th[t].pc \in {"add", "count"} /\ th[t].key = k
          \/ \E g \in Flushers : AtWork(g) /\ fl[g].at.key = k
      BY <1>6, <1>12, <2>2 DEF AverageInv, Counted3
    <3>2. CASE \E t \in Threads : th[t].pc \in {"add", "count"} /\ th[t].key = k
      <4>1. PICK t \in Threads : th[t].pc \in {"add", "count"} /\ th[t].key = k
        BY <3>2
      <4>2. th[t].sum # {} /\ th[t].sum \subseteq excused'[k]
        BY <1>0, <1>12, <4>1 DEF Parts, Kinds, Enters, Busy
      <4> QED
        BY <4>2
    <3>3. ASSUME NEW g \in Flushers, AtWork(g), fl[g].at.key = k PROVE FALSE
      <4>1. AtKey(g, k) /\ g # f
        BY <1>1, <3>3 DEF AtKey, AtWork
      <4> QED
        BY <1>6, <1>12, <2>2, <4>1 DEF Enters
    <3> QED
      BY <1>4, <3>1, <3>2, <3>3
  <2>3. table'[k].seen <= fl'[f].start
    <3>1. /\ fl[f].start \in Nat /\ table[k].seen \in Nat /\ QuietAfter \in Nat
          /\ fl[f].start - table[k].seen > QuietAfter
      BY <1>0, <1>12, FieldTypes, TableAssumption DEF Parts, Quiet
    <3> QED
      BY <1>4, <3>1
  <2>4. ASSUME NEW j \in Keys, Untroubled(j)' PROVE HoldsAgree(f, j)
    BY <1>6, <1>8, <1>9, <1>12, <2>1, <2>2, <2>3, <2>4 DEF HoldsAgree, AverageInv, FlushesAgree
  <2> QED
    BY <1>1, <1>3, <1>4, <1>5, <1>6, <1>7, <2>4, JobAverage DEF Present, Untroubled
<1> QED
  BY <1>2, <1>10, <1>11, <1>12 DEF Visits

LEMMA ZeroAverage ==
  ASSUME TypeInv, TypeInv', AverageInv, NEW f \in Flushers, FlushZero(f) \/ FlushReset(f)
  PROVE  AverageInv'
<1>0. Parts /\ AtWork(f) /\ fl[f].at.gen # 0 /\ fl[f].at.key \in Keys
  BY InvParts, InHand DEF AtWork, FlushZero, FlushReset
<1>1. UNCHANGED <<th, topic, reports, excused, overlapped>>
  BY DEF FlushZero, FlushReset
<1>2. PICK k \in Keys : k = fl[f].at.key
  BY <1>0
<1>3. /\ AtWork(f)' /\ OtherJobs(f) /\ fl'[f].batch = fl[f].batch /\ fl'[f].at = fl[f].at
      /\ fl'[f].start = fl[f].start
      /\ \/ table' = table
         \/ /\ OtherKeys(k) /\ table'[k].seen = table[k].seen
            /\ table'[k].sum = {} /\ table'[k].cnt = {}
  <2>1. CASE FlushZero(f)
    BY <1>0, <1>2, <2>1, ZeroEffect DEF Parts, Stays, Rewrites, AtWork
  <2>2. CASE FlushReset(f)
    BY <1>0, <1>2, <2>2, ResetEffect DEF Parts, Stays, Rewrites, AtWork
  <2> QED
    BY <2>1, <2>2
<1>4. \A j \in Keys : table'[j].seen <= table[j].seen
  BY <1>0, <1>3, FieldTypes DEF Parts, OtherKeys
<1>5. \A j \in Keys : Amiss(table'[j]) = {} \/ Amiss(table'[j]) = Amiss(table[j])
  BY <1>3 DEF OtherKeys, Amiss
<1>6. \A j \in Keys : j # k => table'[j] = table[j]
  BY <1>3 DEF OtherKeys
<1> QED
  BY <1>0, <1>1, <1>2, <1>3, <1>4, <1>5, <1>6, QuietAverage DEF Present

LEMMA ProduceAverage ==
  ASSUME TypeInv, TypeInv', SentInv, AverageInv, NEW f \in Flushers, FlushProduce(f)
  PROVE  AverageInv'
<1>0. Parts /\ AtWork(f) /\ fl[f].at.gen # 0
  BY InvParts, InHand DEF AtWork, FlushProduce
<1>1. UNCHANGED <<th, reports, overlapped>>
  BY DEF FlushProduce
<1>2. PICK k \in Keys : k = fl[f].at.key
  BY <1>0, InHand
<1>3. k.aggregate /\ fl[f].start \in 1..now
  BY <1>0, <1>2, InHand DEF AtWork
<1>4. /\ OtherJobs(f) /\ fl'[f].batch = fl[f].batch /\ ~AtWork(f)' /\ fl'[f].start = fl[f].start
      /\ Produces(f)
  BY <1>0, ProduceEffect DEF Parts, Stays, AtWork
<1>5. /\ \A j \in Keys : excused[j] \subseteq excused'[j]
      /\ \A j \in Keys : table'[j].seen = table[j].seen /\ table'[j].sum = table[j].sum
           /\ table'[j].cnt = table[j].cnt /\ (j # k => table'[j] = table[j])
  BY <1>2, <1>4 DEF Produces, Rewrites, OtherKeys
<1>6. \A j \in Keys : table'[j].seen <= table[j].seen /\ Amiss(table'[j]) = Amiss(table[j])
  BY <1>0, <1>5, FieldTypes DEF Parts, Amiss
<1>7. ASSUME NEW j \in Keys, Untroubled(j)' PROVE Untroubled(j) /\ Skewed(j) \subseteq Skewed(j)'
  BY <1>1, <1>5, <1>7, SkewedGrows DEF Untroubled
<1>8. ASSUME NEW j \in Keys, Untroubled(j)' PROVE HoldsAgree(f, j)
  BY <1>4, <1>7, <1>8 DEF HoldsAgree, AverageInv, FlushesAgree
<1>9. MessageOf(f).key = k /\ Amiss(MessageOf(f)) = Amiss(fl[f].at) /\ MessageOf(f).cnt = fl[f].at.cnt
  BY <1>2 DEF MessageOf, Amiss
<1>10. ASSUME Untroubled(k)
       PROVE  /\ Amiss(fl[f].at) \subseteq Skewed(k)
              /\ fl[f].at.cnt = {} => excused[k] # {}
              /\ table[k].seen <= fl[f].start \/ excused[k] # {}
              /\ AtLive(f)
  <2>1. k \notin overlapped
    BY <1>10 DEF Untroubled, Origins
  <2> QED
    BY <1>0, <1>2, <1>10, <2>1 DEF AverageInv, FlushesAgree, Counted2, SentInv, StaysLive
<1>11. ASSUME NEW j \in Keys, Untroubled(j)' PROVE WritesAgree(j)
  <2>1. topic \in Seq(Message)
    BY <1>0 DEF Parts, LogsOK
  <2>2. ASSUME NEW n \in 1..Len(topic'), topic'[n].key = j
        PROVE  Amiss(topic'[n]) \subseteq Skewed(j)' /\ (topic'[n].cnt = {} => excused'[j] # {})
    <3>1. CASE n \in 1..Len(topic) /\ topic'[n] = topic[n]
      BY <1>5, <1>7, <1>11, <2>2, <3>1 DEF AverageInv, WrittenAgree, Counted1
    <3>2. CASE topic'[n] = MessageOf(f)
      BY <1>5, <1>7, <1>9, <1>10, <1>11, <2>2, <3>2
    <3> QED
      BY <1>4, <2>1, <2>2, <3>1, <3>2 DEF Produces
  <2> QED
    BY <1>1, <1>7, <1>11, <2>2 DEF WritesAgree, AverageInv, WrittenAgree
<1>12. ASSUME Untroubled(k), ~Flushed(table'[k]), excused'[k] = {} PROVE FALSE
  <2>1. excused[k] = {}
    BY <1>5, <1>12
  <2>2. Skewed(k) = {} /\ fl[f].at.cnt # {} /\ table[k].seen <= fl[f].start /\ AtLive(f)
    BY <1>3, <1>10, <1>12, <2>1, AggregateOrigins
  <2>3. Amiss(fl[f].at) = {}
    BY <1>10, <1>12, <2>2
  <2>4. fl[f].at.sum # {}
    BY <2>2, <2>3 DEF Amiss
  <2>5. table'[k].flushed = fl[f].start
    BY <1>2, <1>4, <1>12, <2>2, <2>4 DEF Produces, Rewrites
  <2> QED
    BY <1>0, <1>3, <1>5, <1>12, <2>2, <2>5, FieldTypes DEF Flushed, Parts, StateOK
<1>13. \A j \in Keys : Untroubled(j)' /\ ~Flushed(table'[j]) /\ excused'[j] = {} => j # k
  BY <1>7, <1>12
<1> QED
  BY <1>1, <1>2, <1>4, <1>5, <1>6, <1>8, <1>11, <1>13, JobAverage DEF Present

LEMMA JournalAverage ==
  ASSUME TypeInv, TypeInv', AverageInv, NEW f \in Flushers, FlushJournal(f)
  PROVE  AverageInv'
<1>0. Parts /\ ~AtWork(f)
  BY InvParts DEF FlushJournal, AtWork
<1>1. /\ \/ reports' = reports \cup fl[f].batch /\ Stamps(f)
         \/ UNCHANGED <<reports, table>>
      /\ OtherJobs(f) /\ fl'[f].batch = {} /\ ~AtWork(f)'
  BY <1>0, InHand, JournalEffect DEF Parts, Stays, AtWork
<1>2. UNCHANGED <<th, topic, excused, overlapped>>
  BY DEF FlushJournal
<1>3. \A k \in Keys : /\ table'[k].sum = table[k].sum /\ table'[k].cnt = table[k].cnt
                      /\ table'[k].seen = table[k].seen
                      /\ k.aggregate => table'[k] = table[k]
  BY <1>1, InHand DEF Stamps
<1>4. \A k \in Keys : table'[k].seen <= table[k].seen /\ Amiss(table'[k]) = Amiss(table[k])
  BY <1>0, <1>3, FieldTypes DEF Parts, Amiss
<1>5. \A k \in Keys : (Untroubled(k)' <=> Untroubled(k)) /\ Skewed(k)' = Skewed(k)
  BY <1>2 DEF Untroubled, Skewed
<1>6. ASSUME NEW k \in Keys, Untroubled(k)' PROVE WritesAgree(k) /\ HoldsAgree(f, k)
  BY <1>1, <1>2, <1>5, <1>6 DEF WritesAgree, HoldsAgree, AverageInv, WrittenAgree,
     FlushesAgree, Counted1
<1> QED
  BY <1>0, <1>1, <1>2, <1>3, <1>4, <1>6, JobAverage DEF Present

LEMMA DeleteAverage ==
  ASSUME TypeInv, TypeInv', AverageInv, NEW f \in Flushers, FlushDelete(f)
  PROVE  AverageInv'
<1>0. Parts /\ ~AtWork(f)
  BY InvParts DEF FlushDelete, AtWork
<1>1. /\ OtherJobs(f) /\ fl'[f].batch \subseteq fl[f].batch /\ ~AtWork(f)'
      /\ table' = table \/ \E k \in Keys : OtherKeys(k) /\ table'[k] = NoEntry
  BY <1>0, DeleteEffect DEF Parts, Stays, IdleFlush, AtWork
<1>2. UNCHANGED <<th, topic, reports, excused, overlapped>>
  BY DEF FlushDelete
<1>3. \A k \in Keys : table'[k] = table[k] \/ table'[k] = NoEntry
  BY <1>1 DEF OtherKeys
<1>4. \A k \in Keys : table'[k].seen <= table[k].seen
  BY <1>0, <1>3, FieldTypes, IdleAmiss DEF Parts
<1>5. \A k \in Keys : Amiss(table'[k]) = {} \/ Amiss(table'[k]) = Amiss(table[k])
  BY <1>3, IdleAmiss
<1>6. \A k \in Keys : Present(k)' => table'[k] = table[k]
  BY <1>3 DEF Present
<1> QED
  BY <1>0, <1>1, <1>2, <1>4, <1>5, <1>6, QuietAverage DEF Present

LEMMA IdleAverage ==
  ASSUME AverageInv, UNCHANGED <<table, th, fl, topic, reports, excused, overlapped>>
  PROVE  AverageInv'
<1>1. \A k : (Untroubled(k)' <=> Untroubled(k)) /\ Skewed(k)' = Skewed(k) /\ Counting(k)' = Counting(k)
  BY DEF Untroubled, Skewed, Counting
<1>2. ThreadsAgree' /\ TableAgrees' /\ FlushesAgree' /\ WrittenAgree'
  BY <1>1 DEF AverageInv, ThreadsAgree, TableAgrees, FlushesAgree, WrittenAgree, AtWork
<1>3. Counted1' /\ Counted2' /\ Counted3'
  BY <1>1 DEF AverageInv, Counted1, Counted2, Counted3, AtWork, Present
<1> QED
  BY <1>2, <1>3 DEF AverageInv

\* Nothing was added yet.
LEMMA InitAverage == Init => AverageInv
<1> SUFFICES ASSUME Init PROVE AverageInv
  OBVIOUS
<1>1. /\ \A t \in Threads : Amiss(th[t]) = {}
      /\ \A k \in Keys : Amiss(table[k]) = {} /\ ~Present(k)
  BY IdleAmiss DEF Init, Present
<1>2. \A f \in Flushers : ~AtWork(f) /\ fl[f].batch = {}
  BY DEF Init, IdleFlush, AtWork
<1>3. topic = <<>> /\ reports = {}
  BY DEF Init
<1>4. ThreadsAgree /\ TableAgrees
  BY <1>1 DEF ThreadsAgree, TableAgrees
<1>5. FlushesAgree /\ WrittenAgree
  BY <1>2, <1>3 DEF FlushesAgree, WrittenAgree
<1>6. Counted1 /\ Counted2 /\ Counted3
  BY <1>1, <1>2, <1>3 DEF Counted1, Counted2, Counted3
<1> QED
  BY <1>4, <1>5, <1>6 DEF AverageInv

LEMMA StepAverage ==
  ASSUME TypeInv, TypeInv', KeptInv, SentInv, AverageInv, [Next]_vars
  PROVE  AverageInv'
<1>1. CASE Tick \/ UNCHANGED vars
  BY <1>1, IdleAverage DEF Tick, vars
<1> QED
  BY <1>1, CallAverage, CallAggregateAverage, FindAverage, LockAverage, StoreSeenAverage,
     AddValueAverage, AddCountAverage, MergeAverage, BeginAverage, VisitAverage, ZeroAverage,
     ProduceAverage, JournalAverage, DeleteAverage DEF Next, UpdateStep, FlushStep

\* The count that an average is divided by is the number of the updates summed up in
\* it, in messages and in reports, except for updates that overlapped a flush
\* (fetch_add of the number and of the count are two steps).
THEOREM AveragesOfUpdates == Spec => []AveragesAgree
<1> DEFINE Inv == TypeInv /\ KeptInv /\ SentInv /\ AverageInv
<1>1. Init => Inv
  BY InitTyped, InitKept, InitSent, InitAverage
<1>2. Inv /\ [Next]_vars => Inv'
  BY StepTyped, StepKept, StepSent, StepAverage
<1>3. Inv => AveragesAgree
  <2> SUFFICES ASSUME Inv, NEW i \in {topic[n] : n \in 1..Len(topic)} \cup reports,
                      IsAverage(i.key), Origins(i.key) \cap overlapped = {}
               PROVE  Amiss(i) \subseteq Skewed(i.key)
    BY DEF AveragesAgree
  <2>1. topic \in Seq(Message) /\ reports \subseteq Item
    BY InvParts DEF Parts, LogsOK
  <2>2. i.key \in Keys
    <3>1. i \in Message \/ i \in Item
      BY <2>1
    <3> QED
      BY <3>1 DEF Message, Item
  <2> QED
    BY <2>2 DEF AverageInv, WrittenAgree, Untroubled
<1> HIDE DEF Inv
<1> QED
  BY <1>1, <1>2, <1>3, PTL DEF Spec

=============================================================================
