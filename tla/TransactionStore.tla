-------------------------- MODULE TransactionStore --------------------------
(***************************************************************************)
(* The tail-sampling store of tracemate: src/src/tm_transaction_store.c,   *)
(* the three Kafka handlers that fill it and the cleanup job of main.c     *)
(* that drains it into Jaeger.                                             *)
(*                                                                         *)
(* Two LMDB environments, "current" and "last", hold root transactions,    *)
(* their children and, in a second table, the marks of the traces that     *)
(* must be sent.  Each topic has one reader thread; a thread runs one      *)
(* handler at a time and a handler is a sequence of short LMDB             *)
(* transactions under the read side of `rwlock'.  The cleanup job exports  *)
(* marked traces that have been quiet for the lookback, again under the    *)
(* read side, and then may rotate the environments under the write side.   *)
(***************************************************************************)
EXTENDS Integers, FiniteSets

CONSTANTS
  Traces,       \* trace ids
  Docs,         \* the Elastic APM documents Kafka delivers
  Lookback,     \* default_lookback_secs, in ticks
  RotateAfter,  \* TEN_MINUTES_MS, in ticks
  MaxExport,    \* JAEGER_MAX_COUNT
  MaxChildren,  \* MAX_CHILD_COUNT
  UseBloom,     \* _use_bloom_filters
  FalseHits,    \* whether a bloom filter may report a key it does not hold
  MayFail,      \* whether an LMDB write may return an error
  SlowRounds,   \* whether the clock may advance within a round of the job
  MaxTime,      \* bound on the clock
  MaxCrashes,   \* bound on process crashes
  NoRoot, NoDoc, NoTrace

Slots  == {"current", "last"}
Topics == {"transaction", "span", "error"}

\* "root" and "slow" are transactions without a parent, below and above the
\* service's threshold; "child" is a transaction of a distributed trace.
Kinds     == {"root", "slow", "child", "span", "error"}
RootKinds == {"root", "slow"}

TopicOf(d) == IF d.kind \in {"root", "slow", "child"} THEN "transaction" ELSE d.kind

\* lmdb_stored_root_t: the document, first_seen_ms and last_modified_ms.
RootRecord == [doc : Docs, first : Nat, mod : Nat]

ASSUME ConstantsAssumption ==
  /\ IsFiniteSet(Docs)
  /\ \A d \in Docs : d.trace \in Traces /\ d.kind \in Kinds
  /\ Lookback \in Nat /\ RotateAfter \in Nat
  /\ MaxExport \in Nat /\ MaxChildren \in Nat
  /\ MaxTime \in Nat /\ MaxCrashes \in Nat
  /\ UseBloom \in BOOLEAN /\ FalseHits \in BOOLEAN
  /\ MayFail \in BOOLEAN /\ SlowRounds \in BOOLEAN
  /\ NoRoot \notin RootRecord
  /\ NoDoc \notin Docs
  /\ NoTrace \notin Traces

VARIABLES
  now,       \* mtev_now_ms()
  inbox,     \* documents Kafka has yet to deliver
  seen,      \* documents some handler has taken (history)
  roots,     \* roots[s][t]: the root of trace t in environment s, or NoRoot
  kids,      \* kids[s]: the child documents in environment s
  marks,     \* marks[s]: the keys of the "jaeger" table of environment s
  openMs,    \* current_open_ms
  bloom,     \* bloom[s]: the root keys added to the bloom filter of s
  th,        \* th[p]: the handler running in the reader thread of topic p
  leaked,    \* threads that left a read transaction on last_env open
  job,       \* the cleanup job
  jaegered,  \* documents passed to jaegerize_* (history)
  crashes    \* number of crashes so far

envs == <<roots, kids, marks, openMs, bloom>>
vars == <<now, inbox, seen, envs, th, leaked, job, jaegered, crashes>>

(***************************************************************************)
(* The threads and the lock.                                               *)
(***************************************************************************)

\* Where a handler is; the phases in LockedPhases hold the read lock.
Phases       == {"idle", "stamp", "put", "bloom", "lookup", "parent", "child", "mark"}
LockedPhases == {"bloom", "parent", "child"}

\* A handler: its document, the root record it is about to write and the
\* environment it writes to.
Handler == [pc : Phases, doc : Docs \cup {NoDoc}, slot : Slots,
            root : RootRecord \cup {NoRoot}]
IdleHandler == [pc |-> "idle", doc |-> NoDoc, slot |-> "current", root |-> NoRoot]

\* The cleanup job: the environment it scans, the documents of the snapshot
\* it took, the traces of that snapshot still to export, the one exported
\* last, and jaegered_count.
JobPhases == {"idle", "scan", "clear", "check", "drain", "rename", "reopen"}
Job == [pc : JobPhases, slot : Slots, limit : Int, todo : SUBSET Traces,
        cargo : SUBSET Docs, trace : Traces \cup {NoTrace}, count : Nat]
IdleJob == [pc |-> "idle", slot |-> "current", limit |-> 0, todo |-> {},
            cargo |-> {}, trace |-> NoTrace, count |-> 0]

\* ck_rwlock prefers writers: once the job has announced itself no new
\* reader enters, and it proceeds when the readers inside have left.
WriterActive == job.pc \in {"drain", "rename", "reopen"}

NoReadersMutant == TRUE  \* the writer does not wait for the readers inside
NoReaders       == \A p \in Topics : th[p].pc \notin LockedPhases

TraceOf(p) == th[p].doc.trace
Goto(p, pc) == th' = [th EXCEPT ![p].pc = pc]
Finish(p)   == th' = [th EXCEPT ![p] = IdleHandler]

\* What follows add_child: an error document also marks its trace.
AfterAddChild(p) ==
  IF th[p].doc.kind = "error"
  THEN th' = [th EXCEPT ![p] = [IdleHandler EXCEPT !.pc = "mark", !.doc = th[p].doc]]
  ELSE Finish(p)

EmptyRoots == [t \in Traces |-> NoRoot]
Keys(s)    == {t \in Traces : roots[s][t] # NoRoot}

Init ==
  /\ now = 0
  /\ inbox = Docs
  /\ seen = {}
  /\ roots = [s \in Slots |-> EmptyRoots]
  /\ kids = [s \in Slots |-> {}]
  /\ marks = [s \in Slots |-> {}]
  /\ openMs = 0
  /\ bloom = [s \in Slots |-> {}]
  /\ th = [p \in Topics |-> IdleHandler]
  /\ leaked = {}
  /\ job = IdleJob
  /\ jaegered = {}
  /\ crashes = 0

(***************************************************************************)
(* The handlers.                                                           *)
(***************************************************************************)

\* A reader thread takes the next document of its topic.  A slow root is
\* marked before it is stored; a consumer that lags by 50000 messages drops
\* fast roots and child transactions.
Receive(p) ==
  /\ th[p].pc = "idle"
  /\ \E d \in inbox :
       /\ TopicOf(d) = p
       /\ inbox' = inbox \ {d}
       /\ seen' = seen \cup {d}
       /\ \E pc \in CASE d.kind = "slow"             -> {"mark"}
                      [] d.kind = "root"             -> {"stamp", "idle"}
                      [] d.kind = "child"            -> {"lookup", "idle"}
                      [] d.kind \in {"span", "error"} -> {"lookup"} :
            th' = [th EXCEPT ![p] = [IdleHandler EXCEPT
                     !.pc = pc, !.doc = IF pc = "idle" THEN NoDoc ELSE d]]
  /\ UNCHANGED <<now, envs, leaked, job, jaegered, crashes>>

\* tm_transaction_store_mark_traceable: the mark goes to the current
\* environment, wherever the root is.
AfterMark(p) ==
  IF th[p].doc.kind = "slow" THEN Goto(p, "stamp") ELSE Finish(p)

MarkTraceable(p) ==
  /\ th[p].pc = "mark"
  /\ ~WriterActive
  /\ marks' = [marks EXCEPT !["current"] = @ \cup {TraceOf(p)}]
  /\ AfterMark(p)
  /\ UNCHANGED <<now, inbox, seen, roots, kids, openMs, bloom, leaked, job,
                 jaegered, crashes>>

\* Mutant: the entry is passed on without its record.
PutStampMutant(p) ==
  /\ th[p].pc = "stamp"
  /\ Goto(p, "put")
  /\ UNCHANGED <<now, inbox, seen, envs, leaked, job, jaegered, crashes>>

\* tm_transaction_store_put stamps the record before it takes the lock, ...
PutStamp(p) ==
  /\ th[p].pc = "stamp"
  /\ th' = [th EXCEPT ![p].pc = "put",
                      ![p].root = [doc |-> th[p].doc, first |-> now, mod |-> now]]
  /\ UNCHANGED <<now, inbox, seen, envs, leaked, job, jaegered, crashes>>

\* ... commits it to the current environment, over any older record, ...
PutCommit(p) ==
  /\ th[p].pc = "put"
  /\ ~WriterActive
  /\ roots' = [roots EXCEPT !["current"][TraceOf(p)] = th[p].root]
  /\ IF UseBloom THEN Goto(p, "bloom") ELSE Finish(p)
  /\ UNCHANGED <<now, inbox, seen, kids, marks, openMs, bloom, leaked, job,
                 jaegered, crashes>>

\* ... and then, still under the lock, adds the key to the current filter.
PutBloom(p) ==
  /\ th[p].pc = "bloom"
  /\ bloom' = [bloom EXCEPT !["current"] = @ \cup {TraceOf(p)}]
  /\ Finish(p)
  /\ UNCHANGED <<now, inbox, seen, roots, kids, marks, openMs, leaked, job,
                 jaegered, crashes>>

\* Whether the filter of environment s may answer "contains" for trace t,
\* and whether it may answer "does not contain".
MayHit(s, t)  == ~UseBloom \/ FalseHits \/ t \in bloom[s]
MayMiss(s, t) == UseBloom /\ t \notin bloom[s]

\* tm_transaction_store_add_child, the search for the parent: the filter and
\* the table of "last", then of "current".  The two reads are one step
\* because no root enters "last" while the read lock is held.  The lock is
\* held from here until the child is written.
FoundParent(p, s) ==
  /\ MayHit(s, TraceOf(p))
  /\ roots[s][TraceOf(p)] # NoRoot
  /\ th' = [th EXCEPT ![p].pc = "parent", ![p].slot = s,
                      ![p].root = [roots[s][TraceOf(p)] EXCEPT !.mod = now]]

\* The filter says "contains" and the table does not have the key.
ReadInVain(p, s) == MayHit(s, TraceOf(p)) /\ roots[s][TraceOf(p)] = NoRoot

\* A thread that left a read transaction on last_env open cannot begin
\* another one there.
CanReadLast(p) == p \notin leaked

AddLookup(p) ==
  /\ th[p].pc = "lookup"
  /\ ~WriterActive
  /\ \/ /\ CanReadLast(p) /\ FoundParent(p, "last")
        /\ UNCHANGED leaked
     \/ /\ ~CanReadLast(p) /\ MayHit("last", TraceOf(p))
        /\ AfterAddChild(p)
        /\ UNCHANGED leaked
     \/ /\ MayMiss("last", TraceOf(p)) \/ (CanReadLast(p) /\ ReadInVain(p, "last"))
        /\ FoundParent(p, "current")
        /\ UNCHANGED leaked
     \/ \* no parent: the child goes to the current environment
        /\ \/ /\ MayMiss("last", TraceOf(p))
              /\ MayMiss("current", TraceOf(p)) \/ ReadInVain(p, "current")
              /\ UNCHANGED leaked
           \/ /\ CanReadLast(p) /\ ReadInVain(p, "last")
              /\ ReadInVain(p, "current")
              /\ UNCHANGED leaked
           \/ \* the jump to add_child skips the abort of the read of "last"
              /\ CanReadLast(p) /\ ReadInVain(p, "last")
              /\ MayMiss("current", TraceOf(p))
              /\ leaked' = leaked \cup {p}
        /\ Goto(p, "child")
  /\ UNCHANGED <<now, inbox, seen, envs, job, jaegered, crashes>>

\* The parent, read by the step above and given a new last_modified_ms, is
\* written back in a transaction of its own, ...
AddParent(p) ==
  /\ th[p].pc = "parent"
  /\ roots' = [roots EXCEPT ![th[p].slot][TraceOf(p)] = th[p].root]
  /\ Goto(p, "child")
  /\ UNCHANGED <<now, inbox, seen, kids, marks, openMs, bloom, leaked, job,
                 jaegered, crashes>>

\* ... and the child in another, beside its parent.
AddChild(p) ==
  /\ th[p].pc = "child"
  /\ kids' = [kids EXCEPT ![th[p].slot] = @ \cup {th[p].doc}]
  /\ AfterAddChild(p)
  /\ UNCHANGED <<now, inbox, seen, roots, marks, openMs, bloom, leaked, job,
                 jaegered, crashes>>

\* An LMDB write returns an error: the operation is abandoned and the
\* handler goes on, since it ignores the results of these calls.  Only the
\* commit of the parent is not looked at, and the child follows.
WriteFails(p) ==
  /\ MayFail
  /\ \/ th[p].pc = "mark" /\ ~WriterActive /\ AfterMark(p)
     \/ th[p].pc = "put" /\ ~WriterActive /\ Finish(p)
     \/ th[p].pc = "parent" /\ (AfterAddChild(p) \/ Goto(p, "child"))
     \/ th[p].pc = "child" /\ AfterAddChild(p)
  /\ UNCHANGED <<now, inbox, seen, envs, leaked, job, jaegered, crashes>>

(***************************************************************************)
(* The cleanup job: process_jaeger, then delete_old_transactions.          *)
(***************************************************************************)

\* When a root is not in the environment of its mark the code opens a cursor
\* on the other environment's table, but in the same read transaction; both
\* environments number their tables alike, so it reads the same table again.
FallbackSlot(s) == s

ParentRoot(s, t) ==
  IF roots[s][t] # NoRoot THEN roots[s][t] ELSE roots[FallbackSlot(s)][t]

\* Mutants: the marks are not consulted; the marks of "current" are consulted
\* in both scans; a trace is sent while it is still touched.
ReadyUnmarkedMutant(s, limit) ==
  {t \in Traces : ParentRoot(s, t) # NoRoot /\ ParentRoot(s, t).mod <= limit}
ReadyCurrentMutant(s, limit) ==
  {t \in marks["current"] : ParentRoot(s, t) # NoRoot /\ ParentRoot(s, t).mod <= limit}
ReadyTouchedMutant(s, limit) == {t \in marks[s] : ParentRoot(s, t) # NoRoot}

\* The marked traces of environment s that have not changed since limit, and
\* what is sent of them: the root and the children beside the mark.
Ready(s, limit) ==
  {t \in marks[s] : ParentRoot(s, t) # NoRoot /\ ParentRoot(s, t).mod <= limit}

CargoMutant(s, ready) == {d \in kids[s] : d.trace \in ready}  \* no root
Cargo(s, ready) ==
  {ParentRoot(s, t).doc : t \in ready} \cup {d \in kids[s] : d.trace \in ready}

\* Begins the read transaction on environment s, which fixes what is read.
BeginScan(s, limit, count) ==
  LET ready == Ready(s, limit)
  IN  job' = [IdleJob EXCEPT !.pc = "scan", !.slot = s, !.limit = limit,
                             !.todo = ready, !.cargo = Cargo(s, ready), !.count = count]

JobScanCurrent ==
  /\ job.pc = "idle"
  /\ BeginScan("current", now - Lookback, 0)
  /\ UNCHANGED <<now, inbox, seen, envs, th, leaked, jaegered, crashes>>

JobScanLast ==
  /\ job.pc = "scan" /\ job.todo = {} /\ job.slot = "current"
  /\ BeginScan("last", job.limit, job.count)
  /\ UNCHANGED <<now, inbox, seen, envs, th, leaked, jaegered, crashes>>

\* One trace is sent: its root and at most MAX_CHILD_COUNT children.  Errors
\* travel inside the spans and are not counted.
JobExport(t) ==
  LET batch    == {d \in job.cargo : d.trace = t}
      children == {d \in batch : d.kind \notin RootKinds}
  IN  /\ job.pc = "scan" /\ t \in job.todo
      /\ \E sent \in SUBSET children :
           /\ sent = children \/ Cardinality(sent) = MaxChildren
           /\ Cardinality(sent) <= MaxChildren
           /\ jaegered' = jaegered \cup (batch \ children) \cup sent
           /\ job' = [job EXCEPT
                        !.pc = "clear", !.trace = t,
                        !.count = @ + 2 + Cardinality({d \in sent : d.kind # "error"})]
      /\ UNCHANGED <<now, inbox, seen, envs, th, leaked, crashes>>

ClearedMarksMutant == [marks EXCEPT ![job.slot] = {}]  \* drops the table
ClearedMarks       == [marks EXCEPT ![job.slot] = @ \ {job.trace}]

\* The mark is deleted in a write transaction of its own, whatever became of
\* the trace since the snapshot; a failed delete leaves it.  The scan of this
\* environment stops when enough was sent.
JobClear ==
  /\ job.pc = "clear"
  /\ \/ marks' = ClearedMarks
     \/ MayFail /\ UNCHANGED marks
  /\ job' = [job EXCEPT !.pc = "scan", !.trace = NoTrace,
               !.todo = IF job.count >= MaxExport THEN {} ELSE @ \ {job.trace}]
  /\ UNCHANGED <<now, inbox, seen, roots, kids, openMs, bloom, th, leaked,
                 jaegered, crashes>>

JobEndScan ==
  /\ job.pc = "scan" /\ job.todo = {} /\ job.slot = "last"
  /\ job' = [IdleJob EXCEPT !.pc = "check"]
  /\ UNCHANGED <<now, inbox, seen, envs, th, leaked, jaegered, crashes>>

RotationDue == now - openMs > RotateAfter

\* Is "current" old enough?  If so the job asks for the write lock.
JobCheckAge ==
  /\ job.pc = "check"
  /\ job' = [IdleJob EXCEPT !.pc = IF RotationDue THEN "drain" ELSE "idle"]
  /\ UNCHANGED <<now, inbox, seen, envs, th, leaked, jaegered, crashes>>

RotatedFiltersMutant == [current |-> {}, last |-> {}]  \* destroys the wrong one
RotatedFilters       == [current |-> {}, last |-> bloom["current"]]

\* With the write lock: both environments are closed, which ends leaked read
\* transactions, the filters rotate and the files of "last" are unlinked, ...
JobUnlinkLast ==
  /\ job.pc = "drain" /\ NoReaders
  /\ bloom' = RotatedFilters
  /\ leaked' = {}
  /\ roots' = [roots EXCEPT !["last"] = EmptyRoots]
  /\ kids' = [kids EXCEPT !["last"] = {}]
  /\ marks' = [marks EXCEPT !["last"] = {}]
  /\ job' = [job EXCEPT !.pc = "rename"]
  /\ UNCHANGED <<now, inbox, seen, openMs, th, jaegered, crashes>>

\* ... "current" is renamed "last", ...
JobRename ==
  /\ job.pc = "rename"
  /\ roots' = [current |-> EmptyRoots, last |-> roots["current"]]
  /\ kids' = [current |-> {}, last |-> kids["current"]]
  /\ marks' = [current |-> {}, last |-> marks["current"]]
  /\ job' = [job EXCEPT !.pc = "reopen"]
  /\ UNCHANGED <<now, inbox, seen, openMs, bloom, th, leaked, jaegered, crashes>>

\* ... and a new "current" is created, stamped and opened.
JobReopen ==
  /\ job.pc = "reopen"
  /\ openMs' = now
  /\ job' = IdleJob
  /\ UNCHANGED <<now, inbox, seen, roots, kids, marks, bloom, th, leaked,
                 jaegered, crashes>>

(***************************************************************************)
(* The environment: time and process crashes.                              *)
(***************************************************************************)

Tick ==
  /\ now < MaxTime
  /\ SlowRounds \/ job.pc = "idle"
  /\ now' = now + 1
  /\ UNCHANGED <<inbox, seen, envs, th, leaked, job, jaegered, crashes>>

\* _tm_transaction_store_open_environments at startup: the stamp of "current"
\* is read from its file, or created with it; the filters are filled from
\* the tables.
StampAtStartMutant == openMs  \* the stamp of the environment before
StampAtStart       == IF job.pc = "reopen" THEN now ELSE openMs

FiltersAtStart == [s \in Slots |-> Keys(s)]

\* The process dies and starts again.  What LMDB committed is in the files,
\* wherever the rotation had put them.  Kafka delivers again any of the
\* documents taken before.
Crash ==
  /\ crashes < MaxCrashes
  /\ crashes' = crashes + 1
  /\ th' = [p \in Topics |-> IdleHandler]
  /\ job' = IdleJob
  /\ leaked' = {}
  /\ bloom' = FiltersAtStart
  /\ openMs' = StampAtStart
  /\ \E again \in SUBSET seen : inbox' = inbox \cup again
  /\ UNCHANGED <<now, seen, roots, kids, marks, jaegered>>

StoreStep(p) ==
  \/ MarkTraceable(p)
  \/ PutStamp(p)
  \/ PutCommit(p)
  \/ PutBloom(p)
  \/ AddLookup(p)
  \/ AddParent(p)
  \/ AddChild(p)
  \/ WriteFails(p)

ExportStep ==
  \/ JobScanCurrent
  \/ JobScanLast
  \/ \E t \in Traces : JobExport(t)
  \/ JobClear
  \/ JobEndScan

RotateStep ==
  \/ JobCheckAge
  \/ JobUnlinkLast
  \/ JobRename
  \/ JobReopen

Next ==
  \/ \E p \in Topics : Receive(p) \/ StoreStep(p)
  \/ ExportStep
  \/ RotateStep
  \/ Tick
  \/ Crash

Spec == Init /\ [][Next]_vars

\* Threads and the job keep running and the clock advances; documents need
\* not arrive.
Fairness ==
  /\ \A p \in Topics : WF_vars(StoreStep(p))
  /\ WF_vars(ExportStep \/ RotateStep)
  /\ SF_vars(Tick)

FairSpec == Spec /\ Fairness

(***************************************************************************)
(* Properties.                                                             *)
(***************************************************************************)

\* Every variable has its type; in particular a handler that writes a parent
\* or a root carries a record.
TypeOK ==
  /\ now \in Nat /\ openMs \in Nat /\ crashes \in Nat
  /\ inbox \subseteq Docs /\ seen \subseteq Docs /\ jaegered \subseteq Docs
  /\ roots \in [Slots -> [Traces -> RootRecord \cup {NoRoot}]]
  /\ kids \in [Slots -> SUBSET Docs]
  /\ marks \in [Slots -> SUBSET Traces]
  /\ bloom \in [Slots -> SUBSET Traces]
  /\ th \in [Topics -> Handler]
  /\ \A p \in Topics : /\ th[p].pc # "idle" => th[p].doc \in Docs
                       /\ th[p].pc \in {"put", "parent"} => th[p].root \in RootRecord
  /\ leaked \subseteq Topics
  /\ job \in Job
  /\ job.pc = "clear" => job.trace \in Traces

\* Retention: a trace leaves the store only when its root was first seen more
\* than RotateAfter ago, across any interleaving of handlers with the cleanup
\* job and any crash between the steps of a rotation
\* (delete_old_transactions prunes "last" as a whole, by the age of
\* "current").
YoungRootsKept ==
  [][\A t \in Traces, s \in Slots :
        (roots[s][t] # NoRoot /\ \A r \in Slots : roots'[r][t] = NoRoot)
          => now - roots[s][t].first > RotateAfter]_vars

\* The filters never deny a stored root: add_child may skip a table when its
\* filter misses.  Only the root a handler committed and has not yet added
\* may be absent from the filter of "current", and the lock keeps a rotation
\* from turning that filter into the one of "last" in between.  (Within a
\* rotation the filters move one step before the files.)
FiltersCoverRoots ==
  (UseBloom /\ job.pc # "rename") => \A s \in Slots : \A t \in Keys(s) :
     t \in bloom[s] \/ (s = "current" /\ \E p \in Topics : th[p].pc = "bloom" /\ TraceOf(p) = t)

\* A handler that holds a parent it read outside its write transaction finds
\* it where it was: no rotation moves the environment under add_child.
ParentStaysPut ==
  \A p \in Topics : th[p].pc = "parent" => roots[th[p].slot][TraceOf(p)] # NoRoot

\* "Those pieces of traces that relate to stuff in last still flow into last"
\* (the header comment): a handler writes a child to "current" only if
\* "last" has no root of its trace, and to "last" only if it has.
ChildrenFollowRoot ==
  [][th' # th => \A d \in Docs :
        /\ d \in kids'["current"] \ kids["current"] => roots["last"][d.trace] = NoRoot
        /\ d \in kids'["last"] \ kids["last"] => roots["last"][d.trace] # NoRoot]_vars

\* Tail sampling: whatever goes to Jaeger belongs to a trace of which a slow
\* root or an error arrived.
Triggered == {d.trace : d \in {e \in seen : e.kind \in {"slow", "error"}}}
OnlyTriggeredTracesSent == \A d \in jaegered : d.trace \in Triggered

\* At least once: apart from the pruning of "last", a mark disappears only
\* after a root of its trace was handed to Jaeger, also when the process
\* dies between the export and the delete.
RootSent(t) == \E d \in jaegered : d.trace = t /\ d.kind \in RootKinds
Marked(t)   == \E s \in Slots : t \in marks[s]
ClearedOnlyAfterSent ==
  [][\A t \in Traces : (Marked(t) /\ ~Marked(t)') => (RootSent(t)' \/ job.pc = "drain")]_vars

\* A marked trace whose root is beside the mark and has been quiet for the
\* lookback is eventually sent, unless a new child touches it: rotations move
\* mark and root together, and every rotation is preceded by a scan.  It
\* needs rounds of the job that are short beside the lookback: a trace that
\* becomes quiet during a round that ends in a rotation may be pruned unsent.
QuietRoot(s, t)   == roots[s][t] # NoRoot /\ roots[s][t].mod + Lookback <= now
TouchedRoot(s, t) == roots[s][t] # NoRoot /\ roots[s][t].mod + Lookback > now
ReadyTracesAreSent ==
  \A t \in Traces :
    (\E s \in Slots : t \in marks[s] /\ QuietRoot(s, t))
      ~> (RootSent(t) \/ \E s \in Slots : TouchedRoot(s, t))

\* What is stored in either environment.
Held         == {roots[s][t] : s \in Slots, t \in Traces} \ {NoRoot}
HeldChildren == kids["current"] \cup kids["last"]
MarkedTraces == marks["current"] \cup marks["last"]

\* The store implements its abstract promise: seen from outside the two
\* environments are one, and every step of a handler, of the job or of a
\* crash is a step of TailSampling or changes nothing of it.
Promise == INSTANCE TailSampling WITH
  opened <- openMs, arrived <- seen, held <- Held, children <- HeldChildren,
  marked <- MarkedTraces, due <- job.todo, cargo <- job.cargo, sent <- jaegered,
  Retention <- RotateAfter
ImplementsTailSampling == Promise!Spec

(***************************************************************************)
(* What the documentation says and the code does not do.                   *)
(***************************************************************************)

\* README: if an error arrives that is associated to the transaction, or the
\* transaction is slow, "we send the transaction ... on to jaeger".  Here:
\* a trace with a mark and a quiet root, in whichever environments, is
\* eventually sent.  A rotation between the two store calls of a handler, or
\* before the error arrives, leaves them apart and the trace is never sent.
TriggeredTracesAreSent ==
  \A t \in Traces :
    (Marked(t) /\ \E s \in Slots : QuietRoot(s, t))
      ~> (RootSent(t) \/ \E s \in Slots : TouchedRoot(s, t))

\* README: an error document that arrives for a trace has it sent with "all
\* collected errors".  Here: an error stored beside its quiet root is
\* eventually sent.  When it is stored and marked after the job's snapshot
\* and before the job deletes the mark, its own mark is deleted too.
ErrorsAreSent ==
  \A d \in {e \in Docs : e.kind = "error"} :
    (\E s \in Slots : d \in kids[s] /\ QuietRoot(s, d.trace))
      ~> (d \in jaegered \/ \E s \in Slots : TouchedRoot(s, d.trace))
=============================================================================
