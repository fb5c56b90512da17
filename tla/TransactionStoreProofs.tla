----------------------- MODULE TransactionStoreProofs -----------------------
(***************************************************************************)
(* What holds of the transaction store for any number of traces and        *)
(* documents, any lookback and rotation age, with and without bloom        *)
(* filters, failing writes and crashes: proofs for TLAPS.                  *)
(***************************************************************************)
EXTENDS TransactionStore, FiniteSetTheorems, TLAPS

(***************************************************************************)
(* Facts about the threads.                                                *)
(***************************************************************************)

\* The part of TypeOK that is about handlers.
HandlerOK(h) ==
  /\ h \in Handler
  /\ h.pc # "idle" => h.doc \in Docs
  /\ h.pc \in {"put", "parent"} => h.root \in RootRecord

ThreadsOK == th \in [Topics -> Handler] /\ \A p \in Topics : HandlerOK(th[p])

LEMMA ThreadsTyped == TypeOK => ThreadsOK
BY DEF TypeOK, ThreadsOK, HandlerOK

\* A step of the handler of topic p that leaves it as h.
LEMMA ThreadStep ==
  ASSUME ThreadsOK, NEW p \in Topics, NEW h, HandlerOK(h),
         th' = [th EXCEPT ![p] = h]
  PROVE  /\ ThreadsOK'
         /\ th'[p] = h
         /\ \A q \in Topics : q # p => th'[q] = th[q]
<1>1. th'[p] = h /\ \A q \in Topics : q # p => th'[q] = th[q]
  BY DEF ThreadsOK
<1>2. th' \in [Topics -> Handler]
  BY DEF ThreadsOK, HandlerOK
<1> QED
  BY <1>1, <1>2 DEF ThreadsOK, HandlerOK

\* The handler that has finished.
LEMMA IdleIsHandler ==
  HandlerOK(IdleHandler) /\ IdleHandler.pc = "idle"
BY DEF HandlerOK, IdleHandler, Handler, Phases, Slots

LEMMA FinishEffect ==
  ASSUME ThreadsOK, NEW p \in Topics, Finish(p)
  PROVE  /\ ThreadsOK'
         /\ th'[p] = IdleHandler
         /\ \A q \in Topics : q # p => th'[q] = th[q]
BY ThreadStep, IdleIsHandler DEF Finish

LEMMA GotoEffect ==
  ASSUME ThreadsOK, NEW p \in Topics, NEW pc \in Phases, Goto(p, pc),
         th[p].pc # "idle",
         pc \in {"put", "parent"} => th[p].root \in RootRecord
  PROVE  /\ ThreadsOK'
         /\ th'[p] = [th[p] EXCEPT !.pc = pc]
         /\ th'[p].pc = pc /\ th'[p].doc = th[p].doc
         /\ th'[p].slot = th[p].slot /\ th'[p].root = th[p].root
         /\ \A q \in Topics : q # p => th'[q] = th[q]
<1> DEFINE h == [th[p] EXCEPT !.pc = pc]
<1>1. th' = [th EXCEPT ![p] = h]
  BY DEF Goto
<1>2. HandlerOK(h) /\ h.pc = pc /\ h.doc = th[p].doc /\ h.slot = th[p].slot /\ h.root = th[p].root
  BY DEF ThreadsOK, HandlerOK, Handler
<1> HIDE DEF h
<1>3. ThreadsOK' /\ th'[p] = h /\ \A q \in Topics : q # p => th'[q] = th[q]
  BY <1>1, <1>2, ThreadStep
<1> QED
  BY <1>2, <1>3 DEF h

\* After add_child a handler is done, or about to mark the trace of its
\* error document.
LEMMA AfterAddChildEffect ==
  ASSUME ThreadsOK, NEW p \in Topics, th[p].pc # "idle", AfterAddChild(p)
  PROVE  /\ ThreadsOK'
         /\ th'[p].pc \in {"idle", "mark"}
         /\ th'[p].pc = "mark" => th'[p].doc = th[p].doc /\ th[p].doc.kind = "error"
         /\ \A q \in Topics : q # p => th'[q] = th[q]
<1>1. CASE th[p].doc.kind = "error"
  <2> DEFINE h == [IdleHandler EXCEPT !.pc = "mark", !.doc = th[p].doc]
  <2>1. th' = [th EXCEPT ![p] = h]
    BY <1>1 DEF AfterAddChild
  <2>2. HandlerOK(h) /\ h.pc = "mark" /\ h.doc = th[p].doc
    BY DEF ThreadsOK, HandlerOK, Handler, IdleHandler, Phases, Slots
  <2> HIDE DEF h
  <2> QED
    BY <1>1, <2>1, <2>2, ThreadStep
<1>2. CASE th[p].doc.kind # "error"
  BY <1>2, FinishEffect, IdleIsHandler DEF AfterAddChild
<1> QED
  BY <1>1, <1>2

\* After the mark a slow root goes on to be stored.
LEMMA AfterMarkEffect ==
  ASSUME ThreadsOK, NEW p \in Topics, th[p].pc # "idle", AfterMark(p)
  PROVE  /\ ThreadsOK'
         /\ th'[p].pc \in {"idle", "stamp"}
         /\ th'[p].pc = "stamp" => th'[p].doc = th[p].doc /\ th[p].doc.kind = "slow"
         /\ \A q \in Topics : q # p => th'[q] = th[q]
<1>1. CASE th[p].doc.kind = "slow"
  BY <1>1, GotoEffect DEF AfterMark, Phases
<1>2. CASE th[p].doc.kind # "slow"
  BY <1>2, FinishEffect, IdleIsHandler DEF AfterMark
<1> QED
  BY <1>1, <1>2

\* Where a handler begins.
LEMMA ReceiveEffect ==
  ASSUME ThreadsOK, inbox \subseteq Docs, NEW p \in Topics, Receive(p)
  PROVE  /\ ThreadsOK'
         /\ th'[p].pc \in {"idle", "mark", "stamp", "lookup"}
         /\ th'[p].pc # "idle" => th'[p].doc \in seen' /\ th'[p].slot = "current"
         /\ th'[p].pc = "mark" => th'[p].doc.kind = "slow"
         /\ th'[p].pc = "stamp" => th'[p].doc.kind = "root"
         /\ th'[p].pc = "lookup" => th'[p].doc.kind \notin RootKinds
         /\ \A q \in Topics : q # p => th'[q] = th[q]
<1>1. PICK d \in inbox, pc \in {"idle", "mark", "stamp", "lookup"} :
        /\ pc = "mark" => d.kind = "slow"
        /\ pc = "stamp" => d.kind = "root"
        /\ pc = "lookup" => d.kind \notin RootKinds
        /\ seen' = seen \cup {d}
        /\ th' = [th EXCEPT ![p] = [IdleHandler EXCEPT
                    !.pc = pc, !.doc = IF pc = "idle" THEN NoDoc ELSE d]]
  <2>1. PICK d \in inbox :
          /\ seen' = seen \cup {d}
          /\ \E pc \in CASE d.kind = "slow"             -> {"mark"}
                         [] d.kind = "root"             -> {"stamp", "idle"}
                         [] d.kind = "child"            -> {"lookup", "idle"}
                         [] d.kind \in {"span", "error"} -> {"lookup"} :
               th' = [th EXCEPT ![p] = [IdleHandler EXCEPT
                        !.pc = pc, !.doc = IF pc = "idle" THEN NoDoc ELSE d]]
    BY Zenon DEF Receive
  <2>2. d.kind \in Kinds
    BY ConstantsAssumption
  <2> QED
    BY <2>1, <2>2 DEF Kinds, RootKinds
<1> DEFINE h == [IdleHandler EXCEPT !.pc = pc, !.doc = IF pc = "idle" THEN NoDoc ELSE d]
<1>2. HandlerOK(h) /\ h.pc = pc /\ h.slot = "current" /\ (pc # "idle" => h.doc = d)
  BY DEF HandlerOK, Handler, IdleHandler, Phases, Slots
<1>3. th' = [th EXCEPT ![p] = h]
  BY <1>1
<1> HIDE DEF h
<1> QED
  BY <1>1, <1>2, <1>3, ThreadStep

\* The record PutStamp makes, and the handler that carries it.
LEMMA PutStampEffect ==
  ASSUME TypeOK, NEW p \in Topics, PutStamp(p)
  PROVE  /\ ThreadsOK'
         /\ th'[p].pc = "put" /\ th'[p].doc = th[p].doc
         /\ th'[p].root = [doc |-> th[p].doc, first |-> now, mod |-> now]
         /\ \A q \in Topics : q # p => th'[q] = th[q]
<1> DEFINE h == [th[p] EXCEPT !.pc = "put",
                   !.root = [doc |-> th[p].doc, first |-> now, mod |-> now]]
<1>1. ThreadsOK /\ now \in Nat /\ th[p].pc = "stamp"
  BY ThreadsTyped DEF TypeOK, PutStamp
<1>2. th' = [th EXCEPT ![p] = h]
  BY <1>1 DEF PutStamp, ThreadsOK
<1>3. /\ HandlerOK(h) /\ h.pc = "put" /\ h.doc = th[p].doc
      /\ h.root = [doc |-> th[p].doc, first |-> now, mod |-> now]
  BY <1>1 DEF ThreadsOK, HandlerOK, Handler, Phases, RootRecord
<1> HIDE DEF h
<1> QED
  BY <1>1, <1>2, <1>3, ThreadStep

\* The parent add_child has found, with its new last_modified_ms.
LEMMA FoundParentEffect ==
  ASSUME TypeOK, NEW p \in Topics, NEW s \in Slots,
         th[p].pc = "lookup", FoundParent(p, s)
  PROVE  /\ ThreadsOK'
         /\ th'[p].pc = "parent" /\ th'[p].doc = th[p].doc /\ th'[p].slot = s
         /\ roots[s][TraceOf(p)] \in RootRecord
         /\ th'[p].root = [roots[s][TraceOf(p)] EXCEPT !.mod = now]
         /\ \A q \in Topics : q # p => th'[q] = th[q]
<1> DEFINE r == [roots[s][TraceOf(p)] EXCEPT !.mod = now]
           h == [th[p] EXCEPT !.pc = "parent", !.slot = s, !.root = r]
<1>1. ThreadsOK /\ now \in Nat
  BY ThreadsTyped DEF TypeOK
<1>2. TraceOf(p) \in Traces
  BY <1>1, ConstantsAssumption DEF ThreadsOK, HandlerOK, TraceOf
<1>3. roots[s][TraceOf(p)] \in RootRecord
  BY <1>2 DEF TypeOK, FoundParent
<1>4. r \in RootRecord
  BY <1>1, <1>3 DEF RootRecord
<1>5. th' = [th EXCEPT ![p] = h]
  BY <1>1 DEF FoundParent, ThreadsOK
<1> HIDE DEF r
<1>6. HandlerOK(h) /\ h.pc = "parent" /\ h.doc = th[p].doc /\ h.slot = s /\ h.root = r
  BY <1>1, <1>4 DEF ThreadsOK, HandlerOK, Handler, Phases
<1> HIDE DEF h
<1> QED
  BY <1>1, <1>3, <1>5, <1>6, ThreadStep DEF r

\* What the search for the parent can end in: a parent in "last"; a parent
\* in "current" or none, when "last" may have none; or nothing more to do.
LEMMA AddLookupEffect ==
  ASSUME TypeOK, NEW p \in Topics, AddLookup(p)
  PROVE  /\ ThreadsOK'
         /\ \A q \in Topics : q # p => th'[q] = th[q]
         /\ \/ FoundParent(p, "last")
            \/ /\ MayMiss("last", TraceOf(p)) \/ ReadInVain(p, "last")
               /\ FoundParent(p, "current") \/ Goto(p, "child")
            \/ AfterAddChild(p)
         /\ leaked' \subseteq Topics
<1>1. ThreadsOK /\ th[p].pc = "lookup"
  BY ThreadsTyped DEF AddLookup
<1>2. /\ \/ FoundParent(p, "last")
         \/ /\ MayMiss("last", TraceOf(p)) \/ ReadInVain(p, "last")
            /\ FoundParent(p, "current") \/ Goto(p, "child")
         \/ AfterAddChild(p)
      /\ leaked' \subseteq Topics
  BY DEF AddLookup, TypeOK
<1>3. CASE FoundParent(p, "last") \/ FoundParent(p, "current")
  BY <1>1, <1>2, <1>3, FoundParentEffect DEF Slots
<1>4. CASE Goto(p, "child")
  BY <1>1, <1>2, <1>4, GotoEffect DEF Phases
<1>5. CASE AfterAddChild(p)
  BY <1>1, <1>2, <1>5, AfterAddChildEffect
<1> QED
  BY <1>2, <1>3, <1>4, <1>5

\* The other steps of the store.
LEMMA WriteFailsEffect ==
  ASSUME TypeOK, NEW p \in Topics, WriteFails(p)
  PROVE  /\ ThreadsOK'
         /\ \A q \in Topics : q # p => th'[q] = th[q]
         /\ \/ th[p].pc = "mark" /\ AfterMark(p)
            \/ th[p].pc = "put" /\ Finish(p)
            \/ th[p].pc \in {"parent", "child"} /\ AfterAddChild(p)
            \/ th[p].pc = "parent" /\ Goto(p, "child")
<1>1. ThreadsOK
  BY ThreadsTyped
<1>2. \/ th[p].pc = "mark" /\ AfterMark(p)
      \/ th[p].pc = "put" /\ Finish(p)
      \/ th[p].pc \in {"parent", "child"} /\ AfterAddChild(p)
      \/ th[p].pc = "parent" /\ Goto(p, "child")
  BY DEF WriteFails
<1> QED
  BY <1>1, <1>2, AfterMarkEffect, FinishEffect, AfterAddChildEffect, GotoEffect DEF Phases

LEMMA StoreStepThreads ==
  ASSUME TypeOK, NEW p \in Topics, StoreStep(p)
  PROVE  ThreadsOK' /\ \A q \in Topics : q # p => th'[q] = th[q]
<1>0. ThreadsOK
  BY ThreadsTyped
<1>1. CASE MarkTraceable(p)
  BY <1>0, <1>1, AfterMarkEffect DEF MarkTraceable
<1>2. CASE PutStamp(p)
  BY <1>2, PutStampEffect
<1>3. CASE PutCommit(p)
  BY <1>0, <1>3, GotoEffect, FinishEffect DEF PutCommit, Phases
<1>4. CASE PutBloom(p)
  BY <1>0, <1>4, FinishEffect DEF PutBloom
<1>5. CASE AddLookup(p)
  BY <1>5, AddLookupEffect
<1>6. CASE AddParent(p)
  BY <1>0, <1>6, GotoEffect DEF AddParent, Phases
<1>7. CASE AddChild(p)
  BY <1>0, <1>7, AfterAddChildEffect DEF AddChild
<1>8. CASE WriteFails(p)
  BY <1>8, WriteFailsEffect
<1> QED
  BY <1>1, <1>2, <1>3, <1>4, <1>5, <1>6, <1>7, <1>8 DEF StoreStep

(***************************************************************************)
(* Type correctness.                                                       *)
(***************************************************************************)
StoreOK ==
  /\ now \in Nat /\ openMs \in Nat /\ crashes \in Nat
  /\ inbox \subseteq Docs /\ seen \subseteq Docs /\ jaegered \subseteq Docs
  /\ roots \in [Slots -> [Traces -> RootRecord \cup {NoRoot}]]
  /\ kids \in [Slots -> SUBSET Docs]
  /\ marks \in [Slots -> SUBSET Traces]
  /\ bloom \in [Slots -> SUBSET Traces]
  /\ leaked \subseteq Topics

JobOK ==
  /\ job \in Job
  /\ job.pc = "clear" => job.trace \in Traces

LEMMA TypeParts ==
  /\ TypeOK <=> StoreOK /\ ThreadsOK /\ JobOK
  /\ TypeOK' <=> StoreOK' /\ ThreadsOK' /\ JobOK'
BY DEF TypeOK, StoreOK, ThreadsOK, HandlerOK, JobOK

LEMMA Unchanged ==
  /\ ThreadsOK /\ UNCHANGED th => ThreadsOK'
  /\ JobOK /\ UNCHANGED job => JobOK'
BY DEF ThreadsOK, HandlerOK, JobOK

LEMMA IdleJobTyped == IdleJob \in Job /\ IdleJob.pc = "idle"
BY DEF IdleJob, Job, JobPhases, Slots

\* A thread that is not idle has a document, and the document a trace.
LEMMA DocTyped ==
  ASSUME ThreadsOK, NEW p \in Topics, th[p].pc # "idle"
  PROVE  th[p].doc \in Docs /\ TraceOf(p) \in Traces /\ th[p].slot \in Slots
BY ConstantsAssumption DEF ThreadsOK, HandlerOK, Handler, TraceOf

LEMMA StoreStepTyped ==
  ASSUME TypeOK, NEW p \in Topics, StoreStep(p)
  PROVE  TypeOK'
<1>0. StoreOK /\ ThreadsOK /\ JobOK /\ ThreadsOK'
  BY TypeParts, StoreStepThreads
<1>1. CASE MarkTraceable(p)
  <2>1. TraceOf(p) \in Traces
    BY <1>0, <1>1, DocTyped DEF MarkTraceable
  <2> QED
    BY <1>0, <1>1, <2>1, TypeParts, Unchanged DEF MarkTraceable, StoreOK, Slots
<1>2. CASE PutStamp(p)
  BY <1>0, <1>2, TypeParts, Unchanged DEF PutStamp, StoreOK, envs
<1>3. CASE PutCommit(p)
  <2>1. TraceOf(p) \in Traces /\ th[p].root \in RootRecord
    BY <1>0, <1>3, DocTyped DEF PutCommit, ThreadsOK, HandlerOK
  <2> QED
    BY <1>0, <1>3, <2>1, TypeParts, Unchanged DEF PutCommit, StoreOK, Slots
<1>4. CASE PutBloom(p)
  <2>1. TraceOf(p) \in Traces
    BY <1>0, <1>4, DocTyped DEF PutBloom
  <2> QED
    BY <1>0, <1>4, <2>1, TypeParts, Unchanged DEF PutBloom, StoreOK, Slots
<1>5. CASE AddLookup(p)
  BY <1>0, <1>5, AddLookupEffect, TypeParts, Unchanged DEF AddLookup, StoreOK, envs
<1>6. CASE AddParent(p)
  <2>1. TraceOf(p) \in Traces /\ th[p].root \in RootRecord /\ th[p].slot \in Slots
    BY <1>0, <1>6, DocTyped DEF AddParent, ThreadsOK, HandlerOK
  <2> QED
    BY <1>0, <1>6, <2>1, TypeParts, Unchanged DEF AddParent, StoreOK, JobOK
<1>7. CASE AddChild(p)
  <2>1. th[p].doc \in Docs /\ th[p].slot \in Slots
    BY <1>0, <1>7, DocTyped DEF AddChild
  <2> QED
    BY <1>0, <1>7, <2>1, TypeParts, Unchanged DEF AddChild, StoreOK, JobOK
<1>8. CASE WriteFails(p)
  BY <1>0, <1>8, TypeParts, Unchanged DEF WriteFails, StoreOK, envs
<1> QED
  BY <1>1, <1>2, <1>3, <1>4, <1>5, <1>6, <1>7, <1>8 DEF StoreStep

\* What the job's snapshot holds.
LEMMA BeginScanTyped ==
  ASSUME TypeOK, NEW s \in Slots, NEW limit \in Int, NEW count \in Nat,
         BeginScan(s, limit, count)
  PROVE  JobOK'
<1>1. Ready(s, limit) \subseteq Traces
  BY DEF Ready, TypeOK
<1>2. Cargo(s, Ready(s, limit)) \subseteq Docs
  <2>1. kids[s] \subseteq Docs
    BY DEF TypeOK
  <2>2. ASSUME NEW t \in Ready(s, limit) PROVE ParentRoot(s, t).doc \in Docs
    <3>1. t \in Traces /\ ParentRoot(s, t) # NoRoot
      BY <1>1, <2>2 DEF Ready
    <3>2. ParentRoot(s, t) \in RootRecord
      BY <3>1 DEF TypeOK, ParentRoot, FallbackSlot
    <3> QED
      BY <3>2 DEF RootRecord
  <2> QED
    BY <2>1, <2>2 DEF Cargo
<1> DEFINE ready == Ready(s, limit)
           cargo == Cargo(s, ready)
<1>3. job' = [IdleJob EXCEPT !.pc = "scan", !.slot = s, !.limit = limit,
                             !.todo = ready, !.cargo = cargo, !.count = count]
  BY DEF BeginScan
<1>4. ready \subseteq Traces /\ cargo \subseteq Docs
  BY <1>1, <1>2
<1> HIDE DEF ready, cargo
<1> QED
  BY <1>3, <1>4 DEF JobOK, Job, JobPhases, IdleJob

LEMMA JobExportTyped ==
  ASSUME TypeOK, NEW t \in Traces, JobExport(t)
  PROVE  TypeOK'
<1> DEFINE batch == {d \in job.cargo : d.trace = t}
           children == {d \in batch : d.kind \notin RootKinds}
<1>1. PICK sent \in SUBSET children :
        /\ jaegered' = jaegered \cup (batch \ children) \cup sent
        /\ job' = [job EXCEPT !.pc = "clear", !.trace = t,
                     !.count = @ + 2 + Cardinality({d \in sent : d.kind # "error"})]
  BY DEF JobExport
<1>2. job.cargo \subseteq Docs /\ job \in Job
  BY DEF TypeOK, Job
<1> DEFINE n == Cardinality({d \in sent : d.kind # "error"})
<1>3. {d \in sent : d.kind # "error"} \subseteq Docs
  BY <1>1, <1>2
<1>4. n \in Nat
  BY <1>3, ConstantsAssumption, FS_Subset, FS_CardinalityType
<1>5. job' \in Job /\ job'.pc = "clear" /\ job'.trace = t
  <2> DEFINE total == job.count + 2 + n
  <2>1. job' = [job EXCEPT !.pc = "clear", !.trace = t, !.count = total]
    BY <1>1
  <2>2. total \in Nat
    BY <1>2, <1>4 DEF Job
  <2> HIDE DEF total, batch, children, n
  <2> QED
    BY <2>1, <2>2, <1>2 DEF Job, JobPhases
<1>6. jaegered' \subseteq Docs
  BY <1>1, <1>2 DEF TypeOK
<1> QED
  BY <1>5, <1>6, TypeParts, Unchanged DEF JobExport, StoreOK, JobOK, envs

LEMMA ExportStepTyped ==
  ASSUME TypeOK, ExportStep
  PROVE  TypeOK'
<1>0. StoreOK /\ ThreadsOK /\ JobOK
  BY TypeParts
<1>1. CASE JobScanCurrent
  <2>1. JobOK'
    <3>1. now - Lookback \in Int
      BY <1>0, ConstantsAssumption DEF StoreOK
    <3> QED
      BY <1>1, <3>1, BeginScanTyped DEF JobScanCurrent, Slots
  <2> QED
    BY <1>0, <1>1, <2>1, TypeParts, Unchanged DEF JobScanCurrent, StoreOK, envs
<1>2. CASE JobScanLast
  <2>1. JobOK'
    BY <1>0, <1>2, BeginScanTyped DEF JobScanLast, Slots, JobOK, Job
  <2> QED
    BY <1>0, <1>2, <2>1, TypeParts, Unchanged DEF JobScanLast, StoreOK, envs
<1>3. ASSUME NEW t \in Traces, JobExport(t) PROVE TypeOK'
  BY <1>3, JobExportTyped
<1>4. CASE JobClear
  <2>1. JobOK'
    BY <1>0, <1>4 DEF JobClear, JobOK, Job, JobPhases
  <2>2. marks' \in [Slots -> SUBSET Traces]
    BY <1>0, <1>4 DEF JobClear, ClearedMarks, StoreOK, JobOK, Job
  <2> QED
    BY <1>0, <1>4, <2>1, <2>2, TypeParts, Unchanged DEF JobClear, StoreOK
<1>5. CASE JobEndScan
  <2>1. JobOK'
    BY <1>5 DEF JobEndScan, JobOK, Job, IdleJob, JobPhases, Slots
  <2> QED
    BY <1>0, <1>5, <2>1, TypeParts, Unchanged DEF JobEndScan, StoreOK, envs
<1> QED
  BY <1>1, <1>2, <1>3, <1>4, <1>5 DEF ExportStep

\* A value for each environment.
LEMMA PairOfSlots ==
  ASSUME NEW S, NEW x \in S, NEW y \in S
  PROVE  [current |-> x, last |-> y] \in [Slots -> S]
BY DEF Slots

LEMMA RotateStepTyped ==
  ASSUME TypeOK, RotateStep
  PROVE  TypeOK'
<1>0. StoreOK /\ ThreadsOK /\ JobOK
  BY TypeParts
<1>1. CASE JobCheckAge
  <2>1. JobOK'
    BY <1>1 DEF JobCheckAge, JobOK, Job, IdleJob, JobPhases, Slots
  <2> QED
    BY <1>0, <1>1, <2>1, TypeParts, Unchanged DEF JobCheckAge, StoreOK, envs
<1>2. CASE JobUnlinkLast
  <2>1. JobOK'
    BY <1>0, <1>2 DEF JobUnlinkLast, JobOK, Job, JobPhases
  <2>2. StoreOK'
    BY <1>0, <1>2 DEF JobUnlinkLast, RotatedFilters, EmptyRoots, StoreOK, Slots
  <2> QED
    BY <1>0, <1>2, <2>1, <2>2, TypeParts, Unchanged DEF JobUnlinkLast
<1>3. CASE JobRename
  <2>1. JobOK'
    BY <1>0, <1>3 DEF JobRename, JobOK, Job, JobPhases
  <2>2. /\ roots' \in [Slots -> [Traces -> RootRecord \cup {NoRoot}]]
        /\ kids' \in [Slots -> SUBSET Docs]
        /\ marks' \in [Slots -> SUBSET Traces]
    BY <1>0, <1>3, PairOfSlots DEF JobRename, EmptyRoots, StoreOK, Slots
  <2>3. StoreOK'
    BY <1>0, <1>3, <2>2 DEF JobRename, StoreOK
  <2> QED
    BY <1>0, <1>3, <2>1, <2>3, TypeParts, Unchanged DEF JobRename
<1>4. CASE JobReopen
  BY <1>0, <1>4, IdleJobTyped, TypeParts, Unchanged DEF JobReopen, StoreOK, ThreadsOK, HandlerOK, JobOK
<1> QED
  BY <1>1, <1>2, <1>3, <1>4 DEF RotateStep

\* Every step keeps the types.
LEMMA TypeStep ==
  ASSUME TypeOK, [Next]_vars
  PROVE  TypeOK'
<1>0. StoreOK /\ ThreadsOK /\ JobOK
  BY TypeParts
<1>1. ASSUME NEW p \in Topics, Receive(p) PROVE TypeOK'
  <2>1. ThreadsOK'
    BY <1>0, <1>1, ReceiveEffect DEF StoreOK
  <2> QED
    BY <1>0, <1>1, <2>1, TypeParts, Unchanged DEF Receive, StoreOK, envs
<1>2. ASSUME NEW p \in Topics, StoreStep(p) PROVE TypeOK'
  BY <1>2, StoreStepTyped
<1>3. CASE ExportStep
  BY <1>3, ExportStepTyped
<1>4. CASE RotateStep
  BY <1>4, RotateStepTyped
<1>5. CASE Tick
  BY <1>0, <1>5, TypeParts, Unchanged DEF Tick, StoreOK, envs
<1>6. CASE Crash
  <2>1. ThreadsOK'
    BY <1>6, IdleIsHandler DEF Crash, ThreadsOK, HandlerOK
  <2>2. StoreOK'
    BY <1>0, <1>6 DEF Crash, StoreOK, FiltersAtStart, StampAtStart, Keys
  <2> QED
    BY <1>6, <2>1, <2>2, IdleJobTyped, TypeParts, Unchanged DEF Crash, JobOK
<1>7. CASE UNCHANGED vars
  BY <1>0, <1>7, TypeParts, Unchanged DEF vars, envs, StoreOK, ThreadsOK, HandlerOK, JobOK
<1> QED
  BY <1>1, <1>2, <1>3, <1>4, <1>5, <1>6, <1>7 DEF Next

LEMMA TypeInit == Init => TypeOK
<1> SUFFICES ASSUME Init PROVE StoreOK /\ ThreadsOK /\ JobOK
  BY TypeParts
<1>1. ThreadsOK
  BY IdleIsHandler DEF Init, ThreadsOK, HandlerOK
<1>2. StoreOK
  BY DEF Init, StoreOK, EmptyRoots
<1> QED
  BY <1>1, <1>2, IdleJobTyped DEF Init, JobOK

\* Handlers and job always carry what they need: a root or a parent that is
\* written is a record, a trace whose mark is cleared is a trace.
THEOREM TypeCorrect == Spec => []TypeOK
<1>1. TypeOK /\ [Next]_vars => TypeOK'
  BY TypeStep
<1> QED
  BY TypeInit, <1>1, PTL DEF Spec

(***************************************************************************)
(* What a step can do to one thread, and which steps touch what.           *)
(***************************************************************************)
Becomes(p, pc) == th[p].pc # "idle" /\ th'[p].pc = pc /\ th'[p].doc = th[p].doc
NotInLast(p)   == MayMiss("last", TraceOf(p)) \/ ReadInVain(p, "last")

Begins(p) ==
  /\ th'[p].pc \in {"mark", "stamp", "lookup"}
  /\ th'[p].doc \in seen' /\ th'[p].slot = "current"
  /\ th'[p].pc = "mark" => th'[p].doc.kind = "slow"
  /\ th'[p].pc = "stamp" => th'[p].doc.kind = "root"
  /\ th'[p].pc = "lookup" => th'[p].doc.kind \notin RootKinds

Stamps(p) ==
  /\ Becomes(p, "put") /\ th[p].pc = "stamp"
  /\ th'[p].root = [doc |-> th[p].doc, first |-> now, mod |-> now]

FindsParent(p) ==
  /\ ~WriterActive
  /\ Becomes(p, "parent") /\ th[p].pc = "lookup"
  /\ th'[p].slot = "last" \/ (th'[p].slot = "current" /\ NotInLast(p))
  /\ roots[th'[p].slot][TraceOf(p)] \in RootRecord
  /\ th'[p].root = [roots[th'[p].slot][TraceOf(p)] EXCEPT !.mod = now]

FindsNone(p) ==
  /\ ~WriterActive
  /\ Becomes(p, "child") /\ th[p].pc = "lookup"
  /\ th'[p].slot = th[p].slot /\ NotInLast(p)

LEMMA Transition ==
  ASSUME TypeOK, [Next]_vars, NEW p \in Topics
  PROVE  \/ th'[p] = th[p]
         \/ th'[p].pc = "idle"
         \/ Begins(p)
         \/ Becomes(p, "mark") /\ th[p].doc.kind = "error"
         \/ Becomes(p, "stamp") /\ th[p].doc.kind = "slow"
         \/ Stamps(p)
         \/ PutCommit(p) /\ Becomes(p, "bloom")
         \/ FindsParent(p) /\ UNCHANGED <<envs, now, job>>
         \/ FindsNone(p) /\ UNCHANGED <<envs, now, job>>
         \/ th[p].pc = "parent" /\ Becomes(p, "child") /\ th'[p].slot = th[p].slot
<1>0. ThreadsOK /\ inbox \subseteq Docs
  BY TypeParts DEF StoreOK
<1> USE DEF Becomes
<1>1. ASSUME NEW q \in Topics, Receive(q) \/ StoreStep(q), q # p
      PROVE  th'[p] = th[p]
  BY <1>0, <1>1, ReceiveEffect, StoreStepThreads
<1>2. CASE Receive(p)
  BY <1>0, <1>2, ReceiveEffect DEF Begins
<1>3. CASE MarkTraceable(p)
  BY <1>0, <1>3, AfterMarkEffect DEF MarkTraceable
<1>4. CASE PutStamp(p)
  BY <1>4, PutStampEffect DEF PutStamp, Stamps
<1>5. CASE PutCommit(p)
  BY <1>0, <1>5, GotoEffect, FinishEffect, IdleIsHandler DEF PutCommit, Phases
<1>6. CASE PutBloom(p)
  BY <1>0, <1>6, FinishEffect, IdleIsHandler DEF PutBloom
<1>7. CASE AddLookup(p)
  <2>1. th[p].pc = "lookup" /\ ~WriterActive /\ UNCHANGED <<envs, now, job>>
    BY <1>7 DEF AddLookup
  <2>2. ASSUME NEW s \in Slots, FoundParent(p, s), s = "last" \/ NotInLast(p)
        PROVE  FindsParent(p)
    BY <2>1, <2>2, FoundParentEffect DEF FindsParent, Slots
  <2>3. ASSUME Goto(p, "child"), NotInLast(p)
        PROVE  FindsNone(p)
    BY <1>0, <2>1, <2>3, GotoEffect DEF FindsNone, Phases
  <2>4. CASE AfterAddChild(p)
    BY <1>0, <2>1, <2>4, AfterAddChildEffect
  <2> QED
    BY <1>7, <2>1, <2>2, <2>3, <2>4, AddLookupEffect DEF NotInLast, Slots
<1>8. CASE AddParent(p)
  BY <1>0, <1>8, GotoEffect DEF AddParent, Phases
<1>9. CASE AddChild(p)
  BY <1>0, <1>9, AfterAddChildEffect DEF AddChild
<1>10. CASE WriteFails(p)
  <2>1. CASE th[p].pc = "mark" /\ AfterMark(p)
    BY <1>0, <2>1, AfterMarkEffect
  <2>2. CASE th[p].pc = "put" /\ Finish(p)
    BY <1>0, <2>2, FinishEffect, IdleIsHandler
  <2>3. CASE th[p].pc \in {"parent", "child"} /\ AfterAddChild(p)
    BY <1>0, <2>3, AfterAddChildEffect
  <2>4. CASE th[p].pc = "parent" /\ Goto(p, "child")
    BY <1>0, <2>4, GotoEffect DEF Phases
  <2> QED
    BY <1>10, <2>1, <2>2, <2>3, <2>4, WriteFailsEffect
<1>11. CASE Crash
  BY <1>11, IdleIsHandler DEF Crash
<1>12. CASE UNCHANGED th
  BY <1>12
<1>13. ExportStep \/ RotateStep \/ Tick \/ UNCHANGED vars => UNCHANGED th
  BY DEF ExportStep, RotateStep, Tick, vars, JobScanCurrent, JobScanLast, JobExport, JobClear,
         JobEndScan, JobCheckAge, JobUnlinkLast, JobRename, JobReopen
<1> QED
  BY <1>1, <1>2, <1>3, <1>4, <1>5, <1>6, <1>7, <1>8, <1>9, <1>10, <1>11, <1>12, <1>13
  DEF Next, StoreStep

\* The four steps that write root records.
LEMMA RootsWritten ==
  ASSUME [Next]_vars
  PROVE  \/ UNCHANGED roots
         \/ \E p \in Topics : PutCommit(p) \/ AddParent(p)
         \/ JobUnlinkLast
         \/ JobRename
BY DEF Next, vars, envs, Receive, StoreStep, MarkTraceable, PutStamp, PutBloom, AddLookup,
       AddChild, WriteFails, ExportStep, RotateStep, JobScanCurrent, JobScanLast, JobExport,
       JobClear, JobEndScan, JobCheckAge, JobReopen, Tick, Crash

\* The marks of "last" only shrink, except when it takes those of "current".
LEMMA MarksWritten ==
  ASSUME TypeOK, [Next]_vars
  PROVE  \/ UNCHANGED marks
         \/ \E p \in Topics : MarkTraceable(p) /\ marks'["last"] = marks["last"]
         \/ JobClear /\ marks'["last"] \subseteq marks["last"]
         \/ JobUnlinkLast
         \/ JobRename
<1>1. \/ UNCHANGED marks
      \/ \E p \in Topics : MarkTraceable(p)
      \/ JobClear
      \/ JobUnlinkLast
      \/ JobRename
  BY DEF Next, vars, envs, Receive, StoreStep, PutStamp, PutCommit, PutBloom, AddLookup, AddParent,
       AddChild, WriteFails, ExportStep, RotateStep, JobScanCurrent, JobScanLast, JobExport,
       JobEndScan, JobCheckAge, JobReopen, Tick, Crash
<1>2. \A p \in Topics : MarkTraceable(p) => marks'["last"] = marks["last"]
  BY DEF MarkTraceable, TypeOK, Slots
<1>3. JobClear => marks'["last"] \subseteq marks["last"]
  BY DEF JobClear, ClearedMarks, TypeOK, Job, Slots
<1> QED
  BY <1>1, <1>2, <1>3

\* The histories only grow, and so does the clock.
LEMMA Monotone ==
  ASSUME TypeOK, [Next]_vars
  PROVE  /\ seen \subseteq seen' /\ jaegered \subseteq jaegered'
         /\ now <= now'
<1>1. now \in Nat
  BY DEF TypeOK
<1>2. seen' = seen \/ \E p \in Topics : Receive(p)
  BY DEF Next, vars, StoreStep, MarkTraceable, PutStamp, PutCommit, PutBloom,
         AddLookup, AddParent, AddChild, WriteFails, ExportStep, RotateStep, JobScanCurrent,
         JobScanLast, JobExport, JobClear, JobEndScan, JobCheckAge, JobUnlinkLast, JobRename,
         JobReopen, Tick, Crash
<1>3. jaegered' = jaegered \/ \E t \in Traces : JobExport(t)
  BY DEF Next, vars, Receive, StoreStep, MarkTraceable, PutStamp, PutCommit, PutBloom,
         AddLookup, AddParent, AddChild, WriteFails, ExportStep, RotateStep, JobScanCurrent,
         JobScanLast, JobClear, JobEndScan, JobCheckAge, JobUnlinkLast, JobRename,
         JobReopen, Tick, Crash
<1>4. now' = now \/ Tick
  BY DEF Next, vars, Receive, StoreStep, MarkTraceable, PutStamp, PutCommit, PutBloom,
         AddLookup, AddParent, AddChild, WriteFails, ExportStep, RotateStep, JobScanCurrent,
         JobScanLast, JobExport, JobClear, JobEndScan, JobCheckAge, JobUnlinkLast, JobRename,
         JobReopen, Crash
<1>5. seen \subseteq seen'
  BY <1>2 DEF Receive
<1>6. jaegered \subseteq jaegered'
  BY <1>3 DEF JobExport
<1>7. now <= now'
  BY <1>1, <1>4 DEF Tick
<1> QED
  BY <1>5, <1>6, <1>7

(***************************************************************************)
(* The inductive invariant, in parts.                                      *)
(***************************************************************************)

\* A root is stored under its own trace, and was first seen before now.
GoodRoot(r, t) == r.doc.trace = t /\ r.doc.kind \in RootKinds /\ r.first <= now

RootsAreGood ==
  /\ \A s \in Slots, t \in Traces : roots[s][t] # NoRoot => GoodRoot(roots[s][t], t)
  /\ \A p \in Topics :
       /\ th[p].pc \in {"put", "parent"} => GoodRoot(th[p].root, TraceOf(p))
       /\ th[p].pc = "stamp" => th[p].doc.kind \in RootKinds

\* While a rotation is past the point where it waited, no handler is inside
\* and "last" is empty until "current" takes its place.
RotationIsAlone ==
  /\ job.pc \in {"rename", "reopen"} => NoReaders
  /\ job.pc = "rename" => roots["last"] = EmptyRoots /\ marks["last"] = {}

\* A handler inside add_child found the root of its trace in the environment
\* it writes to, or none in "last".
HandlersAgree ==
  \A p \in Topics :
    /\ th[p].pc = "lookup" => th[p].slot = "current"
    /\ th[p].pc \in {"parent", "child"} /\ th[p].slot = "current"
         => roots["last"][TraceOf(p)] = NoRoot
    /\ th[p].pc \in {"parent", "child"} /\ th[p].slot = "last"
         => roots["last"][TraceOf(p)] # NoRoot

\* The roots of "last" were first seen before "current" was opened.  Between
\* the rename and the new stamp this is not so; a crash there makes the stamp
\* new.
LastIsOlder ==
  /\ openMs <= now
  /\ job.pc # "reopen" =>
       \A t \in Traces : roots["last"][t] # NoRoot => roots["last"][t].first <= openMs
  /\ \A p \in Topics : th[p].pc = "parent" /\ th[p].slot = "last" => th[p].root.first <= openMs
  /\ job.pc = "drain" => now - openMs > RotateAfter

\* While the files are behind the filters, the filter of "last" covers what
\* is about to become "last".
FiltersAhead ==
  UseBloom /\ job.pc = "rename" => Keys("current") \subseteq bloom["last"]

\* Marks and exports come from triggered traces.
TriggersKnown ==
  /\ \A s \in Slots : marks[s] \subseteq Triggered
  /\ \A p \in Topics :
       /\ th[p].pc # "idle" => th[p].doc \in seen
       /\ th[p].pc = "mark" => th[p].doc.kind \in {"slow", "error"}
  /\ job.todo \subseteq Triggered

\* A trace is in the snapshot together with its root, and its mark is deleted
\* after the root was handed over.
RootsInCargo ==
  /\ \A t \in job.todo : \E d \in job.cargo : d.trace = t /\ d.kind \in RootKinds
  /\ job.pc = "clear" => RootSent(job.trace)

IInv ==
  /\ TypeOK
  /\ RootsAreGood /\ LastIsOlder
  /\ RotationIsAlone /\ ParentStaysPut /\ HandlersAgree
  /\ FiltersCoverRoots /\ FiltersAhead
  /\ TriggersKnown /\ OnlyTriggeredTracesSent /\ RootsInCargo

LEMMA InitIInv == Init => IInv
<1> SUFFICES ASSUME Init PROVE IInv
  OBVIOUS
<1>1. TypeOK
  BY TypeInit
<1>2. RootsAreGood /\ LastIsOlder
  BY DEF Init, RootsAreGood, LastIsOlder, EmptyRoots, IdleHandler, IdleJob, Slots
<1>3. RotationIsAlone /\ ParentStaysPut /\ HandlersAgree
  BY DEF Init, RotationIsAlone, ParentStaysPut, HandlersAgree, IdleHandler, IdleJob
<1>4. FiltersCoverRoots /\ FiltersAhead
  BY DEF Init, FiltersCoverRoots, FiltersAhead, Keys, EmptyRoots, IdleJob, Slots
<1>5. TriggersKnown /\ OnlyTriggeredTracesSent /\ RootsInCargo
  BY DEF Init, TriggersKnown, OnlyTriggeredTracesSent, RootsInCargo, IdleHandler, IdleJob, Slots
<1> QED
  BY <1>1, <1>2, <1>3, <1>4, <1>5 DEF IInv

\* A handler writes one record, under its own trace, to one environment.
LEMMA OneRootWritten ==
  ASSUME TypeOK, NEW p \in Topics, PutCommit(p) \/ AddParent(p),
         NEW s \in Slots, NEW t \in Traces
  PROVE  \/ roots'[s][t] = roots[s][t]
         \/ /\ t = TraceOf(p)
            /\ roots'[s][t] = th[p].root
            /\ th[p].root \in RootRecord /\ th[p].root # NoRoot
            /\ \/ PutCommit(p) /\ th[p].pc = "put" /\ s = "current" /\ ~WriterActive
               \/ AddParent(p) /\ th[p].pc = "parent" /\ s = th[p].slot
<1>1. TraceOf(p) \in Traces /\ th[p].slot \in Slots /\ th[p].root \in RootRecord
  BY TypeParts, DocTyped DEF PutCommit, AddParent, ThreadsOK, HandlerOK
<1>2. th[p].root # NoRoot
  BY <1>1, ConstantsAssumption
<1> QED
  BY <1>1, <1>2 DEF PutCommit, AddParent, TypeOK, Slots

\* A write of a handler never takes a root away.
LEMMA WritesKeepRoots ==
  ASSUME TypeOK, NEW p \in Topics, PutCommit(p) \/ AddParent(p),
         NEW s \in Slots, NEW t \in Traces, roots[s][t] # NoRoot
  PROVE  roots'[s][t] # NoRoot
BY OneRootWritten

\* What a rotation leaves of the roots.
LEMMA RotationOfRoots ==
  ASSUME TypeOK, NEW t \in Traces
  PROVE  /\ JobUnlinkLast => /\ roots'["current"][t] = roots["current"][t]
                            /\ roots'["last"][t] = NoRoot
         /\ JobRename => /\ roots'["current"][t] = NoRoot
                        /\ roots'["last"][t] = roots["current"][t]
BY DEF TypeOK, JobUnlinkLast, JobRename, EmptyRoots, Slots

LEMMA RootsAreGoodStep ==
  ASSUME IInv, [Next]_vars
  PROVE  RootsAreGood'
<1>0. TypeOK /\ RootsAreGood /\ now \in Nat
  BY DEF IInv, TypeOK
<1>1. now' \in Nat /\ now <= now'
  BY <1>0, TypeStep, Monotone DEF TypeOK
<1>2. ASSUME NEW s \in Slots, NEW t \in Traces, roots[s][t] # NoRoot
      PROVE  roots[s][t].first \in Nat
  BY <1>0, <1>2 DEF TypeOK, RootRecord
<1>3. ASSUME NEW s \in Slots, NEW t \in Traces, roots'[s][t] # NoRoot
      PROVE  GoodRoot(roots[s][t], t)'
  <2>1. CASE UNCHANGED roots
    BY <1>0, <1>1, <1>2, <1>3, <2>1 DEF RootsAreGood, GoodRoot
  <2>2. ASSUME NEW p \in Topics, PutCommit(p) \/ AddParent(p)
        PROVE  GoodRoot(roots[s][t], t)'
    <3>1. CASE roots'[s][t] = roots[s][t]
      BY <1>0, <1>1, <1>2, <1>3, <3>1 DEF RootsAreGood, GoodRoot
    <3>2. CASE /\ t = TraceOf(p) /\ roots'[s][t] = th[p].root
               /\ th[p].pc \in {"put", "parent"} /\ th[p].root \in RootRecord
      <4>1. th[p].root.first \in Nat
        BY <3>2 DEF RootRecord
      <4> QED
        BY <1>0, <1>1, <3>2, <4>1 DEF RootsAreGood, GoodRoot
    <3> QED
      BY <1>0, <2>2, <3>1, <3>2, OneRootWritten
  <2>3. CASE JobUnlinkLast \/ JobRename
    BY <1>0, <1>1, <1>2, <1>3, <2>3, RotationOfRoots DEF RootsAreGood, GoodRoot, Slots
  <2> QED
    BY <2>1, <2>2, <2>3, RootsWritten
<1>4. ASSUME NEW p \in Topics, th'[p].pc \in {"put", "parent"}
      PROVE  GoodRoot(th[p].root, TraceOf(p))'
  <2>1. CASE th'[p] = th[p]
    <3>1. th[p].root.first \in Nat
      BY <1>0, <1>4, <2>1, TypeParts DEF ThreadsOK, HandlerOK, RootRecord
    <3> QED
      BY <1>0, <1>1, <1>4, <2>1, <3>1 DEF RootsAreGood, GoodRoot, TraceOf
  <2>2. CASE Stamps(p)
    BY <1>0, <1>1, <2>2 DEF Stamps, Becomes, RootsAreGood, GoodRoot, TraceOf
  <2>3. CASE FindsParent(p)
    <3> DEFINE s == th'[p].slot
               r == roots[s][TraceOf(p)]
    <3>1. s \in Slots /\ TraceOf(p) \in Traces
      BY <1>0, <2>3, TypeParts, DocTyped DEF FindsParent, Becomes, Slots
    <3>2. r # NoRoot /\ r \in RootRecord
      BY <2>3, ConstantsAssumption DEF FindsParent
    <3>3. GoodRoot(r, TraceOf(p)) /\ r.first \in Nat
      BY <1>0, <3>1, <3>2 DEF RootsAreGood, RootRecord
    <3>4. th'[p].root = [r EXCEPT !.mod = now] /\ TraceOf(p)' = TraceOf(p)
      BY <2>3 DEF FindsParent, Becomes, TraceOf
    <3> HIDE DEF r
    <3>5. th'[p].root.doc = r.doc /\ th'[p].root.first = r.first
      BY <3>2, <3>4 DEF RootRecord
    <3> QED
      BY <1>0, <1>1, <3>3, <3>4, <3>5 DEF GoodRoot
  <2> QED
    BY <1>0, <1>4, <2>1, <2>2, <2>3, Transition DEF Begins, Becomes, FindsNone
<1>5. ASSUME NEW p \in Topics, th'[p].pc = "stamp"
      PROVE  th'[p].doc.kind \in RootKinds
  BY <1>0, <1>5, Transition DEF Begins, Becomes, Stamps, FindsParent, FindsNone,
     RootsAreGood, RootKinds
<1> QED
  BY <1>3, <1>4, <1>5 DEF RootsAreGood

\* The steps that change the job's phase to or from a rotation.
LEMMA RotationPhases ==
  ASSUME TypeOK, [Next]_vars
  PROVE  /\ job'.pc = "drain" => (UNCHANGED <<job, openMs>>) \/ (JobCheckAge /\ RotationDue)
         /\ job'.pc = "rename" => job.pc = "rename" \/ JobUnlinkLast
         /\ job'.pc = "reopen" => job.pc = "reopen" \/ JobRename
         /\ job.pc = "rename" => (UNCHANGED job) \/ JobRename \/ Crash
         /\ job.pc = "reopen" => (UNCHANGED job) \/ JobReopen \/ Crash
         /\ openMs' # openMs => JobReopen \/ Crash
<1>1. CASE \E p \in Topics : Receive(p) \/ StoreStep(p)
  BY <1>1 DEF StoreStep, envs, Receive, MarkTraceable, PutStamp, PutCommit, PutBloom, AddLookup,
     AddParent, AddChild, WriteFails
<1>2. CASE ExportStep
  <2>1. job'.pc \in {"scan", "clear", "check"} /\ job.pc \in {"idle", "scan", "clear"}
        /\ openMs' = openMs
    BY <1>2 DEF TypeOK, Job, ExportStep, envs, JobScanCurrent, JobScanLast, BeginScan, JobExport,
       JobClear, JobEndScan, IdleJob
  <2> QED
    BY <2>1
<1>3. CASE RotateStep
  <2>1. ASSUME JobCheckAge
        PROVE  /\ job.pc = "check" /\ job'.pc \in {"drain", "idle"} /\ openMs' = openMs
               /\ job'.pc = "drain" => RotationDue
    BY <2>1 DEF JobCheckAge, IdleJob, envs
  <2>2. JobUnlinkLast => job.pc = "drain" /\ job'.pc = "rename" /\ openMs' = openMs
    BY DEF JobUnlinkLast, TypeOK, Job
  <2>3. JobRename => job.pc = "rename" /\ job'.pc = "reopen" /\ openMs' = openMs
    BY DEF JobRename, TypeOK, Job
  <2>4. JobReopen => job.pc = "reopen" /\ job'.pc = "idle"
    BY DEF JobReopen, IdleJob
  <2> QED
    BY <1>3, <2>1, <2>2, <2>3, <2>4 DEF RotateStep
<1>4. CASE Tick
  BY <1>4 DEF Tick, envs
<1>5. CASE Crash
  BY <1>5 DEF Crash, IdleJob
<1>6. CASE UNCHANGED vars
  BY <1>6 DEF vars, envs
<1> QED
  BY <1>1, <1>2, <1>3, <1>4, <1>5, <1>6 DEF Next

\* A crash keeps every root and mark.
LEMMA CrashEffect ==
  ASSUME Crash
  PROVE  /\ UNCHANGED <<now, roots, kids, marks, jaegered>>
         /\ job' = IdleJob /\ job'.pc = "idle"
         /\ \A p \in Topics : th'[p] = IdleHandler /\ th'[p].pc = "idle"
         /\ openMs' = IF job.pc = "reopen" THEN now ELSE openMs
         /\ bloom' = [s \in Slots |-> Keys(s)]
BY IdleIsHandler, IdleJobTyped DEF Crash, StampAtStart, FiltersAtStart

\* No handler enters the lock while a rotation is on its way.
LEMMA NoReadersEnter ==
  ASSUME TypeOK, [Next]_vars, NoReaders, WriterActive
  PROVE  NoReaders'
<1>1. ASSUME NEW p \in Topics PROVE th'[p].pc \notin LockedPhases
  BY <1>1, Transition DEF NoReaders, LockedPhases, Begins, Becomes, Stamps, PutCommit,
     FindsParent, FindsNone
<1> QED
  BY <1>1 DEF NoReaders

LEMMA RotationIsAloneStep ==
  ASSUME IInv, [Next]_vars
  PROVE  RotationIsAlone'
<1>0. TypeOK /\ RotationIsAlone
  BY DEF IInv
<1>1. ASSUME job'.pc \in {"rename", "reopen"} PROVE NoReaders'
  <2>1. CASE JobUnlinkLast
    BY <2>1 DEF JobUnlinkLast, NoReaders
  <2>2. CASE job.pc \in {"rename", "reopen"}
    BY <1>0, <2>2, NoReadersEnter DEF RotationIsAlone, WriterActive
  <2> QED
    BY <1>0, <1>1, <2>1, <2>2, RotationPhases DEF JobRename
<1>2. ASSUME job'.pc = "rename" PROVE roots'["last"] = EmptyRoots /\ marks'["last"] = {}
  <2>1. CASE JobUnlinkLast
    BY <1>0, <2>1 DEF JobUnlinkLast, TypeOK, Slots
  <2>2. CASE job.pc = "rename"
    <3>1. NoReaders /\ roots["last"] = EmptyRoots /\ marks["last"] = {}
      BY <1>0, <2>2 DEF RotationIsAlone
    <3>2. \A p \in Topics : ~PutCommit(p) /\ ~AddParent(p)
      BY <2>2, <3>1 DEF PutCommit, AddParent, WriterActive, NoReaders, LockedPhases
    <3>3. ~JobUnlinkLast /\ ~JobRename
      BY <1>2, <2>2, <1>0 DEF JobUnlinkLast, JobRename, TypeOK, Job
    <3>4. UNCHANGED roots
      BY <3>2, <3>3, RootsWritten
    <3>5. marks'["last"] \subseteq marks["last"]
      BY <1>0, <2>2, <3>3, MarksWritten
    <3> QED
      BY <3>1, <3>4, <3>5
  <2> QED
    BY <1>0, <1>2, <2>1, <2>2, RotationPhases
<1> QED
  BY <1>1, <1>2 DEF RotationIsAlone, EmptyRoots

\* A handler that holds the read lock keeps the rotation out.
LEMMA ReadersKeepOut ==
  ASSUME RotationIsAlone, NEW p \in Topics, th[p].pc \in LockedPhases
  PROVE  ~JobUnlinkLast /\ ~JobRename
BY DEF RotationIsAlone, NoReaders, JobUnlinkLast, JobRename

\* Apart from a rotation, "last" gains and loses no root.
LEMMA LastIsStable ==
  ASSUME IInv, [Next]_vars, ~JobUnlinkLast, ~JobRename, NEW t \in Traces
  PROVE  roots'["last"][t] = NoRoot <=> roots["last"][t] = NoRoot
<1>1. TypeOK /\ HandlersAgree
  BY DEF IInv
<1>2. CASE UNCHANGED roots
  BY <1>2
<1>3. ASSUME NEW p \in Topics, PutCommit(p) \/ AddParent(p)
      PROVE  roots'["last"][t] = NoRoot <=> roots["last"][t] = NoRoot
  <2>1. CASE roots'["last"][t] = roots["last"][t]
    BY <2>1
  <2>2. CASE /\ t = TraceOf(p) /\ roots'["last"][t] = th[p].root /\ th[p].root # NoRoot
             /\ th[p].pc = "parent" /\ th[p].slot = "last"
    BY <1>1, <2>2 DEF HandlersAgree
  <2> QED
    BY <1>1, <1>3, <2>1, <2>2, OneRootWritten DEF Slots
<1> QED
  BY <1>2, <1>3, RootsWritten

\* Neither environment loses a root to a handler.
LEMMA RootsStay ==
  ASSUME IInv, [Next]_vars, ~JobUnlinkLast, ~JobRename,
         NEW s \in Slots, NEW t \in Traces, roots[s][t] # NoRoot
  PROVE  roots'[s][t] # NoRoot
BY RootsWritten, WritesKeepRoots DEF IInv

LEMMA ParentStaysPutStep ==
  ASSUME IInv, [Next]_vars
  PROVE  ParentStaysPut'
<1>0. TypeOK /\ RotationIsAlone /\ ParentStaysPut /\ ThreadsOK
  BY TypeParts DEF IInv
<1>1. ASSUME NEW p \in Topics, th'[p].pc = "parent"
      PROVE  roots'[th'[p].slot][TraceOf(p)'] # NoRoot
  <2>1. CASE th'[p] = th[p]
    <3>1. roots[th[p].slot][TraceOf(p)] # NoRoot /\ TraceOf(p)' = TraceOf(p)
      BY <1>0, <1>1, <2>1 DEF ParentStaysPut, TraceOf
    <3>2. ~JobUnlinkLast /\ ~JobRename
      BY <1>0, <1>1, <2>1, ReadersKeepOut DEF LockedPhases
    <3> QED
      BY <1>0, <1>1, <2>1, <3>1, <3>2, RootsStay, DocTyped
  <2>2. CASE FindsParent(p) /\ UNCHANGED <<envs, now, job>>
    BY <2>2, ConstantsAssumption DEF FindsParent, Becomes, TraceOf, envs
  <2> QED
    BY <1>0, <1>1, <2>1, <2>2, Transition DEF Begins, Becomes, Stamps, FindsNone
<1> QED
  BY <1>1 DEF ParentStaysPut

\* What add_child concludes when it does not find a root in "last" is true:
\* the filter of "last" covers its table whenever the lock is free.
LEMMA NotInLastIsSo ==
  ASSUME IInv, NEW p \in Topics, th[p].pc # "idle", ~WriterActive, NotInLast(p)
  PROVE  roots["last"][TraceOf(p)] = NoRoot
<1>1. TraceOf(p) \in Traces
  BY TypeParts, DocTyped DEF IInv
<1>2. CASE ReadInVain(p, "last")
  BY <1>2 DEF ReadInVain
<1>3. CASE MayMiss("last", TraceOf(p))
  BY <1>1, <1>3 DEF MayMiss, IInv, FiltersCoverRoots, Keys, WriterActive, Slots
<1> QED
  BY <1>2, <1>3 DEF NotInLast

LEMMA HandlersAgreeStep ==
  ASSUME IInv, [Next]_vars
  PROVE  HandlersAgree'
<1>0. TypeOK /\ RotationIsAlone /\ HandlersAgree /\ ThreadsOK
  BY TypeParts DEF IInv
<1>1. ASSUME NEW p \in Topics, th'[p].pc = "lookup"
      PROVE  th'[p].slot = "current"
  BY <1>0, <1>1, Transition DEF HandlersAgree, Begins, Becomes, Stamps, FindsParent, FindsNone
<1>2. ASSUME NEW p \in Topics, th'[p].pc \in {"parent", "child"}
      PROVE  /\ th'[p].slot = "current" => roots'["last"][TraceOf(p)'] = NoRoot
             /\ th'[p].slot = "last" => roots'["last"][TraceOf(p)'] # NoRoot
  <2>1. CASE /\ th[p].pc \in {"parent", "child"}
             /\ th'[p].slot = th[p].slot /\ th'[p].doc = th[p].doc
    <3>1. ~JobUnlinkLast /\ ~JobRename
      BY <1>0, <2>1, ReadersKeepOut DEF LockedPhases
    <3>2. TraceOf(p)' = TraceOf(p) /\ TraceOf(p) \in Traces
      BY <1>0, <2>1, DocTyped DEF TraceOf
    <3>3. roots'["last"][TraceOf(p)] = NoRoot <=> roots["last"][TraceOf(p)] = NoRoot
      BY <3>1, <3>2, LastIsStable
    <3> QED
      BY <1>0, <2>1, <3>2, <3>3 DEF HandlersAgree
  <2>2. CASE FindsParent(p) /\ UNCHANGED <<envs, now, job>>
    <3>1. TraceOf(p)' = TraceOf(p) /\ roots' = roots
      BY <2>2 DEF FindsParent, Becomes, TraceOf, envs
    <3>2. th'[p].slot = "current" => roots["last"][TraceOf(p)] = NoRoot
      BY <2>2, NotInLastIsSo DEF FindsParent, Becomes
    <3>3. th'[p].slot = "last" => roots["last"][TraceOf(p)] # NoRoot
      BY <2>2, ConstantsAssumption DEF FindsParent
    <3> QED
      BY <3>1, <3>2, <3>3
  <2>3. CASE FindsNone(p) /\ UNCHANGED <<envs, now, job>>
    <3>1. TraceOf(p)' = TraceOf(p) /\ roots' = roots
      BY <2>3 DEF FindsNone, Becomes, TraceOf, envs
    <3>2. th'[p].slot = "current"
      BY <1>0, <2>3 DEF FindsNone, HandlersAgree
    <3>3. roots["last"][TraceOf(p)] = NoRoot
      BY <2>3, NotInLastIsSo DEF FindsNone, Becomes
    <3> QED
      BY <3>1, <3>2, <3>3
  <2> QED
    BY <1>0, <1>2, <2>1, <2>2, <2>3, Transition DEF Begins, Becomes, Stamps
<1> QED
  BY <1>1, <1>2 DEF HandlersAgree

\* An age does not shrink.
LEMMA OlderStill ==
  ASSUME NEW a \in Nat, NEW b \in Nat, NEW c \in Nat, NEW age \in Nat,
         a - c > age, a <= b
  PROVE  b - c > age
OBVIOUS

LEMMA OlderFirst ==
  ASSUME NEW a \in Nat, NEW b \in Nat, NEW c \in Nat, NEW age \in Nat,
         a - b > age, c <= b
  PROVE  a - c > age
OBVIOUS

LEMMA LastIsOlderStep ==
  ASSUME IInv, [Next]_vars
  PROVE  LastIsOlder'
<1>0. /\ TypeOK /\ RootsAreGood /\ LastIsOlder /\ RotationIsAlone /\ ThreadsOK
      /\ now \in Nat /\ openMs \in Nat
  BY TypeParts DEF IInv, TypeOK
<1>1. now' \in Nat /\ now <= now'
  BY <1>0, TypeStep, Monotone DEF TypeOK
<1>2. JobReopen => openMs' = now /\ UNCHANGED <<roots, th>>
  BY DEF JobReopen
<1>3. JobUnlinkLast \/ JobRename => openMs' = openMs
  BY DEF JobUnlinkLast, JobRename
<1>4. openMs' = openMs \/ openMs' = now
  <2>1. CASE Crash
    BY <2>1, CrashEffect
  <2>2. CASE ~Crash
    BY <1>0, <1>2, <2>2, RotationPhases
  <2> QED
    BY <2>1, <2>2
<1>5. openMs' <= now'
  BY <1>0, <1>1, <1>4 DEF LastIsOlder
<1>6. ASSUME job'.pc # "reopen", NEW t \in Traces, roots'["last"][t] # NoRoot
      PROVE  roots'["last"][t].first <= openMs'
  <2>1. CASE Crash \/ JobReopen
    <3>1. roots'["last"][t] = roots["last"][t]
      BY <2>1, <1>2, CrashEffect
    <3>2. roots["last"][t].first <= now
      BY <1>0, <1>6, <3>1 DEF RootsAreGood, GoodRoot, Slots
    <3>3. job.pc # "reopen" => roots["last"][t].first <= openMs
      BY <1>0, <1>6, <3>1 DEF LastIsOlder
    <3>4. JobReopen => job.pc = "reopen"
      BY DEF JobReopen
    <3> QED
      BY <2>1, <1>2, <3>1, <3>2, <3>3, CrashEffect
  <2>2. CASE ~Crash /\ ~JobReopen
    <3>1. openMs' = openMs /\ job.pc # "reopen"
      BY <1>0, <1>6, <2>2, RotationPhases
    <3>2. CASE JobUnlinkLast
      BY <1>0, <1>6, <3>2, RotationOfRoots
    <3>3. CASE JobRename
      BY <1>0, <1>6, <3>3 DEF JobRename, TypeOK, Job
    <3>4. CASE UNCHANGED roots
      BY <1>0, <1>6, <3>1, <3>4 DEF LastIsOlder
    <3>5. ASSUME NEW p \in Topics, PutCommit(p) \/ AddParent(p)
          PROVE  roots'["last"][t].first <= openMs'
      <4>1. CASE roots'["last"][t] = roots["last"][t]
        BY <1>0, <1>6, <3>1, <4>1 DEF LastIsOlder
      <4>2. CASE th[p].pc = "parent" /\ th[p].slot = "last" /\ roots'["last"][t] = th[p].root
        BY <1>0, <3>1, <4>2 DEF LastIsOlder
      <4> QED
        BY <1>0, <3>5, <4>1, <4>2, OneRootWritten DEF Slots
    <3> QED
      BY <3>2, <3>3, <3>4, <3>5, RootsWritten
  <2> QED
    BY <2>1, <2>2
<1>7. ASSUME NEW p \in Topics, th'[p].pc = "parent", th'[p].slot = "last"
      PROVE  th'[p].root.first <= openMs'
  <2>1. CASE th'[p] = th[p]
    <3>1. ~JobReopen
      BY <1>0, <1>7, <2>1 DEF JobReopen, RotationIsAlone, NoReaders, LockedPhases
    <3>2. openMs' = openMs
      BY <1>0, <1>7, <3>1, RotationPhases, CrashEffect
    <3> QED
      BY <1>0, <1>7, <2>1, <3>2 DEF LastIsOlder
  <2>2. CASE FindsParent(p) /\ UNCHANGED <<envs, now, job>>
    <3> DEFINE r == roots["last"][TraceOf(p)]
    <3>1. r \in RootRecord /\ th'[p].root = [r EXCEPT !.mod = now] /\ job.pc # "reopen"
      BY <1>7, <2>2 DEF FindsParent, WriterActive
    <3>2. r # NoRoot /\ TraceOf(p) \in Traces
      BY <1>0, <2>2, <3>1, DocTyped, ConstantsAssumption DEF FindsParent, Becomes
    <3>3. r.first <= openMs /\ openMs' = openMs
      BY <1>0, <2>2, <3>1, <3>2 DEF LastIsOlder, envs
    <3> HIDE DEF r
    <3>4. th'[p].root.first = r.first
      BY <3>1 DEF RootRecord
    <3> QED
      BY <3>3, <3>4
  <2>3. th'[p] = th[p] \/ (FindsParent(p) /\ UNCHANGED <<envs, now, job>>)
    BY <1>0, <1>7, Transition DEF Begins, Becomes, Stamps, FindsNone
  <2> QED
    BY <2>1, <2>2, <2>3
<1>8. ASSUME job'.pc = "drain" PROVE now' - openMs' > RotateAfter
  <2>1. CASE UNCHANGED <<job, openMs>>
    <3>1. now - openMs > RotateAfter /\ openMs' = openMs
      BY <1>0, <1>8, <2>1 DEF LastIsOlder
    <3>2. RotateAfter \in Nat
      BY ConstantsAssumption
    <3>3. now' - openMs > RotateAfter
      <4>1. now \in Nat /\ now' \in Nat /\ openMs \in Nat /\ now <= now'
        BY <1>0, <1>1
      <4>2. now - openMs > RotateAfter
        BY <3>1
      <4> QED
        BY <4>1, <4>2, <3>2, OlderStill
    <3> QED
      BY <3>1, <3>3
  <2>2. CASE JobCheckAge /\ RotationDue
    BY <2>2 DEF JobCheckAge, RotationDue, envs
  <2> QED
    BY <1>0, <1>8, <2>1, <2>2, RotationPhases
<1> QED
  BY <1>5, <1>6, <1>7, <1>8 DEF LastIsOlder

\* Filters only grow, except in a rotation or at a start.
LEMMA FiltersGrow ==
  ASSUME TypeOK, [Next]_vars, ~JobUnlinkLast, ~Crash, NEW s \in Slots
  PROVE  bloom[s] \subseteq bloom'[s]
<1>1. UNCHANGED bloom \/ \E p \in Topics : PutBloom(p)
  BY DEF Next, vars, envs, Receive, StoreStep, MarkTraceable, PutStamp, PutCommit, AddLookup,
       AddParent, AddChild, WriteFails, ExportStep, RotateStep, JobScanCurrent, JobScanLast,
       JobExport, JobClear, JobEndScan, JobCheckAge, JobRename, JobReopen, Tick
<1> QED
  BY <1>1 DEF PutBloom, TypeOK, Slots

\* A handler about to add its key to the filter does so next.
LEMMA BloomIsAdded ==
  ASSUME TypeOK, [Next]_vars, ~Crash, NEW p \in Topics, th[p].pc = "bloom"
  PROVE  TraceOf(p) \in bloom'["current"] \/ (th'[p].pc = "bloom" /\ TraceOf(p)' = TraceOf(p))
<1>1. ThreadsOK /\ inbox \subseteq Docs
  BY TypeParts DEF StoreOK
<1>2. ASSUME NEW q \in Topics, Receive(q) \/ StoreStep(q)
      PROVE  th'[p] = th[p] \/ PutBloom(p)
  <2>1. CASE q # p
    BY <1>1, <1>2, <2>1, ReceiveEffect, StoreStepThreads
  <2>2. CASE q = p
    BY <1>2, <2>2 DEF Receive, StoreStep, MarkTraceable, PutStamp, PutCommit, AddLookup, AddParent,
       AddChild, WriteFails
  <2> QED
    BY <2>1, <2>2
<1>3. PutBloom(p) => TraceOf(p) \in bloom'["current"]
  BY DEF PutBloom, TypeOK, Slots
<1>4. ExportStep \/ RotateStep \/ Tick \/ UNCHANGED vars => UNCHANGED th
  BY DEF ExportStep, RotateStep, Tick, vars, JobScanCurrent, JobScanLast, JobExport, JobClear,
         JobEndScan, JobCheckAge, JobUnlinkLast, JobRename, JobReopen
<1> QED
  BY <1>2, <1>3, <1>4 DEF Next, TraceOf

LEMMA FiltersStep ==
  ASSUME IInv, [Next]_vars
  PROVE  FiltersCoverRoots' /\ FiltersAhead'
<1>0. /\ TypeOK /\ RotationIsAlone /\ ParentStaysPut /\ ThreadsOK
      /\ FiltersCoverRoots /\ FiltersAhead
  BY TypeParts DEF IInv
<1> SUFFICES ASSUME UseBloom
             PROVE  FiltersCoverRoots' /\ FiltersAhead'
  BY DEF FiltersCoverRoots, FiltersAhead
<1>1. ASSUME JobUnlinkLast PROVE FiltersAhead' /\ job'.pc = "rename"
  <2>1. job.pc = "drain" /\ NoReaders /\ bloom' = RotatedFilters /\ job'.pc = "rename"
    BY <1>0, <1>1 DEF JobUnlinkLast, TypeOK, Job
  <2>2. Keys("current") \subseteq bloom["current"]
    BY <1>0, <2>1 DEF FiltersCoverRoots, Slots, NoReaders, LockedPhases
  <2>3. Keys("current")' \subseteq Keys("current")
    BY <1>0, <1>1, RotationOfRoots DEF Keys
  <2>4. bloom'["last"] = bloom["current"]
    BY <2>1 DEF RotatedFilters
  <2> QED
    BY <2>1, <2>2, <2>3, <2>4 DEF FiltersAhead
<1>2. ASSUME JobRename PROVE FiltersCoverRoots' /\ job'.pc = "reopen"
  <2>1. job.pc = "rename" /\ bloom' = bloom /\ job'.pc = "reopen"
    BY <1>0, <1>2 DEF JobRename, TypeOK, Job
  <2>2. Keys("current") \subseteq bloom["last"]
    BY <1>0, <2>1 DEF FiltersAhead
  <2>3. \A t \in Traces : roots'["current"][t] = NoRoot /\ roots'["last"][t] = roots["current"][t]
    BY <1>0, <1>2, RotationOfRoots
  <2>4. Keys("current")' = {} /\ Keys("last")' \subseteq bloom'["last"]
    BY <2>1, <2>2, <2>3 DEF Keys
  <2> QED
    BY <2>1, <2>4 DEF FiltersCoverRoots, Slots
<1>3. ASSUME Crash PROVE FiltersCoverRoots' /\ job'.pc = "idle"
  BY <1>3, CrashEffect DEF FiltersCoverRoots, Keys
<1>4. CASE ~JobUnlinkLast /\ ~JobRename /\ ~Crash
  <2>1. \A s \in Slots : bloom[s] \subseteq bloom'[s]
    BY <1>0, <1>4, FiltersGrow
  <2>2. ASSUME job'.pc = "rename" PROVE FiltersAhead'
    <3>1. job.pc = "rename" /\ NoReaders
      BY <1>0, <1>4, <2>2, RotationPhases DEF RotationIsAlone
    <3>2. UNCHANGED roots
      BY <1>4, <3>1, RootsWritten DEF PutCommit, AddParent, WriterActive, NoReaders, LockedPhases
    <3> QED
      BY <1>0, <2>1, <3>1, <3>2 DEF FiltersAhead, Keys, Slots
  <2>3. ASSUME job'.pc # "rename" PROVE FiltersCoverRoots'
    <3>1. job.pc # "rename"
      BY <1>0, <1>4, <2>3, RotationPhases
    <3>2. ASSUME NEW s \in Slots, NEW t \in Traces, roots'[s][t] # NoRoot
          PROVE  \/ t \in bloom'[s]
                 \/ s = "current" /\ \E p \in Topics : th'[p].pc = "bloom" /\ TraceOf(p)' = t
      <4>1. CASE roots[s][t] # NoRoot
        <5>1. CASE t \in bloom[s]
          BY <2>1, <5>1
        <5>2. ASSUME s = "current", NEW p \in Topics, th[p].pc = "bloom", TraceOf(p) = t
              PROVE  t \in bloom'[s] \/ (th'[p].pc = "bloom" /\ TraceOf(p)' = t)
          BY <1>0, <1>4, <5>2, BloomIsAdded
        <5> QED
          BY <1>0, <3>1, <4>1, <5>1, <5>2 DEF FiltersCoverRoots, Keys
      <4>2. CASE roots[s][t] = NoRoot
        <5>0. ~UNCHANGED roots
          BY <3>2, <4>2
        <5>1. PICK p \in Topics : PutCommit(p) \/ AddParent(p)
          BY <1>4, <5>0, RootsWritten
        <5>2. /\ t = TraceOf(p)
              /\ (PutCommit(p) /\ s = "current") \/ (th[p].pc = "parent" /\ s = th[p].slot)
          BY <1>0, <3>2, <4>2, <5>1, OneRootWritten
        <5>3. PutCommit(p) /\ s = "current"
          BY <1>0, <4>2, <5>2 DEF ParentStaysPut
        <5>4. th[p].pc = "put" /\ Goto(p, "bloom")
          BY <5>3 DEF PutCommit
        <5>5. th'[p].pc = "bloom" /\ th'[p].doc = th[p].doc
          BY <1>0, <5>4, GotoEffect DEF Phases
        <5> QED
          BY <5>2, <5>3, <5>5 DEF TraceOf
      <4> QED
        BY <4>1, <4>2
    <3> QED
      BY <3>2 DEF FiltersCoverRoots, Keys
  <2> QED
    BY <2>2, <2>3 DEF FiltersCoverRoots, FiltersAhead
<1> QED
  BY <1>1, <1>2, <1>3, <1>4 DEF FiltersCoverRoots, FiltersAhead

\* What triggers a trace stays.
LEMMA TriggeredGrows ==
  ASSUME TypeOK, [Next]_vars
  PROVE  Triggered \subseteq Triggered'
BY Monotone DEF Triggered

\* The steps that give the job traces to send.
LEMMA JobSnapshot ==
  ASSUME TypeOK, [Next]_vars
  PROVE  \/ job'.todo = {} /\ job'.pc # "clear"
         \/ /\ UNCHANGED <<roots, marks>>
            /\ \E s \in Slots, limit \in Int : job'.todo = Ready(s, limit)
                                             /\ job'.cargo = Cargo(s, Ready(s, limit))
            /\ job'.pc # "clear"
         \/ /\ job'.todo \subseteq job.todo /\ job'.cargo = job.cargo
            /\ job'.pc = "clear" => job.pc = "clear" /\ job'.trace = job.trace
         \/ \E t \in Traces : /\ JobExport(t)
                             /\ job'.todo = job.todo /\ job'.cargo = job.cargo
                             /\ job'.pc = "clear" /\ job'.trace = t
<1>0. StoreOK /\ JobOK
  BY TypeParts
<1>1. CASE UNCHANGED job
  BY <1>1
<1>2. JobCheckAge \/ JobReopen \/ JobEndScan \/ Crash => job'.todo = {} /\ job'.pc # "clear"
  BY DEF JobCheckAge, JobReopen, JobEndScan, Crash, IdleJob
<1>3. JobUnlinkLast \/ JobRename => /\ job'.todo = job.todo /\ job'.cargo = job.cargo
                                  /\ job'.pc # "clear"
  BY DEF JobUnlinkLast, JobRename, TypeOK, Job
<1>4. CASE JobScanCurrent
  <2>1. now - Lookback \in Int
    BY <1>0, ConstantsAssumption DEF StoreOK
  <2>2. /\ job'.todo = Ready("current", now - Lookback)
        /\ job'.cargo = Cargo("current", Ready("current", now - Lookback))
        /\ job'.pc = "scan" /\ UNCHANGED <<roots, marks>>
    BY <1>4 DEF JobScanCurrent, BeginScan, IdleJob, envs
  <2> QED
    BY <2>1, <2>2 DEF Slots
<1>5. CASE JobScanLast
  <2>1. job.limit \in Int
    BY <1>0 DEF JobOK, Job
  <2>2. /\ job'.todo = Ready("last", job.limit)
        /\ job'.cargo = Cargo("last", Ready("last", job.limit))
        /\ job'.pc = "scan" /\ UNCHANGED <<roots, marks>>
    BY <1>5 DEF JobScanLast, BeginScan, IdleJob, envs
  <2> QED
    BY <2>1, <2>2 DEF Slots
<1>6. ASSUME NEW t \in Traces, JobExport(t)
      PROVE  /\ job'.todo = job.todo /\ job'.cargo = job.cargo
             /\ job'.pc = "clear" /\ job'.trace = t
  BY <1>0, <1>6 DEF JobExport, JobOK, Job
<1>7. CASE JobClear
  <2>1. /\ job'.pc = "scan" /\ job'.cargo = job.cargo
        /\ job'.todo = IF job.count >= MaxExport THEN {} ELSE job.todo \ {job.trace}
    BY <1>0, <1>7 DEF JobClear, JobOK, Job
  <2> QED
    BY <2>1
<1>8. (\E p \in Topics : Receive(p) \/ StoreStep(p)) \/ Tick \/ UNCHANGED vars => UNCHANGED job
  BY DEF StoreStep, Receive, MarkTraceable, PutStamp, PutCommit, PutBloom, AddLookup, AddParent,
     AddChild, WriteFails, Tick, vars
<1> QED
  BY <1>1, <1>2, <1>3, <1>4, <1>5, <1>6, <1>7, <1>8 DEF Next, ExportStep, RotateStep

LEMMA TriggersStep ==
  ASSUME IInv, [Next]_vars
  PROVE  TriggersKnown'
<1>0. TypeOK /\ TriggersKnown /\ ThreadsOK
  BY TypeParts DEF IInv
<1>1. seen \subseteq seen' /\ Triggered \subseteq Triggered'
  BY <1>0, Monotone, TriggeredGrows
<1>2. ASSUME NEW p \in Topics
      PROVE  /\ th'[p].pc # "idle" => th'[p].doc \in seen'
             /\ th'[p].pc = "mark" => th'[p].doc.kind \in {"slow", "error"}
  BY <1>0, <1>1, <1>2, Transition DEF TriggersKnown, Begins, Becomes, Stamps, FindsParent, FindsNone
<1>3. ASSUME NEW s \in Slots PROVE marks'[s] \subseteq Triggered'
  <2>1. CASE UNCHANGED marks
    BY <1>0, <1>1, <1>3, <2>1 DEF TriggersKnown
  <2>2. ASSUME NEW p \in Topics, MarkTraceable(p)
        PROVE  marks'[s] \subseteq Triggered'
    <3>1. TraceOf(p) \in Triggered
      BY <1>0, <2>2 DEF MarkTraceable, TriggersKnown, Triggered, TraceOf
    <3> QED
      BY <1>0, <1>1, <1>3, <2>2, <3>1 DEF MarkTraceable, TriggersKnown, TypeOK
  <2>3. CASE JobClear
    BY <1>0, <1>1, <1>3, <2>3 DEF JobClear, ClearedMarks, TriggersKnown, TypeOK
  <2>4. CASE JobUnlinkLast
    BY <1>0, <1>1, <1>3, <2>4 DEF JobUnlinkLast, TriggersKnown, TypeOK
  <2>5. CASE JobRename
    BY <1>0, <1>1, <1>3, <2>5 DEF JobRename, TriggersKnown, Slots
  <2> QED
    BY <1>0, <2>1, <2>2, <2>3, <2>4, <2>5, MarksWritten
<1>4. job'.todo \subseteq Triggered'
  <2>1. ASSUME NEW s \in Slots, NEW limit \in Int, job'.todo = Ready(s, limit)
        PROVE  job'.todo \subseteq Triggered'
    BY <1>0, <1>1, <2>1 DEF Ready, TriggersKnown
  <2>2. CASE job'.todo \subseteq job.todo
    BY <1>0, <1>1, <2>2 DEF TriggersKnown
  <2> QED
    BY <1>0, <2>1, <2>2, JobSnapshot
<1> QED
  BY <1>2, <1>3, <1>4 DEF TriggersKnown

\* Exports are of traces of the snapshot.
LEMMA OnlyTriggeredStep ==
  ASSUME IInv, [Next]_vars
  PROVE  OnlyTriggeredTracesSent'
<1>0. TypeOK /\ TriggersKnown /\ OnlyTriggeredTracesSent
  BY DEF IInv
<1>1. Triggered \subseteq Triggered'
  BY <1>0, TriggeredGrows
<1>2. jaegered' = jaegered \/ \E t \in Traces : JobExport(t)
  BY DEF Next, vars, Receive, StoreStep, MarkTraceable, PutStamp, PutCommit, PutBloom,
         AddLookup, AddParent, AddChild, WriteFails, ExportStep, RotateStep, JobScanCurrent,
         JobScanLast, JobClear, JobEndScan, JobCheckAge, JobUnlinkLast, JobRename,
         JobReopen, Tick, Crash
<1>3. ASSUME NEW t \in Traces, JobExport(t)
      PROVE  \A d \in jaegered' : d \in jaegered \/ d.trace \in Triggered
  BY <1>0, <1>3 DEF JobExport, TriggersKnown
<1> QED
  BY <1>0, <1>1, <1>2, <1>3 DEF OnlyTriggeredTracesSent

\* A snapshot holds the root of every trace it holds.
LEMMA CargoHasRoots ==
  ASSUME TypeOK, RootsAreGood, NEW s \in Slots, NEW limit \in Int,
         NEW t \in Ready(s, limit)
  PROVE  \E d \in Cargo(s, Ready(s, limit)) : d.trace = t /\ d.kind \in RootKinds
<1>1. t \in Traces /\ ParentRoot(s, t) # NoRoot
  BY DEF Ready, TypeOK
<1>2. ParentRoot(s, t) = roots[s][t]
  BY DEF ParentRoot, FallbackSlot
<1>3. GoodRoot(ParentRoot(s, t), t)
  BY <1>1, <1>2 DEF RootsAreGood
<1>4. ParentRoot(s, t).doc \in Cargo(s, Ready(s, limit))
  BY DEF Cargo
<1> QED
  BY <1>3, <1>4 DEF GoodRoot

LEMMA RootsInCargoStep ==
  ASSUME IInv, [Next]_vars
  PROVE  RootsInCargo'
<1>0. TypeOK /\ RootsAreGood /\ RootsInCargo
  BY DEF IInv
<1>1. jaegered \subseteq jaegered'
  BY <1>0, Monotone
<1>2. ASSUME NEW s \in Slots, NEW limit \in Int, job'.todo = Ready(s, limit),
             job'.cargo = Cargo(s, Ready(s, limit)), job'.pc # "clear"
      PROVE  RootsInCargo'
  BY <1>0, <1>2, CargoHasRoots DEF RootsInCargo
<1>3. CASE /\ job'.todo \subseteq job.todo /\ job'.cargo = job.cargo
           /\ job'.pc = "clear" => job.pc = "clear" /\ job'.trace = job.trace
  BY <1>0, <1>1, <1>3 DEF RootsInCargo, RootSent
<1>4. ASSUME NEW t \in Traces, JobExport(t), job'.todo = job.todo, job'.cargo = job.cargo,
             job'.pc = "clear", job'.trace = t
      PROVE  RootsInCargo'
  <2>1. PICK d \in job.cargo : d.trace = t /\ d.kind \in RootKinds
    BY <1>0, <1>4 DEF JobExport, RootsInCargo
  <2>2. d \in jaegered'
    BY <1>4, <2>1 DEF JobExport
  <2> QED
    BY <1>0, <1>4, <2>1, <2>2 DEF RootsInCargo, RootSent
<1>5. CASE job'.todo = {} /\ job'.pc # "clear"
  BY <1>5 DEF RootsInCargo
<1> QED
  BY <1>0, <1>2, <1>3, <1>4, <1>5, JobSnapshot

(***************************************************************************)
(* The theorems.                                                           *)
(***************************************************************************)
LEMMA InvariantStep ==
  ASSUME IInv, [Next]_vars
  PROVE  IInv'
<1>1. TypeOK'
  BY TypeStep DEF IInv
<1> QED
  BY <1>1, RootsAreGoodStep, LastIsOlderStep, RotationIsAloneStep, ParentStaysPutStep,
     HandlersAgreeStep, FiltersStep, TriggersStep, OnlyTriggeredStep, RootsInCargoStep DEF IInv

LEMMA Invariance == Spec => []IInv
<1>1. IInv /\ [Next]_vars => IInv'
  BY InvariantStep
<1> QED
  BY InitIInv, <1>1, PTL DEF Spec

\* No stored root is denied by the filter add_child asks first, through
\* rotations, crashes between their steps and handlers in any place.
THEOREM FiltersCover == Spec => []FiltersCoverRoots
<1>1. IInv => FiltersCoverRoots
  BY DEF IInv
<1> QED
  BY Invariance, <1>1, PTL

\* The environment a handler read its parent from is not rotated away before
\* it writes the parent back.
THEOREM ParentStays == Spec => []ParentStaysPut
<1>1. IInv => ParentStaysPut
  BY DEF IInv
<1> QED
  BY Invariance, <1>1, PTL

\* Tail sampling sends nothing but traces with a slow root or an error.
THEOREM OnlyTriggered == Spec => []OnlyTriggeredTracesSent
<1>1. IInv => OnlyTriggeredTracesSent
  BY DEF IInv
<1> QED
  BY Invariance, <1>1, PTL

\* Retention: no rotation, whatever it interleaves with and wherever it is
\* interrupted, prunes a root that is not older than ten minutes.
THEOREM YoungKept == Spec => YoungRootsKept
<1> DEFINE Kept == \A t \in Traces, s \in Slots :
                     (roots[s][t] # NoRoot /\ \A r \in Slots : roots'[r][t] = NoRoot)
                       => now - roots[s][t].first > RotateAfter
<1>1. ASSUME IInv, [Next]_vars, NEW t \in Traces, NEW s \in Slots,
             roots[s][t] # NoRoot, \A r \in Slots : roots'[r][t] = NoRoot
      PROVE  now - roots[s][t].first > RotateAfter
  <2>0. TypeOK /\ LastIsOlder /\ RotationIsAlone
    BY <1>1 DEF IInv
  <2>1. JobUnlinkLast \/ JobRename
    BY <1>1, RootsStay
  <2>2. CASE JobUnlinkLast
    <3>1. s = "last" /\ job.pc = "drain"
      BY <1>1, <2>0, <2>2, RotationOfRoots DEF Slots, JobUnlinkLast
    <3>2. roots["last"][t].first <= openMs /\ now - openMs > RotateAfter
      BY <1>1, <2>0, <3>1 DEF LastIsOlder
    <3>3. roots["last"][t] \in RootRecord /\ now \in Nat /\ openMs \in Nat
      BY <1>1, <2>0, <3>1 DEF TypeOK, Slots
    <3>4. roots["last"][t].first \in Nat
      BY <3>3 DEF RootRecord
    <3>5. RotateAfter \in Nat
      BY ConstantsAssumption
    <3>6. now - roots["last"][t].first > RotateAfter
      BY <3>2, <3>3, <3>4, <3>5, OlderFirst
    <3> QED
      BY <3>1, <3>6
  <2>3. CASE JobRename
    <3>1. s # "last"
      BY <1>1, <2>0, <2>3 DEF RotationIsAlone, EmptyRoots, JobRename
    <3> QED
      BY <1>1, <2>0, <2>3, <3>1, RotationOfRoots DEF Slots
  <2> QED
    BY <2>1, <2>2, <2>3
<1>2. IInv /\ [Next]_vars => [Kept]_vars
  BY <1>1
<1> QED
  BY Invariance, <1>2, PTL DEF Spec, YoungRootsKept

\* At least once: the job deletes a mark only after the root of its trace was
\* handed to Jaeger, also when it dies and scans again.
THEOREM ClearedAfterSent == Spec => ClearedOnlyAfterSent
<1> DEFINE Cleared == \A t \in Traces :
                        (Marked(t) /\ ~Marked(t)') => (RootSent(t)' \/ job.pc = "drain")
<1>1. ASSUME IInv, [Next]_vars, NEW t \in Traces, Marked(t), ~Marked(t)'
      PROVE  RootSent(t)' \/ job.pc = "drain"
  <2>0. TypeOK /\ RotationIsAlone /\ RootsInCargo
    BY <1>1 DEF IInv
  <2>1. ~UNCHANGED marks
    BY <1>1 DEF Marked
  <2>2. ASSUME NEW p \in Topics, MarkTraceable(p) PROVE FALSE
    BY <1>1, <2>0, <2>2 DEF MarkTraceable, Marked, TypeOK
  <2>3. CASE JobClear
    <3>1. t = job.trace /\ job.pc = "clear"
      BY <1>1, <2>0, <2>3 DEF JobClear, ClearedMarks, Marked, TypeOK
    <3> QED
      BY <1>1, <2>0, <3>1, Monotone DEF RootsInCargo, RootSent
  <2>4. CASE JobUnlinkLast
    BY <2>4 DEF JobUnlinkLast
  <2>5. CASE JobRename
    <3>1. marks["last"] = {} /\ marks'["last"] = marks["current"]
      BY <2>0, <2>5 DEF JobRename, RotationIsAlone
    <3> QED
      BY <1>1, <3>1 DEF Marked, Slots
  <2> QED
    BY <1>1, <2>0, <2>1, <2>2, <2>3, <2>4, <2>5, MarksWritten
<1>2. IInv /\ [Next]_vars => [Cleared]_vars
  BY <1>1
<1> QED
  BY Invariance, <1>2, PTL DEF Spec, ClearedOnlyAfterSent

\* A handler writes a child where its root is: into "last" exactly if "last"
\* has the root, although it looked long before it writes.
THEOREM ChildrenFollow == Spec => ChildrenFollowRoot
<1> DEFINE Follow ==
      th' # th => \A d \in Docs :
        /\ d \in kids'["current"] \ kids["current"] => roots["last"][d.trace] = NoRoot
        /\ d \in kids'["last"] \ kids["last"] => roots["last"][d.trace] # NoRoot
<1>1. ASSUME IInv, [Next]_vars, th' # th
      PROVE  UNCHANGED kids \/ \E p \in Topics : AddChild(p)
  BY <1>1 DEF Next, vars, envs, Receive, StoreStep, MarkTraceable, PutStamp, PutCommit, PutBloom,
     AddLookup, AddParent, WriteFails, ExportStep, RotateStep, JobScanCurrent, JobScanLast,
     JobExport, JobClear, JobEndScan, JobCheckAge, JobUnlinkLast, JobRename, JobReopen, Tick, Crash
<1>2. ASSUME IInv, NEW p \in Topics, AddChild(p), NEW s \in Slots, NEW d \in kids'[s] \ kids[s]
      PROVE  d.trace = TraceOf(p) /\ th[p].slot = s /\ th[p].pc = "child"
  BY <1>2 DEF AddChild, IInv, TypeOK, TraceOf
<1>3. ASSUME IInv, [Next]_vars PROVE Follow
  BY <1>1, <1>2, <1>3 DEF IInv, HandlersAgree, Slots
<1>4. IInv /\ [Next]_vars => [Follow]_vars
  BY <1>3
<1> QED
  BY Invariance, <1>4, PTL DEF Spec, ChildrenFollowRoot

(***************************************************************************)
(* The refinement of TailSampling, and what it needs beyond IInv.          *)
(***************************************************************************)

\* A record carries a document that arrived, and its times lie in order in
\* the past.
Known(r) == r.doc \in seen /\ r.first <= r.mod /\ r.mod <= now

RootsKnown ==
  /\ \A s \in Slots, t \in Traces : roots[s][t] # NoRoot => Known(roots[s][t])
  /\ \A p \in Topics : th[p].pc \in {"put", "parent"} => Known(th[p].root)

\* Roots are never stored as children.
NoChild(d) == d.kind \in RootKinds

ChildrenKnown ==
  /\ \A s \in Slots : \A d \in kids[s] : d \in seen /\ ~NoChild(d)
  /\ \A p \in Topics : th[p].pc \in {"lookup", "parent", "child"} => ~NoChild(th[p].doc)
  /\ job.pc = "rename" => kids["last"] = {}

\* What the job has yet to send is marked in the environment it scans, since
\* it alone clears marks there; outside a scan there is nothing to send.
PlanKnown ==
  /\ job.pc \in {"scan", "clear"} =>
       job.limit + Lookback <= now /\ job.todo \subseteq marks[job.slot]
  /\ job.pc \notin {"scan", "clear"} => job.todo = {} /\ job.cargo = {}
  /\ job.pc = "clear" => job.trace \in job.todo

PInv == IInv /\ RootsKnown /\ ChildrenKnown /\ PlanKnown

LEMMA InitPInv == Init => PInv
<1> SUFFICES ASSUME Init PROVE RootsKnown /\ ChildrenKnown /\ PlanKnown
  BY InitIInv DEF PInv
<1>1. RootsKnown
  BY DEF Init, RootsKnown, EmptyRoots, IdleHandler
<1>2. ChildrenKnown
  BY DEF Init, ChildrenKnown, IdleHandler, IdleJob
<1>3. PlanKnown
  BY DEF Init, PlanKnown, IdleJob
<1> QED
  BY <1>1, <1>2, <1>3

\* A record that is known stays known.
LEMMA KnownStays ==
  ASSUME TypeOK, [Next]_vars, NEW r \in RootRecord, Known(r)
  PROVE  r.doc \in seen' /\ r.first <= r.mod /\ r.mod <= now'
<1>1. now \in Nat /\ now' \in Nat /\ now <= now' /\ seen \subseteq seen'
  BY TypeStep, Monotone DEF TypeOK
<1>2. r.first \in Nat /\ r.mod \in Nat
  BY DEF RootRecord
<1> QED
  BY <1>1, <1>2 DEF Known

\* Every root stored after a step was stored, or carried by a handler, before.
LEMMA RootsComeFrom ==
  ASSUME TypeOK, [Next]_vars, NEW s \in Slots, NEW t \in Traces, roots'[s][t] # NoRoot
  PROVE  \/ \E q \in Slots : roots'[s][t] = roots[q][t]
         \/ \E p \in Topics : /\ roots'[s][t] = th[p].root
                             /\ th[p].pc \in {"put", "parent"} /\ th[p].root \in RootRecord
<1>1. CASE UNCHANGED roots
  BY <1>1
<1>2. ASSUME NEW p \in Topics, PutCommit(p) \/ AddParent(p)
      PROVE  \/ roots'[s][t] = roots[s][t]
             \/ /\ roots'[s][t] = th[p].root
                /\ th[p].pc \in {"put", "parent"} /\ th[p].root \in RootRecord
  BY <1>2, OneRootWritten
<1>3. CASE JobUnlinkLast \/ JobRename
  BY <1>3, RotationOfRoots DEF Slots
<1> QED
  BY <1>1, <1>2, <1>3, RootsWritten

LEMMA RootsKnownStep ==
  ASSUME PInv, [Next]_vars
  PROVE  RootsKnown'
<1>0. TypeOK /\ RootsKnown /\ ThreadsOK /\ now \in Nat /\ Lookback \in Nat
  BY TypeParts, ConstantsAssumption DEF PInv, IInv, TypeOK
<1>1. ASSUME NEW s \in Slots, NEW t \in Traces, roots'[s][t] # NoRoot
      PROVE  Known(roots[s][t])'
  <2>1. ASSUME NEW q \in Slots, roots'[s][t] = roots[q][t]
        PROVE  Known(roots[s][t])'
    <3>1. roots[q][t] \in RootRecord /\ Known(roots[q][t])
      BY <1>0, <1>1, <2>1 DEF TypeOK, RootsKnown
    <3> QED
      BY <1>0, <2>1, <3>1, KnownStays DEF Known
  <2>2. ASSUME NEW p \in Topics, roots'[s][t] = th[p].root,
               th[p].pc \in {"put", "parent"}, th[p].root \in RootRecord
        PROVE  Known(roots[s][t])'
    <3>1. Known(th[p].root)
      BY <1>0, <2>2 DEF RootsKnown
    <3> QED
      BY <1>0, <2>2, <3>1, KnownStays DEF Known
  <2> QED
    BY <1>0, <1>1, <2>1, <2>2, RootsComeFrom
<1>2. ASSUME NEW p \in Topics, th'[p].pc \in {"put", "parent"}
      PROVE  Known(th[p].root)'
  <2>1. CASE th'[p] = th[p]
    <3>1. th[p].root \in RootRecord /\ Known(th[p].root)
      BY <1>0, <1>2, <2>1 DEF ThreadsOK, HandlerOK, RootsKnown
    <3> QED
      BY <1>0, <2>1, <3>1, KnownStays DEF Known
  <2>2. CASE Stamps(p)
    <3> DEFINE r == [doc |-> th[p].doc, first |-> now, mod |-> now]
    <3>1. th[p].doc \in Docs /\ th[p].doc \in seen /\ th'[p].root = r
      BY <1>0, <2>2, DocTyped DEF Stamps, Becomes, PInv, IInv, TriggersKnown
    <3>2. r \in RootRecord /\ Known(r)
      BY <1>0, <3>1 DEF RootRecord, Known
    <3> HIDE DEF r
    <3> QED
      BY <1>0, <3>1, <3>2, KnownStays DEF Known
  <2>3. CASE FindsParent(p)
    <3> DEFINE old == roots[th'[p].slot][TraceOf(p)]
               r   == [old EXCEPT !.mod = now]
    <3>1. th'[p].slot \in Slots /\ TraceOf(p) \in Traces
      BY <1>0, <2>3, DocTyped DEF FindsParent, Becomes, Slots
    <3>2. old \in RootRecord /\ old # NoRoot /\ th'[p].root = r
      BY <2>3, ConstantsAssumption DEF FindsParent
    <3>3. Known(old)
      BY <1>0, <3>1, <3>2 DEF RootsKnown
    <3> HIDE DEF old
    <3>4. r \in RootRecord /\ Known(r)
      BY <1>0, <3>2, <3>3 DEF RootRecord, Known
    <3> HIDE DEF r
    <3> QED
      BY <1>0, <3>2, <3>4, KnownStays DEF Known
  <2> QED
    BY <1>0, <1>2, <2>1, <2>2, <2>3, Transition DEF Begins, Becomes, FindsNone
<1> QED
  BY <1>1, <1>2 DEF RootsKnown

\* The four steps that touch the tables of children.
LEMMA KidsWritten ==
  ASSUME [Next]_vars
  PROVE  \/ UNCHANGED kids
         \/ \E p \in Topics : AddChild(p)
         \/ JobUnlinkLast
         \/ JobRename
BY DEF Next, vars, envs, Receive, StoreStep, MarkTraceable, PutStamp, PutCommit, PutBloom, AddLookup,
       AddParent, WriteFails, ExportStep, RotateStep, JobScanCurrent, JobScanLast, JobExport,
       JobClear, JobEndScan, JobCheckAge, JobReopen, Tick, Crash

LEMMA ChildrenKnownStep ==
  ASSUME PInv, [Next]_vars
  PROVE  ChildrenKnown'
<1>0. TypeOK /\ ChildrenKnown /\ ThreadsOK /\ RotationIsAlone /\ TriggersKnown
  BY TypeParts DEF PInv, IInv
<1>1. seen \subseteq seen'
  BY <1>0, Monotone
<1>2. ASSUME NEW p \in Topics, th'[p].pc \in {"lookup", "parent", "child"}
      PROVE  ~NoChild(th'[p].doc)
  BY <1>0, <1>2, Transition DEF ChildrenKnown, NoChild, Begins, Becomes, Stamps, FindsParent,
     FindsNone
<1>3. ASSUME NEW s \in Slots, NEW d \in kids'[s] PROVE d \in seen' /\ ~NoChild(d)
  <2>1. CASE \E q \in Slots : d \in kids[q]
    BY <1>0, <1>1, <2>1 DEF ChildrenKnown
  <2>2. ASSUME NEW p \in Topics, AddChild(p), d \notin kids[s] PROVE d \in seen' /\ ~NoChild(d)
    <3>1. d = th[p].doc /\ th[p].pc = "child"
      BY <1>0, <1>3, <2>2 DEF AddChild, TypeOK
    <3> QED
      BY <1>0, <1>1, <3>1 DEF ChildrenKnown, TriggersKnown
  <2>3. JobUnlinkLast \/ JobRename => \E q \in Slots : d \in kids[q]
    BY <1>0, <1>3 DEF JobUnlinkLast, JobRename, TypeOK, Slots
  <2> QED
    BY <1>3, <2>1, <2>2, <2>3, KidsWritten
<1>4. ASSUME job'.pc = "rename" PROVE kids'["last"] = {}
  <2>1. CASE JobUnlinkLast
    BY <1>0, <2>1 DEF JobUnlinkLast, TypeOK, Slots
  <2>2. CASE ~JobUnlinkLast
    <3>1. job.pc = "rename" /\ ~JobRename
      BY <1>0, <1>4, <2>2, RotationPhases DEF JobRename, TypeOK, Job
    <3>2. kids["last"] = {} /\ \A p \in Topics : ~AddChild(p)
      BY <1>0, <3>1 DEF ChildrenKnown, RotationIsAlone, NoReaders, LockedPhases, AddChild
    <3> QED
      BY <2>2, <3>1, <3>2, KidsWritten
  <2> QED
    BY <2>1, <2>2
<1> QED
  BY <1>2, <1>3, <1>4 DEF ChildrenKnown

\* Only the job clears marks, and only that of the trace it has sent.
LEMMA MarksKept ==
  ASSUME TypeOK, [Next]_vars, ~JobUnlinkLast, ~JobRename, NEW s \in Slots
  PROVE  marks[s] \subseteq marks'[s] \/ (JobClear /\ marks[s] \ {job.trace} \subseteq marks'[s])
<1>1. \A p \in Topics : MarkTraceable(p) => marks[s] \subseteq marks'[s]
  BY DEF MarkTraceable, TypeOK
<1>2. JobClear => marks[s] \ {job.trace} \subseteq marks'[s]
  BY DEF JobClear, ClearedMarks, TypeOK
<1> QED
  BY <1>1, <1>2, MarksWritten

\* What is ready has been quiet, and is marked where its root is.
LEMMA ReadyIsMarked ==
  ASSUME NEW s \in Slots, NEW limit \in Int
  PROVE  Ready(s, limit) \subseteq marks[s]
BY DEF Ready

\* How the steps of the job move its plan.
LEMMA PlanSteps ==
  ASSUME PInv, [Next]_vars
  PROVE  \/ UNCHANGED job
         \/ job'.todo = {} /\ job'.cargo = {} /\ job'.pc \notin {"scan", "clear"}
         \/ /\ UNCHANGED <<marks, now>> /\ job'.pc = "scan"
            /\ job'.limit + Lookback <= now
            /\ job'.todo \subseteq marks[job'.slot]
         \/ \E t \in job.todo : /\ JobExport(t) /\ UNCHANGED marks
                               /\ job'.pc = "clear" /\ job'.trace = t
                               /\ job'.limit = job.limit /\ job'.slot = job.slot
                               /\ job'.todo = job.todo /\ job.pc = "scan"
         \/ /\ JobClear /\ job'.pc = "scan" /\ job'.limit = job.limit /\ job'.slot = job.slot
            /\ job'.todo \subseteq job.todo \ {job.trace}
<1>0. /\ TypeOK /\ PlanKnown /\ StoreOK /\ JobOK /\ now \in Nat /\ Lookback \in Nat
      /\ job.limit \in Int
  BY TypeParts, ConstantsAssumption DEF PInv, IInv, TypeOK, Job
<1>1. JobCheckAge \/ JobReopen \/ JobEndScan \/ Crash
        => job'.todo = {} /\ job'.cargo = {} /\ job'.pc \notin {"scan", "clear"}
  BY DEF JobCheckAge, JobReopen, JobEndScan, Crash, IdleJob
<1>2. JobUnlinkLast \/ JobRename
        => job'.todo = {} /\ job'.cargo = {} /\ job'.pc \notin {"scan", "clear"}
  <2>1. JobUnlinkLast \/ JobRename => /\ job'.todo = job.todo /\ job'.cargo = job.cargo
                                    /\ job'.pc \in {"rename", "reopen"}
                                    /\ job.pc \in {"drain", "rename"}
    BY <1>0 DEF JobUnlinkLast, JobRename, JobOK, Job
  <2> QED
    BY <1>0, <2>1 DEF PlanKnown
<1>3. ASSUME NEW s \in Slots, NEW limit \in Int, NEW count, BeginScan(s, limit, count),
             limit + Lookback <= now
      PROVE  /\ job'.pc = "scan" /\ job'.limit + Lookback <= now
             /\ job'.todo \subseteq marks[job'.slot]
  <2>1. job'.pc = "scan" /\ job'.limit = limit /\ job'.slot = s /\ job'.todo = Ready(s, limit)
    BY <1>3 DEF BeginScan, IdleJob
  <2> QED
    BY <1>3, <2>1, ReadyIsMarked
<1>4. ASSUME JobScanCurrent
      PROVE  /\ UNCHANGED <<marks, now>> /\ job'.pc = "scan"
             /\ job'.limit + Lookback <= now /\ job'.todo \subseteq marks[job'.slot]
  <2>1. UNCHANGED <<marks, now>> /\ BeginScan("current", now - Lookback, 0)
    BY <1>4 DEF JobScanCurrent, envs
  <2>2. now - Lookback \in Int /\ (now - Lookback) + Lookback <= now
    BY <1>0
  <2> QED
    BY <1>3, <2>1, <2>2 DEF Slots
<1>5. ASSUME JobScanLast
      PROVE  /\ UNCHANGED <<marks, now>> /\ job'.pc = "scan"
             /\ job'.limit + Lookback <= now /\ job'.todo \subseteq marks[job'.slot]
  <2>1. UNCHANGED <<marks, now>> /\ BeginScan("last", job.limit, job.count) /\ job.pc = "scan"
    BY <1>5 DEF JobScanLast, envs
  <2>2. job.limit + Lookback <= now
    BY <1>0, <2>1 DEF PlanKnown
  <2> QED
    BY <1>0, <1>3, <2>1, <2>2 DEF Slots
<1>6. ASSUME NEW t \in Traces, JobExport(t)
      PROVE  /\ t \in job.todo /\ UNCHANGED marks /\ job.pc = "scan"
             /\ job'.pc = "clear" /\ job'.trace = t
             /\ job'.limit = job.limit /\ job'.slot = job.slot
             /\ job'.todo = job.todo
  BY <1>0, <1>6 DEF JobExport, JobOK, Job, envs
<1>7. ASSUME JobClear
      PROVE  /\ job'.pc = "scan" /\ job'.limit = job.limit /\ job'.slot = job.slot
             /\ job'.todo \subseteq job.todo \ {job.trace}
  BY <1>0, <1>7 DEF JobClear, JobOK, Job
<1>8. (\E p \in Topics : Receive(p) \/ StoreStep(p)) \/ Tick \/ UNCHANGED vars => UNCHANGED job
  BY DEF StoreStep, Receive, MarkTraceable, PutStamp, PutCommit, PutBloom, AddLookup, AddParent,
     AddChild, WriteFails, Tick, vars
<1> QED
  BY <1>1, <1>2, <1>4, <1>5, <1>6, <1>7, <1>8 DEF Next, ExportStep, RotateStep

LEMMA PlanKnownStep ==
  ASSUME PInv, [Next]_vars
  PROVE  PlanKnown'
<1>0. /\ TypeOK /\ PlanKnown /\ now \in Nat /\ now' \in Nat /\ now <= now' /\ Lookback \in Nat
      /\ job.limit \in Int /\ job.slot \in Slots
  BY TypeStep, Monotone, ConstantsAssumption DEF PInv, IInv, TypeOK, Job
<1>1. CASE UNCHANGED job
  <2>1. ASSUME job.pc \in {"scan", "clear"}, ~JobClear
        PROVE  job.limit + Lookback <= now' /\ job.todo \subseteq marks'[job.slot]
    <3>1. ~JobUnlinkLast /\ ~JobRename
      BY <2>1 DEF JobUnlinkLast, JobRename
    <3> QED
      BY <1>0, <2>1, <3>1, MarksKept DEF PlanKnown
  <2>2. ~JobClear
    BY <1>0, <1>1 DEF JobClear, TypeOK, Job
  <2> QED
    BY <1>0, <1>1, <2>1, <2>2 DEF PlanKnown
<1>2. CASE job'.todo = {} /\ job'.cargo = {} /\ job'.pc \notin {"scan", "clear"}
  BY <1>2 DEF PlanKnown
<1>3. CASE /\ UNCHANGED <<marks, now>> /\ job'.pc = "scan"
           /\ job'.limit + Lookback <= now
           /\ job'.todo \subseteq marks[job'.slot]
  BY <1>3 DEF PlanKnown
<1>4. ASSUME NEW t \in job.todo, JobExport(t), UNCHANGED marks,
             job'.pc = "clear", job'.trace = t, job'.limit = job.limit,
             job'.slot = job.slot, job'.todo = job.todo, job.pc = "scan"
      PROVE  PlanKnown'
  BY <1>0, <1>4 DEF PlanKnown
<1>5. CASE /\ JobClear /\ job'.pc = "scan" /\ job'.limit = job.limit /\ job'.slot = job.slot
           /\ job'.todo \subseteq job.todo \ {job.trace}
  <2>1. job.pc = "clear" /\ ~JobUnlinkLast /\ ~JobRename
    BY <1>5 DEF JobClear, JobUnlinkLast, JobRename
  <2>2. marks[job.slot] \ {job.trace} \subseteq marks'[job.slot]
    BY <1>0, <2>1, MarksKept
  <2> QED
    BY <1>0, <1>5, <2>1, <2>2 DEF PlanKnown
<1> QED
  BY <1>1, <1>2, <1>3, <1>4, <1>5, PlanSteps

LEMMA PInvariance == Spec => []PInv
<1>1. ASSUME PInv, [Next]_vars PROVE PInv'
  <2>1. IInv'
    BY <1>1, InvariantStep DEF PInv
  <2> QED
    BY <1>1, <2>1, RootsKnownStep, ChildrenKnownStep, PlanKnownStep DEF PInv
<1>2. PInv /\ [Next]_vars => PInv'
  BY <1>1
<1> QED
  BY InitPInv, <1>2, PTL DEF Spec

\* What is held: a record is held when some environment stores it.
LEMMA HeldIs ==
  ASSUME NEW r
  PROVE  /\ r \in Held <=> r # NoRoot /\ \E s \in Slots, t \in Traces : r = roots[s][t]
         /\ r \in Held' <=> r # NoRoot /\ \E s \in Slots, t \in Traces : r = roots'[s][t]
BY DEF Held

\* A step that leaves the environments, the history and the plan alone.
LEMMA StutterIs ==
  ASSUME UNCHANGED <<now, openMs, seen, roots, kids, marks, jaegered>>,
         job'.todo = job.todo, job'.cargo = job.cargo
  PROVE  UNCHANGED Promise!vars
<1>1. Held' = Held /\ HeldChildren' = HeldChildren /\ MarkedTraces' = MarkedTraces
  BY DEF Held, HeldChildren, MarkedTraces
<1> QED
  BY <1>1 DEF Promise!vars

\* A record written by a handler takes the place of at most one other record
\* of its trace.
LEMMA WrittenIsKept ==
  ASSUME PInv, NEW p \in Topics, PutCommit(p) \/ AddParent(p),
         UNCHANGED <<now, openMs, seen, kids, marks, job, jaegered>>
  PROVE  Promise!Keep
<1> DEFINE r == th[p].root
           t == TraceOf(p)
           s == IF PutCommit(p) THEN "current" ELSE th[p].slot
           old == roots[s][t]
<1>0. TypeOK /\ RootsAreGood /\ RootsKnown /\ ThreadsOK
  BY TypeParts DEF PInv, IInv
<1>1. th[p].pc \in {"put", "parent"} /\ th[p].pc # "idle"
  BY DEF PutCommit, AddParent
<1>2. t \in Traces /\ s \in Slots /\ r \in RootRecord
  BY <1>0, <1>1, DocTyped DEF ThreadsOK, HandlerOK, Slots
<1>3. Known(r) /\ GoodRoot(r, t) /\ r # NoRoot
  BY <1>0, <1>1, <1>2, ConstantsAssumption DEF RootsKnown, RootsAreGood
<1>4. /\ roots'[s][t] = r
      /\ \A q \in Slots, u \in Traces : (q # s \/ u # t) => roots'[q][u] = roots[q][u]
  BY <1>0, <1>2 DEF PutCommit, AddParent, TypeOK, Slots
<1>5. old # NoRoot => old \in Held /\ old.doc.trace = t
  BY <1>0, <1>2, HeldIs DEF RootsAreGood, GoodRoot
<1> HIDE DEF r, t, s, old
<1>6. \A x : x \in Held' <=> x = r \/ (x # NoRoot /\ \E q \in Slots, u \in Traces :
                                         (q # s \/ u # t) /\ x = roots[q][u])
  BY <1>2, <1>3, <1>4, HeldIs
<1>7. \A x : x \in Held <=> (x = old /\ x # NoRoot) \/ (x # NoRoot /\ \E q \in Slots, u \in Traces :
                                         (q # s \/ u # t) /\ x = roots[q][u])
  BY <1>2, HeldIs DEF old
<1>8. Held' = Held \cup {r} \/ (old # NoRoot /\ Held' = (Held \ {old}) \cup {r})
  <2>1. CASE old = NoRoot
    BY <1>6, <1>7, <2>1
  <2>2. CASE old # NoRoot /\ \E q \in Slots, u \in Traces : (q # s \/ u # t) /\ old = roots[q][u]
    BY <1>6, <1>7, <2>2
  <2>3. CASE old # NoRoot /\ ~\E q \in Slots, u \in Traces : (q # s \/ u # t) /\ old = roots[q][u]
    BY <1>6, <1>7, <2>3
  <2> QED
    BY <2>1, <2>2, <2>3
<1>9. r = [doc |-> r.doc, first |-> r.first, mod |-> r.mod]
  BY <1>2 DEF RootRecord
<1>10. /\ r.doc \in seen /\ r.mod \in 0..now /\ r.first \in 0..r.mod
       /\ Promise!IsRoot(r.doc) /\ r.doc.trace = t
  BY <1>0, <1>2, <1>3 DEF TypeOK, RootRecord, Known, GoodRoot, Promise!IsRoot, RootKinds
<1>11. old # NoRoot => old \in Promise!HeldOf(t)
  BY <1>5 DEF Promise!HeldOf
<1>12. HeldChildren' = HeldChildren /\ MarkedTraces' = MarkedTraces
  BY DEF HeldChildren, MarkedTraces
<1>13. \/ Held' = Held \cup {r}
       \/ \E o \in Promise!HeldOf(r.doc.trace) : Held' = (Held \ {o}) \cup {r}
  BY <1>8, <1>10, <1>11
<1> QED
  BY <1>9, <1>10, <1>12, <1>13 DEF Promise!Keep

LEMMA ChildIsAttached ==
  ASSUME PInv, NEW p \in Topics, AddChild(p)
  PROVE  Promise!Attach
<1>0. TypeOK /\ ThreadsOK /\ ChildrenKnown /\ TriggersKnown /\ th[p].pc = "child"
  BY TypeParts DEF PInv, IInv, AddChild
<1>1. th[p].doc \in seen /\ ~Promise!IsRoot(th[p].doc)
  BY <1>0 DEF TriggersKnown, ChildrenKnown, NoChild, RootKinds, Promise!IsRoot
<1>2. th[p].slot \in Slots
  BY <1>0, DocTyped
<1>3. HeldChildren' = HeldChildren \cup {th[p].doc}
  BY <1>0, <1>2 DEF AddChild, HeldChildren, TypeOK, Slots
<1>4. Held' = Held /\ MarkedTraces' = MarkedTraces
  BY DEF AddChild, Held, MarkedTraces
<1>5. UNCHANGED <<now, openMs, seen, job, jaegered>>
  BY DEF AddChild
<1> QED
  BY <1>1, <1>3, <1>4, <1>5 DEF Promise!Attach

LEMMA MarkIsMark ==
  ASSUME PInv, NEW p \in Topics, MarkTraceable(p)
  PROVE  Promise!Mark
<1>0. TypeOK /\ TriggersKnown /\ th[p].pc = "mark"
  BY DEF PInv, IInv, MarkTraceable
<1>1. th[p].doc \in seen /\ th[p].doc.kind \in {"slow", "error"}
  BY <1>0 DEF TriggersKnown
<1>2. MarkedTraces' = MarkedTraces \cup {th[p].doc.trace}
  BY <1>0 DEF MarkTraceable, MarkedTraces, TypeOK, Slots, TraceOf
<1>3. Held' = Held /\ HeldChildren' = HeldChildren
  BY DEF MarkTraceable, Held, HeldChildren
<1>4. UNCHANGED <<now, openMs, seen, job, jaegered>>
  BY DEF MarkTraceable
<1> QED
  BY <1>1, <1>2, <1>3, <1>4 DEF Promise!Mark

\* The other steps of a handler are not seen from outside.
LEMMA HandlerSimulation ==
  ASSUME PInv, NEW p \in Topics, Receive(p) \/ StoreStep(p)
  PROVE  Promise!Next \/ UNCHANGED Promise!vars
<1>1. CASE Receive(p)
  <2>1. PICK d \in Docs : seen' = seen \cup {d}
    BY <1>1 DEF Receive, PInv, IInv, TypeOK
  <2>2. UNCHANGED <<now, openMs, roots, kids, marks, job, jaegered>>
    BY <1>1 DEF Receive, envs
  <2>3. Held' = Held /\ HeldChildren' = HeldChildren /\ MarkedTraces' = MarkedTraces
    BY <2>2 DEF Held, HeldChildren, MarkedTraces
  <2>4. Promise!Arrive
    BY <2>1, <2>2, <2>3 DEF Promise!Arrive
  <2> QED
    BY <2>4 DEF Promise!Next
<1>2. CASE PutStamp(p) \/ PutBloom(p) \/ AddLookup(p) \/ WriteFails(p)
  <2>1. UNCHANGED <<now, openMs, seen, roots, kids, marks, jaegered, job>>
    BY <1>2 DEF PutStamp, PutBloom, AddLookup, WriteFails, envs
  <2> QED
    BY <2>1, StutterIs
<1>3. CASE PutCommit(p) \/ AddParent(p)
  <2>1. UNCHANGED <<now, openMs, seen, kids, marks, job, jaegered>>
    BY <1>3 DEF PutCommit, AddParent
  <2> QED
    BY <1>3, <2>1, WrittenIsKept DEF Promise!Next
<1>4. CASE AddChild(p)
  BY <1>4, ChildIsAttached DEF Promise!Next
<1>5. CASE MarkTraceable(p)
  BY <1>5, MarkIsMark DEF Promise!Next
<1> QED
  BY <1>1, <1>2, <1>3, <1>4, <1>5 DEF StoreStep

\* A snapshot is a plan: its traces are marked and quiet, its documents
\* stored.
LEMMA SnapshotIsPlan ==
  ASSUME PInv, NEW s \in Slots, NEW limit \in Int, NEW count, BeginScan(s, limit, count),
         limit + Lookback <= now, job.todo = {},
         UNCHANGED <<now, openMs, seen, roots, kids, marks, jaegered>>
  PROVE  Promise!Plan
<1> DEFINE ready == Ready(s, limit)
<1>0. /\ TypeOK /\ RootsAreGood /\ now \in Nat /\ Lookback \in Nat
  BY ConstantsAssumption DEF PInv, IInv, TypeOK
<1>1. job'.todo = ready /\ job'.cargo = Cargo(s, ready)
  BY DEF BeginScan, IdleJob
<1>2. ASSUME NEW t \in ready
      PROVE  /\ t \in MarkedTraces
             /\ \E r \in Held : /\ r.doc.trace = t /\ r.mod + Lookback <= now
                               /\ r = ParentRoot(s, t)
  <2>1. t \in marks[s] /\ t \in Traces /\ ParentRoot(s, t) # NoRoot /\ ParentRoot(s, t).mod <= limit
    BY <1>0 DEF Ready, TypeOK
  <2>2. ParentRoot(s, t) = roots[s][t]
    BY DEF ParentRoot, FallbackSlot
  <2>3. roots[s][t] \in Held /\ roots[s][t].doc.trace = t
    BY <1>0, <2>1, <2>2, HeldIs DEF RootsAreGood, GoodRoot
  <2>4. roots[s][t].mod \in Nat
    <3>1. roots[s][t] \in RootRecord
      BY <1>0, <2>1, <2>2 DEF TypeOK
    <3> QED
      BY <3>1 DEF RootRecord
  <2>5. roots[s][t].mod + Lookback <= now
    BY <1>0, <2>1, <2>2, <2>4
  <2>6. t \in MarkedTraces
    BY <2>1 DEF MarkedTraces, Slots
  <2> QED
    BY <2>2, <2>3, <2>5, <2>6
<1>3. ASSUME NEW d \in Cargo(s, ready) PROVE d \in Promise!Stored /\ d.trace \in ready
  <2>1. CASE d \in kids[s] /\ d.trace \in ready
    BY <2>1 DEF Promise!Stored, HeldChildren, Slots
  <2>2. ASSUME NEW t \in ready, d = ParentRoot(s, t).doc PROVE d \in Promise!Stored /\ d.trace \in ready
    BY <1>2, <2>2 DEF Promise!Stored
  <2> QED
    BY <2>1, <2>2 DEF Cargo
<1> HIDE DEF ready
<1>4. \A t \in job'.todo : t \in MarkedTraces /\ Promise!IsQuiet(t)
  BY <1>1, <1>2 DEF Promise!IsQuiet, Promise!HeldOf
<1>5. job'.cargo \subseteq {d \in Promise!Stored : d.trace \in job'.todo}
  BY <1>1, <1>3
<1>6. Held' = Held /\ HeldChildren' = HeldChildren /\ MarkedTraces' = MarkedTraces
  BY DEF Held, HeldChildren, MarkedTraces
<1> QED
  BY <1>4, <1>5, <1>6 DEF Promise!Plan

LEMMA ExportIsSend ==
  ASSUME PInv, NEW t \in Traces, JobExport(t)
  PROVE  Promise!Send
<1> DEFINE batch == {d \in job.cargo : d.trace = t}
           children == {d \in batch : d.kind \notin RootKinds}
<1>0. TypeOK /\ PlanKnown /\ RootsInCargo /\ job.slot \in Slots
  BY DEF PInv, IInv, TypeOK, Job
<1>1. job.pc = "scan" /\ t \in job.todo
  BY DEF JobExport
<1>2. t \in MarkedTraces
  BY <1>0, <1>1 DEF PlanKnown, MarkedTraces, Slots
<1>3. PICK part \in SUBSET children : jaegered' = jaegered \cup (batch \ children) \cup part
  BY DEF JobExport
<1>4. PICK d \in job.cargo : d.trace = t /\ d.kind \in RootKinds
  BY <1>0, <1>1 DEF RootsInCargo
<1> DEFINE load == (batch \ children) \cup part
<1>5. load \in SUBSET batch /\ d \in load /\ Promise!IsRoot(d)
  BY <1>4 DEF Promise!IsRoot, RootKinds
<1>6. jaegered' = jaegered \cup load
  BY <1>3
<1>7. UNCHANGED <<now, openMs, seen, roots, kids, marks>>
  BY DEF JobExport, envs
<1>8. Held' = Held /\ HeldChildren' = HeldChildren /\ MarkedTraces' = MarkedTraces
  BY <1>7 DEF Held, HeldChildren, MarkedTraces
<1>9. job'.todo = job.todo /\ job'.cargo = job.cargo
  BY <1>0 DEF JobExport, TypeOK, Job
<1> HIDE DEF load
<1> QED
  BY <1>1, <1>2, <1>5, <1>6, <1>7, <1>8, <1>9 DEF Promise!Send

LEMMA ClearIsSettle ==
  ASSUME PInv, JobClear
  PROVE  Promise!Settle
<1>0. TypeOK /\ PlanKnown /\ RootsInCargo /\ job.slot \in Slots /\ job.pc = "clear"
  BY DEF PInv, IInv, TypeOK, Job, JobClear
<1>1. job.trace \in job.todo /\ Promise!RootWasSent(job.trace)
  BY <1>0 DEF PlanKnown, RootsInCargo, RootSent, Promise!RootWasSent, Promise!IsRoot, RootKinds
<1>2. job'.todo \in {{}, job.todo \ {job.trace}} /\ job'.cargo = job.cargo
  BY <1>0 DEF JobClear, TypeOK, Job
<1>3. MarkedTraces' \in {MarkedTraces, MarkedTraces \ {job.trace}}
  <2>1. CASE UNCHANGED marks
    BY <2>1 DEF MarkedTraces
  <2>2. CASE marks' = ClearedMarks /\ job.slot = "current"
    BY <1>0, <2>2 DEF MarkedTraces, ClearedMarks, TypeOK, Slots
  <2>3. CASE marks' = ClearedMarks /\ job.slot = "last"
    BY <1>0, <2>3 DEF MarkedTraces, ClearedMarks, TypeOK, Slots
  <2> QED
    BY <1>0, <2>1, <2>2, <2>3 DEF JobClear, Slots
<1>4. UNCHANGED <<now, openMs, seen, roots, kids, jaegered>>
  BY DEF JobClear
<1>5. Held' = Held /\ HeldChildren' = HeldChildren
  BY <1>4 DEF Held, HeldChildren
<1> QED
  BY <1>1, <1>2, <1>3, <1>4, <1>5 DEF Promise!Settle

\* The scan of an environment that is over leaves an empty plan.
LEMMA EndScanIsPlan ==
  ASSUME PInv, JobEndScan
  PROVE  Promise!Plan
<1>1. job.todo = {} /\ job'.todo = {} /\ job'.cargo = {}
  BY DEF JobEndScan, IdleJob
<1>2. UNCHANGED <<now, openMs, seen, roots, kids, marks, jaegered>>
  BY DEF JobEndScan, envs
<1>3. Held' = Held /\ HeldChildren' = HeldChildren /\ MarkedTraces' = MarkedTraces
  BY <1>2 DEF Held, HeldChildren, MarkedTraces
<1> QED
  BY <1>1, <1>2, <1>3 DEF Promise!Plan

LEMMA ExportSimulation ==
  ASSUME PInv, ExportStep
  PROVE  Promise!Next
<1>0. /\ TypeOK /\ PlanKnown /\ now \in Nat /\ Lookback \in Nat /\ job.limit \in Int
  BY ConstantsAssumption DEF PInv, IInv, TypeOK, Job
<1>1. CASE JobScanCurrent
  <2>1. /\ BeginScan("current", now - Lookback, 0) /\ job.pc = "idle"
        /\ UNCHANGED <<now, openMs, seen, roots, kids, marks, jaegered>>
    BY <1>1 DEF JobScanCurrent, envs
  <2>2. job.todo = {}
    BY <1>0, <2>1 DEF PlanKnown
  <2>3. now - Lookback \in Int /\ (now - Lookback) + Lookback <= now
    BY <1>0
  <2>4. Promise!Plan
    BY <2>1, <2>2, <2>3, SnapshotIsPlan DEF Slots
  <2> QED
    BY <2>4 DEF Promise!Next
<1>2. CASE JobScanLast
  <2>1. /\ BeginScan("last", job.limit, job.count) /\ job.pc = "scan" /\ job.todo = {}
        /\ UNCHANGED <<now, openMs, seen, roots, kids, marks, jaegered>>
    BY <1>2 DEF JobScanLast, envs
  <2>2. job.limit + Lookback <= now
    BY <1>0, <2>1 DEF PlanKnown
  <2>3. Promise!Plan
    BY <1>0, <2>1, <2>2, SnapshotIsPlan DEF Slots
  <2> QED
    BY <2>3 DEF Promise!Next
<1>3. ASSUME NEW t \in Traces, JobExport(t) PROVE Promise!Next
  BY <1>3, ExportIsSend DEF Promise!Next
<1>4. CASE JobClear
  BY <1>4, ClearIsSettle DEF Promise!Next
<1>5. CASE JobEndScan
  BY <1>5, EndScanIsPlan DEF Promise!Next
<1> QED
  BY <1>1, <1>2, <1>3, <1>4, <1>5 DEF ExportStep

LEMMA UnlinkIsPrune ==
  ASSUME PInv, JobUnlinkLast
  PROVE  Promise!Prune
<1>0. /\ TypeOK /\ PlanKnown /\ LastIsOlder /\ job.pc = "drain"
      /\ now \in Nat /\ openMs \in Nat /\ RotateAfter \in Nat
  BY ConstantsAssumption DEF PInv, IInv, TypeOK, JobUnlinkLast
<1>1. now - openMs > RotateAfter
  BY <1>0 DEF LastIsOlder
<1>2. job.todo = {} /\ job'.todo = job.todo /\ job'.cargo = job.cargo
  BY <1>0 DEF PlanKnown, JobUnlinkLast, TypeOK, Job
<1>3. \A t \in Traces : roots'["current"][t] = roots["current"][t] /\ roots'["last"][t] = NoRoot
  BY <1>0, RotationOfRoots
<1>4. Held' \subseteq Held
  BY <1>3, HeldIs DEF Slots
<1>5. ASSUME NEW r \in Held, r \notin Held' PROVE now - r.first > RotateAfter
  <2>1. PICK t \in Traces : r = roots["last"][t] /\ r # NoRoot
    BY <1>3, <1>5, HeldIs DEF Slots
  <2>2. r.first <= openMs
    BY <1>0, <2>1 DEF LastIsOlder
  <2>3. r \in RootRecord
    BY <1>0, <2>1 DEF TypeOK, Slots
  <2>4. r.first \in Nat
    BY <2>3 DEF RootRecord
  <2> QED
    BY <1>0, <1>1, <2>2, <2>4, OlderFirst
<1>6. HeldChildren' \subseteq HeldChildren
  BY <1>0 DEF JobUnlinkLast, HeldChildren, TypeOK, Slots
<1>7. MarkedTraces' \subseteq MarkedTraces
  BY <1>0 DEF JobUnlinkLast, MarkedTraces, TypeOK, Slots
<1>8. UNCHANGED <<now, openMs, seen, jaegered>>
  BY DEF JobUnlinkLast
<1> QED
  BY <1>1, <1>2, <1>4, <1>5, <1>6, <1>7, <1>8 DEF Promise!Prune

\* The rename moves everything from one environment to the other, which was
\* empty: nothing of it shows.
LEMMA RenameIsNotSeen ==
  ASSUME PInv, JobRename
  PROVE  UNCHANGED Promise!vars
<1>0. TypeOK /\ RotationIsAlone /\ ChildrenKnown /\ job.pc = "rename"
  BY DEF PInv, IInv, JobRename
<1>1. roots["last"] = EmptyRoots /\ marks["last"] = {} /\ kids["last"] = {}
  BY <1>0 DEF RotationIsAlone, ChildrenKnown
<1>2. Held' = Held
  <2>1. \A t \in Traces : /\ roots["last"][t] = NoRoot
                          /\ roots'["current"][t] = NoRoot
                          /\ roots'["last"][t] = roots["current"][t]
    BY <1>0, <1>1, RotationOfRoots DEF EmptyRoots
  <2>2. \A r : r \in Held <=> r \in Held'
    BY <2>1, HeldIs DEF Slots
  <2> QED
    BY <2>2
<1>3. HeldChildren' = HeldChildren /\ MarkedTraces' = MarkedTraces
  BY <1>1 DEF JobRename, HeldChildren, MarkedTraces
<1>4. job'.todo = job.todo /\ job'.cargo = job.cargo
  BY <1>0 DEF JobRename, TypeOK, Job
<1>5. UNCHANGED <<now, openMs, seen, jaegered>>
  BY DEF JobRename
<1> QED
  BY <1>2, <1>3, <1>4, <1>5 DEF Promise!vars

LEMMA RotateSimulation ==
  ASSUME PInv, RotateStep
  PROVE  Promise!Next \/ UNCHANGED Promise!vars
<1>0. TypeOK /\ PlanKnown
  BY DEF PInv, IInv
<1>1. CASE JobCheckAge
  <2>1. job.todo = {} /\ job.cargo = {}
    BY <1>0, <1>1 DEF JobCheckAge, PlanKnown
  <2>2. job'.todo = {} /\ job'.cargo = {}
    BY <1>1 DEF JobCheckAge, IdleJob
  <2>3. UNCHANGED <<now, openMs, seen, roots, kids, marks, jaegered>>
    BY <1>1 DEF JobCheckAge, envs
  <2> QED
    BY <2>1, <2>2, <2>3, StutterIs
<1>2. CASE JobUnlinkLast
  BY <1>2, UnlinkIsPrune DEF Promise!Next
<1>3. CASE JobRename
  BY <1>3, RenameIsNotSeen
<1>4. CASE JobReopen
  <2>1. job.todo = {} /\ job.cargo = {}
    BY <1>0, <1>4 DEF JobReopen, PlanKnown
  <2>2. job'.todo = {} /\ job'.cargo = {}
    BY <1>4 DEF JobReopen, IdleJob
  <2>3. openMs' = now /\ UNCHANGED <<now, seen, roots, kids, marks, jaegered>>
    BY <1>4 DEF JobReopen
  <2>4. Held' = Held /\ HeldChildren' = HeldChildren /\ MarkedTraces' = MarkedTraces
    BY <2>3 DEF Held, HeldChildren, MarkedTraces
  <2>5. Promise!Renew
    BY <2>1, <2>2, <2>3, <2>4 DEF Promise!Renew
  <2> QED
    BY <2>5 DEF Promise!Next
<1> QED
  BY <1>1, <1>2, <1>3, <1>4 DEF RotateStep

LEMMA CrashIsRestart ==
  ASSUME Crash
  PROVE  Promise!Restart
<1>1. UNCHANGED <<now, seen, roots, kids, marks, jaegered>>
  BY DEF Crash
<1>2. job'.todo = {} /\ job'.cargo = {}
  BY DEF Crash, IdleJob
<1>3. openMs' \in {openMs, now}
  BY CrashEffect
<1>4. Held' = Held /\ HeldChildren' = HeldChildren /\ MarkedTraces' = MarkedTraces
  BY <1>1 DEF Held, HeldChildren, MarkedTraces
<1> QED
  BY <1>1, <1>2, <1>3, <1>4 DEF Promise!Restart

LEMMA TickIsAdvance ==
  ASSUME Tick
  PROVE  Promise!Advance
<1>1. now' = now + 1 /\ UNCHANGED <<openMs, seen, roots, kids, marks, job, jaegered>>
  BY DEF Tick, envs
<1>2. Held' = Held /\ HeldChildren' = HeldChildren /\ MarkedTraces' = MarkedTraces
  BY <1>1 DEF Held, HeldChildren, MarkedTraces
<1> QED
  BY <1>1, <1>2 DEF Promise!Advance

LEMMA InitSimulation == Init => Promise!Init
<1> SUFFICES ASSUME Init PROVE Promise!Init
  OBVIOUS
<1>1. Held = {} /\ HeldChildren = {} /\ MarkedTraces = {}
  BY DEF Init, Held, HeldChildren, MarkedTraces, EmptyRoots, Slots
<1>2. job.todo = {} /\ job.cargo = {}
  BY DEF Init, IdleJob
<1> QED
  BY <1>1, <1>2 DEF Init, Promise!Init

LEMMA StepSimulation ==
  ASSUME PInv, [Next]_vars
  PROVE  [Promise!Next]_Promise!vars
<1>1. ASSUME NEW p \in Topics, Receive(p) \/ StoreStep(p)
      PROVE  Promise!Next \/ UNCHANGED Promise!vars
  BY <1>1, HandlerSimulation
<1>2. CASE ExportStep
  BY <1>2, ExportSimulation
<1>3. CASE RotateStep
  BY <1>3, RotateSimulation
<1>4. CASE Tick
  BY <1>4, TickIsAdvance DEF Promise!Next
<1>5. CASE Crash
  BY <1>5, CrashIsRestart DEF Promise!Next
<1>6. CASE UNCHANGED vars
  BY <1>6, StutterIs DEF vars, envs
<1> QED
  BY <1>1, <1>2, <1>3, <1>4, <1>5, <1>6 DEF Next

\* The two environments, the rotation between them, the handlers under the
\* read lock and the job with its snapshots keep what TailSampling promises,
\* with any number of traces and documents and a crash anywhere.
THEOREM Refinement == Spec => ImplementsTailSampling
<1>1. PInv /\ [Next]_vars => [Promise!Next]_Promise!vars
  BY StepSimulation
<1> QED
  BY PInvariance, InitSimulation, <1>1, PTL DEF Spec, ImplementsTailSampling, Promise!Spec
=============================================================================
