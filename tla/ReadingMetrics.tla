---------------------------- MODULE ReadingMetrics ---------------------------
(***************************************************************************)
(* process_metric_message of src/src/tm_process_metric.c, which reads the  *)
(* telemetry of a host and its runtime from two layouts of a document: a   *)
(* flat one, whose keys are dotted names, and a nested one.                *)
(*                                                                         *)
(* A reading is named after the metric it goes to.  d.present are those    *)
(* that the document has.  A nested document can also have an object that  *)
(* is empty: d.hollow has a reading for each, one that would be in it.     *)
(***************************************************************************)
EXTENDS Documents, SequencesExt

\* Documents of 7.15 are taken for flat, and those of later versions are not.
IsFlat(d) == d.version = 7 /\ d.minor = 15

Has(d, reading) ==
  /\ reading \in d.present
  /\ d.layout = IF IsFlat(d) THEN "flat" ELSE "nested"

ReadingMutant(d, fn, metric) ==  \* the wrong one of the two settings
  When(d.team \in CollectHost, << AtOnce(Call("replace", metric, "", "host", {})) >>)
  \o << Call(fn, metric, "", "all", {}) >>

\* For the host, if it is asked for, a value that replaces the last one, and
\* for the service an update of the metric.
Reading(d, fn, metric) ==
  When(d.team \in CollectSystem, << AtOnce(Call("replace", metric, "", "host", {})) >>)
  \o << Call(fn, metric, "", "all", {}) >>

\* The same by functions of their own for host and service.
Both(d, host, service, metric) ==
  When(d.team \in CollectSystem, << host >>) \o << Call(service, metric, "", "all", {}) >>

OfHost(fn, metric) == Call(fn, metric, "", "host", {})

System == << "system - memory - total", "system - memory - free",
             "system - process - cpu - total - pct", "system - process - memory - size",
             "system - cpu - total - pct" >>
Thread == "jvm - thread - count"
Memory == << "jvm - memory - heap - committed", "jvm - memory - heap - used",
             "jvm - memory - heap - max", "jvm - memory - non_heap - committed",
             "jvm - memory - non_heap - used", "jvm - memory - non_heap - max" >>
GcTime  == "jvm - memory - gc - total_latency"
GcCount == "jvm - memory - gc - count"
GcAlloc == "jvm - memory - gc - alloc"
NodeHeap  == << "nodejs - memory - heap - used", "nodejs - memory - heap - allocated" >>
EventLoop == "nodejs - eventloop - latency"
GoHeap    == "golang - memory - heap - used"
GoPause   == "golang - memory - gc - total_pause_ns"
GoCount   == "golang - memory - gc - total_count"
Routines  == "golang - goroutines"

\* The updates of each of the readings in turn that are found.
Each(readings, Found(_), Updates(_)) ==
  FlattenSeq([i \in 1..Len(readings) |-> When(Found(readings[i]), Updates(readings[i]))])

FlatSystem(d) ==
  LET Found(r) == Has(d, r)
      Numeric(r) == Reading(d, "numeric", r)
  IN  Each(System, Found, Numeric)

Heap    == {Memory[i] : i \in 1..3}
NonHeap == {Memory[i] : i \in 4..6}

\* What is read of a nested document that has the object r is in: the members
\* of heap, or of non_heap, and of memory the total, besides what is free,
\* which is in an object of its own within.
ReadWith(r) ==
  CASE r \in Heap    -> Heap
    [] r \in NonHeap -> NonHeap
    [] r = System[2] -> {System[1], r}
    [] OTHER         -> {r}

\* Only the object is looked for: it is there if one of its members is, or if
\* it is empty, and the members that it lacks are read as zero.
Reached(d, r) ==
  \E q \in d.present \cup d.hollow : (Has(d, q) \/ q \in d.hollow) /\ r \in ReadWith(q)

NestedSystem(d) ==
  LET Found(r) == Reached(d, r)
      Numeric(r) == Reading(d, "numeric", r)
  IN  Each(System, Found, Numeric)

FlatJvmMutant(d) ==  \* the memory is summed up instead of averaged
  LET Found(r) == Has(d, r)
      Numeric(r) == Reading(d, "numeric", r)
  IN  Each(<<Thread>> \o Memory, Found, Numeric)

FlatJvm(d) ==
  LET Found(r) == Has(d, r)
      Average(r) == Reading(d, "average", r)
  IN  When(Found(Thread), Reading(d, "numeric", Thread)) \o Each(Memory, Found, Average)

NestedJvm(d) ==
  LET Found(r) == Reached(d, r)
      Average(r) == Reading(d, "average", r)
  IN  When(Has(d, Thread), Reading(d, "numeric", Thread)) \o Each(Memory, Found, Average)

FlatGc(d) ==
  When(Has(d, GcTime) /\ Has(d, GcCount),
    Both(d, OfHost("numeric", GcTime), "numeric", GcTime)
    \o Both(d, AtOnce(OfHost("counter", GcCount)), "average", GcCount))
  \o When(Has(d, GcAlloc), Both(d, AtOnce(OfHost("numeric", GcAlloc)), "average", GcAlloc))

NestedGc(d) ==
  When(Has(d, GcTime) /\ Has(d, GcCount),
    Both(d, OfHost("numeric", GcTime), "numeric", GcTime)
    \o Both(d, AtOnce(OfHost("counter", GcCount)), "average", GcCount))
  \o When(Has(d, GcAlloc), Both(d, AtOnce(OfHost("numeric", GcAlloc)), "average", GcAlloc))

FlatNode(d) ==
  LET Found(r) == Has(d, r)
      Average(r) == Reading(d, "average", r)
  IN  Each(NodeHeap, Found, Average)
      \o When(Found(EventLoop),
           Both(d, OfHost("histogram", EventLoop), "histogram", EventLoop))

NestedNode(d) ==
  LET Found(r) == Has(d, r)
      Average(r) == Reading(d, "average", r)
  IN  Each(NodeHeap, Found, Average)
      \o When(Found(EventLoop),
           Both(d, OfHost("histogram", EventLoop), "histogram", EventLoop))

\* Only of nested documents.
GoReadings(d) ==
  When(Has(d, GoHeap), Reading(d, "average", GoHeap))
  \o When(Has(d, GoPause) /\ Has(d, GoCount),
       Both(d, AtOnce(OfHost("counter", GoPause)), "counter", GoPause)
       \o Both(d, AtOnce(OfHost("counter", GoCount)), "counter", GoCount))
  \o When(Has(d, Routines), Both(d, AtOnce(OfHost("average", Routines)), "average", Routines))

ReadingOutcome(d) ==
  IF ~IsOurs(d) THEN Nothing("ignored")
  ELSE IF d.lacks = "service" THEN Nothing("errored")
  ELSE Outcome("handled",
         IF IsFlat(d)
         THEN FlatSystem(d) \o FlatJvm(d) \o FlatGc(d) \o FlatNode(d)
         ELSE NestedSystem(d) \o NestedJvm(d) \o NestedGc(d) \o NestedNode(d) \o GoReadings(d),
         <<>>)
=============================================================================
