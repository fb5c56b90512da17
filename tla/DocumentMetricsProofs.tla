------------------------ MODULE DocumentMetricsProofs -----------------------
(***************************************************************************)
(* What the handlers make of a document: HostMetricsOnlyIfAsked,           *)
(* NoMetricTwice, TotalsAgree and FlatWithinNested of MetricPipeline hold  *)
(* for any documents.                                                      *)
(*                                                                         *)
(* Lists of updates are put together with concatenation, When and          *)
(* FlattenSeq; a property of every update is proved along them. FlattenSeq *)
(* is a recursive function over the length of its list: that it is one,    *)
(* and what it returns, is shown by induction over numbers, which is drawn *)
(* here from the fact that < is well-founded on them (EveryNumber).        *)
(*                                                                         *)
(* Two of them follow from lists of updates being distinct: a              *)
(* concatenation is when its parts are and have no metric in common.       *)
(***************************************************************************)
EXTENDS MetricPipelineProofs, WellFoundedInduction, FiniteSetTheorems

(***************************************************************************)
(* Numbers, and updates that are made only for some teams.                 *)
(***************************************************************************)

\* There is a least one among numbers: what induction is made of here.
LEMMA LeastNumber ==
  ASSUME NEW T, T \subseteq Nat, T # {}
  PROVE  \E n \in T : \A m \in T : n <= m
<1>1. IsWellFoundedOn(OpToRel(<, Nat), Nat)
  BY NatLessThanWellFounded
<1>2. PICK n \in T : \A m \in T : ~(<<m, n>> \in OpToRel(<, Nat))
  BY <1>1, WFMin
<1>3. \A m \in T : ~(m < n)
  BY <1>2 DEF OpToRel
<1> QED
  BY <1>3

\* What holds of 0 and of n + 1 whenever it holds of n holds of every number.
LEMMA EveryNumber ==
  ASSUME NEW T, 0 \in T, \A n \in Nat : n \in T => n + 1 \in T
  PROVE  Nat \subseteq T
<1> SUFFICES ASSUME Nat \ T # {} PROVE FALSE
  OBVIOUS
<1>1. PICK n \in Nat \ T : \A m \in Nat \ T : n <= m
  BY LeastNumber
<1>2. n # 0 /\ n - 1 \in Nat
  BY <1>1
<1>3. n - 1 \in T
  BY <1>1, <1>2
<1> QED
  BY <1>1, <1>2, <1>3

\* Calls made of a document, of which those that concern a single host, but for
\* the one exception, are there only for the teams of a set.
CallOnlyFor(call, doc, asked) ==
  call.at = "host" /\ ~KeptForAll(call, doc) => doc.team \in asked
OnlyFor(calls, doc, asked) ==
  /\ calls \in Seq(ToSet(calls))
  /\ \A call \in ToSet(calls) : CallOnlyFor(call, doc, asked)

\* Of updates one after another,
LEMMA OnlyForConcat ==
  ASSUME NEW s, NEW t, NEW doc, NEW asked, OnlyFor(s, doc, asked), OnlyFor(t, doc, asked)
  PROVE  OnlyFor(s \o t, doc, asked)
<1>1. s \in Seq(ToSet(s) \cup ToSet(t)) /\ t \in Seq(ToSet(s) \cup ToSet(t))
  BY SeqMonotonic DEF OnlyFor
<1>2. s \o t \in Seq(ToSet(s) \cup ToSet(t)) /\ ToSet(s \o t) = ToSet(s) \cup ToSet(t)
  BY <1>1, ToSetOfConcat
<1> QED
  BY <1>2 DEF OnlyFor

\* of the short lists that handlers make,
LEMMA OnlyForLists ==
  ASSUME NEW doc, NEW asked
  PROVE  /\ OnlyFor(<<>>, doc, asked)
         /\ \A a : CallOnlyFor(a, doc, asked) => OnlyFor(<<a>>, doc, asked)
         /\ \A a, b : CallOnlyFor(a, doc, asked) /\ CallOnlyFor(b, doc, asked) =>
              OnlyFor(<<a, b>>, doc, asked)
         /\ \A a, b, c, d : CallOnlyFor(a, doc, asked) /\ CallOnlyFor(b, doc, asked)
                              /\ CallOnlyFor(c, doc, asked) /\ CallOnlyFor(d, doc, asked) =>
              OnlyFor(<<a, b, c, d>>, doc, asked)
<1>1. OnlyFor(<<>>, doc, asked)
  BY EmptySeq DEF OnlyFor, ToSet
<1>2. ASSUME NEW a, CallOnlyFor(a, doc, asked) PROVE OnlyFor(<<a>>, doc, asked)
  <2>1. ToSet(<<a>>) = {a}
    BY DEF ToSet
  <2> QED
    BY <1>2, <2>1 DEF OnlyFor
<1>3. ASSUME NEW a, NEW b, CallOnlyFor(a, doc, asked), CallOnlyFor(b, doc, asked)
      PROVE  OnlyFor(<<a, b>>, doc, asked)
  <2>1. DOMAIN <<a, b>> = 1..2
    OBVIOUS
  <2>2. ToSet(<<a, b>>) = {a, b}
    BY <2>1 DEF ToSet
  <2> QED
    BY <1>3, <2>2 DEF OnlyFor
<1>4. ASSUME NEW a, NEW b, NEW c, NEW d, CallOnlyFor(a, doc, asked), CallOnlyFor(b, doc, asked),
             CallOnlyFor(c, doc, asked), CallOnlyFor(d, doc, asked)
      PROVE  OnlyFor(<<a, b, c, d>>, doc, asked)
  <2>1. DOMAIN <<a, b, c, d>> = 1..4
    OBVIOUS
  <2>2. ToSet(<<a, b, c, d>>) = {a, b, c, d}
    BY <2>1 DEF ToSet
  <2> QED
    BY <1>4, <2>2 DEF OnlyFor
<1> QED
  BY <1>1, <1>2, <1>3, <1>4

\* and of updates that are made on a condition.
LEMMA OnlyForWhen ==
  ASSUME NEW condition \in BOOLEAN, NEW calls, NEW doc, NEW asked,
         condition => OnlyFor(calls, doc, asked)
  PROVE  OnlyFor(When(condition, calls), doc, asked)
BY OnlyForLists DEF When

\* The fields of a call.
LEMMA CallIs ==
  ASSUME NEW fn, NEW metric, NEW name, NEW at, NEW tags
  PROVE  /\ Call(fn, metric, name, at, tags).at = at
         /\ Call(fn, metric, name, at, tags).metric = metric
         /\ AtOnce(Call(fn, metric, name, at, tags)).at = at
         /\ AtOnce(Call(fn, metric, name, at, tags)).metric = metric
BY DEF Call, AtOnce

\* The recursive function that FlattenSeq is made of.
Flattening(f, ss, n) ==
  f = [i \in 1..n |-> IF i = 1 THEN ss[i] ELSE f[i - 1] \o ss[i]]

\* It is a function for every list.
LEMMA FlatteningExists == \A ss : \A n \in Nat : \E f : Flattening(f, ss, n)
<1> TAKE ss
<1> DEFINE T == {n \in Nat : \E f : Flattening(f, ss, n)}
<1>1. 0 \in T
  <2> DEFINE f == [i \in 1..0 |-> ss]
  <2>1. Flattening(f, ss, 0)
    BY DEF Flattening
  <2> QED
    BY <2>1
<1>2. ASSUME NEW n \in Nat, n \in T PROVE n + 1 \in T
  <2>1. PICK f : Flattening(f, ss, n)
    BY <1>2
  <2> DEFINE last == IF n = 0 THEN ss[1] ELSE f[n] \o ss[n + 1]
             g == [i \in 1..(n + 1) |-> IF i = n + 1 THEN last ELSE f[i]]
  <2>2. \A i \in 1..(n + 1) : g[i] = IF i = 1 THEN ss[i] ELSE g[i - 1] \o ss[i]
    <3> TAKE i \in 1..(n + 1)
    <3>1. CASE i = n + 1
      BY <3>1
    <3>2. CASE i # n + 1
      <4>1. i \in 1..n /\ g[i] = f[i] /\ (i # 1 => i - 1 \in 1..n /\ g[i - 1] = f[i - 1])
        BY <3>2
      <4>2. f[i] = IF i = 1 THEN ss[i] ELSE f[i - 1] \o ss[i]
        BY <2>1, <4>1 DEF Flattening
      <4> QED
        BY <4>1, <4>2
    <3> QED
      BY <3>1, <3>2
  <2>3. Flattening(g, ss, n + 1)
    BY <2>2 DEF Flattening
  <2> QED
    BY <2>3
<1> HIDE DEF T
<1>3. Nat \subseteq T
  BY <1>1, <1>2, EveryNumber
<1> QED
  BY <1>3 DEF T

\* Of the updates of a list of lists, flattened.
LEMMA OnlyForFlat ==
  ASSUME NEW n \in Nat, NEW ss, DOMAIN ss = 1..n, Len(ss) = n, NEW doc, NEW asked,
         n # 0, \A i \in 1..n : OnlyFor(ss[i], doc, asked)
  PROVE  OnlyFor(FlattenSeq(ss), doc, asked)
<1> DEFINE f == CHOOSE g : Flattening(g, ss, n)
<1>1. Flattening(f, ss, n)
  BY FlatteningExists
<1>2. FlattenSeq(ss) = f[n]
  BY DEF FlattenSeq, Flattening
<1> HIDE DEF f
<1> DEFINE T == {k \in Nat : k \in 1..n => OnlyFor(f[k], doc, asked)}
<1>3. 0 \in T
  OBVIOUS
<1>4. ASSUME NEW k \in Nat, k \in T PROVE k + 1 \in T
  <2>1. CASE k = 0
    BY <1>1, <2>1 DEF Flattening
  <2>2. CASE k # 0 /\ k + 1 \in 1..n
    <3>1. OnlyFor(f[k], doc, asked) /\ OnlyFor(ss[k + 1], doc, asked)
      BY <1>4, <2>2
    <3>2. f[k + 1] = f[k] \o ss[k + 1]
      <4>1. \A i \in 1..n : f[i] = IF i = 1 THEN ss[i] ELSE f[i - 1] \o ss[i]
        BY <1>1 DEF Flattening
      <4>2. k + 1 # 1 /\ (k + 1) - 1 = k
        BY <2>2
      <4> QED
        BY <2>2, <4>1, <4>2
    <3>3. OnlyFor(f[k + 1], doc, asked)
      BY <3>1, <3>2, OnlyForConcat
    <3> QED
      BY <3>3
  <2>3. CASE k + 1 \notin 1..n
    BY <2>3
  <2> QED
    BY <2>1, <2>2, <2>3
<1> HIDE DEF T
<1>5. n \in T
  BY <1>3, <1>4, EveryNumber
<1> QED
  BY <1>2, <1>5 DEF T

(***************************************************************************)
(* The handlers of transactions, spans and errors.                         *)
(***************************************************************************)

\* Updates that are not by host may be made for every team,
LEMMA ServiceCalls ==
  ASSUME NEW doc, NEW asked
  PROVE  \A fn, metric, name, tags :
           /\ CallOnlyFor(Call(fn, metric, name, "all", tags), doc, asked)
           /\ CallOnlyFor(Histogram(metric, name, "all", tags), doc, asked)
           /\ CallOnlyFor(Counter(metric, name, "all", tags), doc, asked)
BY DEF CallOnlyFor, Histogram, Counter, Call

\* and for the teams that ask for it all may.
LEMMA AskedCalls ==
  ASSUME NEW doc, NEW asked, doc.team \in asked
  PROVE  \A call : CallOnlyFor(call, doc, asked)
BY DEF CallOnlyFor

\* TransactionMetrics, case by case.
LEMMA JobsOnlyFor == ASSUME NEW d PROVE OnlyFor(JobUpdates(d), d, CollectHost)
<1> DEFINE s == << Histogram("transaction - latency", d.name, "all", {}),
                   Histogram("transaction - latency", "all", "all", {}),
                   Counter("transaction - request_count", d.name, "all", {}),
                   Counter("transaction - request_count", "all", "all", {}) >>
           t == << Histogram("transaction - latency", d.name, "host", {}) >>
<1>1. OnlyFor(s, d, CollectHost)
  BY OnlyForLists, ServiceCalls, Zenon
<1>2. d.team \in CollectHost => OnlyFor(t, d, CollectHost)
  BY OnlyForLists, AskedCalls, Zenon
<1>3. OnlyFor(When(d.team \in CollectHost, t), d, CollectHost)
  BY <1>2, OnlyForLists DEF When
<1> HIDE DEF s, t
<1>4. OnlyFor(s \o When(d.team \in CollectHost, t), d, CollectHost)
  BY <1>1, <1>3, OnlyForConcat
<1> QED
  BY <1>4 DEF JobUpdates, s, t

LEMMA ErrorsOnlyFor ==
  ASSUME NEW class, NEW d PROVE OnlyFor(Errors(class, d), d, CollectHost)
<1>1. \A tags : OnlyFor(ErrorCounts(class, d, tags), d, CollectHost)
  BY OnlyForLists, ServiceCalls, Zenon DEF ErrorCounts
<1>2. OnlyFor(When(d.agent, ErrorCounts(class, d, UserAgent)), d, CollectHost)
  BY <1>1, OnlyForLists DEF When
<1> QED
  BY <1>1, <1>2, OnlyForConcat DEF Errors

LEMMA RequestsOnlyFor == ASSUME NEW d PROVE OnlyFor(RequestUpdates(d), d, CollectHost)
<1> DEFINE s1 == << Histogram("transaction - latency", d.name, "all", Method \cup Rollup(d)),
                    Histogram("transaction - latency", "all", "all", Method) >>
           s2 == When(ClientError(d), Errors("transaction - client_error_count", d))
           s3 == When(ServerError(d), Errors("transaction - server_error_count", d))
           s4 == << Counter("transaction - request_count", d.name, "all", Method \cup Rollup(d)),
                    Counter("transaction - request_count", "all", "all", Method) >>
           s5 == When(d.agent, << Counter("transaction - request_count", "all", "all", UserAgent) >>)
           t  == << AtOnce(Call("text", "transaction - status_code", d.name, "host",
                                Method \cup Rollup(d))),
                    Histogram("transaction - latency", d.name, "host", Method \cup Rollup(d)) >>
           s6 == When(d.team \in CollectHost, t)
<1>1. OnlyFor(s1, d, CollectHost) /\ OnlyFor(s4, d, CollectHost)
  BY OnlyForLists, ServiceCalls, Zenon
<1>2. OnlyFor(s2, d, CollectHost) /\ OnlyFor(s3, d, CollectHost)
  BY ErrorsOnlyFor, OnlyForLists DEF When
<1>3. OnlyFor(<< Counter("transaction - request_count", "all", "all", UserAgent) >>, d, CollectHost)
  BY OnlyForLists, ServiceCalls, Zenon
<1>4. OnlyFor(s5, d, CollectHost)
  BY <1>3, OnlyForLists DEF When
<1>5. d.team \in CollectHost => OnlyFor(t, d, CollectHost)
  BY OnlyForLists, AskedCalls, Zenon
<1>6. OnlyFor(s6, d, CollectHost)
  BY <1>5, OnlyForLists DEF When
<1>7. RequestUpdates(d) = s1 \o s2 \o s3 \o s4 \o s5 \o s6
  BY DEF RequestUpdates
<1> HIDE DEF s1, s2, s3, s4, s5, s6
<1>8. OnlyFor(s1 \o s2 \o s3, d, CollectHost)
  BY <1>1, <1>2, OnlyForConcat
<1>9. OnlyFor(s1 \o s2 \o s3 \o s4 \o s5, d, CollectHost)
  BY <1>1, <1>4, <1>8, OnlyForConcat
<1> QED
  BY <1>6, <1>7, <1>9, OnlyForConcat

LEMMA TransactionOnlyFor ==
  ASSUME NEW d, NEW lagging
  PROVE  OnlyFor(TransactionOutcome(d, lagging).updates, d, CollectHost)
<1>1. TransactionOutcome(d, lagging).updates \in {<<>>, TransactionUpdates(d)}
  BY DEF TransactionOutcome, Nothing, Outcome
<1>2. TransactionUpdates(d) \in {<<>>, JobUpdates(d), RequestUpdates(d)}
  BY DEF TransactionUpdates
<1> QED
  BY <1>1, <1>2, JobsOnlyFor, RequestsOnlyFor, OnlyForLists

\* SpanMetrics and OtelMetrics. The count by subtype and operation of a
\* database span is by host for every team, which is why CallOnlyFor leaves it
\* out.
LEMMA SpanOnlyFor == ASSUME NEW d PROVE OnlyFor(SpanOutcome(d).updates, d, CollectHost)
<1>1. OnlyFor(DbUpdates(d), d, CollectHost)
  <2> DEFINE s1 == << Histogram("db - latency", d.name, "all", Rollup(d)) >>
             t  == Pair("db - latency", "db - stmt_count", d.name, "host", Rollup(d))
             s2 == When(d.team \in CollectHost, t)
             s3 == When(Subtype(d) # "", SubtypeUpdates(d))
             s4 == Pair("db - latency", "db - stmt_count", "all", "all", {})
  <2>1. OnlyFor(s1, d, CollectHost) /\ OnlyFor(s4, d, CollectHost)
    BY OnlyForLists, ServiceCalls, Zenon DEF Pair
  <2>2. d.team \in CollectHost => OnlyFor(t, d, CollectHost)
    BY OnlyForLists, AskedCalls, Zenon DEF Pair
  <2>3. OnlyFor(s2, d, CollectHost)
    BY <2>2, OnlyForLists DEF When
  <2>4. OnlyFor(SubtypeUpdates(d), d, CollectHost)
    <3>1. CallOnlyFor(Counter("db - stmt_count", Operation(d), "host", Rollup(d)), d, CollectHost)
      BY DEF CallOnlyFor, KeptForAll, Counter, Call
    <3> QED
      BY <3>1, OnlyForLists, ServiceCalls, Zenon DEF SubtypeUpdates
  <2>5. OnlyFor(s3, d, CollectHost)
    BY <2>4, OnlyForLists DEF When
  <2>6. DbUpdates(d) = s1 \o s2 \o s3 \o s4
    BY DEF DbUpdates
  <2> HIDE DEF s1, s2, s3, s4
  <2>7. OnlyFor(s1 \o s2 \o s3, d, CollectHost)
    BY <2>1, <2>3, <2>5, OnlyForConcat
  <2> QED
    BY <2>1, <2>6, <2>7, OnlyForConcat
<1>2. OnlyFor(ExternalUpdates(d), d, CollectHost)
  <2> DEFINE s1 == << Histogram("external - latency", d.name, "all", Rollup(d)),
                      Histogram("external - latency", "all", "all", {}) >>
             t  == Pair("external - latency", "external - call_count", d.name, "host", Rollup(d))
             s2 == When(d.team \in CollectHost, t)
             s3 == << Counter("external - call_count", "all", "all", {}) >>
  <2>1. OnlyFor(s1, d, CollectHost) /\ OnlyFor(s3, d, CollectHost)
    BY OnlyForLists, ServiceCalls, Zenon
  <2>2. d.team \in CollectHost => OnlyFor(t, d, CollectHost)
    BY OnlyForLists, AskedCalls, Zenon DEF Pair
  <2>3. OnlyFor(s2, d, CollectHost)
    BY <2>2, OnlyForLists DEF When
  <2>4. ExternalUpdates(d) = s1 \o s2 \o s3
    BY DEF ExternalUpdates
  <2> HIDE DEF s1, s2, s3
  <2> QED
    BY <2>1, <2>3, <2>4, OnlyForConcat
<1>3. OnlyFor(InternalUpdates(d), d, CollectHost)
  <2> DEFINE s == << Histogram("internal - latency", d.name, "all", Rollup(d)),
                     Histogram("internal - latency", "all", "all", {}),
                     Counter("internal - call_count", d.name, "all", Rollup(d)),
                     Counter("internal - call_count", "all", "all", {}) >>
             t  == Pair("internal - latency", "intternal - call_count", d.name, "host", Rollup(d))
             s2 == When(d.team \in CollectHost, t)
  <2>1. OnlyFor(s, d, CollectHost)
    BY OnlyForLists, ServiceCalls, Zenon
  <2>2. d.team \in CollectHost => OnlyFor(t, d, CollectHost)
    BY OnlyForLists, AskedCalls, Zenon DEF Pair
  <2>3. OnlyFor(s2, d, CollectHost)
    BY <2>2, OnlyForLists DEF When
  <2>4. InternalUpdates(d) = s \o s2
    BY DEF InternalUpdates
  <2> HIDE DEF s, s2
  <2> QED
    BY <2>1, <2>3, <2>4, OnlyForConcat
<1>4. SpanOutcome(d).updates \in {<<>>, SpanUpdates(d)}
  BY DEF SpanOutcome, Nothing, Outcome
<1>5. SpanUpdates(d) \in {<<>>, DbUpdates(d), ExternalUpdates(d), InternalUpdates(d)}
  BY DEF SpanUpdates
<1> QED
  BY <1>1, <1>2, <1>3, <1>4, <1>5, OnlyForLists

LEMMA ErrorOnlyFor == ASSUME NEW d PROVE OnlyFor(ErrorOutcome(d).updates, d, CollectHost)
<1> DEFINE t == << Counter("transaction - apm_error_count", "", "host", Rollup(d)) >>
           s == << Counter("transaction - apm_error_count", "", "all", {}) >>
<1>1. OnlyFor(s, d, CollectHost)
  BY OnlyForLists, ServiceCalls, Zenon
<1>2. d.team \in CollectHost => OnlyFor(t, d, CollectHost)
  BY OnlyForLists, AskedCalls, Zenon
<1>3. OnlyFor(When(d.team \in CollectHost, t), d, CollectHost)
  BY <1>2, OnlyForLists DEF When
<1> HIDE DEF s, t
<1>4. OnlyFor(When(d.team \in CollectHost, t) \o s, d, CollectHost)
  BY <1>1, <1>3, OnlyForConcat
<1>5. ErrorOutcome(d).updates \in {<<>>, ErrorUpdates(d)}
  BY DEF ErrorOutcome, Nothing, Outcome
<1> QED
  BY <1>4, <1>5, OnlyForLists DEF ErrorUpdates, s, t

LEMMA OtelOnlyFor == ASSUME NEW d, NEW asked PROVE OnlyFor(OtelOutcome(d).updates, d, asked)
<1>1. \A count, name, tags : OnlyFor(Spans(count, name, tags), d, asked)
  BY OnlyForLists, ServiceCalls, Zenon DEF Spans
<1>2. OnlyFor(ServerSpans(d), d, asked)
  <2> DEFINE s == Spans("request_count", d.name, ServerTags(d))
             t == << Counter("error_count", d.name, "all", ServerTags(d)),
                     Counter("error_count", "all", "all", ServerTags(d)) >>
  <2>1. OnlyFor(s, d, asked)
    BY <1>1
  <2>2. OnlyFor(t, d, asked)
    BY OnlyForLists, ServiceCalls, Zenon
  <2>3. OnlyFor(When(d.code > 399, t), d, asked)
    BY <2>2, OnlyForLists DEF When
  <2> HIDE DEF s, t
  <2>4. OnlyFor(s \o When(d.code > 399, t), d, asked)
    BY <2>1, <2>3, OnlyForConcat
  <2> QED
    BY <2>4 DEF ServerSpans, s, t
<1>3. OnlyFor(ClientSpans(d), d, asked)
  BY <1>1, OnlyForLists DEF ClientSpans
<1>4. OtelOutcome(d).updates \in {<<>>, OtelUpdates(d)}
  BY DEF OtelOutcome, Nothing, Outcome
<1>5. OnlyFor(OtelUpdates(d), d, asked)
  BY <1>1, <1>2, <1>3, OnlyForLists DEF OtelUpdates
<1> QED
  BY <1>4, <1>5, OnlyForLists

(***************************************************************************)
(* The handler of telemetry.                                               *)
(***************************************************************************)

\* ReadingMetrics: one reading, and one with functions of their own,
LEMMA ReadingOnlyFor ==
  ASSUME NEW d, NEW fn, NEW metric PROVE OnlyFor(Reading(d, fn, metric), d, CollectSystem)
<1> DEFINE t == << AtOnce(Call("replace", metric, "", "host", {})) >>
           s == << Call(fn, metric, "", "all", {}) >>
<1>1. OnlyFor(s, d, CollectSystem)
  BY OnlyForLists, ServiceCalls, Zenon
<1>2. d.team \in CollectSystem => OnlyFor(t, d, CollectSystem)
  BY OnlyForLists, AskedCalls, Zenon
<1>3. OnlyFor(When(d.team \in CollectSystem, t), d, CollectSystem)
  BY <1>2, OnlyForLists DEF When
<1> HIDE DEF s, t
<1>4. OnlyFor(When(d.team \in CollectSystem, t) \o s, d, CollectSystem)
  BY <1>1, <1>3, OnlyForConcat
<1> QED
  BY <1>4 DEF Reading, s, t

LEMMA BothOnlyFor ==
  ASSUME NEW d, NEW host, NEW service, NEW metric
  PROVE  OnlyFor(Both(d, host, service, metric), d, CollectSystem)
<1> DEFINE s == << Call(service, metric, "", "all", {}) >>
<1>1. OnlyFor(s, d, CollectSystem)
  BY OnlyForLists, ServiceCalls, Zenon
<1>2. d.team \in CollectSystem => OnlyFor(<<host>>, d, CollectSystem)
  BY OnlyForLists, AskedCalls, Zenon
<1>3. OnlyFor(When(d.team \in CollectSystem, <<host>>), d, CollectSystem)
  BY <1>2, OnlyForLists DEF When
<1> HIDE DEF s
<1>4. OnlyFor(When(d.team \in CollectSystem, <<host>>) \o s, d, CollectSystem)
  BY <1>1, <1>3, OnlyForConcat
<1> QED
  BY <1>4 DEF Both, s

\* The lists of readings are not empty.
LEMMA ListsAre ==
  /\ Len(System) = 5 /\ Len(Memory) = 6 /\ Len(NodeHeap) = 2
BY DEF System, Memory, NodeHeap

\* Of the updates of a list of readings, ss.
LEMMA EachOnlyFor ==
  ASSUME NEW n \in Nat \ {0}, NEW ss, ss = [i \in 1..n |-> ss[i]], NEW doc, NEW asked,
         \A i \in 1..n : OnlyFor(ss[i], doc, asked)
  PROVE  OnlyFor(FlattenSeq(ss), doc, asked)
<1>1. ss \in Seq({ss[i] : i \in 1..n})
  <2>1. ss \in [1..n -> {ss[i] : i \in 1..n}]
    OBVIOUS
  <2> QED
    BY <2>1, SeqDef
<1>2. DOMAIN ss = 1..n /\ Len(ss) = n
  BY <1>1
<1> QED
  BY <1>2, OnlyForFlat

\* and the groups of readings of both layouts.
LEMMA SystemOnlyFor ==
  ASSUME NEW d
  PROVE  /\ OnlyFor(FlatSystem(d), d, CollectSystem)
         /\ OnlyFor(NestedSystem(d), d, CollectSystem)
<1> DEFINE s == [i \in 1..Len(System) |-> When(Has(d, System[i]), Reading(d, "numeric", System[i]))]
           t == [i \in 1..Len(System) |-> When(Reached(d, System[i]), Reading(d, "numeric", System[i]))]
<1>1. \A i \in 1..Len(System) : OnlyFor(s[i], d, CollectSystem) /\ OnlyFor(t[i], d, CollectSystem)
  BY ReadingOnlyFor, OnlyForLists DEF When
<1>2. FlatSystem(d) = FlattenSeq(s) /\ NestedSystem(d) = FlattenSeq(t)
  BY DEF FlatSystem, NestedSystem, Each
<1>3. OnlyFor(FlattenSeq(s), d, CollectSystem) /\ OnlyFor(FlattenSeq(t), d, CollectSystem)
  <2>1. Len(System) \in Nat \ {0} /\ s = [i \in 1..Len(System) |-> s[i]] /\ t = [i \in 1..Len(System) |-> t[i]]
    BY ListsAre
  <2> HIDE DEF s, t
  <2> QED
    BY <1>1, <2>1, EachOnlyFor
<1> QED
  BY <1>2, <1>3

LEMMA AveragesOnlyFor ==
  ASSUME NEW d
  PROVE  /\ OnlyFor(FlattenSeq([i \in 1..Len(Memory) |->
              When(Has(d, Memory[i]), Reading(d, "average", Memory[i]))]), d, CollectSystem)
         /\ OnlyFor(FlattenSeq([i \in 1..Len(Memory) |->
              When(Reached(d, Memory[i]), Reading(d, "average", Memory[i]))]), d, CollectSystem)
         /\ OnlyFor(FlattenSeq([i \in 1..Len(NodeHeap) |->
              When(Has(d, NodeHeap[i]), Reading(d, "average", NodeHeap[i]))]), d, CollectSystem)
<1> DEFINE s == [i \in 1..Len(Memory) |-> When(Has(d, Memory[i]), Reading(d, "average", Memory[i]))]
           t == [i \in 1..Len(Memory) |-> When(Reached(d, Memory[i]), Reading(d, "average", Memory[i]))]
           u == [i \in 1..Len(NodeHeap) |-> When(Has(d, NodeHeap[i]), Reading(d, "average", NodeHeap[i]))]
<1>1. /\ \A i \in 1..Len(Memory) :
           OnlyFor(s[i], d, CollectSystem) /\ OnlyFor(t[i], d, CollectSystem)
      /\ \A i \in 1..Len(NodeHeap) : OnlyFor(u[i], d, CollectSystem)
  BY ReadingOnlyFor, OnlyForLists DEF When
<1>2. /\ Len(Memory) \in Nat \ {0} /\ Len(NodeHeap) \in Nat \ {0}
      /\ s = [i \in 1..Len(Memory) |-> s[i]] /\ t = [i \in 1..Len(Memory) |-> t[i]]
      /\ u = [i \in 1..Len(NodeHeap) |-> u[i]]
  BY ListsAre
<1>3. /\ OnlyFor(FlattenSeq(s), d, CollectSystem) /\ OnlyFor(FlattenSeq(t), d, CollectSystem)
      /\ OnlyFor(FlattenSeq(u), d, CollectSystem)
  <2> HIDE DEF s, t, u
  <2> QED
    BY <1>1, <1>2, EachOnlyFor
<1> QED
  BY <1>3

LEMMA JvmOnlyFor ==
  ASSUME NEW d
  PROVE  /\ OnlyFor(FlatJvm(d), d, CollectSystem)
         /\ OnlyFor(NestedJvm(d), d, CollectSystem)
<1> DEFINE first == When(Has(d, Thread), Reading(d, "numeric", Thread))
           s == FlattenSeq([i \in 1..Len(Memory) |->
                  When(Has(d, Memory[i]), Reading(d, "average", Memory[i]))])
           t == FlattenSeq([i \in 1..Len(Memory) |->
                  When(Reached(d, Memory[i]), Reading(d, "average", Memory[i]))])
<1>1. OnlyFor(first, d, CollectSystem)
  BY ReadingOnlyFor, OnlyForLists DEF When
<1>2. OnlyFor(s, d, CollectSystem) /\ OnlyFor(t, d, CollectSystem)
  BY AveragesOnlyFor
<1>3. FlatJvm(d) = first \o s /\ NestedJvm(d) = first \o t
  BY DEF FlatJvm, NestedJvm, Each
<1> HIDE DEF first, s, t
<1> QED
  BY <1>1, <1>2, <1>3, OnlyForConcat

LEMMA GcOnlyFor ==
  ASSUME NEW d
  PROVE  /\ OnlyFor(FlatGc(d), d, CollectSystem)
         /\ OnlyFor(NestedGc(d), d, CollectSystem)
<1> DEFINE s1 == Both(d, OfHost("numeric", GcTime), "numeric", GcTime)
           s2 == Both(d, AtOnce(OfHost("counter", GcCount)), "average", GcCount)
           s3 == Both(d, AtOnce(OfHost("numeric", GcAlloc)), "average", GcAlloc)
           t1 == When(Has(d, GcTime) /\ Has(d, GcCount), s1 \o s2)
           t2 == When(Has(d, GcAlloc), s3)
<1>1. /\ OnlyFor(s1, d, CollectSystem) /\ OnlyFor(s2, d, CollectSystem)
      /\ OnlyFor(s3, d, CollectSystem)
  BY BothOnlyFor
<1> HIDE DEF s1, s2, s3
<1>2. OnlyFor(s1 \o s2, d, CollectSystem)
  BY <1>1, OnlyForConcat
<1>3. OnlyFor(t1, d, CollectSystem) /\ OnlyFor(t2, d, CollectSystem)
  BY <1>1, <1>2, OnlyForLists DEF When
<1> HIDE DEF t1, t2
<1>4. OnlyFor(t1 \o t2, d, CollectSystem)
  BY <1>3, OnlyForConcat
<1> QED
  BY <1>4 DEF FlatGc, NestedGc, s1, s2, s3, t1, t2

LEMMA NodeOnlyFor ==
  ASSUME NEW d
  PROVE  /\ OnlyFor(FlatNode(d), d, CollectSystem)
         /\ OnlyFor(NestedNode(d), d, CollectSystem)
<1> DEFINE s == FlattenSeq([i \in 1..Len(NodeHeap) |->
                  When(Has(d, NodeHeap[i]), Reading(d, "average", NodeHeap[i]))])
           t == When(Has(d, EventLoop),
                  Both(d, OfHost("histogram", EventLoop), "histogram", EventLoop))
<1>1. OnlyFor(s, d, CollectSystem)
  BY AveragesOnlyFor
<1>2. OnlyFor(t, d, CollectSystem)
  BY BothOnlyFor, OnlyForLists DEF When
<1>3. FlatNode(d) = s \o t /\ NestedNode(d) = s \o t
  BY DEF FlatNode, NestedNode, Each
<1> HIDE DEF s, t
<1> QED
  BY <1>1, <1>2, <1>3, OnlyForConcat

LEMMA GoOnlyFor == ASSUME NEW d PROVE OnlyFor(GoReadings(d), d, CollectSystem)
<1> DEFINE s1 == Both(d, AtOnce(OfHost("counter", GoPause)), "counter", GoPause)
           s2 == Both(d, AtOnce(OfHost("counter", GoCount)), "counter", GoCount)
           s3 == Both(d, AtOnce(OfHost("average", Routines)), "average", Routines)
           t1 == When(Has(d, GoHeap), Reading(d, "average", GoHeap))
           t2 == When(Has(d, GoPause) /\ Has(d, GoCount), s1 \o s2)
           t3 == When(Has(d, Routines), s3)
<1>1. /\ OnlyFor(s1, d, CollectSystem) /\ OnlyFor(s2, d, CollectSystem)
      /\ OnlyFor(s3, d, CollectSystem)
  BY BothOnlyFor
<1> HIDE DEF s1, s2, s3
<1>2. OnlyFor(s1 \o s2, d, CollectSystem)
  BY <1>1, OnlyForConcat
<1>3. /\ OnlyFor(t1, d, CollectSystem) /\ OnlyFor(t2, d, CollectSystem)
      /\ OnlyFor(t3, d, CollectSystem)
  BY <1>1, <1>2, ReadingOnlyFor, OnlyForLists DEF When
<1> HIDE DEF t1, t2, t3
<1>4. OnlyFor(t1 \o t2 \o t3, d, CollectSystem)
  BY <1>3, OnlyForConcat
<1> QED
  BY <1>4 DEF GoReadings, s1, s2, s3, t1, t2, t3

LEMMA ReadingsOnlyFor ==
  ASSUME NEW d
  PROVE  OnlyFor(ReadingOutcome(d).updates, d, CollectSystem)
<1> DEFINE flat == FlatSystem(d) \o FlatJvm(d) \o FlatGc(d) \o FlatNode(d)
           nested == NestedSystem(d) \o NestedJvm(d) \o NestedGc(d) \o NestedNode(d) \o GoReadings(d)
<1>1. OnlyFor(FlatSystem(d) \o FlatJvm(d), d, CollectSystem)
  BY SystemOnlyFor, JvmOnlyFor, OnlyForConcat
<1>2. OnlyFor(FlatSystem(d) \o FlatJvm(d) \o FlatGc(d), d, CollectSystem)
  BY <1>1, GcOnlyFor, OnlyForConcat
<1>3. OnlyFor(flat, d, CollectSystem)
  BY <1>2, NodeOnlyFor, OnlyForConcat
<1>4. OnlyFor(NestedSystem(d) \o NestedJvm(d), d, CollectSystem)
  BY SystemOnlyFor, JvmOnlyFor, OnlyForConcat
<1>5. OnlyFor(NestedSystem(d) \o NestedJvm(d) \o NestedGc(d), d, CollectSystem)
  BY <1>4, GcOnlyFor, OnlyForConcat
<1>6. OnlyFor(NestedSystem(d) \o NestedJvm(d) \o NestedGc(d) \o NestedNode(d), d, CollectSystem)
  BY <1>5, NodeOnlyFor, OnlyForConcat
<1>7. OnlyFor(nested, d, CollectSystem)
  BY <1>6, GoOnlyFor, OnlyForConcat
<1>8. ReadingOutcome(d).updates \in {<<>>, flat, nested}
  BY DEF ReadingOutcome, Nothing, Outcome
<1> HIDE DEF flat, nested
<1> QED
  BY <1>3, <1>7, <1>8, OnlyForLists

\* The updates of a message that is handled and comes alone.
LEMMA HandledAre ==
  ASSUME NEW n \in Handled
  PROVE  LET m == Messages[n]
         IN  \/ m.form = "otlp" /\ Updates(n) = OtelOutcome(m.doc).updates
             \/ m.form # "otlp" /\ Updates(n) = Handle(m.event, m.doc, FALSE).updates \o <<>>
<1> DEFINE m == Messages[n]
<1>1. n \in DOMAIN Messages /\ Outcomes[n].status = "handled" /\ m.more = <<>>
  BY DEF Handled
<1>2. Outcomes[n] = ProcessMessage(m, FALSE)
  BY <1>1, OutcomesAre DEF Outcomes
<1>3. CASE m.form = "otlp"
  BY <1>2, <1>3 DEF ProcessMessage, Updates
<1>4. CASE m.form # "otlp"
  <2>1. m.form \notin {"garbled", "headless"}
    <3>1. \A status : Nothing(status).status = status
      BY DEF Nothing, Outcome
    <3>2. m.form = "garbled" => ProcessMessage(m, FALSE) = Nothing("garbled")
      BY DEF ProcessMessage
    <3>3. m.form = "headless" => ProcessMessage(m, FALSE) = Nothing("errored")
      BY DEF ProcessMessage
    <3> QED
      BY <1>1, <1>2, <3>1, <3>2, <3>3
  <2>2. Outcomes[n] = HandleJson(m, FALSE)
    BY <1>2, <1>4, <2>1 DEF ProcessMessage
  <2>3. m.form # "aborted"
    <3>1. m.form = "aborted" => HandleJson(m, FALSE).status = "filtered"
      BY DEF HandleJson, Nothing, Outcome
    <3> QED
      BY <1>1, <2>2, <3>1
  <2>4. Outcomes[n].updates = Handle(m.event, m.doc, FALSE).updates \o <<>>
    BY <1>1, <2>2, <2>3 DEF HandleJson, Nothing, Outcome
  <2> QED
    BY <1>4, <2>4 DEF Updates
<1> QED
  BY <1>3, <1>4

\* Whatever the kind of a message.
LEMMA HandledOnlyFor ==
  ASSUME NEW n \in Handled
  PROVE  LET m == Messages[n]
         IN  OnlyFor(Updates(n), m.doc,
                     IF m.event = "metric" THEN CollectSystem ELSE CollectHost)
<1> DEFINE m == Messages[n]
           asked == IF m.event = "metric" THEN CollectSystem ELSE CollectHost
<1>1. CASE m.form = "otlp"
  BY <1>1, HandledAre, OtelOnlyFor
<1>2. CASE m.form # "otlp"
  <2>1. OnlyFor(Handle(m.event, m.doc, FALSE).updates, m.doc, asked)
    <3>1. CASE m.event = "metric"
      BY <3>1, ReadingsOnlyFor DEF Handle
    <3>2. CASE m.event = "transaction"
      BY <3>2, TransactionOnlyFor DEF Handle
    <3>3. CASE m.event = "span"
      BY <3>3, SpanOnlyFor DEF Handle
    <3>4. CASE m.event = "error"
      BY <3>4, ErrorOnlyFor DEF Handle
    <3>5. CASE m.event \notin {"metric", "transaction", "span", "error"}
      BY <3>5, OnlyForLists DEF Handle, Nothing, Outcome
    <3> QED
      BY <3>1, <3>2, <3>3, <3>4, <3>5
  <2>2. Updates(n) = Handle(m.event, m.doc, FALSE).updates \o <<>>
    BY <1>2, HandledAre
  <2> HIDE DEF m, asked
  <2>3. OnlyFor(Handle(m.event, m.doc, FALSE).updates \o <<>>, m.doc, asked)
    BY <2>1, OnlyForLists, OnlyForConcat
  <2> QED
    BY <2>2, <2>3 DEF m, asked
<1> QED
  BY <1>1, <1>2

\* All messages, not only those of a scenario.
LEMMA EveryMessageAsked == Handled \subseteq AskedFor
BY HandledOnlyFor DEF AskedFor, OnlyFor, CallOnlyFor

\* Whatever a document holds, metrics by host are kept only for the teams that
\* ask for them, by collect_host_level_metrics or, for telemetry, by
\* collect_host_level_system.
THEOREM HostMetricsAskedFor == Spec => []HostMetricsOnlyIfAsked
<1>1. HostMetricsOnlyIfAsked
  BY EveryMessageAsked DEF HostMetricsOnlyIfAsked, Taken
<1> QED
  BY <1>1, PTL

(***************************************************************************)
(* Updates of which no two go to the same metric.                          *)
(***************************************************************************)

\* Updates of which no two go to the same metric, and lists that have none in
\* common.
Distinct(s) ==
  /\ s \in Seq(ToSet(s))
  /\ \A i, j \in DOMAIN s : KeyOf(s[i]) = KeyOf(s[j]) => i = j
Apart(s, t) == \A a \in ToSet(s), b \in ToSet(t) : KeyOf(a) # KeyOf(b)

\* Updates of one metric have these fields in common.
LEMMA KeyFields ==
  ASSUME NEW a, NEW b, KeyOf(a) = KeyOf(b)
  PROVE  a.metric = b.metric /\ a.name = b.name /\ a.at = b.at /\ a.tags = b.tags
         /\ a.aggregate = b.aggregate
<1>1. /\ KeyOf(a).metric = a.metric /\ KeyOf(a).name = a.name /\ KeyOf(a).at = a.at
      /\ KeyOf(a).tags = a.tags /\ KeyOf(a).aggregate = a.aggregate
  BY DEF KeyOf
<1>2. /\ KeyOf(b).metric = b.metric /\ KeyOf(b).name = b.name /\ KeyOf(b).at = b.at
      /\ KeyOf(b).tags = b.tags /\ KeyOf(b).aggregate = b.aggregate
  BY DEF KeyOf
<1> QED
  BY <1>1, <1>2

\* The fields that make the key.
Made(a, metric, name, at, tags) ==
  a.metric = metric /\ a.name = name /\ a.at = at /\ a.tags = tags

\* What the calls of the API make.
LEMMA CallFields ==
  ASSUME NEW metric, NEW name, NEW at, NEW tags
  PROVE  /\ Made(Histogram(metric, name, at, tags), metric, name, at, tags)
         /\ Made(Counter(metric, name, at, tags), metric, name, at, tags)
         /\ \A fn : /\ Made(Call(fn, metric, name, at, tags), metric, name, at, tags)
                    /\ Made(AtOnce(Call(fn, metric, name, at, tags)), metric, name, at, tags)
BY DEF Made, Call, AtOnce, Histogram, Counter

\* One field that differs is enough.
LEMMA KeysDiffer ==
  ASSUME NEW a, NEW b, NEW metric, NEW name, NEW at, NEW tags, NEW metric2, NEW name2,
         NEW at2, NEW tags2, Made(a, metric, name, at, tags), Made(b, metric2, name2, at2, tags2),
         \/ metric # metric2 \/ name # name2 \/ at # at2 \/ tags # tags2
  PROVE  KeyOf(a) # KeyOf(b)
BY KeyFields DEF Made

\* What is in the short lists that handlers make.
LEMMA ListSets ==
  /\ ToSet(<<>>) = {} /\ (\A a : ToSet(<<a>>) = {a}) /\ (\A a, b : ToSet(<<a, b>>) = {a, b})
  /\ \A a, b, c, d : ToSet(<<a, b, c, d>>) = {a, b, c, d}
<1>1. ToSet(<<>>) = {}
  BY DEF ToSet
<1>2. ASSUME NEW a PROVE ToSet(<<a>>) = {a}
  BY DEF ToSet
<1>3. ASSUME NEW a, NEW b PROVE ToSet(<<a, b>>) = {a, b}
  <2>1. DOMAIN <<a, b>> = 1..2
    OBVIOUS
  <2> QED
    BY <2>1 DEF ToSet
<1>4. ASSUME NEW a, NEW b, NEW c, NEW d PROVE ToSet(<<a, b, c, d>>) = {a, b, c, d}
  <2>1. DOMAIN <<a, b, c, d>> = 1..4
    OBVIOUS
  <2> QED
    BY <2>1 DEF ToSet
<1> QED
  BY <1>1, <1>2, <1>3, <1>4

\* A list is distinct if its updates are,
LEMMA DistinctLists ==
  /\ Distinct(<<>>)
  /\ \A a : Distinct(<<a>>)
  /\ \A a, b : KeyOf(a) # KeyOf(b) => Distinct(<<a, b>>)
<1>1. Distinct(<<>>)
  BY EmptySeq DEF Distinct, ToSet
<1>2. ASSUME NEW a PROVE Distinct(<<a>>)
  BY ListSets DEF Distinct
<1>3. ASSUME NEW a, NEW b, KeyOf(a) # KeyOf(b) PROVE Distinct(<<a, b>>)
  <2>1. <<a, b>> \in Seq(ToSet(<<a, b>>)) /\ DOMAIN <<a, b>> = 1..2
    BY ListSets
  <2>2. <<a, b>>[1] = a /\ <<a, b>>[2] = b
    OBVIOUS
  <2> QED
    BY <1>3, <2>1, <2>2 DEF Distinct
<1> QED
  BY <1>1, <1>2, <1>3

\* Four updates of four metrics.
AllDiffer(a, b, c, e) ==
  /\ KeyOf(a) # KeyOf(b) /\ KeyOf(a) # KeyOf(c) /\ KeyOf(a) # KeyOf(e)
  /\ KeyOf(b) # KeyOf(c) /\ KeyOf(b) # KeyOf(e) /\ KeyOf(c) # KeyOf(e)

LEMMA DistinctFour ==
  ASSUME NEW a, NEW b, NEW c, NEW e, AllDiffer(a, b, c, e)
  PROVE  Distinct(<<a, b, c, e>>) /\ ToSet(<<a, b, c, e>>) = {a, b, c, e}
<1> DEFINE s == <<a, b, c, e>>
<1>1. s \in Seq(ToSet(s)) /\ DOMAIN s = 1..4
  BY ListSets
<1>0. ToSet(s) = {a, b, c, e}
  BY ListSets
<1>2. s[1] = a /\ s[2] = b /\ s[3] = c /\ s[4] = e
  OBVIOUS
<1> HIDE DEF s
<1>3. \A i \in DOMAIN s : i \in {1, 2, 3, 4}
  BY <1>1
<1>4. \A i, j \in {1, 2, 3, 4} : KeyOf(s[i]) = KeyOf(s[j]) => i = j
  BY <1>2 DEF AllDiffer
<1>5. Distinct(s)
  BY <1>1, <1>3, <1>4 DEF Distinct
<1> QED
  BY <1>0, <1>5 DEF s

\* and distinct lists that have no metric in common are distinct together,
LEMMA DistinctConcat ==
  ASSUME NEW s, NEW t, Distinct(s), Distinct(t), Apart(s, t)
  PROVE  Distinct(s \o t) /\ ToSet(s \o t) = ToSet(s) \cup ToSet(t)
<1> DEFINE S == ToSet(s) \cup ToSet(t)
<1>1. s \in Seq(S) /\ t \in Seq(S)
  BY SeqMonotonic DEF Distinct
<1>2. s \o t \in Seq(S) /\ ToSet(s \o t) = S
  BY <1>1, ToSetOfConcat
<1>3. /\ Len(s \o t) = Len(s) + Len(t) /\ Len(s) \in Nat /\ Len(t) \in Nat
      /\ DOMAIN (s \o t) = 1..(Len(s) + Len(t)) /\ DOMAIN s = 1..Len(s) /\ DOMAIN t = 1..Len(t)
      /\ \A i \in 1..(Len(s) + Len(t)) : (s \o t)[i] = IF i <= Len(s) THEN s[i] ELSE t[i - Len(s)]
  BY <1>1, <1>2, ConcatProperties
<1>4. ASSUME NEW i \in 1..(Len(s) + Len(t)), NEW j \in 1..(Len(s) + Len(t)), i <= j,
             KeyOf((s \o t)[i]) = KeyOf((s \o t)[j])
      PROVE  i = j
  <2>1. CASE j <= Len(s)
    <3>1. i \in DOMAIN s /\ j \in DOMAIN s /\ (s \o t)[i] = s[i] /\ (s \o t)[j] = s[j]
      BY <1>3, <1>4, <2>1
    <3> QED
      BY <1>4, <3>1 DEF Distinct
  <2>2. CASE i > Len(s)
    <3>1. /\ i - Len(s) \in DOMAIN t /\ j - Len(s) \in DOMAIN t
          /\ (s \o t)[i] = t[i - Len(s)] /\ (s \o t)[j] = t[j - Len(s)]
      BY <1>3, <1>4, <2>2
    <3>2. i - Len(s) = j - Len(s)
      BY <1>4, <3>1 DEF Distinct
    <3> QED
      BY <1>3, <3>2
  <2>3. CASE i <= Len(s) /\ j > Len(s)
    <3>1. /\ i \in DOMAIN s /\ j - Len(s) \in DOMAIN t
          /\ (s \o t)[i] = s[i] /\ (s \o t)[j] = t[j - Len(s)]
      BY <1>3, <1>4, <2>3
    <3>2. s[i] \in ToSet(s) /\ t[j - Len(s)] \in ToSet(t)
      BY <3>1 DEF ToSet
    <3> QED
      BY <1>4, <3>1, <3>2 DEF Apart
  <2> QED
    BY <1>3, <2>1, <2>2, <2>3
<1>5. ASSUME NEW i \in 1..(Len(s) + Len(t)), NEW j \in 1..(Len(s) + Len(t)),
             KeyOf((s \o t)[i]) = KeyOf((s \o t)[j])
      PROVE  i = j
  <2>1. i <= j \/ j <= i
    BY <1>3
  <2> QED
    BY <1>4, <1>5, <2>1
<1> QED
  BY <1>2, <1>3, <1>5 DEF Distinct

\* whether or not they are asked for.
LEMMA DistinctWhen ==
  ASSUME NEW condition, NEW s, condition => Distinct(s)
  PROVE  /\ Distinct(When(condition, s))
         /\ ToSet(When(condition, s)) \subseteq ToSet(s)
         /\ condition => When(condition, s) = s
         /\ ~condition => ToSet(When(condition, s)) = {}
BY DistinctLists, ListSets DEF When

(***************************************************************************)
(* A count beside each total: transactions,                                *)
(***************************************************************************)

\* What is to be shown of a list of updates: that they are distinct, and that
\* beside a total latency there is the one count that belongs to it.
Totalled(s) ==
  \A a \in ToSet(s) : a.name = "all" /\ CountsOf(a.metric) # {} =>
    /\ \E b \in ToSet(s) : /\ b.metric \in CountsOf(a.metric)
                           /\ KeyOf(b) = [KeyOf(a) EXCEPT !.metric = b.metric]
    /\ \A b, c \in ToSet(s) :
         b.metric \in CountsOf(a.metric) /\ c.metric \in CountsOf(a.metric) => b.metric = c.metric

\* The counts that belong to a latency.
LEMMA CountsAre ==
  /\ CountsOf("transaction - latency") = {"transaction - request_count"}
  /\ CountsOf("db - latency") = {"db - stmt_count"}
  /\ CountsOf("external - latency") = {"external - call_count"}
  /\ CountsOf("internal - latency") = {"internal - call_count"}
  /\ CountsOf("latency") = {"request_count", "execution_count"}
  /\ \A metric : CountsOf(metric) # {} =>
       metric \in {"transaction - latency", "db - latency", "external - latency",
                   "internal - latency", "latency"}
BY DEF CountsOf

\* A count beside a latency.
LEMMA CountBeside ==
  ASSUME NEW a, NEW b, NEW metric, NEW metric2, NEW name, NEW at, NEW tags,
         Made(a, metric, name, at, tags), Made(b, metric2, name, at, tags),
         a.aggregate = b.aggregate
  PROVE  KeyOf(b) = [KeyOf(a) EXCEPT !.metric = b.metric]
BY DEF KeyOf, Made

\* Histograms and counters of spans and transactions all go to the owner.
LEMMA Aggregated ==
  \A metric, name, at, tags : /\ Histogram(metric, name, at, tags).aggregate = TRUE
                              /\ Counter(metric, name, at, tags).aggregate = TRUE
BY DEF Histogram, Counter, Call

\* Lists that differ in some field of the key.
LEMMA ApartIf ==
  ASSUME NEW s, NEW t,
         \A a \in ToSet(s), b \in ToSet(t) :
            \/ a.metric # b.metric \/ a.name # b.name \/ a.at # b.at
            \/ a.tags # b.tags \/ a.aggregate # b.aggregate
  PROVE  Apart(s, t)
BY KeyFields DEF Apart

\* One total latency, and its count.
LEMMA TotalledBy ==
  ASSUME NEW s, NEW total, NEW count \in ToSet(s),
         CountsOf(total.metric) = {count.metric},
         KeyOf(count) = [KeyOf(total) EXCEPT !.metric = count.metric],
         \A a \in ToSet(s) : a.name = "all" /\ CountsOf(a.metric) # {} => a = total
  PROVE  Totalled(s)
<1> SUFFICES ASSUME NEW a \in ToSet(s), a.name = "all" /\ CountsOf(a.metric) # {}
             PROVE  /\ \E b \in ToSet(s) : /\ b.metric \in CountsOf(a.metric)
                                           /\ KeyOf(b) = [KeyOf(a) EXCEPT !.metric = b.metric]
                    /\ \A b, c \in ToSet(s) :
                         b.metric \in CountsOf(a.metric) /\ c.metric \in CountsOf(a.metric)
                           => b.metric = c.metric
  BY DEF Totalled
<1>1. a = total
  OBVIOUS
<1> QED
  BY <1>1

\* TransactionMetrics: the five updates of a job,
LEMMA JobsAre ==
  ASSUME NEW d, d.name # "all"
  PROVE  Distinct(JobUpdates(d)) /\ Totalled(JobUpdates(d))
<1> DEFINE a1 == Histogram("transaction - latency", d.name, "all", {})
           a2 == Histogram("transaction - latency", "all", "all", {})
           a3 == Counter("transaction - request_count", d.name, "all", {})
           a4 == Counter("transaction - request_count", "all", "all", {})
           a5 == Histogram("transaction - latency", d.name, "host", {})
           s  == <<a1, a2, a3, a4>>
           t  == When(d.team \in CollectHost, <<a5>>)
<1>1. /\ Made(a1, "transaction - latency", d.name, "all", {})
      /\ Made(a2, "transaction - latency", "all", "all", {})
      /\ Made(a3, "transaction - request_count", d.name, "all", {})
      /\ Made(a4, "transaction - request_count", "all", "all", {})
      /\ Made(a5, "transaction - latency", d.name, "host", {})
  BY CallFields, Zenon
<1>2. a2.aggregate = a4.aggregate
  BY Aggregated, Zenon
<1>3. JobUpdates(d) = s \o t
  BY DEF JobUpdates
<1>4. Distinct(t) /\ ToSet(t) \subseteq {a5}
  <2> HIDE DEF a5
  <2> QED
    BY DistinctWhen, DistinctLists, ListSets
<1> HIDE DEF a1, a2, a3, a4, a5, t
<1>5. AllDiffer(a1, a2, a3, a4)
  BY <1>1, KeysDiffer DEF AllDiffer
<1>6. /\ KeyOf(a1) # KeyOf(a5) /\ KeyOf(a2) # KeyOf(a5) /\ KeyOf(a3) # KeyOf(a5)
      /\ KeyOf(a4) # KeyOf(a5)
  BY <1>1, KeysDiffer
<1>7. Distinct(s) /\ ToSet(s) = {a1, a2, a3, a4}
  BY <1>5, DistinctFour
<1> HIDE DEF s
<1>8. Apart(s, t)
  BY <1>4, <1>6, <1>7 DEF Apart
<1>9. /\ Distinct(JobUpdates(d)) /\ ToSet(JobUpdates(d)) \subseteq {a1, a2, a3, a4, a5}
      /\ {a1, a2, a3, a4} \subseteq ToSet(JobUpdates(d))
  BY <1>3, <1>4, <1>7, <1>8, DistinctConcat
<1>10. KeyOf(a4) = [KeyOf(a2) EXCEPT !.metric = a4.metric]
  BY <1>1, <1>2, CountBeside
<1>11. CountsOf(a2.metric) = {a4.metric}
  BY <1>1, CountsAre DEF Made
<1>12. /\ a1.name # "all" /\ a5.name # "all"
       /\ CountsOf(a3.metric) = {} /\ CountsOf(a4.metric) = {}
  BY <1>1, CountsAre DEF Made
<1>13. \A a \in ToSet(JobUpdates(d)) : a.name = "all" /\ CountsOf(a.metric) # {} => a = a2
  BY <1>9, <1>12
<1>14. a4 \in ToSet(JobUpdates(d))
  BY <1>9
<1>15. Totalled(JobUpdates(d))
  BY <1>10, <1>11, <1>13, <1>14, TotalledBy
<1> QED
  BY <1>9, <1>15

\* and those of a request, where totals by user agent are told from totals by
\* method.
LEMMA TagsAre ==
  ASSUME NEW d
  PROVE  /\ Rollup(d) \subseteq {"__rollup"} /\ "user_agent" \notin Rollup(d)
         /\ "user_agent" \notin Method /\ "user_agent" \in UserAgent
BY DEF Rollup, NoRollup, Method, UserAgent

\* Errors are counted by class and together.
ErrorClasses == {"transaction - client_error_count", "transaction - server_error_count"}

\* The four counts of an error: for its class and for all of them.
LEMMA ErrorCountsAre ==
  ASSUME NEW d, d.name # "all", NEW class \in ErrorClasses, NEW tags
  PROVE  /\ Distinct(ErrorCounts(class, d, tags))
         /\ \A c \in ToSet(ErrorCounts(class, d, tags)) :
              c.metric \in {class, "transaction - error_count"}
              /\ c.tags \in {tags, tags \cup Rollup(d)}
<1> DEFINE a1 == Counter(class, d.name, "all", tags \cup Rollup(d))
           a2 == Counter("transaction - error_count", d.name, "all", tags \cup Rollup(d))
           a3 == Counter(class, "all", "all", tags)
           a4 == Counter("transaction - error_count", "all", "all", tags)
<1>1. /\ Made(a1, class, d.name, "all", tags \cup Rollup(d))
      /\ Made(a2, "transaction - error_count", d.name, "all", tags \cup Rollup(d))
      /\ Made(a3, class, "all", "all", tags)
      /\ Made(a4, "transaction - error_count", "all", "all", tags)
  BY CallFields, Zenon
<1>2. ErrorCounts(class, d, tags) = <<a1, a2, a3, a4>>
  BY DEF ErrorCounts
<1> HIDE DEF a1, a2, a3, a4
<1>3. AllDiffer(a1, a2, a3, a4)
  BY <1>1, KeysDiffer DEF AllDiffer, ErrorClasses
<1> DEFINE s == <<a1, a2, a3, a4>>
<1>4. Distinct(s) /\ ToSet(s) = {a1, a2, a3, a4}
  BY <1>3, DistinctFour
<1>5. \A c \in {a1, a2, a3, a4} : c.metric \in {class, "transaction - error_count"}
                                  /\ c.tags \in {tags, tags \cup Rollup(d)}
  BY <1>1 DEF Made
<1> QED
  BY <1>2, <1>4, <1>5

\* They are kept with the method and, for agents, with the user agent.
LEMMA ErrorsAre ==
  ASSUME NEW d, d.name # "all", NEW class \in ErrorClasses
  PROVE  /\ Distinct(Errors(class, d))
         /\ \A c \in ToSet(Errors(class, d)) : c.metric \in {class, "transaction - error_count"}
<1> DEFINE s == ErrorCounts(class, d, Method)
           u == ErrorCounts(class, d, UserAgent)
           t == When(d.agent, u)
<1>1. Distinct(s) /\ \A c \in ToSet(s) :
        c.metric \in {class, "transaction - error_count"} /\ c.tags \in {Method, Method \cup Rollup(d)}
  BY ErrorCountsAre
<1>2. Distinct(u) /\ \A c \in ToSet(u) :
        c.metric \in {class, "transaction - error_count"} /\ c.tags \in {UserAgent, UserAgent \cup Rollup(d)}
  BY ErrorCountsAre
<1>3. Errors(class, d) = s \o t
  BY DEF Errors
<1> HIDE DEF s, u
<1>4. Distinct(t) /\ ToSet(t) \subseteq ToSet(u)
  BY <1>2, DistinctWhen
<1>5. Apart(s, t)
  <2> SUFFICES ASSUME NEW a \in ToSet(s), NEW b \in ToSet(t) PROVE KeyOf(a) # KeyOf(b)
    BY DEF Apart
  <2>1. "user_agent" \notin a.tags
    BY <1>1, TagsAre
  <2>2. "user_agent" \in b.tags
    BY <1>2, <1>4, TagsAre
  <2> QED
    BY <2>1, <2>2, KeyFields
<1> HIDE DEF t
<1>6. Distinct(s \o t) /\ ToSet(s \o t) = ToSet(s) \cup ToSet(t)
  BY <1>1, <1>4, <1>5, DistinctConcat
<1>7. \A c \in ToSet(s \o t) : c.metric \in {class, "transaction - error_count"}
  BY <1>1, <1>2, <1>4, <1>6
<1> QED
  BY <1>3, <1>6, <1>7

\* An answer is the client's error or the server's, and never both.
LEMMA ErrorMetrics ==
  ASSUME NEW d, d.name # "all", d.code \in Nat
  PROVE  LET s2 == When(ClientError(d), Errors("transaction - client_error_count", d))
             s3 == When(ServerError(d), Errors("transaction - server_error_count", d))
         IN  /\ Distinct(s2) /\ Distinct(s3) /\ (ToSet(s2) = {} \/ ToSet(s3) = {})
             /\ \A c \in ToSet(s2) \cup ToSet(s3) :
                  c.metric \in {"transaction - client_error_count",
                                "transaction - server_error_count", "transaction - error_count"}
<1> DEFINE e2 == Errors("transaction - client_error_count", d)
           e3 == Errors("transaction - server_error_count", d)
           s2 == When(ClientError(d), e2)
           s3 == When(ServerError(d), e3)
<1>1. Distinct(e2) /\ \A c \in ToSet(e2) :
        c.metric \in {"transaction - client_error_count", "transaction - error_count"}
  BY ErrorsAre DEF ErrorClasses
<1>2. Distinct(e3) /\ \A c \in ToSet(e3) :
        c.metric \in {"transaction - server_error_count", "transaction - error_count"}
  BY ErrorsAre DEF ErrorClasses
<1>3. ~ClientError(d) \/ ~ServerError(d)
  BY DEF ClientError, ServerError
<1> HIDE DEF e2, e3
<1>4. /\ Distinct(s2) /\ ToSet(s2) \subseteq ToSet(e2) /\ (~ClientError(d) => ToSet(s2) = {})
  BY <1>1, DistinctWhen
<1>5. /\ Distinct(s3) /\ ToSet(s3) \subseteq ToSet(e3) /\ (~ServerError(d) => ToSet(s3) = {})
  BY <1>2, DistinctWhen
<1> HIDE DEF s2, s3
<1>6. /\ Distinct(s2) /\ Distinct(s3) /\ (ToSet(s2) = {} \/ ToSet(s3) = {})
      /\ \A c \in ToSet(s2) \cup ToSet(s3) :
           c.metric \in {"transaction - client_error_count",
                         "transaction - server_error_count", "transaction - error_count"}
  BY <1>1, <1>2, <1>3, <1>4, <1>5
<1> QED
  BY <1>6 DEF s2, s3, e2, e3

\* The errors belong to no latency, and the totals of requests have one count.
LEMMA RequestsAre ==
  ASSUME NEW d, d.name # "all", d.code \in Nat
  PROVE  Distinct(RequestUpdates(d)) /\ Totalled(RequestUpdates(d))
<1> DEFINE a1 == Histogram("transaction - latency", d.name, "all", Method \cup Rollup(d))
           a2 == Histogram("transaction - latency", "all", "all", Method)
           a3 == Counter("transaction - request_count", d.name, "all", Method \cup Rollup(d))
           a4 == Counter("transaction - request_count", "all", "all", Method)
           a5 == Counter("transaction - request_count", "all", "all", UserAgent)
           a6 == AtOnce(Call("text", "transaction - status_code", d.name, "host",
                             Method \cup Rollup(d)))
           a7 == Histogram("transaction - latency", d.name, "host", Method \cup Rollup(d))
           s1 == <<a1, a2>>
           s2 == When(ClientError(d), Errors("transaction - client_error_count", d))
           s3 == When(ServerError(d), Errors("transaction - server_error_count", d))
           s4 == <<a3, a4>>
           s5 == When(d.agent, <<a5>>)
           s6 == When(d.team \in CollectHost, <<a6, a7>>)
           M  == {"transaction - client_error_count", "transaction - server_error_count",
                  "transaction - error_count"}
<1>1. /\ Made(a1, "transaction - latency", d.name, "all", Method \cup Rollup(d))
      /\ Made(a2, "transaction - latency", "all", "all", Method)
      /\ Made(a3, "transaction - request_count", d.name, "all", Method \cup Rollup(d))
      /\ Made(a4, "transaction - request_count", "all", "all", Method)
      /\ Made(a5, "transaction - request_count", "all", "all", UserAgent)
      /\ Made(a6, "transaction - status_code", d.name, "host", Method \cup Rollup(d))
      /\ Made(a7, "transaction - latency", d.name, "host", Method \cup Rollup(d))
  BY CallFields, Zenon
<1>2. a2.aggregate = a4.aggregate
  BY Aggregated, Zenon
<1>3. RequestUpdates(d) = s1 \o s2 \o s3 \o s4 \o s5 \o s6
  BY DEF RequestUpdates
<1>4. /\ Distinct(s2) /\ Distinct(s3) /\ (ToSet(s2) = {} \/ ToSet(s3) = {})
      /\ \A c \in ToSet(s2) \cup ToSet(s3) : c.metric \in M
  BY ErrorMetrics
<1> HIDE DEF a1, a2, a3, a4, a5, a6, a7, s2, s3
<1>5. KeyOf(a1) # KeyOf(a2) /\ KeyOf(a3) # KeyOf(a4) /\ KeyOf(a6) # KeyOf(a7)
  BY <1>1, KeysDiffer
<1>6. Distinct(s1) /\ ToSet(s1) = {a1, a2} /\ Distinct(s4) /\ ToSet(s4) = {a3, a4}
  BY <1>5, DistinctLists, ListSets
<1>7. Distinct(s5) /\ ToSet(s5) \subseteq {a5}
  BY DistinctWhen, DistinctLists, ListSets
<1>8. Distinct(s6) /\ ToSet(s6) \subseteq {a6, a7}
  <2>1. Distinct(<<a6, a7>>) /\ ToSet(<<a6, a7>>) = {a6, a7}
    BY <1>5, DistinctLists, ListSets
  <2> QED
    BY <2>1, DistinctWhen
<1> HIDE DEF s1, s4, s5, s6
<1>9. Distinct(s1 \o s2) /\ ToSet(s1 \o s2) = {a1, a2} \cup ToSet(s2)
  <2>1. Apart(s1, s2)
    <3>1. a1.metric \notin M /\ a2.metric \notin M
      BY <1>1 DEF Made
    <3>2. (\A a \in ToSet(s1) : a.metric \notin M) /\ (\A b \in ToSet(s2) : b.metric \in M)
      BY <1>4, <1>6, <3>1
    <3>3. \A a \in ToSet(s1), b \in ToSet(s2) : a.metric # b.metric
      BY <3>2
    <3> QED
      BY <3>3, ApartIf
  <2> QED
    BY <1>4, <1>6, <2>1, DistinctConcat
<1>10. Distinct(s1 \o s2 \o s3) /\ ToSet(s1 \o s2 \o s3) = {a1, a2} \cup ToSet(s2) \cup ToSet(s3)
  <2>1. Apart(s1 \o s2, s3)
    <3>1. CASE ToSet(s3) = {}
      BY <3>1 DEF Apart
    <3>2. CASE ToSet(s2) = {}
      <4>1. a1.metric \notin M /\ a2.metric \notin M
        BY <1>1 DEF Made
      <4>2. /\ \A a \in ToSet(s1 \o s2) : a.metric \notin M
            /\ \A b \in ToSet(s3) : b.metric \in M
        BY <1>4, <1>9, <3>2, <4>1
      <4>3. \A a \in ToSet(s1 \o s2), b \in ToSet(s3) : a.metric # b.metric
        BY <4>2
      <4> QED
        BY <4>3, ApartIf
    <3> QED
      BY <1>4, <3>1, <3>2
  <2> QED
    BY <1>4, <1>9, <2>1, DistinctConcat
<1> DEFINE s == s1 \o s2 \o s3
           t == s \o s4
           u == t \o s5
<1> HIDE DEF s
<1>11. Distinct(t) /\ ToSet(t) = ToSet(s) \cup {a3, a4}
  <2>1. \A a \in ToSet(s) : a.metric \in M \cup {"transaction - latency"}
    BY <1>1, <1>4, <1>10 DEF s, Made
  <2>2. Apart(s, s4)
    <3>1. \A a \in ToSet(s), b \in ToSet(s4) :
            a.metric # b.metric \/ a.name # b.name \/ a.at # b.at \/ a.tags # b.tags
      BY <1>1, <1>6, <2>1 DEF Made
    <3> QED
      BY <3>1, ApartIf
  <2> QED
    BY <1>6, <1>10, <2>2, DistinctConcat DEF s
<1> HIDE DEF t
<1>12. Distinct(u) /\ ToSet(u) = ToSet(t) \cup ToSet(s5)
  <2>1. \A a \in ToSet(t) : a.metric \in M \cup {"transaction - latency"} \/ a \in {a3, a4}
    BY <1>1, <1>4, <1>10, <1>11 DEF s, Made
  <2>2. "user_agent" \in a5.tags /\ "user_agent" \notin a3.tags /\ "user_agent" \notin a4.tags
    BY <1>1, TagsAre DEF Made
  <2>3. Apart(t, s5)
    <3>1. \A a \in ToSet(t), b \in ToSet(s5) :
            a.metric # b.metric \/ a.name # b.name \/ a.at # b.at \/ a.tags # b.tags
      BY <1>1, <1>7, <2>1, <2>2 DEF Made
    <3> QED
      BY <3>1, ApartIf
  <2> QED
    BY <1>7, <1>11, <2>3, DistinctConcat
<1> HIDE DEF u
<1>13. /\ Distinct(u \o s6) /\ ToSet(u \o s6) \subseteq {a1, a2, a3, a4, a5, a6, a7} \cup ToSet(s2) \cup ToSet(s3)
       /\ {a2, a4} \subseteq ToSet(u \o s6)
  <2>1. /\ ToSet(u) \subseteq {a1, a2, a3, a4, a5} \cup ToSet(s2) \cup ToSet(s3)
        /\ {a2, a4} \subseteq ToSet(u)
    BY <1>7, <1>10, <1>11, <1>12 DEF s
  <2>2. \A a \in ToSet(u) : a.metric \in M \cup {"transaction - request_count"} \/ a \in {a1, a2}
    BY <1>1, <1>4, <2>1 DEF Made
  <2>3. a1.at # a7.at /\ a2.at # a7.at
    BY <1>1 DEF Made
  <2>4. Apart(u, s6)
    <3>1. \A a \in ToSet(u), b \in ToSet(s6) :
            a.metric # b.metric \/ a.name # b.name \/ a.at # b.at \/ a.tags # b.tags
      BY <1>1, <1>8, <2>2, <2>3 DEF Made
    <3> QED
      BY <3>1, ApartIf
  <2>5. Distinct(u \o s6) /\ ToSet(u \o s6) = ToSet(u) \cup ToSet(s6)
    BY <1>8, <1>12, <2>4, DistinctConcat
  <2> QED
    BY <1>8, <2>1, <2>5
<1>14. KeyOf(a4) = [KeyOf(a2) EXCEPT !.metric = a4.metric]
  BY <1>1, <1>2, CountBeside
<1>15. RequestUpdates(d) = u \o s6
  BY <1>3 DEF s, t, u
<1>16. Totalled(u \o s6)
  <2>1. CountsOf(a2.metric) = {a4.metric}
    BY <1>1, CountsAre DEF Made
  <2>2. /\ a1.name # "all" /\ a6.name # "all" /\ a7.name # "all"
        /\ CountsOf(a3.metric) = {} /\ CountsOf(a4.metric) = {} /\ CountsOf(a5.metric) = {}
    BY <1>1, CountsAre DEF Made
  <2>3. \A a \in ToSet(s2) \cup ToSet(s3) : CountsOf(a.metric) = {}
    BY <1>4, CountsAre
  <2>4. \A a \in ToSet(u \o s6) : a.name = "all" /\ CountsOf(a.metric) # {} => a = a2
    BY <1>13, <2>2, <2>3
  <2>5. a4 \in ToSet(u \o s6)
    BY <1>13
  <2> QED
    BY <1>14, <2>1, <2>4, <2>5, TotalledBy
<1> QED
  BY <1>13, <1>15, <1>16

(***************************************************************************)
(* and spans.                                                              *)
(***************************************************************************)

\* Documents that are not handled.
LEMMA EmptyAre == Distinct(<<>>) /\ Totalled(<<>>)
BY DistinctLists, ListSets DEF Totalled

\* A transaction is one of them or neither.
LEMMA TransactionsAre ==
  ASSUME NEW d, d.name # "all", d.code \in Nat, NEW lagging
  PROVE  LET s == TransactionOutcome(d, lagging).updates
         IN  Distinct(s) /\ Totalled(s)
<1>1. TransactionOutcome(d, lagging).updates \in {<<>>, TransactionUpdates(d)}
  BY DEF TransactionOutcome, Nothing, Outcome
<1>2. TransactionUpdates(d) \in {<<>>, JobUpdates(d), RequestUpdates(d)}
  BY DEF TransactionUpdates
<1> QED
  BY <1>1, <1>2, JobsAre, RequestsAre, EmptyAre

\* A pair, or none, for the host.
LEMMA PairsAre ==
  ASSUME NEW latency, NEW count, latency # count, NEW name, NEW at, NEW tags, NEW condition
  PROVE  LET p == Pair(latency, count, name, at, tags)
         IN  /\ Distinct(p) /\ Distinct(When(condition, p))
             /\ ToSet(When(condition, p)) \subseteq ToSet(p)
             /\ ToSet(p) = {Histogram(latency, name, at, tags), Counter(count, name, at, tags)}
<1> DEFINE a1 == Histogram(latency, name, at, tags)
           a2 == Counter(count, name, at, tags)
<1>1. Made(a1, latency, name, at, tags) /\ Made(a2, count, name, at, tags)
  BY CallFields, Zenon
<1>2. Pair(latency, count, name, at, tags) = <<a1, a2>>
  BY DEF Pair
<1> HIDE DEF a1, a2
<1>3. KeyOf(a1) # KeyOf(a2)
  BY <1>1, KeysDiffer
<1>4. Distinct(<<a1, a2>>) /\ ToSet(<<a1, a2>>) = {a1, a2}
  BY <1>3, DistinctLists, ListSets
<1>5. Distinct(When(condition, <<a1, a2>>)) /\ ToSet(When(condition, <<a1, a2>>)) \subseteq {a1, a2}
  BY <1>4, DistinctWhen
<1>6. {a1, a2} = {Histogram(latency, name, at, tags), Counter(count, name, at, tags)}
  BY DEF a1, a2
<1> QED
  BY <1>2, <1>4, <1>5, <1>6

\* SpanMetrics. A query is counted under its own name, its subtype, both
\* together, and the total: four names that OwnName and NamesAssumption keep
\* apart.
LEMMA DbAre ==
  ASSUME NEW d, "all" \notin {d.name, Subtype(d)}, d.name # Subtype(d),
         Operation(d) \notin {"all", Subtype(d), d.name}
  PROVE  Distinct(DbUpdates(d)) /\ Totalled(DbUpdates(d))
<1> DEFINE a1 == Histogram("db - latency", d.name, "all", Rollup(d))
           a2 == Histogram("db - latency", d.name, "host", Rollup(d))
           a3 == Counter("db - stmt_count", d.name, "host", Rollup(d))
           a4 == Histogram("db - latency", Operation(d), "all", Rollup(d))
           a5 == Counter("db - stmt_count", Operation(d), "host", Rollup(d))
           a6 == Histogram("db - latency", Subtype(d), "all", Rollup(d))
           a7 == Counter("db - stmt_count", Subtype(d), "all", {})
           a8 == Histogram("db - latency", "all", "all", {})
           a9 == Counter("db - stmt_count", "all", "all", {})
           s1 == <<a1>>
           s2 == When(d.team \in CollectHost, Pair("db - latency", "db - stmt_count", d.name, "host", Rollup(d)))
           s3 == When(Subtype(d) # "", SubtypeUpdates(d))
           s4 == Pair("db - latency", "db - stmt_count", "all", "all", {})
<1>1. /\ Made(a1, "db - latency", d.name, "all", Rollup(d))
      /\ Made(a2, "db - latency", d.name, "host", Rollup(d))
      /\ Made(a3, "db - stmt_count", d.name, "host", Rollup(d))
      /\ Made(a4, "db - latency", Operation(d), "all", Rollup(d))
      /\ Made(a5, "db - stmt_count", Operation(d), "host", Rollup(d))
      /\ Made(a6, "db - latency", Subtype(d), "all", Rollup(d))
      /\ Made(a7, "db - stmt_count", Subtype(d), "all", {})
      /\ Made(a8, "db - latency", "all", "all", {})
      /\ Made(a9, "db - stmt_count", "all", "all", {})
  BY CallFields, Zenon
<1>2. a8.aggregate = a9.aggregate
  BY Aggregated, Zenon
<1>3. DbUpdates(d) = s1 \o s2 \o s3 \o s4
  BY DEF DbUpdates
<1>4. Distinct(s2) /\ ToSet(s2) \subseteq {a2, a3}
  BY PairsAre
<1>5. Distinct(s4) /\ ToSet(s4) = {a8, a9}
  BY PairsAre
<1>6. SubtypeUpdates(d) = <<a4, a5, a6, a7>>
  BY DEF SubtypeUpdates
<1> HIDE DEF a1, a2, a3, a4, a5, a6, a7, a8, a9, s2, s4
<1>7. Distinct(s1) /\ ToSet(s1) = {a1}
  BY DistinctLists, ListSets
<1>8. Distinct(s3) /\ ToSet(s3) \subseteq {a4, a5, a6, a7}
  <2>1. AllDiffer(a4, a5, a6, a7)
    BY <1>1, KeysDiffer DEF AllDiffer
  <2> DEFINE s == <<a4, a5, a6, a7>>
  <2>2. Distinct(s) /\ ToSet(s) = {a4, a5, a6, a7}
    BY <2>1, DistinctFour
  <2>3. s3 = When(Subtype(d) # "", s)
    BY <1>6
  <2> HIDE DEF s, s3
  <2> QED
    BY <2>2, <2>3, DistinctWhen
<1> HIDE DEF s1, s3
<1>9. Distinct(s1 \o s2) /\ ToSet(s1 \o s2) = ToSet(s1) \cup ToSet(s2)
  <2>1. \A a \in ToSet(s1), b \in ToSet(s2) :
          a.metric # b.metric \/ a.name # b.name \/ a.at # b.at \/ a.tags # b.tags
    BY <1>1, <1>4, <1>7 DEF Made
  <2> QED
    BY <1>4, <1>7, <2>1, ApartIf, DistinctConcat
<1> DEFINE s == s1 \o s2
           t == s \o s3
<1> HIDE DEF s
<1>10. Distinct(t) /\ ToSet(t) = ToSet(s) \cup ToSet(s3)
  <2>1. \A a \in ToSet(s), b \in ToSet(s3) :
          a.metric # b.metric \/ a.name # b.name \/ a.at # b.at \/ a.tags # b.tags
    <3>1. a1.name = d.name /\ a2.name = d.name /\ a3.name = d.name
      BY <1>1 DEF Made
    <3>2. /\ a4.name # d.name /\ a5.name # d.name /\ a6.name # d.name /\ a7.name # d.name
      BY <1>1 DEF Made
    <3>3. \A a \in ToSet(s) : a.name = d.name
      BY <1>4, <1>7, <1>9, <3>1 DEF s
    <3>4. \A b \in ToSet(s3) : b.name # d.name
      BY <1>8, <3>2
    <3> QED
      BY <3>3, <3>4
  <2>2. Distinct(s)
    BY <1>9 DEF s
  <2> QED
    BY <1>8, <2>1, <2>2, ApartIf, DistinctConcat
<1> HIDE DEF t
<1>11. /\ \A a \in ToSet(t) : a.name \in {d.name, Operation(d), Subtype(d)}
  BY <1>1, <1>4, <1>7, <1>8, <1>9, <1>10 DEF s, Made
<1>12. Distinct(t \o s4) /\ ToSet(t \o s4) = ToSet(t) \cup {a8, a9}
  <2>1. \A a \in ToSet(t), b \in ToSet(s4) :
          a.metric # b.metric \/ a.name # b.name \/ a.at # b.at \/ a.tags # b.tags
    BY <1>1, <1>5, <1>11 DEF Made
  <2> QED
    BY <1>5, <1>10, <2>1, ApartIf, DistinctConcat
<1>13. KeyOf(a9) = [KeyOf(a8) EXCEPT !.metric = a9.metric]
  BY <1>1, <1>2, CountBeside
<1>14. Totalled(t \o s4)
  <2>1. CountsOf(a8.metric) = {a9.metric} /\ CountsOf(a9.metric) = {}
    BY <1>1, CountsAre DEF Made
  <2>2. \A a \in ToSet(t) : a.name # "all"
    BY <1>11
  <2>3. \A a \in ToSet(t \o s4) : a.name = "all" /\ CountsOf(a.metric) # {} => a = a8
    BY <1>12, <2>1, <2>2
  <2>4. a9 \in ToSet(t \o s4)
    BY <1>12
  <2> QED
    BY <1>13, <2>1, <2>3, <2>4, TotalledBy
<1>15. DbUpdates(d) = t \o s4
  BY <1>3 DEF s, t
<1> QED
  BY <1>12, <1>14, <1>15

\* The other kinds of spans are kept under their own name and the total.
LEMMA ExternalAre ==
  ASSUME NEW d, d.name # "all"
  PROVE  Distinct(ExternalUpdates(d)) /\ Totalled(ExternalUpdates(d))
<1> DEFINE a1 == Histogram("external - latency", d.name, "all", Rollup(d))
           a2 == Histogram("external - latency", "all", "all", {})
           a3 == Histogram("external - latency", d.name, "host", Rollup(d))
           a4 == Counter("external - call_count", d.name, "host", Rollup(d))
           a5 == Counter("external - call_count", "all", "all", {})
           s1 == <<a1, a2>>
           s2 == When(d.team \in CollectHost,
                   Pair("external - latency", "external - call_count", d.name, "host", Rollup(d)))
           s3 == <<a5>>
<1>1. /\ Made(a1, "external - latency", d.name, "all", Rollup(d))
      /\ Made(a2, "external - latency", "all", "all", {})
      /\ Made(a3, "external - latency", d.name, "host", Rollup(d))
      /\ Made(a4, "external - call_count", d.name, "host", Rollup(d))
      /\ Made(a5, "external - call_count", "all", "all", {})
  BY CallFields, Zenon
<1>2. a2.aggregate = a5.aggregate
  BY Aggregated, Zenon
<1>3. ExternalUpdates(d) = s1 \o s2 \o s3
  BY DEF ExternalUpdates
<1>4. Distinct(s2) /\ ToSet(s2) \subseteq {a3, a4}
  BY PairsAre
<1> HIDE DEF a1, a2, a3, a4, a5, s2
<1>5. Distinct(s1) /\ ToSet(s1) = {a1, a2} /\ Distinct(s3) /\ ToSet(s3) = {a5}
  <2>1. KeyOf(a1) # KeyOf(a2)
    BY <1>1, KeysDiffer
  <2> QED
    BY <2>1, DistinctLists, ListSets
<1> HIDE DEF s1, s3
<1>6. Distinct(s1 \o s2) /\ ToSet(s1 \o s2) = ToSet(s1) \cup ToSet(s2)
  <2>1. \A a \in ToSet(s1), b \in ToSet(s2) :
          a.metric # b.metric \/ a.name # b.name \/ a.at # b.at \/ a.tags # b.tags
    BY <1>1, <1>4, <1>5 DEF Made
  <2> QED
    BY <1>4, <1>5, <2>1, ApartIf, DistinctConcat
<1> DEFINE t == s1 \o s2
<1> HIDE DEF t
<1>7. Distinct(t \o s3) /\ ToSet(t \o s3) = ToSet(s1) \cup ToSet(s2) \cup {a5}
  <2>1. \A a \in ToSet(t), b \in ToSet(s3) :
          a.metric # b.metric \/ a.name # b.name \/ a.at # b.at \/ a.tags # b.tags
    BY <1>1, <1>4, <1>5, <1>6 DEF t, Made
  <2>2. Distinct(t) /\ ToSet(t) = ToSet(s1) \cup ToSet(s2)
    BY <1>6 DEF t
  <2> QED
    BY <1>5, <2>1, <2>2, ApartIf, DistinctConcat
<1>8. KeyOf(a5) = [KeyOf(a2) EXCEPT !.metric = a5.metric]
  BY <1>1, <1>2, CountBeside
<1>9. Totalled(t \o s3)
  <2> SUFFICES ASSUME NEW a \in ToSet(t \o s3), a.name = "all", CountsOf(a.metric) # {}
               PROVE  /\ \E b \in ToSet(t \o s3) : /\ b.metric \in CountsOf(a.metric)
                                                   /\ KeyOf(b) = [KeyOf(a) EXCEPT !.metric = b.metric]
                      /\ CountsOf(a.metric) = {"external - call_count"}
    BY DEF Totalled
  <2>1. a \in {a2, a5}
    BY <1>1, <1>4, <1>5, <1>7 DEF Made
  <2>2. a = a2
    BY <1>1, <2>1, CountsAre DEF Made
  <2> QED
    BY <1>1, <1>7, <1>8, <2>2, CountsAre DEF Made
<1>10. ExternalUpdates(d) = t \o s3
  BY <1>3 DEF t
<1> QED
  BY <1>7, <1>9, <1>10

\* The other kinds of spans are kept under their own name and the total.
LEMMA InternalAre ==
  ASSUME NEW d, d.name # "all"
  PROVE  Distinct(InternalUpdates(d)) /\ Totalled(InternalUpdates(d))
<1> DEFINE a1 == Histogram("internal - latency", d.name, "all", Rollup(d))
           a2 == Histogram("internal - latency", "all", "all", {})
           a3 == Counter("internal - call_count", d.name, "all", Rollup(d))
           a4 == Counter("internal - call_count", "all", "all", {})
           a5 == Histogram("internal - latency", d.name, "host", Rollup(d))
           a6 == Counter("intternal - call_count", d.name, "host", Rollup(d))
           s  == <<a1, a2, a3, a4>>
           t  == When(d.team \in CollectHost,
                   Pair("internal - latency", "intternal - call_count", d.name, "host", Rollup(d)))
<1>1. /\ Made(a1, "internal - latency", d.name, "all", Rollup(d))
      /\ Made(a2, "internal - latency", "all", "all", {})
      /\ Made(a3, "internal - call_count", d.name, "all", Rollup(d))
      /\ Made(a4, "internal - call_count", "all", "all", {})
      /\ Made(a5, "internal - latency", d.name, "host", Rollup(d))
      /\ Made(a6, "intternal - call_count", d.name, "host", Rollup(d))
  BY CallFields, Zenon
<1>2. a2.aggregate = a4.aggregate
  BY Aggregated, Zenon
<1>3. InternalUpdates(d) = s \o t
  BY DEF InternalUpdates
<1>4. Distinct(t) /\ ToSet(t) \subseteq {a5, a6}
  BY PairsAre
<1> HIDE DEF a1, a2, a3, a4, a5, a6, t
<1>5. Distinct(s) /\ ToSet(s) = {a1, a2, a3, a4}
  <2>1. AllDiffer(a1, a2, a3, a4)
    BY <1>1, KeysDiffer DEF AllDiffer
  <2> QED
    BY <2>1, DistinctFour
<1> HIDE DEF s
<1>6. Distinct(s \o t) /\ ToSet(s \o t) = ToSet(s) \cup ToSet(t)
  <2>1. \A a \in ToSet(s), b \in ToSet(t) :
          a.metric # b.metric \/ a.name # b.name \/ a.at # b.at \/ a.tags # b.tags
    BY <1>1, <1>4, <1>5 DEF Made
  <2> QED
    BY <1>4, <1>5, <2>1, ApartIf, DistinctConcat
<1>7. KeyOf(a4) = [KeyOf(a2) EXCEPT !.metric = a4.metric]
  BY <1>1, <1>2, CountBeside
<1>8. Totalled(s \o t)
  <2> SUFFICES ASSUME NEW a \in ToSet(s \o t), a.name = "all", CountsOf(a.metric) # {}
               PROVE  /\ \E b \in ToSet(s \o t) : /\ b.metric \in CountsOf(a.metric)
                                                  /\ KeyOf(b) = [KeyOf(a) EXCEPT !.metric = b.metric]
                      /\ CountsOf(a.metric) = {"internal - call_count"}
    BY DEF Totalled
  <2>1. a \in {a2, a4}
    BY <1>1, <1>4, <1>5, <1>6 DEF Made
  <2>2. a = a2
    BY <1>1, <2>1, CountsAre DEF Made
  <2> QED
    BY <1>1, <1>5, <1>6, <1>7, <2>2, CountsAre DEF Made
<1> QED
  BY <1>3, <1>6, <1>8

\* A span is of one of these kinds.
LEMMA SpansAre ==
  ASSUME NEW d, "all" \notin {d.name, Subtype(d)}, d.name # Subtype(d),
         Operation(d) \notin {"all", Subtype(d), d.name}
  PROVE  LET s == SpanOutcome(d).updates IN Distinct(s) /\ Totalled(s)
<1>1. SpanOutcome(d).updates \in {<<>>, SpanUpdates(d)}
  BY DEF SpanOutcome, Nothing, Outcome
<1>2. SpanUpdates(d) \in {<<>>, DbUpdates(d), ExternalUpdates(d), InternalUpdates(d)}
  BY DEF SpanUpdates
<1> QED
  BY <1>1, <1>2, DbAre, ExternalAre, InternalAre, EmptyAre

\* None of them are totals.
LEMMA ErrorsOfAgents ==
  ASSUME NEW d
  PROVE  LET s == ErrorOutcome(d).updates IN Distinct(s) /\ Totalled(s)
<1> DEFINE a1 == Counter("transaction - apm_error_count", "", "host", Rollup(d))
           a2 == Counter("transaction - apm_error_count", "", "all", {})
           s  == When(d.team \in CollectHost, <<a1>>)
           t  == <<a2>>
<1>1. /\ Made(a1, "transaction - apm_error_count", "", "host", Rollup(d))
      /\ Made(a2, "transaction - apm_error_count", "", "all", {})
  BY CallFields, Zenon
<1>2. ErrorUpdates(d) = s \o t
  BY DEF ErrorUpdates
<1> HIDE DEF a1, a2
<1>3. Distinct(s) /\ ToSet(s) \subseteq {a1} /\ Distinct(t) /\ ToSet(t) = {a2}
  BY DistinctWhen, DistinctLists, ListSets
<1> HIDE DEF s, t
<1>4. Distinct(s \o t) /\ ToSet(s \o t) = ToSet(s) \cup ToSet(t)
  <2>1. \A a \in ToSet(s), b \in ToSet(t) :
          a.metric # b.metric \/ a.name # b.name \/ a.at # b.at \/ a.tags # b.tags
    BY <1>1, <1>3 DEF Made
  <2> QED
    BY <1>3, <2>1, ApartIf, DistinctConcat
<1>5. Totalled(s \o t)
  BY <1>1, <1>3, <1>4 DEF Totalled, Made
<1>6. ErrorOutcome(d).updates \in {<<>>, s \o t}
  BY <1>2 DEF ErrorOutcome, Nothing, Outcome
<1> QED
  BY <1>4, <1>5, <1>6, EmptyAre

\* OtelMetrics: the pair of a latency and a count, by name and in total,
LEMMA SpansOfKind ==
  ASSUME NEW count \in {"request_count", "execution_count"}, NEW name, name # "all", NEW tags
  PROVE  LET s == Spans(count, name, tags)
         IN  /\ Distinct(s) /\ Totalled(s)
             /\ \A a \in ToSet(s) : a.metric \in {"latency", count}
<1> DEFINE a1 == Histogram("latency", name, "all", tags)
           a2 == Histogram("latency", "all", "all", tags)
           a3 == Counter(count, name, "all", tags)
           a4 == Counter(count, "all", "all", tags)
           s  == <<a1, a2, a3, a4>>
<1>1. /\ Made(a1, "latency", name, "all", tags) /\ Made(a2, "latency", "all", "all", tags)
      /\ Made(a3, count, name, "all", tags) /\ Made(a4, count, "all", "all", tags)
  BY CallFields, Zenon
<1>2. a2.aggregate = a4.aggregate
  BY Aggregated, Zenon
<1>3. Spans(count, name, tags) = s
  BY DEF Spans
<1> HIDE DEF a1, a2, a3, a4
<1>4. Distinct(s) /\ ToSet(s) = {a1, a2, a3, a4}
  <2>1. AllDiffer(a1, a2, a3, a4)
    BY <1>1, KeysDiffer DEF AllDiffer
  <2> QED
    BY <2>1, DistinctFour
<1> HIDE DEF s
<1>5. KeyOf(a4) = [KeyOf(a2) EXCEPT !.metric = a4.metric]
  BY <1>1, <1>2, CountBeside
<1>6. \A a \in ToSet(s) : a.metric \in {"latency", count}
  BY <1>1, <1>4 DEF Made
<1>7. ASSUME NEW a \in ToSet(s), a.name = "all", CountsOf(a.metric) # {}
      PROVE  a = a2 /\ CountsOf(a.metric) = {"request_count", "execution_count"}
  BY <1>1, <1>4, <1>7, CountsAre DEF Made
<1>8. \A b \in ToSet(s) : b.metric \in {"request_count", "execution_count"} => b.metric = count
  BY <1>6
<1>9. a4 \in ToSet(s) /\ a4.metric = count
  BY <1>1, <1>4 DEF Made
<1>10. Totalled(s)
  BY <1>5, <1>7, <1>8, <1>9 DEF Totalled
<1> QED
  BY <1>3, <1>4, <1>6, <1>10

\* with the errors of a server beside it,
LEMMA ServerSpansAre ==
  ASSUME NEW d, d.name # "all"
  PROVE  Distinct(ServerSpans(d)) /\ Totalled(ServerSpans(d))
<1> DEFINE a1 == Counter("error_count", d.name, "all", ServerTags(d))
           a2 == Counter("error_count", "all", "all", ServerTags(d))
           s  == Spans("request_count", d.name, ServerTags(d))
           t  == When(d.code > 399, <<a1, a2>>)
<1>1. /\ Made(a1, "error_count", d.name, "all", ServerTags(d))
      /\ Made(a2, "error_count", "all", "all", ServerTags(d))
  BY CallFields, Zenon
<1>2. ServerSpans(d) = s \o t
  BY DEF ServerSpans
<1>3. Distinct(s) /\ Totalled(s) /\ \A a \in ToSet(s) : a.metric \in {"latency", "request_count"}
  BY SpansOfKind
<1> HIDE DEF a1, a2, s
<1>4. Distinct(t) /\ ToSet(t) \subseteq {a1, a2}
  <2>1. KeyOf(a1) # KeyOf(a2)
    BY <1>1, KeysDiffer
  <2>2. Distinct(<<a1, a2>>) /\ ToSet(<<a1, a2>>) = {a1, a2}
    BY <2>1, DistinctLists, ListSets
  <2> QED
    BY <2>2, DistinctWhen
<1> HIDE DEF t
<1>5. \A b \in ToSet(t) : b.metric = "error_count"
  BY <1>1, <1>4 DEF Made
<1>6. Distinct(s \o t) /\ ToSet(s \o t) = ToSet(s) \cup ToSet(t)
  <2>1. \A a \in ToSet(s), b \in ToSet(t) :
          a.metric # b.metric \/ a.name # b.name \/ a.at # b.at \/ a.tags # b.tags
    BY <1>3, <1>5
  <2> QED
    BY <1>3, <1>4, <2>1, ApartIf, DistinctConcat
<1>7. Totalled(s \o t)
  <2> SUFFICES ASSUME NEW a \in ToSet(s \o t), a.name = "all", CountsOf(a.metric) # {}
               PROVE  /\ \E b \in ToSet(s \o t) : /\ b.metric \in CountsOf(a.metric)
                                                  /\ KeyOf(b) = [KeyOf(a) EXCEPT !.metric = b.metric]
                      /\ \A b, c \in ToSet(s \o t) :
                           b.metric \in CountsOf(a.metric) /\ c.metric \in CountsOf(a.metric)
                           => b.metric = c.metric
    BY DEF Totalled
  <2>1. a \in ToSet(s) /\ a.metric = "latency"
    BY <1>3, <1>5, <1>6, CountsAre
  <2>2. \A b \in ToSet(s \o t) : b.metric \in CountsOf(a.metric) => b.metric = "request_count"
    BY <1>3, <1>5, <1>6, <2>1, CountsAre
  <2>3. \E b \in ToSet(s) : /\ b.metric \in CountsOf(a.metric)
                            /\ KeyOf(b) = [KeyOf(a) EXCEPT !.metric = b.metric]
    BY <1>3, <2>1 DEF Totalled
  <2> QED
    BY <1>6, <2>2, <2>3
<1> QED
  BY <1>2, <1>6, <1>7

\* for every kind of span.
LEMMA OtelAre ==
  ASSUME NEW d, d.name # "all"
  PROVE  LET s == OtelOutcome(d).updates IN Distinct(s) /\ Totalled(s)
<1>1. \A count \in {"request_count", "execution_count"} : \A tags :
        Distinct(Spans(count, d.name, tags)) /\ Totalled(Spans(count, d.name, tags))
  BY SpansOfKind
<1>2. Distinct(ClientSpans(d)) /\ Totalled(ClientSpans(d))
  BY <1>1, EmptyAre DEF ClientSpans
<1>3. Distinct(OtelUpdates(d)) /\ Totalled(OtelUpdates(d))
  <2>1. OtelUpdates(d) \in {<<>>, ServerSpans(d), ClientSpans(d), Spans("request_count", d.name, {d.kind}),
                            Spans("execution_count", d.name, {d.kind})}
    BY DEF OtelUpdates
  <2> QED
    BY <1>1, <1>2, <2>1, ServerSpansAre, EmptyAre
<1>4. OtelOutcome(d).updates \in {<<>>, OtelUpdates(d)}
  BY DEF OtelOutcome, Nothing, Outcome
<1> QED
  BY <1>3, <1>4, EmptyAre

(***************************************************************************)
(* Readings, each kept once for the host and once for the service.         *)
(***************************************************************************)

\* Readings are kept under no name; a list of them updates the metrics of M, each
\* of them once for the host and once for the service.
DistinctIn(s, M) ==
  Distinct(s) /\ \A a \in ToSet(s) : a.metric \in M /\ a.name = ""

\* Put together as Distinct is.
LEMMA InEmpty == \A M : DistinctIn(<<>>, M)
BY DistinctLists, ListSets DEF DistinctIn

LEMMA InWhen ==
  ASSUME NEW condition \in BOOLEAN, NEW s, NEW M, condition => DistinctIn(s, M)
  PROVE  DistinctIn(When(condition, s), M)
BY InEmpty DEF When

LEMMA InConcat ==
  ASSUME NEW s, NEW t, NEW M, NEW N, DistinctIn(s, M), DistinctIn(t, N), M \cap N = {}
  PROVE  DistinctIn(s \o t, M \cup N)
<1>1. \A a \in ToSet(s), b \in ToSet(t) :
        a.metric # b.metric \/ a.name # b.name \/ a.at # b.at \/ a.tags # b.tags
  BY DEF DistinctIn
<1>2. Distinct(s \o t) /\ ToSet(s \o t) = ToSet(s) \cup ToSet(t)
  BY <1>1, ApartIf, DistinctConcat DEF DistinctIn
<1> QED
  BY <1>2 DEF DistinctIn

\* One for the host, if it is asked for, and one for the service.
LEMMA InHostAndService ==
  ASSUME NEW condition, NEW host, NEW service, NEW metric,
         Made(host, metric, "", "host", {}), Made(service, metric, "", "all", {})
  PROVE  DistinctIn(When(condition, <<host>>) \o <<service>>, {metric})
<1> DEFINE s == When(condition, <<host>>)
           t == <<service>>
<1>0. /\ Distinct(<<host>>) /\ ToSet(<<host>>) = {host}
      /\ Distinct(<<service>>) /\ ToSet(<<service>>) = {service}
  BY DistinctLists, ListSets, Zenon
<1>1. Distinct(s) /\ ToSet(s) \subseteq {host} /\ Distinct(t) /\ ToSet(t) = {service}
  BY <1>0, DistinctWhen
<1> HIDE DEF s, t
<1>2. \A a \in ToSet(s), b \in ToSet(t) :
        a.metric # b.metric \/ a.name # b.name \/ a.at # b.at \/ a.tags # b.tags
  BY <1>1 DEF Made
<1>3. Apart(s, t)
  BY <1>2, ApartIf
<1>4. Distinct(s \o t) /\ ToSet(s \o t) = ToSet(s) \cup ToSet(t)
  BY <1>1, <1>3, DistinctConcat
<1>5. DistinctIn(s \o t, {metric})
  BY <1>1, <1>4 DEF DistinctIn, Made
<1> QED
  BY <1>5 DEF s, t

\* A reading is one metric,
LEMMA ReadingIn ==
  ASSUME NEW d, NEW fn, NEW metric PROVE DistinctIn(Reading(d, fn, metric), {metric})
<1> DEFINE host == AtOnce(Call("replace", metric, "", "host", {}))
           service == Call(fn, metric, "", "all", {})
<1>1. Made(host, metric, "", "host", {}) /\ Made(service, metric, "", "all", {})
  BY CallFields, Zenon
<1>2. Reading(d, fn, metric) = When(d.team \in CollectSystem, <<host>>) \o <<service>>
  BY DEF Reading
<1> HIDE DEF host, service
<1> QED
  BY <1>1, <1>2, InHostAndService

\* also with functions of its own,
LEMMA BothIn ==
  ASSUME NEW d, NEW host, NEW fn, NEW metric, Made(host, metric, "", "host", {})
  PROVE  DistinctIn(Both(d, host, fn, metric), {metric})
<1> DEFINE service == Call(fn, metric, "", "all", {})
<1>1. Made(service, metric, "", "all", {})
  BY CallFields, Zenon
<1>2. Both(d, host, fn, metric) = When(d.team \in CollectSystem, <<host>>) \o <<service>>
  BY DEF Both
<1> HIDE DEF service
<1> QED
  BY <1>1, <1>2, InHostAndService

LEMMA OfHostMade ==
  \A fn, metric : /\ Made(OfHost(fn, metric), metric, "", "host", {})
                  /\ Made(AtOnce(OfHost(fn, metric)), metric, "", "host", {})
BY CallFields, Zenon DEF OfHost

\* and a list of readings that differ is distinct, flattened.
LEMMA InFlat ==
  ASSUME NEW n \in Nat \ {0}, NEW ss, ss = [i \in 1..n |-> ss[i]], NEW r,
         \A i \in 1..n : DistinctIn(ss[i], {r[i]}),
         \A i, j \in 1..n : r[i] = r[j] => i = j, NEW M, \A i \in 1..n : r[i] \in M
  PROVE  DistinctIn(FlattenSeq(ss), M)
<1>0. Len(ss) = n
  <2>1. ss \in [1..n -> {ss[i] : i \in 1..n}]
    OBVIOUS
  <2>2. ss \in Seq({ss[i] : i \in 1..n})
    BY <2>1, SeqDef
  <2> QED
    BY <2>2
<1> DEFINE f == CHOOSE g : Flattening(g, ss, n)
<1>1. Flattening(f, ss, n)
  BY FlatteningExists
<1>2. FlattenSeq(ss) = f[n]
  BY <1>0 DEF FlattenSeq, Flattening
<1> HIDE DEF f
<1>3. \A i \in 1..n : f[i] = IF i = 1 THEN ss[i] ELSE f[i - 1] \o ss[i]
  BY <1>1 DEF Flattening
<1> DEFINE R(k) == {r[i] : i \in 1..k}
           T == {k \in Nat : k \in 1..n => DistinctIn(f[k], R(k))}
<1>4. 0 \in T
  OBVIOUS
<1>5. ASSUME NEW k \in Nat, k \in T PROVE k + 1 \in T
  <2>1. CASE k = 0
    <3>1. f[1] = ss[1] /\ R(1) = {r[1]}
      BY <1>3
    <3>2. DistinctIn(f[1], R(1))
      BY <3>1
    <3> QED
      BY <2>1, <3>2
  <2>2. CASE k # 0 /\ k + 1 \in 1..n
    <3>1. DistinctIn(f[k], R(k)) /\ DistinctIn(ss[k + 1], {r[k + 1]})
      BY <1>5, <2>2
    <3>2. f[k + 1] = f[k] \o ss[k + 1]
      <4>1. k + 1 # 1 /\ (k + 1) - 1 = k
        BY <2>2
      <4> QED
        BY <1>3, <2>2, <4>1
    <3>3. R(k) \cap {r[k + 1]} = {} /\ R(k) \cup {r[k + 1]} = R(k + 1)
      <4>1. 1..(k + 1) = 1..k \cup {k + 1} /\ \A i \in 1..k : i \in 1..n /\ i # k + 1
        BY <2>2
      <4> QED
        BY <2>2, <4>1
    <3> HIDE DEF R
    <3>4. DistinctIn(f[k + 1], R(k + 1))
      BY <3>1, <3>2, <3>3, InConcat
    <3> QED
      BY <3>4
  <2>3. CASE k + 1 \notin 1..n
    BY <2>3
  <2> QED
    BY <2>1, <2>2, <2>3
<1> HIDE DEF T
<1>6. n \in T
  BY <1>4, <1>5, EveryNumber
<1>7. DistinctIn(FlattenSeq(ss), R(n))
  BY <1>2, <1>6 DEF T
<1> QED
  BY <1>7 DEF DistinctIn

\* What is in a list of readings.
Of(list) == {list[i] : i \in 1..Len(list)}

\* The readings that the handlers list all differ.
LEMMA ReadingLists ==
  /\ Len(System) = 5 /\ Len(Memory) = 6 /\ Len(NodeHeap) = 2
  /\ \A i, j \in 1..5 : System[i] = System[j] => i = j
  /\ \A i, j \in 1..6 : Memory[i] = Memory[j] => i = j
  /\ \A i, j \in 1..2 : NodeHeap[i] = NodeHeap[j] => i = j
  /\ \A i \in 1..5 : System[i] \in
       {"system - memory - total", "system - memory - free",
        "system - process - cpu - total - pct", "system - process - memory - size",
        "system - cpu - total - pct"}
  /\ \A i \in 1..6 : Memory[i] \in
       {"jvm - memory - heap - committed", "jvm - memory - heap - used",
        "jvm - memory - heap - max", "jvm - memory - non_heap - committed",
        "jvm - memory - non_heap - used", "jvm - memory - non_heap - max"}
  /\ \A i \in 1..2 : NodeHeap[i] \in {"nodejs - memory - heap - used", "nodejs - memory - heap - allocated"}
<1>1. \A i \in 1..5 : i \in {1, 2, 3, 4, 5}
  OBVIOUS
<1>2. \A i \in 1..6 : i \in {1, 2, 3, 4, 5, 6}
  OBVIOUS
<1>3. \A i \in 1..2 : i \in {1, 2}
  OBVIOUS
<1>4. Len(System) = 5 /\ Len(Memory) = 6 /\ Len(NodeHeap) = 2
  BY ListsAre
<1>5. /\ System[1] = "system - memory - total" /\ System[2] = "system - memory - free"
      /\ System[3] = "system - process - cpu - total - pct"
      /\ System[4] = "system - process - memory - size" /\ System[5] = "system - cpu - total - pct"
  BY DEF System
<1>6. /\ Memory[1] = "jvm - memory - heap - committed" /\ Memory[2] = "jvm - memory - heap - used"
      /\ Memory[3] = "jvm - memory - heap - max" /\ Memory[4] = "jvm - memory - non_heap - committed"
      /\ Memory[5] = "jvm - memory - non_heap - used" /\ Memory[6] = "jvm - memory - non_heap - max"
  BY DEF Memory
<1>7. NodeHeap[1] = "nodejs - memory - heap - used" /\ NodeHeap[2] = "nodejs - memory - heap - allocated"
  BY DEF NodeHeap
<1>8. \A i, j \in 1..5 : System[i] = System[j] => i = j
  BY <1>1, <1>5
<1>9. \A i, j \in 1..6 : Memory[i] = Memory[j] => i = j
  BY <1>2, <1>6
<1>10. \A i, j \in 1..2 : NodeHeap[i] = NodeHeap[j] => i = j
  BY <1>3, <1>7
<1>11. \A i \in 1..5 : System[i] \in
       {"system - memory - total", "system - memory - free",
        "system - process - cpu - total - pct", "system - process - memory - size",
        "system - cpu - total - pct"}
  BY <1>1, <1>5
<1>12. \A i \in 1..6 : Memory[i] \in
       {"jvm - memory - heap - committed", "jvm - memory - heap - used",
        "jvm - memory - heap - max", "jvm - memory - non_heap - committed",
        "jvm - memory - non_heap - used", "jvm - memory - non_heap - max"}
  BY <1>2, <1>6
<1>13. \A i \in 1..2 : NodeHeap[i] \in
         {"nodejs - memory - heap - used", "nodejs - memory - heap - allocated"}
  BY <1>3, <1>7
<1> QED
  BY <1>4, <1>8, <1>9, <1>10, <1>11, <1>12, <1>13

\* What the groups of readings are about.
OfSystem == Of(System)
OfJvm    == {Thread} \cup Of(Memory)
OfGc     == {GcTime, GcCount, GcAlloc}
OfNode   == Of(NodeHeap) \cup {EventLoop}
OfGolang == {GoHeap, GoPause, GoCount, Routines}

\* No reading is in two groups.
LEMMA GroupsApart ==
  /\ OfSystem \cap OfJvm = {} /\ (OfSystem \cup OfJvm) \cap OfGc = {}
  /\ (OfSystem \cup OfJvm \cup OfGc) \cap OfNode = {}
  /\ (OfSystem \cup OfJvm \cup OfGc \cup OfNode) \cap OfGolang = {}
  /\ Thread \notin Of(Memory) /\ EventLoop \notin Of(NodeHeap)
<1>1. Of(System) \subseteq
       {"system - memory - total", "system - memory - free",
        "system - process - cpu - total - pct", "system - process - memory - size",
        "system - cpu - total - pct"}
  BY ReadingLists DEF Of
<1>2. Of(Memory) \subseteq
       {"jvm - memory - heap - committed", "jvm - memory - heap - used",
        "jvm - memory - heap - max", "jvm - memory - non_heap - committed",
        "jvm - memory - non_heap - used", "jvm - memory - non_heap - max"}
  BY ReadingLists DEF Of
<1>3. Of(NodeHeap) \subseteq {"nodejs - memory - heap - used", "nodejs - memory - heap - allocated"}
  BY ReadingLists DEF Of
<1> HIDE DEF Of
<1> USE DEF OfSystem, OfJvm, OfGc, OfNode, OfGolang, Thread, GcTime, GcCount, GcAlloc, EventLoop,
            GoHeap, GoPause, GoCount, Routines
<1>4. OfSystem \cap OfJvm = {} /\ (OfSystem \cup OfJvm) \cap OfGc = {}
  BY <1>1, <1>2
<1>5. (OfSystem \cup OfJvm \cup OfGc) \cap OfNode = {}
  BY <1>1, <1>2, <1>3
<1>6. (OfSystem \cup OfJvm \cup OfGc \cup OfNode) \cap OfGolang = {}
  BY <1>1, <1>2, <1>3
<1>7. Thread \notin Of(Memory) /\ EventLoop \notin Of(NodeHeap)
  BY <1>2, <1>3
<1> QED
  BY <1>4, <1>5, <1>6, <1>7

\* The groups of both layouts, each within its own metrics,
LEMMA SystemIn ==
  ASSUME NEW d
  PROVE  DistinctIn(FlatSystem(d), OfSystem) /\ DistinctIn(NestedSystem(d), OfSystem)
<1> DEFINE n == Len(System)
           s == [i \in 1..n |-> When(Has(d, System[i]), Reading(d, "numeric", System[i]))]
           t == [i \in 1..n |-> When(Reached(d, System[i]), Reading(d, "numeric", System[i]))]
<1>1. \A i \in 1..n : DistinctIn(s[i], {System[i]}) /\ DistinctIn(t[i], {System[i]})
  BY ReadingIn, InWhen DEF When
<1>2. FlatSystem(d) = FlattenSeq(s) /\ NestedSystem(d) = FlattenSeq(t)
  BY DEF FlatSystem, NestedSystem, Each
<1>3. s = [i \in 1..n |-> s[i]] /\ t = [i \in 1..n |-> t[i]]
  OBVIOUS
<1>4. n \in Nat \ {0} /\ \A i, j \in 1..n : System[i] = System[j] => i = j
  <2>1. Len(System) = 5
    BY ReadingLists
  <2>2. \A i, j \in 1..5 : System[i] = System[j] => i = j
    BY ReadingLists
  <2> QED
    BY <2>1, <2>2
<1>5. \A i \in 1..n : System[i] \in OfSystem
  BY DEF OfSystem, Of
<1> HIDE DEF s, t, n
<1>6. DistinctIn(FlattenSeq(s), OfSystem)
  BY <1>1, <1>3, <1>4, <1>5, InFlat
<1>7. DistinctIn(FlattenSeq(t), OfSystem)
  BY <1>1, <1>3, <1>4, <1>5, InFlat
<1> QED
  BY <1>2, <1>6, <1>7

LEMMA MemoryIn ==
  ASSUME NEW d
  PROVE  LET n == Len(Memory)
             s == [i \in 1..n |-> When(Has(d, Memory[i]), Reading(d, "average", Memory[i]))]
             t == [i \in 1..n |-> When(Reached(d, Memory[i]), Reading(d, "average", Memory[i]))]
         IN  DistinctIn(FlattenSeq(s), Of(Memory)) /\ DistinctIn(FlattenSeq(t), Of(Memory))
<1> DEFINE n == Len(Memory)
           s == [i \in 1..n |-> When(Has(d, Memory[i]), Reading(d, "average", Memory[i]))]
           t == [i \in 1..n |-> When(Reached(d, Memory[i]), Reading(d, "average", Memory[i]))]
<1>1. \A i \in 1..n : DistinctIn(s[i], {Memory[i]}) /\ DistinctIn(t[i], {Memory[i]})
  BY ReadingIn, InWhen DEF When
<1>2. s = [i \in 1..n |-> s[i]] /\ t = [i \in 1..n |-> t[i]]
  OBVIOUS
<1>3. n \in Nat \ {0} /\ \A i, j \in 1..n : Memory[i] = Memory[j] => i = j
  <2>1. Len(Memory) = 6
    BY ReadingLists
  <2>2. \A i, j \in 1..6 : Memory[i] = Memory[j] => i = j
    BY ReadingLists
  <2> QED
    BY <2>1, <2>2
<1>4. \A i \in 1..n : Memory[i] \in Of(Memory)
  BY DEF Of
<1> HIDE DEF s, t, n
<1>5. DistinctIn(FlattenSeq(s), Of(Memory))
  BY <1>1, <1>2, <1>3, <1>4, InFlat
<1>6. DistinctIn(FlattenSeq(t), Of(Memory))
  BY <1>1, <1>2, <1>3, <1>4, InFlat
<1> QED
  BY <1>5, <1>6 DEF s, t, n

LEMMA HeapIn ==
  ASSUME NEW d
  PROVE  LET n == Len(NodeHeap)
             s == [i \in 1..n |-> When(Has(d, NodeHeap[i]), Reading(d, "average", NodeHeap[i]))]
         IN  DistinctIn(FlattenSeq(s), Of(NodeHeap))
<1> DEFINE n == Len(NodeHeap)
           s == [i \in 1..n |-> When(Has(d, NodeHeap[i]), Reading(d, "average", NodeHeap[i]))]
<1>1. \A i \in 1..n : DistinctIn(s[i], {NodeHeap[i]})
  BY ReadingIn, InWhen DEF When
<1>2. s = [i \in 1..n |-> s[i]]
  OBVIOUS
<1>3. n \in Nat \ {0} /\ \A i, j \in 1..n : NodeHeap[i] = NodeHeap[j] => i = j
  <2>1. Len(NodeHeap) = 2
    BY ReadingLists
  <2>2. \A i, j \in 1..2 : NodeHeap[i] = NodeHeap[j] => i = j
    BY ReadingLists
  <2> QED
    BY <2>1, <2>2
<1>4. \A i \in 1..n : NodeHeap[i] \in Of(NodeHeap)
  BY DEF Of
<1> HIDE DEF s, n
<1>5. DistinctIn(FlattenSeq(s), Of(NodeHeap))
  BY <1>1, <1>2, <1>3, <1>4, InFlat
<1> QED
  BY <1>5 DEF s, n

LEMMA JvmIn ==
  ASSUME NEW d
  PROVE  DistinctIn(FlatJvm(d), OfJvm) /\ DistinctIn(NestedJvm(d), OfJvm)
<1> DEFINE first == When(Has(d, Thread), Reading(d, "numeric", Thread))
           s == FlattenSeq([i \in 1..Len(Memory) |->
                  When(Has(d, Memory[i]), Reading(d, "average", Memory[i]))])
           t == FlattenSeq([i \in 1..Len(Memory) |->
                  When(Reached(d, Memory[i]), Reading(d, "average", Memory[i]))])
<1>1. DistinctIn(first, {Thread})
  BY ReadingIn, InWhen DEF When
<1>2. DistinctIn(s, Of(Memory)) /\ DistinctIn(t, Of(Memory))
  BY MemoryIn
<1>3. FlatJvm(d) = first \o s /\ NestedJvm(d) = first \o t
  BY DEF FlatJvm, NestedJvm, Each
<1>4. {Thread} \cap Of(Memory) = {}
  BY GroupsApart
<1> HIDE DEF first, s, t
<1>5. DistinctIn(first \o s, {Thread} \cup Of(Memory))
  BY <1>1, <1>2, <1>4, InConcat
<1>6. DistinctIn(first \o t, {Thread} \cup Of(Memory))
  BY <1>1, <1>2, <1>4, InConcat
<1> QED
  BY <1>3, <1>5, <1>6 DEF OfJvm

LEMMA GcIn ==
  ASSUME NEW d
  PROVE  DistinctIn(FlatGc(d), OfGc) /\ NestedGc(d) = FlatGc(d)
<1> DEFINE s1 == Both(d, OfHost("numeric", GcTime), "numeric", GcTime)
           s2 == Both(d, AtOnce(OfHost("counter", GcCount)), "average", GcCount)
           s3 == Both(d, AtOnce(OfHost("numeric", GcAlloc)), "average", GcAlloc)
           s  == When(Has(d, GcTime) /\ Has(d, GcCount), s1 \o s2)
           t  == When(Has(d, GcAlloc), s3)
<1>1. DistinctIn(s1, {GcTime}) /\ DistinctIn(s2, {GcCount}) /\ DistinctIn(s3, {GcAlloc})
  BY BothIn, OfHostMade, Zenon
<1>2. FlatGc(d) = s \o t /\ NestedGc(d) = FlatGc(d)
  BY DEF FlatGc, NestedGc
<1>3. {GcTime} \cap {GcCount} = {} /\ {GcTime, GcCount} \cap {GcAlloc} = {}
  BY DEF GcTime, GcCount, GcAlloc
<1> HIDE DEF s1, s2, s3
<1>4. DistinctIn(s1 \o s2, {GcTime} \cup {GcCount})
  BY <1>1, <1>3, InConcat
<1>5. DistinctIn(s, {GcTime, GcCount})
  <2>1. {GcTime, GcCount} = {GcTime} \cup {GcCount}
    OBVIOUS
  <2> QED
    BY <1>4, <2>1, InEmpty DEF When
<1>6. DistinctIn(t, {GcAlloc})
  BY <1>1, InEmpty DEF When
<1> HIDE DEF s, t
<1>7. DistinctIn(s \o t, {GcTime, GcCount} \cup {GcAlloc})
  BY <1>3, <1>5, <1>6, InConcat
<1>8. OfGc = {GcTime, GcCount} \cup {GcAlloc}
  BY DEF OfGc
<1> QED
  BY <1>2, <1>7, <1>8

LEMMA NodeIn ==
  ASSUME NEW d
  PROVE  DistinctIn(FlatNode(d), OfNode) /\ NestedNode(d) = FlatNode(d)
<1> DEFINE s == FlattenSeq([i \in 1..Len(NodeHeap) |->
                  When(Has(d, NodeHeap[i]), Reading(d, "average", NodeHeap[i]))])
           b == Both(d, OfHost("histogram", EventLoop), "histogram", EventLoop)
           t == When(Has(d, EventLoop), b)
<1>1. DistinctIn(b, {EventLoop})
  BY BothIn, OfHostMade, Zenon
<1>2. DistinctIn(s, Of(NodeHeap))
  BY HeapIn
<1>3. FlatNode(d) = s \o t /\ NestedNode(d) = FlatNode(d)
  BY DEF FlatNode, NestedNode, Each
<1>4. Of(NodeHeap) \cap {EventLoop} = {}
  BY GroupsApart
<1> HIDE DEF s, b
<1>5. DistinctIn(t, {EventLoop})
  BY <1>1, InEmpty DEF When
<1> HIDE DEF t
<1>6. DistinctIn(s \o t, Of(NodeHeap) \cup {EventLoop})
  BY <1>2, <1>4, <1>5, InConcat
<1> QED
  BY <1>3, <1>6 DEF OfNode

LEMMA GoIn == ASSUME NEW d PROVE DistinctIn(GoReadings(d), OfGolang)
<1> DEFINE s1 == Both(d, AtOnce(OfHost("counter", GoPause)), "counter", GoPause)
           s2 == Both(d, AtOnce(OfHost("counter", GoCount)), "counter", GoCount)
           s3 == Both(d, AtOnce(OfHost("average", Routines)), "average", Routines)
           t1 == When(Has(d, GoHeap), Reading(d, "average", GoHeap))
           t2 == When(Has(d, GoPause) /\ Has(d, GoCount), s1 \o s2)
           t3 == When(Has(d, Routines), s3)
<1>1. DistinctIn(s1, {GoPause}) /\ DistinctIn(s2, {GoCount}) /\ DistinctIn(s3, {Routines})
  BY BothIn, OfHostMade, Zenon
<1>2. DistinctIn(t1, {GoHeap})
  BY ReadingIn, InEmpty DEF When
<1>3. GoReadings(d) = t1 \o t2 \o t3
  BY DEF GoReadings
<1>4. /\ {GoPause} \cap {GoCount} = {} /\ {GoHeap} \cap {GoPause, GoCount} = {}
      /\ {GoHeap, GoPause, GoCount} \cap {Routines} = {}
  BY DEF GoHeap, GoPause, GoCount, Routines
<1> HIDE DEF s1, s2, s3, t1
<1>5. DistinctIn(t2, {GoPause, GoCount})
  <2>1. DistinctIn(s1 \o s2, {GoPause} \cup {GoCount})
    BY <1>1, <1>4, InConcat
  <2>2. {GoPause, GoCount} = {GoPause} \cup {GoCount}
    OBVIOUS
  <2> QED
    BY <2>1, <2>2, InEmpty DEF When
<1>6. DistinctIn(t3, {Routines})
  BY <1>1, InEmpty DEF When
<1> HIDE DEF t2, t3
<1>7. DistinctIn(t1 \o t2, {GoHeap} \cup {GoPause, GoCount})
  BY <1>2, <1>4, <1>5, InConcat
<1>8. {GoHeap} \cup {GoPause, GoCount} = {GoHeap, GoPause, GoCount}
  OBVIOUS
<1>9. DistinctIn(t1 \o t2 \o t3, {GoHeap, GoPause, GoCount} \cup {Routines})
  BY <1>4, <1>6, <1>7, <1>8, InConcat
<1>10. OfGolang = {GoHeap, GoPause, GoCount} \cup {Routines}
  BY DEF OfGolang
<1> QED
  BY <1>3, <1>9, <1>10

\* and so what is made of a document of telemetry is distinct.
LEMMA ReadingsAre ==
  ASSUME NEW d
  PROVE  LET s == ReadingOutcome(d).updates IN Distinct(s) /\ Totalled(s)
<1> DEFINE flat == FlatSystem(d) \o FlatJvm(d) \o FlatGc(d) \o FlatNode(d)
           most == NestedSystem(d) \o NestedJvm(d) \o NestedGc(d) \o NestedNode(d)
           M == OfSystem \cup OfJvm \cup OfGc \cup OfNode
<1>1. DistinctIn(flat, M)
  <2>1. DistinctIn(FlatSystem(d) \o FlatJvm(d), OfSystem \cup OfJvm)
    BY SystemIn, JvmIn, GroupsApart, InConcat
  <2>2. DistinctIn(FlatSystem(d) \o FlatJvm(d) \o FlatGc(d), OfSystem \cup OfJvm \cup OfGc)
    BY <2>1, GcIn, GroupsApart, InConcat
  <2> QED
    BY <2>2, NodeIn, GroupsApart, InConcat
<1>2. DistinctIn(most, M)
  <2>1. DistinctIn(NestedSystem(d) \o NestedJvm(d), OfSystem \cup OfJvm)
    BY SystemIn, JvmIn, GroupsApart, InConcat
  <2>2. DistinctIn(NestedSystem(d) \o NestedJvm(d) \o NestedGc(d), OfSystem \cup OfJvm \cup OfGc)
    BY <2>1, GcIn, GroupsApart, InConcat
  <2> QED
    BY <2>2, NodeIn, GroupsApart, InConcat
<1>3. ReadingOutcome(d).updates \in {<<>>, flat, most \o GoReadings(d)}
  BY DEF ReadingOutcome, Nothing, Outcome
<1>4. M \cap OfGolang = {}
  BY GroupsApart
<1> HIDE DEF flat, most, M
<1>5. DistinctIn(most \o GoReadings(d), M \cup OfGolang)
  BY <1>2, <1>4, GoIn, InConcat
<1>6. \A s, N : DistinctIn(s, N) => Distinct(s) /\ Totalled(s)
  BY DEF DistinctIn, Totalled
<1> QED
  BY <1>1, <1>3, <1>5, <1>6, EmptyAre

(***************************************************************************)
(* What the handlers make of a message.                                    *)
(***************************************************************************)

\* What is known of the names of a message that is not left out by OwnName.
LEMMA NamesAre ==
  ASSUME NEW n \in DOMAIN Messages, OwnName(n)
  PROVE  LET d == Messages[n].doc
         IN  /\ "all" \notin {d.name, Subtype(d)} /\ d.name # "all" /\ d.name # Subtype(d)
             /\ Operation(d) \notin {"all", Subtype(d), d.name} /\ d.code \in Nat
<1> DEFINE d == Messages[n].doc
<1>1. /\ "all" \notin {d.subtype, "unknown"} \cup ToSet(d.parts) \cup {d.name}
      /\ d.name \notin {d.subtype, "unknown"} \cup ToSet(d.parts)
  BY DEF OwnName
<1>2. /\ d.parts \in Seq(ToSet(d.parts)) /\ d.code \in Nat
      /\ Operation(d) \notin {"all", Subtype(d), d.name}
  BY NamesAssumption
<1> HIDE DEF d
<1>3. Len(d.parts) > 1 => d.parts[2] \in ToSet(d.parts)
  <2>1. Len(d.parts) \in Nat /\ DOMAIN d.parts = 1..Len(d.parts)
    BY <1>2
  <2> QED
    BY <2>1 DEF ToSet
<1>4. Subtype(d) \in {d.subtype, "unknown"} \cup ToSet(d.parts)
  BY <1>3 DEF Subtype
<1>5. "all" \notin {d.name, Subtype(d)} /\ d.name # "all" /\ d.name # Subtype(d)
  BY <1>1, <1>4
<1> QED
  BY <1>2, <1>5 DEF d

\* Whatever the kind of a message.
LEMMA HandledTotalled ==
  ASSUME NEW n \in Handled, OwnName(n)
  PROVE  Distinct(Updates(n)) /\ Totalled(Updates(n))
<1> DEFINE m == Messages[n]
<1>1. /\ "all" \notin {m.doc.name, Subtype(m.doc)} /\ m.doc.name # "all" /\ m.doc.name # Subtype(m.doc)
      /\ Operation(m.doc) \notin {"all", Subtype(m.doc), m.doc.name} /\ m.doc.code \in Nat
  BY NamesAre DEF Handled
<1>2. CASE m.form = "otlp"
  BY <1>1, <1>2, HandledAre, OtelAre
<1>3. CASE m.form # "otlp"
  <2>1. LET s == Handle(m.event, m.doc, FALSE).updates IN Distinct(s) /\ Totalled(s)
    <3>1. CASE m.event = "metric"
      BY <3>1, ReadingsAre DEF Handle
    <3>2. CASE m.event = "transaction"
      BY <1>1, <3>2, TransactionsAre DEF Handle
    <3>3. CASE m.event = "span"
      BY <1>1, <3>3, SpansAre DEF Handle
    <3>4. CASE m.event = "error"
      BY <3>4, ErrorsOfAgents DEF Handle
    <3>5. CASE m.event \notin {"metric", "transaction", "span", "error"}
      BY <3>5, EmptyAre DEF Handle, Nothing, Outcome
    <3> QED
      BY <3>1, <3>2, <3>3, <3>4, <3>5
  <2>2. Updates(n) = Handle(m.event, m.doc, FALSE).updates \o <<>>
    BY <1>3, HandledAre
  <2> HIDE DEF m
  <2>3. \A s : Distinct(s) => s \o <<>> = s
    BY ConcatEmptySeq DEF Distinct
  <2> QED
    BY <2>1, <2>2, <2>3
<1> QED
  BY <1>2, <1>3

\* A metric that is updated is updated once.
LEMMA OnceEach ==
  ASSUME NEW s, Distinct(s), NEW k \in DOMAIN s
  PROVE  Cardinality({j \in DOMAIN s : KeyOf(s[j]) = KeyOf(s[k])}) = 1
<1>1. {j \in DOMAIN s : KeyOf(s[j]) = KeyOf(s[k])} = {k}
  BY DEF Distinct
<1> QED
  BY <1>1, FS_Singleton

\* All messages, not only those of a scenario.
LEMMA EveryoneSingle == Handled \subseteq Single
<1> SUFFICES ASSUME NEW n \in Handled, OwnName(n), NEW k \in DOMAIN Updates(n)
             PROVE  Times(n, KeyOf(Updates(n)[k])) = 1
  BY DEF Single
<1> DEFINE s == Updates(n)
<1>1. Distinct(s)
  BY HandledTotalled
<1> HIDE DEF s
<1>2. \A k2 \in DOMAIN s : Cardinality({j \in DOMAIN s : KeyOf(s[j]) = KeyOf(s[k2])}) = 1
  BY <1>1, OnceEach
<1> QED
  BY <1>2 DEF Times, s

\* Whatever a document holds, no metric is updated twice on its account, unless
\* its own name is "all" or its subtype.
THEOREM NoneTwice == Spec => []NoMetricTwice
<1>1. NoMetricTwice
  BY EveryoneSingle DEF NoMetricTwice, Taken
<1> QED
  BY <1>1, PTL

\* A latency has at most one kind of errors.
LEMMA ErrorsAreOne == \A metric : \A a, b \in ErrorsOf(metric) : a = b
BY DEF ErrorsOf

\* There is one count beside a total latency, so there are as many as
\* latencies; an error that was counted is one at most.
LEMMA EveryoneAgrees == Handled \subseteq Agreeing
<1> SUFFICES ASSUME NEW n \in Handled, OwnName(n), NEW k \in DOMAIN Updates(n),
                    KeyOf(Updates(n)[k]).name = "all",
                    CountsOf(KeyOf(Updates(n)[k]).metric) # {}
             PROVE  LET key == KeyOf(Updates(n)[k])
                    IN  /\ Beside(n, key, CountsOf(key.metric)) = Times(n, key)
                        /\ Beside(n, key, ErrorsOf(key.metric)) <= Times(n, key)
  BY DEF Agreeing
<1> DEFINE s == Updates(n)
           a == s[k]
           key == KeyOf(s[k])
           Updated(metrics) == {j \in DOMAIN s : KeyOf(s[j]) \in {[key EXCEPT !.metric = metric] : metric \in metrics}}
<1>1. Distinct(s) /\ Totalled(s)
  BY HandledTotalled
<1>2. Times(n, key) = 1
  BY EveryoneSingle DEF Single
<1>3. \A metrics : Beside(n, key, metrics) = Cardinality(Updated(metrics))
  BY DEF Beside
<1>4. k \in DOMAIN s /\ key.name = "all" /\ CountsOf(key.metric) # {}
  OBVIOUS
<1> HIDE DEF s
<1>5. a \in ToSet(s) /\ a.name = "all" /\ key.metric = a.metric
  BY <1>4 DEF ToSet, KeyOf
<1>6. ASSUME NEW metric, NEW j \in DOMAIN s, KeyOf(s[j]) = [key EXCEPT !.metric = metric]
      PROVE  s[j].metric = metric
  <2>1. [key EXCEPT !.metric = metric].metric = metric
    BY DEF KeyOf
  <2>2. KeyOf(s[j]).metric = s[j].metric
    BY DEF KeyOf
  <2> QED
    BY <1>6, <2>1, <2>2
<1> HIDE DEF key, a
<1>7. Cardinality(Updated(CountsOf(key.metric))) = 1
  <2>1. PICK b \in ToSet(s) : b.metric \in CountsOf(key.metric) /\ KeyOf(b) = [key EXCEPT !.metric = b.metric]
    BY <1>1, <1>4, <1>5 DEF Totalled, key, a
  <2>2. PICK i \in DOMAIN s : b = s[i]
    BY <2>1 DEF ToSet
  <2>3. i \in Updated(CountsOf(key.metric))
    BY <2>1, <2>2
  <2>4. ASSUME NEW j \in Updated(CountsOf(key.metric)) PROVE j = i
    <3>1. PICK metric \in CountsOf(key.metric) : KeyOf(s[j]) = [key EXCEPT !.metric = metric]
      BY <2>4
    <3>2. s[j].metric = metric
      BY <1>6, <2>4, <3>1
    <3>3. s[j] \in ToSet(s)
      BY <2>4 DEF ToSet
    <3>4. metric = b.metric
      BY <1>1, <1>4, <1>5, <2>1, <3>1, <3>2, <3>3 DEF Totalled
    <3>5. KeyOf(s[j]) = KeyOf(s[i])
      BY <2>1, <2>2, <3>1, <3>4
    <3> QED
      BY <1>1, <2>2, <2>4, <3>5 DEF Distinct
  <2>5. Updated(CountsOf(key.metric)) = {i}
    BY <2>3, <2>4
  <2> QED
    BY <2>5, FS_Singleton
<1>8. Cardinality(Updated(ErrorsOf(key.metric))) <= 1
  <2>1. ASSUME NEW i \in Updated(ErrorsOf(key.metric)), NEW j \in Updated(ErrorsOf(key.metric)) PROVE i = j
    <3>1. KeyOf(s[i]) = KeyOf(s[j])
      BY <2>1, ErrorsAreOne
    <3> QED
      BY <1>1, <2>1, <3>1 DEF Distinct
  <2>2. CASE Updated(ErrorsOf(key.metric)) = {}
    BY <2>2, FS_EmptySet
  <2>3. CASE Updated(ErrorsOf(key.metric)) # {}
    <3>1. PICK i : i \in Updated(ErrorsOf(key.metric))
      BY <2>3
    <3>2. Updated(ErrorsOf(key.metric)) = {i}
      BY <2>1, <3>1
    <3>3. Cardinality({i}) = 1
      BY FS_Singleton
    <3>4. Cardinality(Updated(ErrorsOf(key.metric))) = 1
      BY <3>2, <3>3
    <3> QED
      BY <3>4
  <2> QED
    BY <2>2, <2>3
<1> HIDE DEF Updated
<1>9. Beside(n, key, CountsOf(key.metric)) = Times(n, key) /\ Beside(n, key, ErrorsOf(key.metric)) <= Times(n, key)
  BY <1>2, <1>3, <1>7, <1>8
<1> QED
  BY <1>9 DEF key, s

\* Whatever a document holds, beside each total latency there is exactly one
\* count and at most one error, unless its own name is "all" or its subtype.
THEOREM TotalsAlwaysAgree == Spec => []TotalsAgree
<1>1. TotalsAgree
  BY EveryoneAgrees DEF TotalsAgree, Taken
<1> QED
  BY <1>1, PTL

(***************************************************************************)
(* The two layouts.                                                        *)
(***************************************************************************)

\* Of the updates t, those are in s that are about a reading of P, and none of
\* them is about one outside Q.
Selected(s, t, P, Q) ==
  /\ s \in Seq(ToSet(s)) /\ t \in Seq(ToSet(t))
  /\ ToSet(s) = {call \in ToSet(t) : call.metric \in P}
  /\ \A call \in ToSet(t) : call.metric \in Q

\* Put together as lists of updates are: one after another,
LEMMA SelectedConcat ==
  ASSUME NEW P, NEW Q, NEW s1, NEW t1, NEW s2, NEW t2,
         Selected(s1, t1, P, Q), Selected(s2, t2, P, Q)
  PROVE  Selected(s1 \o s2, t1 \o t2, P, Q)
<1>1. /\ s1 \in Seq(ToSet(s1) \cup ToSet(s2)) /\ s2 \in Seq(ToSet(s1) \cup ToSet(s2))
      /\ t1 \in Seq(ToSet(t1) \cup ToSet(t2)) /\ t2 \in Seq(ToSet(t1) \cup ToSet(t2))
  BY SeqMonotonic DEF Selected
<1>2. /\ s1 \o s2 \in Seq(ToSet(s1) \cup ToSet(s2)) /\ ToSet(s1 \o s2) = ToSet(s1) \cup ToSet(s2)
      /\ t1 \o t2 \in Seq(ToSet(t1) \cup ToSet(t2)) /\ ToSet(t1 \o t2) = ToSet(t1) \cup ToSet(t2)
  BY <1>1, ToSetOfConcat
<1> QED
  BY <1>2 DEF Selected

\* and flattened.
LEMMA SelectedFlat ==
  ASSUME NEW n \in Nat \ {0}, NEW ss, NEW tt, ss = [i \in 1..n |-> ss[i]], tt = [i \in 1..n |-> tt[i]],
         NEW P, NEW Q, \A i \in 1..n : Selected(ss[i], tt[i], P, Q)
  PROVE  Selected(FlattenSeq(ss), FlattenSeq(tt), P, Q)
<1>1. Len(ss) = n /\ Len(tt) = n
  <2>1. ss \in [1..n -> {ss[i] : i \in 1..n}]
    OBVIOUS
  <2>2. ss \in Seq({ss[i] : i \in 1..n})
    BY <2>1, SeqDef
  <2>3. tt \in [1..n -> {tt[i] : i \in 1..n}]
    OBVIOUS
  <2>4. tt \in Seq({tt[i] : i \in 1..n})
    BY <2>3, SeqDef
  <2>5. Len(ss) = n
    BY <2>2
  <2>6. Len(tt) = n
    BY <2>4
  <2> QED
    BY <2>5, <2>6
<1> DEFINE f == CHOOSE h : Flattening(h, ss, n)
           g == CHOOSE h : Flattening(h, tt, n)
<1>2. Flattening(f, ss, n) /\ Flattening(g, tt, n)
  BY FlatteningExists
<1>3. FlattenSeq(ss) = f[n] /\ FlattenSeq(tt) = g[n]
  BY <1>1 DEF FlattenSeq, Flattening
<1> HIDE DEF f, g
<1>4. \A i \in 1..n : /\ f[i] = IF i = 1 THEN ss[i] ELSE f[i - 1] \o ss[i]
                      /\ g[i] = IF i = 1 THEN tt[i] ELSE g[i - 1] \o tt[i]
  BY <1>2 DEF Flattening
<1> DEFINE T == {k \in Nat : k \in 1..n => Selected(f[k], g[k], P, Q)}
<1>5. 0 \in T
  OBVIOUS
<1>6. ASSUME NEW k \in Nat, k \in T PROVE k + 1 \in T
  <2>1. CASE k = 0
    BY <1>4, <2>1
  <2>2. CASE k # 0 /\ k + 1 \in 1..n
    <3>1. k + 1 # 1 /\ (k + 1) - 1 = k /\ k \in 1..n
      BY <2>2
    <3>2. f[k + 1] = f[k] \o ss[k + 1] /\ g[k + 1] = g[k] \o tt[k + 1]
      BY <1>4, <2>2, <3>1
    <3>3. Selected(f[k], g[k], P, Q) /\ Selected(ss[k + 1], tt[k + 1], P, Q)
      BY <1>6, <2>2, <3>1
    <3>4. Selected(f[k + 1], g[k + 1], P, Q)
      BY <3>2, <3>3, SelectedConcat
    <3> QED
      BY <3>4
  <2>3. CASE k + 1 \notin 1..n
    BY <2>3
  <2> QED
    BY <2>1, <2>2, <2>3
<1> HIDE DEF T
<1>7. n \in T
  BY <1>5, <1>6, EveryNumber
<1> QED
  BY <1>3, <1>7 DEF T

\* Updates that both copies make are selected if they are about readings that
\* are there.
LEMMA SelectedSame ==
  ASSUME NEW s, NEW M, NEW P, NEW Q, DistinctIn(s, M), P \subseteq Q,
         \A call \in ToSet(s) : call.metric \in P
  PROVE  Selected(s, s, P, Q)
BY DEF Selected, DistinctIn, Distinct

\* One reading: there, missing next to one that is, or not looked at.
LEMMA SelectedReading ==
  ASSUME NEW P, NEW Q, P \subseteq Q, NEW s, NEW r, DistinctIn(s, {r})
  PROVE  Selected(When(r \in P, s), When(r \in Q, s), P, Q)
<1>1. s \in Seq(ToSet(s)) /\ \A call \in ToSet(s) : call.metric = r
  BY DEF DistinctIn, Distinct
<1>2. ToSet(<<>>) = {} /\ <<>> \in Seq(ToSet(<<>>))
  BY ListSets, EmptySeq
<1>3. CASE r \in P
  BY <1>1, <1>3 DEF When, Selected
<1>4. CASE r \in Q \ P
  BY <1>1, <1>2, <1>4 DEF When, Selected
<1>5. CASE r \notin Q
  BY <1>2, <1>5 DEF When, Selected
<1> QED
  BY <1>3, <1>4, <1>5

\* What is read of a nested document of which the readings r are there.
ReadOf(present) == UNION {ReadWith(r) : r \in present}

LEMMA ReadOfMore == \A present : present \subseteq ReadOf(present)
<1>1. \A r : r \in ReadWith(r)
  BY DEF ReadWith
<1> QED
  BY <1>1 DEF ReadOf

\* The nested document with the readings of a flat one.
LEMMA NestedIs ==
  ASSUME NEW d, IsFlat(d), d.layout = "flat", d.hollow = {},
         {"version", "minor", "team", "lacks", "layout", "present", "hollow"} \subseteq DOMAIN d
  PROVE  /\ Nested(d).team = d.team /\ Nested(d).lacks = d.lacks
         /\ ~IsFlat(Nested(d)) /\ IsOurs(Nested(d)) = IsOurs(d)
         /\ \A r : Has(d, r) <=> r \in d.present
         /\ \A r : Has(Nested(d), r) <=> r \in d.present
         /\ \A r : Reached(Nested(d), r) <=> r \in ReadOf(d.present)
<1>1. /\ Nested(d).version = d.version /\ Nested(d).team = d.team /\ Nested(d).lacks = d.lacks
      /\ Nested(d).present = d.present /\ Nested(d).hollow = {}
      /\ Nested(d).minor = 14 /\ Nested(d).layout = "nested"
  BY DEF Nested
<1>2. ~IsFlat(Nested(d))
  BY <1>1 DEF IsFlat
<1>3. \A r : Has(d, r) <=> r \in d.present
  BY DEF Has
<1>4. \A r : Has(Nested(d), r) <=> r \in d.present
  BY <1>1, <1>2 DEF Has
<1>5. \A r : Reached(Nested(d), r) <=> r \in ReadOf(d.present)
  <2>1. \A r : Reached(Nested(d), r) <=> \E q \in d.present : r \in ReadWith(q)
    BY <1>1, <1>4 DEF Reached
  <2> QED
    BY <2>1 DEF ReadOf
<1>6. IsOurs(Nested(d)) = IsOurs(d)
  BY <1>1 DEF IsOurs
<1> QED
  BY <1>1, <1>2, <1>3, <1>4, <1>5, <1>6

\* What is made of a reading depends on the team and nothing else.
LEMMA SameReadings ==
  ASSUME NEW d, NEW e, e.team = d.team
  PROVE  /\ \A fn, metric : Reading(e, fn, metric) = Reading(d, fn, metric)
         /\ \A host, service, metric : Both(e, host, service, metric) = Both(d, host, service, metric)
BY DEF Reading, Both

\* A reading that is found in one document if it is in a set is made the same
\* of as in another one of the team.
LEMMA FoundSame ==
  ASSUME NEW d, NEW e, e.team = d.team, NEW S, NEW fn, NEW r
  PROVE  /\ (Has(e, r) <=> r \in S) =>
              When(Has(e, r), Reading(e, fn, r)) = When(r \in S, Reading(d, fn, r))
         /\ (Reached(e, r) <=> r \in S) =>
              When(Reached(e, r), Reading(e, fn, r)) = When(r \in S, Reading(d, fn, r))
<1>1. Reading(e, fn, r) = Reading(d, fn, r)
  BY SameReadings
<1> QED
  BY <1>1 DEF When

\* A list of readings in both copies.
LEMMA SelectedEach ==
  ASSUME NEW d, NEW fn, NEW list, Len(list) \in Nat \ {0}, NEW P, NEW Q, P \subseteq Q
  PROVE  Selected(
           FlattenSeq([i \in 1..Len(list) |-> When(list[i] \in P, Reading(d, fn, list[i]))]),
           FlattenSeq([i \in 1..Len(list) |-> When(list[i] \in Q, Reading(d, fn, list[i]))]), P, Q)
<1> DEFINE n == Len(list)
           s == [i \in 1..n |-> When(list[i] \in P, Reading(d, fn, list[i]))]
           t == [i \in 1..n |-> When(list[i] \in Q, Reading(d, fn, list[i]))]
<1>1. \A i \in 1..n : Selected(s[i], t[i], P, Q)
  BY ReadingIn, SelectedReading
<1>2. s = [i \in 1..n |-> s[i]] /\ t = [i \in 1..n |-> t[i]]
  OBVIOUS
<1> HIDE DEF s, t
<1>3. Selected(FlattenSeq(s), FlattenSeq(t), P, Q)
  BY <1>1, <1>2, SelectedFlat
<1> QED
  BY <1>3 DEF s, t

\* The groups of readings: of the system and of the Java machine those are
\* selected that are there,
LEMMA SystemSelected ==
  ASSUME NEW d, NEW e, NEW P, NEW Q, P \subseteq Q, e.team = d.team,
         \A r : Has(d, r) <=> r \in P, \A r : Reached(e, r) <=> r \in Q
  PROVE  Selected(FlatSystem(d), NestedSystem(e), P, Q)
<1>1. /\ \A i \in 1..Len(System) :
           When(Has(d, System[i]), Reading(d, "numeric", System[i]))
           = When(System[i] \in P, Reading(d, "numeric", System[i]))
      /\ \A i \in 1..Len(System) :
           When(Reached(e, System[i]), Reading(e, "numeric", System[i]))
           = When(System[i] \in Q, Reading(d, "numeric", System[i]))
  BY FoundSame
<1>2. /\ FlatSystem(d) = FlattenSeq([i \in 1..Len(System) |->
                           When(System[i] \in P, Reading(d, "numeric", System[i]))])
      /\ NestedSystem(e) = FlattenSeq([i \in 1..Len(System) |->
                             When(System[i] \in Q, Reading(d, "numeric", System[i]))])
  BY <1>1 DEF FlatSystem, NestedSystem, Each
<1>3. Len(System) \in Nat \ {0}
  BY ListsAre
<1>4. Selected(
        FlattenSeq([i \in 1..Len(System) |-> When(System[i] \in P, Reading(d, "numeric", System[i]))]),
        FlattenSeq([i \in 1..Len(System) |-> When(System[i] \in Q, Reading(d, "numeric", System[i]))]),
        P, Q)
  BY <1>3, SelectedEach
<1> QED
  BY <1>2, <1>4

LEMMA JvmSelected ==
  ASSUME NEW d, NEW e, NEW P, NEW Q, P \subseteq Q, e.team = d.team,
         \A r : Has(d, r) <=> r \in P, \A r : Has(e, r) <=> r \in P,
         \A r : Reached(e, r) <=> r \in Q
  PROVE  Selected(FlatJvm(d), NestedJvm(e), P, Q)
<1> DEFINE first == When(Thread \in P, Reading(d, "numeric", Thread))
           s == FlattenSeq([i \in 1..Len(Memory) |->
                  When(Memory[i] \in P, Reading(d, "average", Memory[i]))])
           t == FlattenSeq([i \in 1..Len(Memory) |->
                  When(Memory[i] \in Q, Reading(d, "average", Memory[i]))])
<1>1. /\ \A i \in 1..Len(Memory) :
           When(Has(d, Memory[i]), Reading(d, "average", Memory[i]))
           = When(Memory[i] \in P, Reading(d, "average", Memory[i]))
      /\ \A i \in 1..Len(Memory) :
           When(Reached(e, Memory[i]), Reading(e, "average", Memory[i]))
           = When(Memory[i] \in Q, Reading(d, "average", Memory[i]))
  BY FoundSame
<1>2. FlatJvm(d) = first \o s /\ NestedJvm(e) = first \o t
  <2>1. /\ When(Has(d, Thread), Reading(d, "numeric", Thread)) = first
        /\ When(Has(e, Thread), Reading(e, "numeric", Thread)) = first
    BY FoundSame
  <2>2. FlattenSeq([i \in 1..Len(Memory) |->
          When(Has(d, Memory[i]), Reading(d, "average", Memory[i]))]) = s
    BY <1>1
  <2>3. FlattenSeq([i \in 1..Len(Memory) |->
          When(Reached(e, Memory[i]), Reading(e, "average", Memory[i]))]) = t
    BY <1>1
  <2> HIDE DEF first, s, t
  <2> QED
    BY <2>1, <2>2, <2>3 DEF FlatJvm, NestedJvm, Each
<1>3. Len(Memory) \in Nat \ {0}
  BY ListsAre
<1>4. Selected(s, t, P, Q)
  BY <1>3, SelectedEach
<1>5. Selected(first, first, P, Q)
  <2>1. DistinctIn(Reading(d, "numeric", Thread), {Thread})
    BY ReadingIn
  <2>2. CASE Thread \in P
    <3>1. first = Reading(d, "numeric", Thread)
      BY <2>2 DEF When
    <3>2. \A call \in ToSet(first) : call.metric \in P
      BY <2>1, <2>2, <3>1 DEF DistinctIn
    <3> HIDE DEF first
    <3> QED
      BY <2>1, <3>1, <3>2, SelectedSame
  <2>3. CASE Thread \notin P
    <3>1. first = <<>>
      BY <2>3 DEF When
    <3> QED
      BY <3>1, InEmpty, ListSets, SelectedSame
  <2> QED
    BY <2>2, <2>3
<1> HIDE DEF first, s, t
<1> QED
  BY <1>2, <1>4, <1>5, SelectedConcat

\* of the garbage collector and of Node all are.
LEMMA GcSelected ==
  ASSUME NEW d, NEW e, NEW P, NEW Q, P \subseteq Q, e.team = d.team,
         \A r : Has(d, r) <=> r \in P, \A r : Has(e, r) <=> r \in P
  PROVE  Selected(FlatGc(d), NestedGc(e), P, Q)
<1> DEFINE s1 == Both(d, OfHost("numeric", GcTime), "numeric", GcTime)
           s2 == Both(d, AtOnce(OfHost("counter", GcCount)), "average", GcCount)
           s3 == Both(d, AtOnce(OfHost("numeric", GcAlloc)), "average", GcAlloc)
           s  == When(GcTime \in P /\ GcCount \in P, s1 \o s2)
           t  == When(GcAlloc \in P, s3)
<1>1. DistinctIn(s1, {GcTime}) /\ DistinctIn(s2, {GcCount}) /\ DistinctIn(s3, {GcAlloc})
  BY BothIn, OfHostMade, Zenon
<1>2. FlatGc(d) = s \o t
  <2> HIDE DEF s1, s2, s3
  <2>1. /\ When(Has(d, GcTime) /\ Has(d, GcCount), s1 \o s2) = s
        /\ When(Has(d, GcAlloc), s3) = t
    <3>1. /\ Has(d, GcTime) <=> GcTime \in P
          /\ Has(d, GcCount) <=> GcCount \in P
          /\ Has(d, GcAlloc) <=> GcAlloc \in P
      OBVIOUS
    <3> QED
      BY <3>1 DEF When
  <2> USE DEF s1, s2, s3
  <2> QED
    BY <2>1 DEF FlatGc
<1>3. NestedGc(e) = s \o t
  <2> HIDE DEF s1, s2, s3
  <2>1. /\ When(Has(e, GcTime) /\ Has(e, GcCount), s1 \o s2) = s
        /\ When(Has(e, GcAlloc), s3) = t
    <3>1. /\ Has(e, GcTime) <=> GcTime \in P
          /\ Has(e, GcCount) <=> GcCount \in P
          /\ Has(e, GcAlloc) <=> GcAlloc \in P
      OBVIOUS
    <3> QED
      BY <3>1 DEF When
  <2> USE DEF s1, s2, s3
  <2>2. /\ Both(e, OfHost("numeric", GcTime), "numeric", GcTime) = s1
        /\ Both(e, AtOnce(OfHost("counter", GcCount)), "average", GcCount) = s2
        /\ Both(e, AtOnce(OfHost("numeric", GcAlloc)), "average", GcAlloc) = s3
    BY SameReadings
  <2> QED
    BY <2>1, <2>2 DEF NestedGc
<1> HIDE DEF s1, s2, s3
<1>4. Selected(<<>>, <<>>, P, Q)
  BY InEmpty, ListSets, SelectedSame
<1>5. Selected(s, s, P, Q)
  <2>1. CASE GcTime \in P /\ GcCount \in P
    <3>1. Selected(s1, s1, P, Q) /\ Selected(s2, s2, P, Q)
      BY <1>1, <2>1, SelectedSame DEF DistinctIn
    <3>2. Selected(s1 \o s2, s1 \o s2, P, Q)
      BY <3>1, SelectedConcat
    <3> QED
      BY <2>1, <3>2 DEF When
  <2>2. CASE ~(GcTime \in P /\ GcCount \in P)
    BY <1>4, <2>2 DEF When
  <2> QED
    BY <2>1, <2>2
<1>6. Selected(t, t, P, Q)
  <2>1. CASE GcAlloc \in P
    <3>1. Selected(s3, s3, P, Q)
      BY <1>1, <2>1, SelectedSame DEF DistinctIn
    <3> QED
      BY <2>1, <3>1 DEF When
  <2>2. CASE GcAlloc \notin P
    BY <1>4, <2>2 DEF When
  <2> QED
    BY <2>1, <2>2
<1> HIDE DEF s, t
<1> QED
  BY <1>2, <1>3, <1>5, <1>6, SelectedConcat

LEMMA NodeSelected ==
  ASSUME NEW d, NEW e, NEW P, NEW Q, P \subseteq Q, e.team = d.team,
         \A r : Has(d, r) <=> r \in P, \A r : Has(e, r) <=> r \in P
  PROVE  Selected(FlatNode(d), NestedNode(e), P, Q)
<1> DEFINE s == FlattenSeq([i \in 1..Len(NodeHeap) |->
                  When(NodeHeap[i] \in P, Reading(d, "average", NodeHeap[i]))])
           b == Both(d, OfHost("histogram", EventLoop), "histogram", EventLoop)
           t == When(EventLoop \in P, b)
<1>1. DistinctIn(b, {EventLoop})
  BY BothIn, OfHostMade, Zenon
<1>2. FlatNode(d) = s \o t
  <2> HIDE DEF s, b
  <2>1. When(Has(d, EventLoop), b) = t
    <3>1. Has(d, EventLoop) <=> EventLoop \in P
      OBVIOUS
    <3> QED
      BY <3>1 DEF When
  <2> USE DEF s, b
  <2>2. \A i \in 1..Len(NodeHeap) :
          When(Has(d, NodeHeap[i]), Reading(d, "average", NodeHeap[i]))
          = When(NodeHeap[i] \in P, Reading(d, "average", NodeHeap[i]))
    BY FoundSame
  <2>3. FlattenSeq([i \in 1..Len(NodeHeap) |->
          When(Has(d, NodeHeap[i]), Reading(d, "average", NodeHeap[i]))]) = s
    BY <2>2
  <2> QED
    BY <2>1, <2>3 DEF FlatNode, Each
<1>3. NestedNode(e) = s \o t
  <2> HIDE DEF s, b
  <2>1. When(Has(e, EventLoop), b) = t
    <3>1. Has(e, EventLoop) <=> EventLoop \in P
      OBVIOUS
    <3> QED
      BY <3>1 DEF When
  <2> USE DEF s, b
  <2>2. Both(e, OfHost("histogram", EventLoop), "histogram", EventLoop) = b
    BY SameReadings
  <2>3. \A i \in 1..Len(NodeHeap) :
          When(Has(e, NodeHeap[i]), Reading(e, "average", NodeHeap[i]))
          = When(NodeHeap[i] \in P, Reading(d, "average", NodeHeap[i]))
    BY FoundSame
  <2>4. FlattenSeq([i \in 1..Len(NodeHeap) |->
          When(Has(e, NodeHeap[i]), Reading(e, "average", NodeHeap[i]))]) = s
    BY <2>3
  <2> QED
    BY <2>1, <2>2, <2>4 DEF NestedNode, Each
<1>4. Selected(s, s, P, P)
  <2>1. Len(NodeHeap) \in Nat \ {0}
    BY ListsAre
  <2> QED
    BY <2>1, SelectedEach
<1> HIDE DEF s, b
<1>5. Selected(s, s, P, Q)
  BY <1>4 DEF Selected
<1>6. Selected(t, t, P, Q)
  <2>1. CASE EventLoop \in P
    <3>1. Selected(b, b, P, Q)
      BY <1>1, <2>1, SelectedSame DEF DistinctIn
    <3> QED
      BY <2>1, <3>1 DEF When
  <2>2. CASE EventLoop \notin P
    BY <2>2, InEmpty, ListSets, SelectedSame DEF When
  <2> QED
    BY <2>1, <2>2
<1> HIDE DEF t
<1> QED
  BY <1>2, <1>3, <1>5, <1>6, SelectedConcat

\* Without the readings of Go the updates of a flat document are selected from
\* those of the nested one.
LEMMA UpdatesSelected ==
  ASSUME NEW d, IsFlat(d), d.layout = "flat", d.hollow = {},
         {"version", "minor", "team", "lacks", "layout", "present", "hollow"} \subseteq DOMAIN d,
         d.present \cap {GoHeap, GoPause, GoCount, Routines} = {}
  PROVE  Selected(ReadingOutcome(d).updates, ReadingOutcome(Nested(d)).updates,
                  d.present, ReadOf(d.present))
<1> DEFINE e == Nested(d)
           P == d.present
           Q == ReadOf(d.present)
<1>1. /\ \A r : Has(d, r) <=> r \in P
      /\ \A r : Has(e, r) <=> r \in P
      /\ \A r : Reached(e, r) <=> r \in Q
      /\ ~IsFlat(e) /\ IsOurs(e) = IsOurs(d) /\ e.lacks = d.lacks /\ e.team = d.team
  BY NestedIs
<1>2. P \subseteq Q
  BY ReadOfMore
<1> HIDE DEF e, Q
<1>3. GoReadings(e) = <<>>
  <2>1. ~Has(e, GoHeap) /\ ~Has(e, GoPause) /\ ~Has(e, Routines)
    BY <1>1
  <2>2. GoReadings(e) = <<>> \o <<>> \o <<>>
    BY <2>1 DEF GoReadings, When
  <2> QED
    BY <2>2, ConcatEmptySeq, EmptySeq
<1>4. Selected(<<>>, <<>>, P, Q)
  BY <1>2, InEmpty, ListSets, SelectedSame
<1>5. CASE IsOurs(d) /\ d.lacks # "service"
  <2>1. Selected(FlatSystem(d), NestedSystem(e), P, Q)
    BY <1>1, <1>2, SystemSelected
  <2>2. Selected(FlatJvm(d), NestedJvm(e), P, Q)
    BY <1>1, <1>2, JvmSelected
  <2>3. Selected(FlatGc(d), NestedGc(e), P, Q)
    BY <1>1, <1>2, GcSelected
  <2>4. Selected(FlatNode(d), NestedNode(e), P, Q)
    BY <1>1, <1>2, NodeSelected
  <2> DEFINE s == FlatSystem(d) \o FlatJvm(d) \o FlatGc(d) \o FlatNode(d)
             t == NestedSystem(e) \o NestedJvm(e) \o NestedGc(e) \o NestedNode(e)
  <2>5. Selected(FlatSystem(d) \o FlatJvm(d), NestedSystem(e) \o NestedJvm(e), P, Q)
    BY <2>1, <2>2, SelectedConcat
  <2>6. Selected(FlatSystem(d) \o FlatJvm(d) \o FlatGc(d),
                 NestedSystem(e) \o NestedJvm(e) \o NestedGc(e), P, Q)
    BY <2>3, <2>5, SelectedConcat
  <2>7. Selected(s, t, P, Q)
    BY <2>4, <2>6, SelectedConcat
  <2>8. ReadingOutcome(d).updates = s
    BY <1>5 DEF ReadingOutcome, Outcome
  <2>9. ReadingOutcome(e).updates = t \o GoReadings(e)
    BY <1>1, <1>5 DEF ReadingOutcome, Outcome
  <2> HIDE DEF s, t
  <2>10. t \o <<>> = t
    BY <2>7, ConcatEmptySeq DEF Selected
  <2> QED
    BY <1>3, <2>7, <2>8, <2>9, <2>10 DEF e, Q
<1>6. CASE ~IsOurs(d) \/ d.lacks = "service"
  <2>1. ReadingOutcome(d).updates = <<>> /\ ReadingOutcome(e).updates = <<>>
    BY <1>1, <1>6 DEF ReadingOutcome, Nothing, Outcome
  <2> QED
    BY <1>4, <2>1 DEF e, Q
<1> QED
  BY <1>5, <1>6

\* All messages, not only those of a scenario.
LEMMA EveryFlatWithinNested == Handled \subseteq WithinNested
<1> SUFFICES ASSUME NEW n \in Handled,
                    Messages[n].form = "json" /\ Messages[n].event = "metric",
                    IsFlat(Messages[n].doc) /\ Messages[n].doc.layout = "flat",
                    Messages[n].doc.present \cap {GoHeap, GoPause, GoCount, Routines} = {}
             PROVE  LET d == Messages[n].doc
                        nested == ToSet(ReadingOutcome(Nested(d)).updates)
                    IN  /\ ToSet(Updates(n)) = {call \in nested : call.metric \in d.present}
                        /\ \A call \in nested : \E r \in d.present : call.metric \in ReadWith(r)
  BY DEF WithinNested
<1> DEFINE d == Messages[n].doc
<1>1. Updates(n) = ReadingOutcome(d).updates \o <<>>
  BY HandledAre DEF Handle
<1>2. /\ {"version", "minor", "team", "lacks", "layout", "present", "hollow"} \subseteq DOMAIN d
      /\ d.layout = "flat" => d.hollow = {}
  BY DocumentsAssumption DEF Handled
<1>3. Selected(ReadingOutcome(d).updates, ReadingOutcome(Nested(d)).updates,
               d.present, ReadOf(d.present))
  BY <1>2, UpdatesSelected
<1>4. ReadingOutcome(d).updates \o <<>> = ReadingOutcome(d).updates
  BY <1>3, ConcatEmptySeq DEF Selected
<1> HIDE DEF d
<1>5. \A call \in ToSet(ReadingOutcome(Nested(d)).updates) :
        \E r \in d.present : call.metric \in ReadWith(r)
  BY <1>3 DEF Selected, ReadOf
<1>6. ToSet(Updates(n)) =
        {call \in ToSet(ReadingOutcome(Nested(d)).updates) : call.metric \in d.present}
  BY <1>1, <1>3, <1>4 DEF Selected
<1> QED
  BY <1>5, <1>6 DEF d

\* The branches of process_metric_message for the two layouts agree on every
\* reading of a document of 7.15 that is there; the one for nested documents
\* has more updates only of readings that are missing from an object of which
\* it has a part, or from the one around it.
THEOREM FlatOnesWithinNested == Spec => []FlatWithinNested
<1>1. FlatWithinNested
  BY EveryFlatWithinNested DEF FlatWithinNested, Taken
<1> QED
  BY <1>1, PTL

\* Where no object lacks a member the two branches make the same updates.
COROLLARY WholeOnesAgree ==
  ASSUME NEW n \in Handled, Messages[n].form = "json" /\ Messages[n].event = "metric",
         IsFlat(Messages[n].doc) /\ Messages[n].doc.layout = "flat",
         Messages[n].doc.present \cap {GoHeap, GoPause, GoCount, Routines} = {},
         \A r \in Messages[n].doc.present : ReadWith(r) \subseteq Messages[n].doc.present
  PROVE  ToSet(Updates(n)) = ToSet(ReadingOutcome(Nested(Messages[n].doc)).updates)
BY EveryFlatWithinNested DEF WithinNested
=============================================================================
