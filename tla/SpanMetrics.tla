----------------------------- MODULE SpanMetrics ----------------------------
(***************************************************************************)
(* process_span_message of src/src/tm_process_elastic_span.c and           *)
(* process_error_message of src/src/tm_process_error.c.                    *)
(***************************************************************************)
EXTENDS Documents

\* A latency and a count under one name.
Pair(latency, count, name, at, tags) ==
  << Histogram(latency, name, at, tags), Counter(count, name, at, tags) >>

\* A missing subtype is taken for all of them.
SubtypeMutant(d) == IF d.subtype = "" THEN "all" ELSE d.subtype

\* The subtype of a database span is the second of the parts of its type before
\* version 7, or "unknown"; since then it is a field, which may be missing.
Subtype(d) == IF d.version > 6 THEN d.subtype
              ELSE IF Len(d.parts) > 1 THEN d.parts[2] ELSE "unknown"

Operation(d) == Subtype(d) \o " - " \o d.name

\* By subtype, and by subtype and operation.  The count of the latter has the
\* tags of the host whatever the team's settings are.
SubtypeUpdates(d) ==
  << Histogram("db - latency", Operation(d), "all", Rollup(d)),
     Counter("db - stmt_count", Operation(d), "host", Rollup(d)),
     Histogram("db - latency", Subtype(d), "all", Rollup(d)),
     Counter("db - stmt_count", Subtype(d), "all", {}) >>

DbUpdates(d) ==
  << Histogram("db - latency", d.name, "all", Rollup(d)) >>
  \o When(d.team \in CollectHost,
       Pair("db - latency", "db - stmt_count", d.name, "host", Rollup(d)))
  \o When(Subtype(d) # "", SubtypeUpdates(d))
  \o Pair("db - latency", "db - stmt_count", "all", "all", {})

ExternalUpdates(d) ==
  << Histogram("external - latency", d.name, "all", Rollup(d)),
     Histogram("external - latency", "all", "all", {}) >>
  \o When(d.team \in CollectHost,
       Pair("external - latency", "external - call_count", d.name, "host", Rollup(d)))
  \o << Counter("external - call_count", "all", "all", {}) >>

\* The count by host is called "intternal" in the code.
InternalUpdates(d) ==
  << Histogram("internal - latency", d.name, "all", Rollup(d)),
     Histogram("internal - latency", "all", "all", {}),
     Counter("internal - call_count", d.name, "all", Rollup(d)),
     Counter("internal - call_count", "all", "all", {}) >>
  \o When(d.team \in CollectHost,
       Pair("internal - latency", "intternal - call_count", d.name, "host", Rollup(d)))

\* By the type, which is given by the parts between its dots.
SpanUpdates(d) ==
  CASE Head(d.parts) = "db" -> DbUpdates(d)
    [] d.parts \in {<<"external", "http">>, <<"ext", "http", "http">>, <<"external">>} ->
         ExternalUpdates(d)
    [] d.parts \in {<<"custom">>, <<"app">>} -> InternalUpdates(d)
    [] OTHER -> <<>>

\* A span is kept for its trace whether or not the reader lags.  (That the name
\* of the service is missing cannot be: it gave the team.)
SpanOutcome(d) ==
  IF ~IsOurs(d) \/ d.lacks \in {"span", "duration", "trace", "trace.id"}
  THEN Nothing("ignored")
  ELSE Outcome("handled", SpanUpdates(d), <<"add_child">>)

ErrorUpdates(d) ==
  When(d.team \in CollectHost,
    << Counter("transaction - apm_error_count", "", "host", Rollup(d)) >>)
  \o << Counter("transaction - apm_error_count", "", "all", {}) >>

ErrorOutcome(d) ==
  IF ~IsOurs(d) THEN Nothing("ignored")
  ELSE IF d.lacks \in {"error", "trace"} THEN Nothing("errored")
  ELSE Outcome("handled", ErrorUpdates(d), <<"add_child", "mark_traceable">>)
=============================================================================
