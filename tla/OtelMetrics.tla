----------------------------- MODULE OtelMetrics ----------------------------
(***************************************************************************)
(* otel_process_jaeger_span of src/src/tm_process_otel_span.cc: the spans  *)
(* of the otlp_spans topic.  Their metrics carry no host.                  *)
(***************************************************************************)
EXTENDS Documents

\* The latency and the number of spans of one kind, by name and in total; the
\* tags tell the kind.
Spans(count, name, tags) ==
  << Histogram("latency", name, "all", tags),
     Histogram("latency", "all", "all", tags),
     Counter(count, name, "all", tags),
     Counter(count, "all", "all", tags) >>

\* The code is kept as 2XX, 4XX and so on; 0 stands for a span without one.
Hundreds(code) == IF code = 0 THEN "(null)"
                  ELSE <<"1XX", "2XX", "3XX", "4XX", "5XX">>[code \div 100]

ServerTags(d) == {"server", "method", "flavor", Hundreds(d.code)}

ServerSpans(d) ==
  Spans("request_count", d.name, ServerTags(d))
  \o When(d.code > 399,
       << Counter("error_count", d.name, "all", ServerTags(d)),
          Counter("error_count", "all", "all", ServerTags(d)) >>)

\* The first attribute that is found decides.
ClientSpans(d) ==
  CASE d.system = "db"   -> Spans("request_count", d.name, {"client", "db"})
    [] d.system = "http" -> Spans("request_count", d.name,
                              {"client", "http", "method", Hundreds(d.code)})
    [] d.system = "rpc"  -> Spans("request_count", d.name, {"client", "rpc"})
    [] OTHER -> <<>>

OtelUpdates(d) ==
  CASE d.kind = "server" -> ServerSpans(d)
    [] d.kind = "client" -> ClientSpans(d)
    [] d.kind \in {"producer", "consumer"} -> Spans("request_count", d.name, {d.kind})
    [] d.kind = "internal" -> Spans("execution_count", d.name, {d.kind})
    [] OTHER -> <<>>

\* A span without a team is the team "unknown"'s, which need not be there.
OtelOutcome(d) ==
  IF d.lacks \in {"protobuf", "process"} \/ d.team \notin Teams THEN Nothing("ignored")
  ELSE Outcome("handled", OtelUpdates(d), <<>>)
=============================================================================
