--------------------------- MODULE MCMetricPipeline --------------------------
(***************************************************************************)
(* Small instances of MetricPipeline for TLC.                              *)
(***************************************************************************)
EXTENDS MetricPipeline

\* A team that asks for nothing besides, and teams that ask for the metrics of
\* hosts and for the telemetry of systems.
MCTeams == {"quiet", "hosts", "systems"}
Hosts   == {"hosts"}
Systems == {"systems"}

\* A document with the fields of every kind.
Plain == [version |-> 7, minor |-> 9, team |-> "quiet", lacks |-> "", name |-> "name",
          type |-> "", parts |-> <<"other">>, subtype |-> "", kind |-> "", system |-> "", code |-> 200,
          sampled |-> TRUE, method |-> "GET", path_ok |-> TRUE, agent |-> FALSE,
          parent |-> FALSE, slow |-> FALSE, untraced |-> FALSE,
          layout |-> "nested", present |-> {}, hollow |-> {}]

\* What keeps documents from being handled.
Refused ==
  {[Plain EXCEPT !.version = 5], [Plain EXCEPT !.team = "unknown"]}
  \cup {[Plain EXCEPT !.lacks = field] : field \in {"transaction", "span", "error",
          "duration", "trace", "trace.id", "service", "process"}}

Requests ==
  LET Request == [Plain EXCEPT !.type = "request"]
  IN  {[Request EXCEPT !.team = t, !.code = code, !.agent = agent] :
         t \in MCTeams, code \in {200, 404, 500}, agent \in BOOLEAN}
      \cup {[Request EXCEPT !.slow = slow, !.untraced = untraced, !.parent = parent] :
              slow, untraced, parent \in BOOLEAN}
      \cup {[Request EXCEPT !.sampled = FALSE], [Request EXCEPT !.lacks = "response"],
            [Request EXCEPT !.method = "OPTIONS"], [Request EXCEPT !.path_ok = FALSE]}

Transactions ==
  Requests \cup {[Plain EXCEPT !.type = type, !.team = t] :
                   type \in {"messaging", "scheduled", "page-load"}, t \in MCTeams}

ElasticSpans ==
  {[Plain EXCEPT !.parts = parts, !.team = t] :
     parts \in {<<"db">>, <<"external", "http">>, <<"app">>, <<"template">>}, t \in MCTeams}
  \cup {[Plain EXCEPT !.parts = <<"db">>, !.subtype = "mysql"]}
  \cup {[Plain EXCEPT !.parts = parts, !.version = 6] :
          parts \in {<<"db">>, <<"db", "mysql", "query">>, <<"external", "http", "get">>}}

\* Groups of readings that come in one object, and of those of an object some
\* that may be missing.
Groups == {{System[1], System[2]}, {System[3]}, {System[4], System[5]}, {Thread},
           {Memory[i] : i \in 1..3}, {Memory[i] : i \in 4..6}, {GcTime, GcCount}, {GcTime},
           {GcAlloc}, {NodeHeap[1], NodeHeap[2]}, {EventLoop}}
OfGo   == {{GoHeap}, {GoPause, GoCount}, {GoCount}, {Routines}}
Halves == {{Memory[2]}, {Memory[4], Memory[6]}, {System[1]}, {System[2]}}

\* Among the nested ones are some with an object that is empty.
NestedOnes ==
  {[Plain EXCEPT !.team = t, !.present = group] :
     t \in MCTeams, group \in Groups \cup OfGo \cup Halves}
  \cup {[Plain EXCEPT !.hollow = {r}] : r \in {Memory[1], System[2], System[3]}}

FlatOnes(minor) ==
  {[Plain EXCEPT !.minor = minor, !.layout = "flat", !.team = t, !.present = group] :
          t \in MCTeams, group \in Groups \cup {UNION Groups} \cup Halves}

OtelSpans ==
  {[Plain EXCEPT !.kind = kind, !.code = code] :
     kind \in {"server", "producer", "internal", "other"}, code \in {0, 200, 404}}
  \cup {[Plain EXCEPT !.kind = "client", !.system = system] : system \in {"", "db", "http", "rpc"}}

Message(form, event, d) ==
  [form |-> form, event |-> event, doc |-> d, more |-> <<>>]
Json(event, documents) == {Message("json", event, d) : d \in documents \cup Refused}

\* The messages of a set in some order.
Listed(messages) ==
  LET list[n \in 0..Cardinality(messages)] ==
        IF n = 0 THEN [before |-> <<>>, after |-> messages]
        ELSE LET l == list[n - 1]
                 m == CHOOSE x \in l.after : TRUE
             IN  [before |-> Append(l.before, m), after |-> l.after \ {m}]
  IN  list[Cardinality(messages)].before

OneByOne ==
  Listed(Json("transaction", Transactions)) \o Listed(Json("span", ElasticSpans))
  \o Listed(Json("error", {Plain, [Plain EXCEPT !.team = "hosts"]}))
  \o Listed(Json("metric", NestedOnes))
  \o Listed(Json("metric", FlatOnes(15))) \o Listed(Json("metric", FlatOnes(16) \ Refused))
  \o Listed({Message("otlp", "", d) : d \in OtelSpans \cup Refused})
  \o << Message("json", "profile", Plain) >>

\* Messages of which there are several in a row: a request that is answered, a
\* slow one, the telemetry of a system, and what is not understood.
Fast      == Message("json", "transaction", [Plain EXCEPT !.type = "request"])
Slow      == Message("json", "transaction", [Plain EXCEPT !.type = "request", !.slow = TRUE])
Telemetry == Message("json", "metric", [Plain EXCEPT !.team = "systems", !.present = {Routines}])
Headless  == Message("headless", "", Plain)
Garbled   == Message("garbled", "", Plain)
Span      == Message("otlp", "", [Plain EXCEPT !.kind = "internal"])
\* The hook puts another document in the place of this one, or next to it.
Replaced  == [Fast EXCEPT !.form = "aborted",
                !.more = <<[event |-> "span", doc |-> [Plain EXCEPT !.parts = <<"db">>]]>>]
Doubled   == [Replaced EXCEPT !.form = "json"]

MCMessages == << Fast, Slow, Telemetry, Garbled, Span, Replaced, Doubled,
                 Headless >> \o OneByOne

Scenario(messages, faults, losses) ==
  [log |-> messages, crashes |-> faults, refuses |-> losses]

\* Each message alone; a slow request that is read late, messages that are not
\* understood and those of the hook, some of their aggregates refused; and a
\* crash of one of the instances.
EachAndSeveral ==
  {Scenario(<<n>>, 0, FALSE) : n \in DOMAIN MCMessages}
  \cup {Scenario(several, 0, TRUE) : several \in {<<8, 8, 2>>, <<3, 4>>, <<5>>, <<6, 7>>}}
  \cup {Scenario(<<1>>, 1, FALSE), Scenario(<<3, 3>>, 1, FALSE), Scenario(<<3>>, 2, FALSE)}
OneCrash == {Scenario(<<1>>, 1, FALSE)}
=============================================================================
