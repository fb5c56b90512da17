-------------------------- MODULE TransactionMetrics ------------------------
(***************************************************************************)
(* process_transaction_message of src/src/tm_process_transaction.c.        *)
(***************************************************************************)
EXTENDS Documents

IsMessaging(d) == d.type \in {"message_read", "messaging"}
IsRequest(d)   == d.type = "request"

\* The early returns, in the order of the code.
Malformed(d)  == d.lacks \in {"transaction", "duration", "trace", "trace.id"}
Misshapen(d)  ==
  IsRequest(d) /\ (~d.sampled \/ d.lacks \in {"http", "request", "response"})
Unwanted(d)   == IsRequest(d) /\ (d.method = "OPTIONS" \/ ~d.path_ok)

\* Messages and scheduled jobs are kept under the name of the transaction.
JobUpdates(d) ==
  << Histogram("transaction - latency", d.name, "all", {}),
     Histogram("transaction - latency", "all", "all", {}),
     Counter("transaction - request_count", d.name, "all", {}),
     Counter("transaction - request_count", "all", "all", {}) >>
  \o When(d.team \in CollectHost,
       << Histogram("transaction - latency", d.name, "host", {}) >>)

Method    == {"method"}
UserAgent == {"method", "user_agent"} \cup NoRollup

\* One error, of its class and of any class, by path and in total.
ErrorCounts(class, d, tags) ==
  << Counter(class, d.name, "all", tags \cup Rollup(d)),
     Counter("transaction - error_count", d.name, "all", tags \cup Rollup(d)),
     Counter(class, "all", "all", tags),
     Counter("transaction - error_count", "all", "all", tags) >>

Errors(class, d) ==
  ErrorCounts(class, d, Method) \o When(d.agent, ErrorCounts(class, d, UserAgent))

ClientErrorMutant(d) == d.code >= 400  \* server errors are counted here, too
ClientError(d) == d.code >= 400 /\ d.code < 500
ServerError(d) == d.code >= 500

\* Requests are kept under their path.
RequestUpdates(d) ==
  << Histogram("transaction - latency", d.name, "all", Method \cup Rollup(d)),
     Histogram("transaction - latency", "all", "all", Method) >>
  \o When(ClientError(d), Errors("transaction - client_error_count", d))
  \o When(ServerError(d), Errors("transaction - server_error_count", d))
  \o << Counter("transaction - request_count", d.name, "all", Method \cup Rollup(d)),
        Counter("transaction - request_count", "all", "all", Method) >>
  \o When(d.agent, << Counter("transaction - request_count", "all", "all", UserAgent) >>)
  \o When(d.team \in CollectHost,
       << AtOnce(Call("text", "transaction - status_code", d.name, "host",
                      Method \cup Rollup(d))),
          Histogram("transaction - latency", d.name, "host", Method \cup Rollup(d)) >>)

TransactionUpdates(d) ==
  CASE IsMessaging(d) \/ d.type = "scheduled" -> JobUpdates(d)
    [] IsRequest(d) -> RequestUpdates(d)
    [] OTHER -> <<>>  \* page-load, and what is not known

GateMutant(d, lagging) == ~lagging  \* a reader that lags drops slow roots as well
Gate(d, lagging) == ~lagging \/ d.slow

\* A root is marked if it is slow, and kept unless the reader lags behind and
\* the root is not slow; a transaction with a parent is a child of it.
TransactionStoreCalls(d, lagging) ==
  IF d.parent
  THEN When(~lagging, <<"add_child">>)
  ELSE When(d.slow, <<"mark_traceable">>) \o When(Gate(d, lagging), <<"put">>)

\* A module may keep the document from being traced, unless the reader lags.
TransactionOutcome(d, lagging) ==
  IF ~IsOurs(d) THEN Nothing("ignored")
  ELSE IF Malformed(d) \/ Misshapen(d) THEN Nothing("errored")
  ELSE IF Unwanted(d) THEN Nothing("filtered")
  ELSE Outcome("handled", TransactionUpdates(d),
         When(lagging \/ ~d.untraced, TransactionStoreCalls(d, lagging)))
=============================================================================
