------------------------------ MODULE Documents -----------------------------
(***************************************************************************)
(* What the handlers of documents have in common: the settings of a team,  *)
(* the updates they make of its metrics, the calls they make to the        *)
(* transaction store, and the checks of src/src/tm_process.c before them.  *)
(*                                                                         *)
(* A document is a record with the fields that its handler looks at.       *)
(***************************************************************************)
EXTENDS Naturals, Sequences

CONSTANTS
  Teams,          \* the teams of the configuration, and those of them with
  CollectHost,    \*   td->collect_host_level_metrics
  CollectSystem,  \*   td->collect_host_level_system
  RollupAll       \*   td->rollup_high_cardinality

ASSUME SettingsAssumption == CollectHost \cup CollectSystem \cup RollupAll \subseteq Teams

\* One call of an update_* function: which one, the metric, the name it is
\* kept under ("all" for the service as a whole), whether its tags say
\* host:all or the host of the document, and its other tags.  Metrics that are
\* not aggregated go to the journal at the next flush.
Call(fn, metric, name, at, tags) ==
  [fn |-> fn, metric |-> metric, name |-> name, at |-> at, tags |-> tags,
   aggregate |-> TRUE]
AtOnce(call) == [call EXCEPT !.aggregate = FALSE]

Histogram(metric, name, at, tags) == Call("histogram", metric, name, at, tags)
Counter(metric, name, at, tags)   == Call("counter", metric, name, at, tags)

\* The tag of metrics that are not to be kept long, and where it is used for
\* those of which there may be many.
NoRollup  == {"__rollup"}
Rollup(d) == IF d.team \in RollupAll THEN {} ELSE NoRollup

\* The key of the metric that a call updates.
KeyOf(call) ==
  [metric |-> call.metric, name |-> call.name, at |-> call.at, tags |-> call.tags,
   aggregate |-> call.aggregate]

When(condition, calls) == IF condition THEN calls ELSE <<>>

\* What comes of a document: the statistics it is counted in, the updates of
\* metrics and the calls of the transaction store, each in order.
Outcome(status, updates, store) ==
  [status |-> status, updates |-> updates, store |-> store]
Nothing(status) == Outcome(status, <<>>, <<>>)

\* pre_process and build_agg_tag_string find the table of the team, unless the
\* document is of an old server or its team is not configured.
IsOurs(d) == d.version >= 6 /\ d.team \in Teams
=============================================================================
