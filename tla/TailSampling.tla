---------------------------- MODULE TailSampling ----------------------------
(***************************************************************************)
(* What the store of tracemate promises to the traces of a service (README, *)
(* "Transaction Path" and the header comment of tm_transaction_store.c),   *)
(* without its two environments, its locks and its threads: the documents  *)
(* of a trace are kept for a retention; when a slow root or an error        *)
(* arrives the trace may be marked; a marked trace whose root was quiet     *)
(* for the lookback is planned, what is sent of it was stored when it was   *)
(* planned, and its mark goes only after its root was sent.  Handlers and   *)
(* the job may give up at any point: what must happen is not said here.     *)
(***************************************************************************)
EXTENDS Integers

CONSTANTS
  Docs,       \* documents, each of a trace and of a kind
  Lookback,   \* how long a root must be quiet before its trace is planned
  Retention   \* how long a root is kept at least, unless it is replaced

VARIABLES
  now,        \* the time
  opened,     \* when the store last began a new generation
  arrived,    \* the documents delivered
  held,       \* the roots stored, with the times of their first and last event
  children,   \* the other documents stored
  marked,     \* the traces to be sent
  due,        \* the traces planned and not yet sent
  cargo,      \* the documents stored when they were planned
  sent        \* the documents sent to Jaeger

vars == <<now, opened, arrived, held, children, marked, due, cargo, sent>>

IsRoot(d)       == d.kind \in {"root", "slow"}
HeldOf(t)       == {r \in held : r.doc.trace = t}
IsQuiet(t)      == \E r \in HeldOf(t) : r.mod + Lookback <= now
RootWasSent(t)  == \E d \in sent : d.trace = t /\ IsRoot(d)
Stored          == {r.doc : r \in held} \cup children

Init ==
  /\ now = 0 /\ opened = 0
  /\ arrived = {} /\ held = {} /\ children = {} /\ marked = {}
  /\ due = {} /\ cargo = {} /\ sent = {}

Advance ==
  /\ now' = now + 1
  /\ UNCHANGED <<opened, arrived, held, children, marked, due, cargo, sent>>

Arrive ==
  /\ \E d \in Docs : arrived' = arrived \cup {d}
  /\ UNCHANGED <<now, opened, held, children, marked, due, cargo, sent>>

\* A root is stored, or one that is stored is given the time of an event of
\* its trace: at most one record of the trace is replaced.
Keep ==
  /\ \E d \in arrived : \E mod \in 0..now : \E first \in 0..mod :
       LET record == [doc |-> d, first |-> first, mod |-> mod]
       IN  /\ IsRoot(d)
           /\ \/ held' = held \cup {record}
              \/ \E old \in HeldOf(d.trace) : held' = (held \ {old}) \cup {record}
  /\ UNCHANGED <<now, opened, arrived, children, marked, due, cargo, sent>>

Attach ==
  /\ \E d \in arrived : ~IsRoot(d) /\ children' = children \cup {d}
  /\ UNCHANGED <<now, opened, arrived, held, marked, due, cargo, sent>>

Mark ==
  /\ \E d \in arrived : d.kind \in {"slow", "error"} /\ marked' = marked \cup {d.trace}
  /\ UNCHANGED <<now, opened, arrived, held, children, due, cargo, sent>>

\* When nothing is due, marked traces that are quiet are planned.
Plan ==
  /\ due = {}
  /\ \A t \in due' : t \in marked /\ IsQuiet(t)
  /\ cargo' \subseteq {d \in Stored : d.trace \in due'}
  /\ UNCHANGED <<now, opened, arrived, held, children, marked, sent>>

\* A planned trace is sent, with a root of it.
Send ==
  /\ \E t \in due \cap marked : \E batch \in SUBSET {d \in cargo : d.trace = t} :
       /\ \E d \in batch : IsRoot(d)
       /\ sent' = sent \cup batch
  /\ UNCHANGED <<now, opened, arrived, held, children, marked, due, cargo>>

\* A trace of which the root was sent loses its mark, or keeps it where the
\* delete fails; the rest of the plan may be put off.
Settle ==
  /\ \E t \in due : /\ RootWasSent(t)
                    /\ marked' \in {marked, marked \ {t}}
                    /\ due' \in {{}, due \ {t}}
  /\ UNCHANGED <<now, opened, arrived, held, children, cargo, sent>>

\* With nothing due, what is older than the retention is forgotten, once the
\* generation is older than it.
Prune ==
  /\ due = {}
  /\ now - opened > Retention
  /\ held' \subseteq held
  /\ \A r \in held \ held' : now - r.first > Retention
  /\ children' \subseteq children
  /\ marked' \subseteq marked
  /\ UNCHANGED <<now, opened, arrived, due, cargo, sent>>

Renew ==
  /\ due = {}
  /\ opened' = now
  /\ UNCHANGED <<now, arrived, held, children, marked, due, cargo, sent>>

\* A crash forgets the plan, not what was stored; the new generation it may
\* interrupt begins at the restart.
Restart ==
  /\ due' = {} /\ cargo' = {}
  /\ opened' \in {opened, now}
  /\ UNCHANGED <<now, arrived, held, children, marked, sent>>

Next ==
  \/ Advance \/ Arrive \/ Keep \/ Attach \/ Mark
  \/ Plan \/ Send \/ Settle
  \/ Prune \/ Renew \/ Restart

Spec == Init /\ [][Next]_vars
=============================================================================
