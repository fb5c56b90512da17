------------------------- MODULE MCTransactionStore -------------------------
(***************************************************************************)
(* Small instances of TransactionStore for TLC.                            *)
(***************************************************************************)
EXTENDS TransactionStore

CONSTANTS t1, t2

Doc(t, k) == [trace |-> t, kind |-> k]

\* The pair whose interleaving with a rotation matters most.
RootAndError == {Doc(t1, "root"), Doc(t1, "error")}

\* A trace that is triggered twice.
SlowAndError == {Doc(t1, "slow"), Doc(t1, "error")}

\* Two traces: one triggered by an error, one by its latency.
TwoTraces == {Doc(t1, "root"), Doc(t1, "error"), Doc(t2, "slow"), Doc(t2, "child")}
=============================================================================
