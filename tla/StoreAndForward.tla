--------------------------- MODULE StoreAndForward --------------------------
(***************************************************************************)
(* What the journal between tracemate and Circonus promises: "a store and  *)
(* forward approach with checkpointing to ensure no data gets lost before  *)
(* it successfully arrives" (README, Journal path).  Messages are numbered *)
(* in the order they are stored; a message may be settled (received, or    *)
(* discarded because nothing can be sent of it) more than once or be given *)
(* up, and is released only when it and all before it are settled or given *)
(* up.  Where nothing is given up, nothing is lost.                        *)
(***************************************************************************)
EXTENDS Integers

VARIABLES
  stored,    \* number of messages stored
  settled,   \* messages received or discarded
  dropped,   \* messages given up: unreadable, or refused when they were sent
  released   \* messages 1..released may be forgotten

vars == <<stored, settled, dropped, released>>

Init ==
  /\ stored = 0
  /\ settled = {}
  /\ dropped = {}
  /\ released = 0

Store ==
  /\ stored' = stored + 1
  /\ UNCHANGED <<settled, dropped, released>>

Settle ==
  /\ \E i \in released+1 .. stored : settled' = settled \cup {i}
  /\ UNCHANGED <<stored, dropped, released>>

GiveUp ==
  /\ \E i \in released+1 .. stored : dropped' = dropped \cup {i}
  /\ UNCHANGED <<stored, settled, released>>

Release ==
  /\ \E n \in released+1 .. stored :
       /\ 1..n \subseteq settled \cup dropped
       /\ released' = n
  /\ UNCHANGED <<stored, settled, dropped>>

Next == Store \/ Settle \/ GiveUp \/ Release

Spec == Init /\ [][Next]_vars
=============================================================================
