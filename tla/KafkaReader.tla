----------------------------- MODULE KafkaReader ----------------------------
(***************************************************************************)
(* The loop that reads one partition of a topic (kafka_read of             *)
(* src/src/main.c, tm_kafka_consume_messages of src/src/tm_kafka.c), with  *)
(* the offsets that the client library stores and commits on its own.      *)
(*                                                                         *)
(* Positions count from 1; the offset of the message at position i is      *)
(* i - 1.  `end' is the last position there is in the partition.           *)
(***************************************************************************)
EXTENDS Naturals

CONSTANT MaxBatch  \* the messages handed over at once; 5000 in the code

VARIABLES
  phase,      \* "read", "work" on a batch, or "lag" when it is done
  next,       \* the position of the next message to work on
  handed,     \* the last position handed over, whose offset is stored
  committed,  \* the last position whose offset is committed
  offset,     \* stats->kafka_offset
  lag         \* stats->kafka_lag

readerVars == <<phase, next, handed, committed, offset, lag>>

TypeOK ==
  /\ phase \in {"read", "work", "lag"}
  /\ {next, handed, committed, offset, lag} \subseteq Nat
  /\ committed <= handed
  /\ next = IF phase = "work" THEN next ELSE handed + 1

Init ==
  /\ phase = "read"
  /\ next = 1
  /\ handed = 0
  /\ committed = 0
  /\ offset = 0
  /\ lag = 0

\* The library stores the offset of a message as it hands it over.
ConsumeSome(end) ==
  /\ phase = "read"
  /\ \E n \in (handed + 1)..end : n <= handed + MaxBatch /\ handed' = n
  /\ phase' = "work"
  /\ UNCHANGED <<next, committed, offset, lag>>

\* After two milliseconds without a message the batch is empty.
ConsumeNone ==
  /\ phase = "read"
  /\ phase' = "lag"
  /\ UNCHANGED <<next, handed, committed, offset, lag>>

\* The offset is kept of messages that are understood: those of the OTLP topic
\* and those that are not JSON leave it as it is.
Take(understood) ==
  /\ phase = "work"
  /\ next' = next + 1
  /\ offset' = IF understood THEN next - 1 ELSE offset
  /\ phase' = IF next = handed THEN "lag" ELSE "work"
  /\ UNCHANGED <<handed, committed, lag>>

LagOfMutant(watermark) ==  \* measured only while there is something to read
  IF offset > 0 /\ watermark > offset + 1 THEN watermark - offset ELSE lag

\* The high watermark is what the library knows of the broker's.
LagOf(watermark) ==
  IF offset > 0 /\ watermark > offset THEN watermark - offset ELSE lag

MeasureLag(end) ==
  /\ phase = "lag"
  /\ \E watermark \in handed..end : lag' = LagOf(watermark)
  /\ phase' = "read"
  /\ UNCHANGED <<next, handed, committed, offset>>

\* Every second, whatever has become of the messages.
Commit ==
  /\ committed < handed
  /\ committed' = handed
  /\ UNCHANGED <<phase, next, handed, offset, lag>>

RestartMutant ==  \* goes on where it was
  /\ phase' = "read"
  /\ handed' = committed
  /\ offset' = 0
  /\ lag' = 0
  /\ UNCHANGED <<committed, next>>

\* The process is started anew and reads on from the committed offset.
Restart ==
  /\ phase' = "read"
  /\ handed' = committed
  /\ next' = committed + 1
  /\ offset' = 0
  /\ lag' = 0
  /\ UNCHANGED committed
=============================================================================
