------------------------ MODULE MetricPipelineProofs ------------------------
(***************************************************************************)
(* That the metrics of a document find their way: for any messages, in any *)
(* order, any number of crashes and any sizes of batches, TypeOK,          *)
(* NothingLostUnlessExcused, CountedOnce and MarkedRootsKept of            *)
(* MetricPipeline hold.                                                    *)
(*                                                                         *)
(* What each step does is stated once (TakenIs, FlushIs, DeliverIs,        *)
(* TailIs, TakeAggregateIs, ReportIs), as the counts for a class and a     *)
(* document before and after it; the invariants are then kept step by      *)
(* step.                                                                   *)
(***************************************************************************)
EXTENDS MetricPipeline, SequenceTheorems, TLAPS

(***************************************************************************)
(* What becomes of the messages.                                           *)
(***************************************************************************)

\* The calls that handlers make to the transaction store.
StoreCalls == {"add_child", "mark_traceable", "put"}

\* What is in a concatenation.
LEMMA ToSetOfConcat ==
  ASSUME NEW S, NEW s \in Seq(S), NEW t \in Seq(S)
  PROVE  s \o t \in Seq(S) /\ ToSet(s \o t) = ToSet(s) \cup ToSet(t)
<1>1. s \o t \in Seq(S) /\ Len(s \o t) = Len(s) + Len(t)
      /\ \A i \in 1..(Len(s) + Len(t)) : (s \o t)[i] = IF i <= Len(s) THEN s[i] ELSE t[i - Len(s)]
  OBVIOUS
<1>2. \A i \in 1..Len(t) : (s \o t)[i + Len(s)] = t[i]
  BY <1>1
<1>3. DOMAIN s = 1..Len(s) /\ DOMAIN t = 1..Len(t) /\ DOMAIN (s \o t) = 1..(Len(s) + Len(t))
  BY <1>1
<1>4. ASSUME NEW x \in ToSet(s \o t) PROVE x \in ToSet(s) \cup ToSet(t)
  <2>1. PICK i \in 1..(Len(s) + Len(t)) : x = (s \o t)[i]
    BY <1>3 DEF ToSet
  <2>2. CASE i <= Len(s)
    BY <1>1, <1>3, <2>1, <2>2 DEF ToSet
  <2>3. CASE i > Len(s)
    <3>1. i - Len(s) \in DOMAIN t /\ x = t[i - Len(s)]
      BY <1>1, <1>3, <2>1, <2>3
    <3> QED
      BY <3>1 DEF ToSet
  <2> QED
    BY <2>2, <2>3
<1>5. ASSUME NEW x \in ToSet(s) PROVE x \in ToSet(s \o t)
  <2>1. PICK i \in 1..Len(s) : x = s[i]
    BY <1>3, <1>5 DEF ToSet
  <2>2. i \in DOMAIN (s \o t) /\ x = (s \o t)[i]
    BY <1>1, <1>3, <2>1
  <2> QED
    BY <2>2 DEF ToSet
<1>6. ASSUME NEW x \in ToSet(t) PROVE x \in ToSet(s \o t)
  <2>1. PICK i \in 1..Len(t) : x = t[i]
    BY <1>3, <1>6 DEF ToSet
  <2>2. i + Len(s) \in DOMAIN (s \o t) /\ x = (s \o t)[i + Len(s)]
    BY <1>2, <1>3, <2>1
  <2> QED
    BY <2>2 DEF ToSet
<1> QED
  BY <1>1, <1>4, <1>5, <1>6

\* What is in the lists of calls that the handlers make.
LEMMA ToSetOfList ==
  /\ <<>> \in Seq(StoreCalls) /\ ToSet(<<>>) = {}
  /\ \A c \in StoreCalls : <<c>> \in Seq(StoreCalls) /\ ToSet(<<c>>) = {c}
  /\ <<"add_child", "mark_traceable">> \in Seq(StoreCalls)
  /\ ToSet(<<"add_child", "mark_traceable">>) = {"add_child", "mark_traceable"}
<1>1. \A c : DOMAIN <<c>> = 1..1 /\ DOMAIN <<>> = {} /\ DOMAIN <<"add_child", "mark_traceable">> = 1..2
  OBVIOUS
<1> QED
  BY <1>1 DEF ToSet, StoreCalls

\* process_transaction_message: whoever calls mtev_mark_traceable calls put.
LEMMA TransactionCalls ==
  ASSUME NEW d, NEW lagging
  PROVE  /\ TransactionStoreCalls(d, lagging) \in Seq(StoreCalls)
         /\ "mark_traceable" \in ToSet(TransactionStoreCalls(d, lagging)) =>
              "put" \in ToSet(TransactionStoreCalls(d, lagging))
<1>1. CASE d.parent
  BY <1>1, ToSetOfList DEF TransactionStoreCalls, When, StoreCalls
<1>2. CASE ~d.parent
  <2> DEFINE s == When(d.slow, <<"mark_traceable">>)
             t == When(Gate(d, lagging), <<"put">>)
  <2>1. s \in Seq(StoreCalls) /\ t \in Seq(StoreCalls)
    BY ToSetOfList DEF When, StoreCalls
  <2>2. ToSet(s \o t) = ToSet(s) \cup ToSet(t) /\ s \o t \in Seq(StoreCalls)
    BY <2>1, ToSetOfConcat
  <2>3. "mark_traceable" \in ToSet(s) => d.slow
    BY ToSetOfList DEF When
  <2>4. "mark_traceable" \notin ToSet(t)
    BY ToSetOfList DEF When, StoreCalls
  <2>5. d.slow => "put" \in ToSet(t)
    BY ToSetOfList DEF When, StoreCalls, Gate
  <2> HIDE DEF s, t
  <2>6. TransactionStoreCalls(d, lagging) = s \o t
    BY <1>2 DEF TransactionStoreCalls, s, t
  <2> QED
    BY <2>2, <2>3, <2>4, <2>5, <2>6
<1> QED
  BY <1>1, <1>2

\* The calls that the handler of a document makes.
LEMMA HandlersCalls ==
  ASSUME NEW event, NEW d, NEW lagging
  PROVE  /\ Handle(event, d, lagging).store \in Seq(StoreCalls)
         /\ event = "transaction" /\ "mark_traceable" \in ToSet(Handle(event, d, lagging).store) =>
              "put" \in ToSet(Handle(event, d, lagging).store)
<1>1. \A status : Nothing(status).store = <<>>
  BY DEF Nothing, Outcome
<1>2. CASE event = "transaction"
  <2>1. Handle(event, d, lagging) = TransactionOutcome(d, lagging)
    BY <1>2 DEF Handle
  <2>2. \/ TransactionOutcome(d, lagging).store = <<>>
        \/ TransactionOutcome(d, lagging).store = TransactionStoreCalls(d, lagging)
    BY <1>1 DEF TransactionOutcome, Outcome, When
  <2> QED
    BY <2>1, <2>2, TransactionCalls, ToSetOfList
<1>3. CASE event # "transaction"
  <2>1. Handle(event, d, lagging) \in
          {ReadingOutcome(d), SpanOutcome(d), ErrorOutcome(d), Nothing("errored")}
    BY <1>3 DEF Handle
  <2>2. ReadingOutcome(d).store = <<>>
    BY <1>1 DEF ReadingOutcome, Outcome
  <2>3. SpanOutcome(d).store = <<>> \/ SpanOutcome(d).store = <<"add_child">>
    BY <1>1 DEF SpanOutcome, Outcome
  <2>4. ErrorOutcome(d).store = <<>> \/ ErrorOutcome(d).store = <<"add_child", "mark_traceable">>
    BY <1>1 DEF ErrorOutcome, Outcome
  <2> QED
    BY <1>1, <1>3, <2>1, <2>2, <2>3, <2>4, ToSetOfList DEF StoreCalls
<1> QED
  BY <1>2, <1>3

\* The same of a message without a document that a hook adds.
LEMMA MessagesCalls ==
  ASSUME NEW m, NEW lagging
  PROVE  /\ ProcessMessage(m, lagging).store \in Seq(StoreCalls)
         /\ m.event = "transaction" /\ m.more = <<>>
              /\ "mark_traceable" \in ToSet(ProcessMessage(m, lagging).store)
            => "put" \in ToSet(ProcessMessage(m, lagging).store)
<1>1. \A status : Nothing(status).store = <<>>
  BY DEF Nothing, Outcome
<1>2. OtelOutcome(m.doc).store = <<>>
  BY <1>1 DEF OtelOutcome, Outcome
<1>3. CASE m.form \in {"otlp", "garbled", "headless"}
  BY <1>1, <1>2, <1>3, ToSetOfList DEF ProcessMessage
<1>4. CASE m.form \notin {"otlp", "garbled", "headless"}
  <2> DEFINE first == IF m.form = "aborted" THEN Nothing("filtered")
                      ELSE Handle(m.event, m.doc, lagging)
             more  == IF m.more = <<>> THEN Nothing("none")
                      ELSE Handle(m.more[1].event, m.more[1].doc, lagging)
             s == first.store
             t == more.store
  <2>1. /\ s \in Seq(StoreCalls)
        /\ m.event = "transaction" /\ "mark_traceable" \in ToSet(s) => "put" \in ToSet(s)
    BY <1>1, HandlersCalls, ToSetOfList
  <2>2. t \in Seq(StoreCalls) /\ (m.more = <<>> => ToSet(t) = {})
    BY <1>1, HandlersCalls, ToSetOfList
  <2>3. ProcessMessage(m, lagging).store = s \o t
    <3>1. ProcessMessage(m, lagging) = HandleJson(m, lagging)
      BY <1>4 DEF ProcessMessage
    <3>2. PICK status, updates : HandleJson(m, lagging) = Outcome(status, updates, s \o t)
      BY Zenon DEF HandleJson
    <3> HIDE DEF s, t
    <3> QED
      BY <3>1, <3>2 DEF Outcome
  <2> HIDE DEF s, t, first, more
  <2> QED
    BY <2>1, <2>2, <2>3, ToSetOfConcat
<1> QED
  BY <1>3, <1>4

\* What becomes of the messages, looked up,
LEMMA OutcomesAre ==
  ASSUME NEW lagging, NEW n \in DOMAIN Messages
  PROVE  OutcomesOf(lagging)[n] = ProcessMessage(Messages[n], lagging)
<1> DEFINE s == [k \in DOMAIN Messages |-> ProcessMessage(Messages[k], lagging)]
<1>1. DOMAIN Messages = 1..Len(Messages) /\ Len(Messages) \in Nat
  BY MessagesAssumption
<1>2. s \in Seq({ProcessMessage(Messages[k], lagging) : k \in DOMAIN Messages})
  BY <1>1, SeqDef
<1>3. <<>> \o s = s
  BY <1>2, ConcatEmptySeq
<1> QED
  BY <1>3 DEF OutcomesOf

\* and the classes of their metrics.
LEMMA ClassesAre ==
  ASSUME NEW n \in DOMAIN Messages
  PROVE  ClassesOf[n] \subseteq Classes
<1> DEFINE s == [k \in DOMAIN Messages |-> {ClassOf(call) : call \in ToSet(Outcomes[k].updates)}]
<1>1. DOMAIN Messages = 1..Len(Messages) /\ Len(Messages) \in Nat
  BY MessagesAssumption
<1>2. s \in Seq({s[k] : k \in DOMAIN Messages})
  BY <1>1, SeqDef
<1>3. ClassesOf = s
  BY <1>2, ConcatEmptySeq DEF ClassesOf
<1>4. ClassesOf[n] = {ClassOf(call) : call \in ToSet(Outcomes[n].updates)}
  BY <1>3
<1> QED
  BY <1>4 DEF ClassOf, Classes

(***************************************************************************)
(* Types.                                                                  *)
(***************************************************************************)

\* Batches are within what was read.
Batches ==
  /\ phase1 = "work" => next1 <= handed1
  /\ phase2 = "work" => next2 <= handed2
  /\ next1 >= 1 /\ next1 <= handed1 + 1
  /\ next2 >= 1 /\ next2 <= handed2 + 1
TypeInv == TypeOK /\ Batches

\* What is in the buffer and the topic of aggregates.
AggregateMessage == [class : Classes \ {"at once"}, counts : [DOMAIN log -> Nat]]

\* TypeInv by parts: the two readers, the tables, the topic, the history.
Reader1OK ==
  /\ phase1 \in {"read", "work", "lag"}
  /\ next1 \in Nat \ {0} /\ handed1 \in Nat /\ committed1 \in Nat /\ offset1 \in Nat /\ lag1 \in Nat
  /\ committed1 <= handed1 /\ handed1 <= sent /\ next1 <= handed1 + 1
  /\ phase1 = "work" => next1 <= handed1
  /\ phase1 # "work" => next1 = handed1 + 1
Reader2OK ==
  /\ phase2 \in {"read", "work", "lag"}
  /\ next2 \in Nat \ {0} /\ handed2 \in Nat /\ committed2 \in Nat /\ offset2 \in Nat /\ lag2 \in Nat
  /\ committed2 <= handed2 /\ handed2 <= Len(aggregates) /\ next2 <= handed2 + 1
  /\ phase2 = "work" => next2 <= handed2
  /\ phase2 # "work" => next2 = handed2 + 1
ScenarioOK ==
  /\ scenario \in Scenarios /\ sent \in 0..Len(log) /\ crashes \in 0..scenario.crashes
TablesOK == table1 \in Counts /\ table2 \in Counts /\ reported \in Counts
LogsOK == buffer \in Seq(AggregateMessage) /\ aggregates \in Seq(AggregateMessage)
HistoryOK ==
  /\ traced \subseteq (DOMAIN log) \X StoreCalls
  /\ excused \subseteq Classes \X (DOMAIN log) /\ redelivered \subseteq DOMAIN log

\* What a scenario is.
LEMMA LogIs ==
  ASSUME scenario \in Scenarios
  PROVE  /\ log \in Seq(DOMAIN Messages) /\ scenario.crashes \in Nat
         /\ Len(log) \in Nat /\ DOMAIN log = 1..Len(log)
         /\ \A i \in DOMAIN log : log[i] \in DOMAIN Messages
         /\ scenario.refuses \in BOOLEAN
<1>1. scenario \in [log : Seq(DOMAIN Messages), crashes : Nat, refuses : BOOLEAN]
  BY ScenarioAssumption
<1>2. log \in Seq(DOMAIN Messages)
  BY <1>1 DEF log
<1> QED
  BY <1>1, <1>2

\* All of them.
Parts == ScenarioOK /\ Reader1OK /\ Reader2OK /\ TablesOK /\ LogsOK /\ HistoryOK

\* TypeInv by parts, before and after a step.
LEMMA InvParts == (TypeInv <=> Parts) /\ (TypeInv' <=> Parts')
<1>1. /\ (Reader1!TypeOK /\ handed1 <= sent /\ (phase1 = "work" => next1 <= handed1)
          /\ next1 >= 1 /\ next1 <= handed1 + 1) <=> Reader1OK
      /\ (Reader2!TypeOK /\ handed2 <= Len(aggregates) /\ (phase2 = "work" => next2 <= handed2)
          /\ next2 >= 1 /\ next2 <= handed2 + 1) <=> Reader2OK
  BY DEF Reader1!TypeOK, Reader2!TypeOK, Reader1OK, Reader2OK
<1>2. TypeInv <=> Parts
  BY <1>1 DEF TypeInv, TypeOK, Batches, Parts, ScenarioOK, TablesOK, LogsOK, HistoryOK,
     AggregateMessage,
     StoreCalls
<1>3. /\ (Reader1!TypeOK /\ handed1 <= sent /\ (phase1 = "work" => next1 <= handed1)
          /\ next1 >= 1 /\ next1 <= handed1 + 1)' <=> Reader1OK'
      /\ (Reader2!TypeOK /\ handed2 <= Len(aggregates) /\ (phase2 = "work" => next2 <= handed2)
          /\ next2 >= 1 /\ next2 <= handed2 + 1)' <=> Reader2OK'
  BY DEF Reader1!TypeOK, Reader2!TypeOK, Reader1OK, Reader2OK
<1>4. TypeInv' <=> Parts'
  BY <1>3 DEF TypeInv, TypeOK, Batches, Parts, ScenarioOK, TablesOK, LogsOK, HistoryOK,
     AggregateMessage,
     StoreCalls
<1> QED
  BY <1>2, <1>4

\* The same messages for ever.
LEMMA SameLog ==
  ASSUME UNCHANGED scenario
  PROVE  /\ log' = log /\ Counts' = Counts /\ AggregateMessage' = AggregateMessage
         /\ None' = None /\ Empty' = Empty
BY DEF log, Counts, AggregateMessage, None, Empty

\* The counts at the start.
LEMMA CountTypes ==
  /\ None \in [DOMAIN log -> Nat] /\ Empty \in Counts
  /\ \A i \in DOMAIN log : None[i] = 0
  /\ \A c \in Classes : Empty[c] = None
BY DEF None, Empty, Counts

\* What is counted after counts were added to a class,
LEMMA AddedIs ==
  ASSUME NEW table \in Counts, NEW c \in Classes, NEW counts \in [DOMAIN log -> Nat]
  PROVE  /\ Added(table, c, counts) \in Counts
         /\ \A d \in Classes, i \in DOMAIN log : Added(table, c, counts)[d][i] =
              table[d][i] + (IF d = c THEN counts[i] ELSE 0)
<1>1. Plus(table[c], counts) \in [DOMAIN log -> Nat]
      /\ \A i \in DOMAIN log : Plus(table[c], counts)[i] = table[c][i] + counts[i]
  BY DEF Plus, Counts
<1>2. \A d \in Classes, i \in DOMAIN log : table[d][i] \in Nat
  BY DEF Counts
<1>3. Added(table, c, counts) = [table EXCEPT ![c] = Plus(table[c], counts)]
  BY DEF Added
<1> QED
  BY <1>1, <1>2, <1>3 DEF Counts

\* and after it was sent or reported.
LEMMA EmptiedIs ==
  ASSUME NEW table \in Counts, NEW c \in Classes
  PROVE  /\ Emptied(table, c) \in Counts
         /\ \A d \in Classes, i \in DOMAIN log : Emptied(table, c)[d][i] =
              IF d = c THEN 0 ELSE table[d][i]
BY CountTypes DEF Emptied, Counts

\* The rest of the state, for a step of one of the readers.
LEMMA ReadTypes ==
  ASSUME Parts, UNCHANGED scenario
  PROVE  /\ log' = log
         /\ UNCHANGED <<table1, table2, reported>> => TablesOK'
         /\ UNCHANGED <<buffer, aggregates>> => LogsOK'
         /\ UNCHANGED <<traced, excused, redelivered>> => HistoryOK'
         /\ UNCHANGED <<sent, crashes>> => ScenarioOK'
         /\ UNCHANGED <<reader1, sent>> => Reader1OK'
         /\ UNCHANGED reader2 /\ Len(aggregates') >= Len(aggregates) => Reader2OK'
<1>1. log' = log /\ Counts' = Counts /\ AggregateMessage' = AggregateMessage
  BY SameLog
<1>2. UNCHANGED <<table1, table2, reported>> => TablesOK'
  BY <1>1 DEF Parts, TablesOK
<1>3. UNCHANGED <<buffer, aggregates>> => LogsOK'
  BY <1>1 DEF Parts, LogsOK
<1>4. UNCHANGED <<traced, excused, redelivered>> => HistoryOK'
  BY <1>1 DEF Parts, HistoryOK
<1>5. UNCHANGED <<sent, crashes>> => ScenarioOK'
  BY <1>1 DEF Parts, ScenarioOK
<1>6. UNCHANGED <<reader1, sent>> => Reader1OK'
  BY DEF Parts, Reader1OK, reader1
<1>7. UNCHANGED reader2 /\ Len(aggregates') >= Len(aggregates) => Reader2OK'
  <2>1. SUFFICES ASSUME UNCHANGED reader2, Len(aggregates') >= Len(aggregates)
                 PROVE  Reader2OK'
    OBVIOUS
  <2>2. aggregates \in Seq(AggregateMessage) /\ Reader2OK
    BY DEF Parts, LogsOK
  <2> QED
    BY <2>1, <2>2 DEF Reader2OK, reader2
<1> QED
  BY <1>1, <1>2, <1>3, <1>4, <1>5, <1>6, <1>7

LEMMA ArriveTyped == ASSUME TypeInv, Arrive PROVE TypeInv'
BY InvParts, ReadTypes, LogIs DEF Parts, Arrive, ScenarioOK, Reader1OK, reader1,
   reader2, history, LogsOK

LEMMA Read1Typed == ASSUME TypeInv, Read1 \/ Fetch1 PROVE TypeInv'
<1>1. UNCHANGED <<scenario, sent, table1, buffer, aggregates, reader2, table2,
                  reported, traced, history>>
  BY DEF Read1, Fetch1
<1>2. Reader1OK'
  <2>1. CASE Reader1!ConsumeNone \/ Reader1!Commit
    BY <1>1, <2>1, InvParts DEF Parts, Reader1OK, Reader1!ConsumeNone, Reader1!Commit
  <2>2. CASE Reader1!MeasureLag(sent)
    <3>1. PICK watermark \in handed1..sent : lag1' = Reader1!LagOf(watermark)
      BY <2>2 DEF Reader1!MeasureLag
    <3>2. lag1' \in Nat
      BY <3>1, InvParts DEF Parts, Reader1OK, ScenarioOK, Reader1!LagOf
    <3> QED
      BY <1>1, <2>2, <3>2, InvParts DEF Parts, Reader1OK, Reader1!MeasureLag
  <2>3. CASE Reader1!ConsumeSome(sent)
    BY <1>1, <2>3, InvParts DEF Parts, Reader1OK, ScenarioOK, Reader1!ConsumeSome
  <2> QED
    BY <2>1, <2>2, <2>3 DEF Read1, Fetch1
<1> QED
  BY <1>1, <1>2, InvParts, ReadTypes DEF Parts, history, LogsOK

LEMMA Read2Typed == ASSUME TypeInv, Read2 \/ Fetch2 PROVE TypeInv'
<1>1. UNCHANGED <<scenario, sent, reader1, table1, buffer, aggregates, table2,
                  reported, traced, history>>
  BY DEF Read2, Fetch2
<1>2. Reader2OK'
  <2>0. Len(aggregates) \in Nat
    BY InvParts DEF Parts, LogsOK
  <2>1. CASE Reader2!ConsumeNone \/ Reader2!Commit
    BY <1>1, <2>1, InvParts DEF Parts, Reader2OK, Reader2!ConsumeNone, Reader2!Commit
  <2>2. CASE Reader2!MeasureLag(Len(aggregates))
    <3>1. PICK watermark \in handed2..Len(aggregates) : lag2' = Reader2!LagOf(watermark)
      BY <2>2 DEF Reader2!MeasureLag
    <3>2. lag2' \in Nat
      BY <2>0, <3>1, InvParts DEF Parts, Reader2OK, Reader2!LagOf
    <3> QED
      BY <1>1, <2>2, <3>2, InvParts DEF Parts, Reader2OK, Reader2!MeasureLag
  <2>3. CASE Reader2!ConsumeSome(Len(aggregates))
    BY <1>1, <2>0, <2>3, InvParts DEF Parts, Reader2OK, Reader2!ConsumeSome
  <2> QED
    BY <2>1, <2>2, <2>3 DEF Read2, Fetch2
<1> QED
  BY <1>1, <1>2, InvParts, ReadTypes DEF Parts, history

\* The message the reader is at.
LEMMA AtMessage ==
  ASSUME TypeInv, phase1 = "work"
  PROVE  next1 \in DOMAIN log /\ log[next1] \in DOMAIN Messages
BY InvParts, LogIs DEF Parts, ScenarioOK, Reader1OK

\* What TakeDocument adds to the table and to the calls.
LEMMA TakenIs ==
  ASSUME TypeInv, TakeDocument
  PROVE  /\ table1' \in Counts
         /\ \A c \in Classes, i \in DOMAIN log : table1'[c][i] =
              table1[c][i] + (IF i = next1 /\ c \in ClassesOf[log[next1]] THEN 1 ELSE 0)
         /\ \E lagging : traced' = traced \cup
              {<<next1, call>> : call \in ToSet(ProcessMessage(At(next1), lagging).store)}
         /\ next1' = next1 + 1 /\ Reader1OK'
<1>1. next1 \in DOMAIN log /\ log[next1] \in DOMAIN Messages /\ phase1 = "work"
  BY AtMessage DEF TakeDocument
<1>2. table1 \in Counts
  BY InvParts DEF Parts, TablesOK
<1>3. \A c \in Classes : table1[c] \in [DOMAIN log -> Nat]
  BY <1>2 DEF Counts
<1>4. table1' = [c \in Classes |->
         IF c \in ClassesOf[log[next1]] THEN [table1[c] EXCEPT ![next1] = @ + 1] ELSE table1[c]]
  BY DEF TakeDocument
<1>5. \A c \in Classes : table1'[c] = IF c \in ClassesOf[log[next1]]
                                      THEN [table1[c] EXCEPT ![next1] = @ + 1] ELSE table1[c]
  BY <1>4
<1>6. \A c \in Classes :
      /\ table1'[c] \in [DOMAIN log -> Nat]
      /\ \A i \in DOMAIN log : table1'[c][i] =
              table1[c][i] + (IF i = next1 /\ c \in ClassesOf[log[next1]] THEN 1 ELSE 0)
  <2>1. TAKE c \in Classes
  <2>2. CASE c \in ClassesOf[log[next1]]
    <3>1. table1'[c] = [table1[c] EXCEPT ![next1] = @ + 1]
      BY <1>5, <2>2
    <3> QED
      BY <1>1, <1>3, <2>2, <3>1
  <2>3. CASE c \notin ClassesOf[log[next1]]
    <3>1. table1'[c] = table1[c]
      BY <1>5, <2>3
    <3> QED
      BY <1>3, <2>3, <3>1
  <2> QED
    BY <2>2, <2>3
<1>7. table1' \in Counts
  BY <1>4, <1>6 DEF Counts
<1>8. \E lagging : traced' = traced \cup
              {<<next1, call>> : call \in ToSet(ProcessMessage(At(next1), lagging).store)}
  <2>1. PICK lagging : traced' = traced \cup
              {<<next1, call>> : call \in ToSet(OutcomesOf(lagging)[log[next1]].store)}
    BY DEF TakeDocument, Outcomes, LaggardsOutcomes
  <2> QED
    BY <1>1, <2>1, OutcomesAre DEF At
<1>9. next1' = next1 + 1 /\ Reader1OK'
  BY InvParts DEF Parts, Reader1OK, ScenarioOK, TakeDocument, Reader1!Take
<1> QED
  BY <1>6, <1>7, <1>8, <1>9

LEMMA TakeDocumentTyped == ASSUME TypeInv, TakeDocument PROVE TypeInv'
<1>1. UNCHANGED <<scenario, sent, buffer, aggregates, reader2, table2, reported,
                  history>>
  BY DEF TakeDocument
<1>2. traced' \subseteq (DOMAIN log) \X StoreCalls
  <2>1. PICK lagging : traced' = traced \cup
              {<<next1, call>> : call \in ToSet(ProcessMessage(At(next1), lagging).store)}
    BY TakenIs
  <2>2. ToSet(ProcessMessage(At(next1), lagging).store) \subseteq StoreCalls
    BY MessagesCalls DEF ToSet
  <2>3. next1 \in DOMAIN log
    BY AtMessage DEF TakeDocument
  <2> QED
    BY <2>1, <2>2, <2>3, InvParts DEF Parts, HistoryOK
<1>3. HistoryOK' /\ TablesOK'
  BY <1>1, <1>2, InvParts, SameLog, TakenIs DEF Parts, HistoryOK, TablesOK, history
<1> QED
  BY <1>1, <1>3, InvParts, ReadTypes, TakenIs DEF Parts, history, LogsOK

\* What a flush sends and reports.
LEMMA FlushIs ==
  ASSUME TypeInv, NEW c \in Classes, Flush(c)
  PROVE  /\ table1' \in Counts /\ table1[c] \in [DOMAIN log -> Nat]
         /\ \A d \in Classes, i \in DOMAIN log : table1'[d][i] = IF d = c THEN 0 ELSE table1[d][i]
         /\ \/ /\ reported' \in Counts /\ UNCHANGED buffer
               /\ \A d \in Classes, i \in DOMAIN log : reported'[d][i] =
                    reported[d][i] + (IF d = c THEN table1[c][i] ELSE 0)
            \/ /\ UNCHANGED reported
               /\ buffer' = Append(buffer, [class |-> c, counts |-> table1[c]])
               /\ [class |-> c, counts |-> table1[c]] \in AggregateMessage
<1>1. table1 \in Counts /\ reported \in Counts /\ table1[c] \in [DOMAIN log -> Nat]
  BY InvParts DEF Parts, TablesOK, Counts
<1>2. /\ table1' \in Counts
      /\ \A d \in Classes, i \in DOMAIN log : table1'[d][i] = IF d = c THEN 0 ELSE table1[d][i]
  <2>1. table1' = Emptied(table1, c)
    BY DEF Flush
  <2> QED
    BY <1>1, <2>1, EmptiedIs
<1>3. CASE c = "at once"
  <2>1. reported' = Added(reported, c, table1[c]) /\ UNCHANGED buffer
    BY <1>3 DEF Flush
  <2>2. /\ reported' \in Counts
        /\ \A d \in Classes, i \in DOMAIN log : reported'[d][i] =
             reported[d][i] + (IF d = c THEN table1[c][i] ELSE 0)
    BY <1>1, <2>1, AddedIs
  <2> QED
    BY <1>1, <1>2, <2>1, <2>2
<1>4. CASE c # "at once"
  BY <1>1, <1>2, <1>4 DEF Flush, AggregateMessage
<1> QED
  BY <1>3, <1>4

LEMMA FlushTyped == ASSUME TypeInv, NEW c \in Classes, Flush(c) PROVE TypeInv'
<1>1. UNCHANGED <<scenario, sent, reader1, aggregates, reader2, table2, traced,
                  history>>
  BY DEF Flush
<1>2. TablesOK'
  BY <1>1, FlushIs, InvParts, SameLog DEF Parts, TablesOK
<1>3. LogsOK'
  <2>1. buffer \in Seq(AggregateMessage) /\ aggregates \in Seq(AggregateMessage)
    BY InvParts DEF Parts, LogsOK
  <2>2. UNCHANGED buffer => buffer' \in Seq(AggregateMessage)
    BY <2>1
  <2>3. \A message \in AggregateMessage :
          buffer' = Append(buffer, message) => buffer' \in Seq(AggregateMessage)
    BY <2>1, AppendProperties
  <2>4. buffer' \in Seq(AggregateMessage)
    BY <2>2, <2>3, FlushIs
  <2> QED
    BY <1>1, <2>1, <2>4, SameLog DEF LogsOK
<1> QED
  BY <1>1, <1>2, <1>3, InvParts, ReadTypes DEF Parts, history, LogsOK

\* The messages of the buffer move up.
LEMMA TailIs ==
  ASSUME TypeInv, buffer # <<>>, buffer' = Tail(buffer)
  PROVE  /\ Len(buffer) \in Nat \ {0} /\ Len(buffer') = Len(buffer) - 1
         /\ buffer[1] = Head(buffer) /\ buffer[1] \in AggregateMessage
         /\ DOMAIN buffer = 1..Len(buffer) /\ DOMAIN buffer' = 1..(Len(buffer) - 1)
         /\ \A k \in DOMAIN buffer' : buffer'[k] = buffer[k + 1]
         /\ buffer' \in Seq(AggregateMessage)
<1>1. buffer \in Seq(AggregateMessage)
  BY InvParts DEF Parts, LogsOK
<1>2. buffer \in Seq(AggregateMessage) /\ Len(buffer) \in Nat \ {0} /\ DOMAIN buffer = 1..Len(buffer)
  BY <1>1, EmptySeq
<1>3. Tail(buffer) \in Seq(AggregateMessage) /\ Len(Tail(buffer)) = Len(buffer) - 1
  BY <1>1, HeadTailProperties
<1>4. \A k \in 1..Len(Tail(buffer)) : Tail(buffer)[k] = buffer[k + 1]
  BY <1>1, HeadTailProperties
<1> QED
  BY <1>2, <1>3, <1>4

\* What is delivered.
LEMMA DeliverIs ==
  ASSUME TypeInv, Deliver
  PROVE  /\ aggregates' = Append(aggregates, buffer[1]) /\ aggregates' \in Seq(AggregateMessage)
         /\ Len(aggregates) \in Nat /\ Len(aggregates') = Len(aggregates) + 1
         /\ \A k \in 1..Len(aggregates) : aggregates'[k] = aggregates[k]
         /\ aggregates'[Len(aggregates) + 1] = buffer[1]
<1>1. aggregates \in Seq(AggregateMessage)
  BY InvParts DEF Parts, LogsOK
<1>2. buffer[1] \in AggregateMessage /\ buffer[1] = Head(buffer)
  BY TailIs DEF Deliver
<1>3. aggregates' = Append(aggregates, buffer[1])
  BY <1>2 DEF Deliver
<1> QED
  BY <1>1, <1>2, <1>3

LEMMA DeliverTyped == ASSUME TypeInv, Deliver PROVE TypeInv'
<1>1. UNCHANGED <<scenario, sent, reader1, table1, reader2, table2, reported, traced,
                  history>>
  BY DEF Deliver
<1>2. LogsOK' /\ Len(aggregates') >= Len(aggregates)
  BY <1>1, DeliverIs, TailIs, SameLog DEF LogsOK, Deliver
<1> QED
  BY <1>1, <1>2, InvParts, ReadTypes DEF Parts, history

\* What is within a message.
LEMMA WithinIs ==
  ASSUME NEW message \in AggregateMessage
  PROVE  /\ Within(message) \subseteq Classes \X DOMAIN log
         /\ \A c \in Classes, i \in DOMAIN log :
              <<c, i>> \in Within(message) <=> InMessage(message, c, i) > 0
         /\ \A c \in Classes, i \in DOMAIN log : InMessage(message, c, i) \in Nat
<1>1. message.class \in Classes /\ message.counts \in [DOMAIN log -> Nat]
  BY DEF AggregateMessage
<1>2. \A c, i : <<c, i>> \in Within(message) <=>
                  c = message.class /\ i \in DOMAIN log /\ message.counts[i] > 0
  BY DEF Within
<1>3. Within(message) \subseteq Classes \X DOMAIN log
  BY <1>1 DEF Within
<1> QED
  BY <1>1, <1>2, <1>3 DEF InMessage

LEMMA RefuseTyped == ASSUME TypeInv, Refuse PROVE TypeInv'
<1>1. UNCHANGED <<scenario, sent, reader1, table1, aggregates, reader2, table2,
                  reported,
                 traced, redelivered, crashes>>
  BY DEF Refuse
<1>2. LogsOK' /\ HistoryOK'
  BY <1>1, TailIs, WithinIs, SameLog, InvParts DEF LogsOK, HistoryOK, Parts, Refuse
<1> QED
  BY <1>1, <1>2, InvParts, ReadTypes DEF Parts, history

LEMMA CrashReaderTyped == ASSUME TypeInv, CrashReader PROVE TypeInv'
<1>1. /\ UNCHANGED <<scenario, sent, aggregates, reader2, table2, reported, traced>>
      /\ table1' = Empty /\ buffer' = <<>>
  BY DEF CrashReader
<1>2. log \in Seq(DOMAIN Messages) /\ DOMAIN log = 1..Len(log) /\ Len(log) \in Nat /\ scenario.crashes \in Nat
  BY InvParts, LogIs DEF Parts, ScenarioOK
<1>3. TablesOK' /\ LogsOK'
  BY <1>1, InvParts, CountTypes, SameLog DEF Parts, TablesOK, LogsOK
<1>4. Reader1OK'
  BY <1>1, InvParts DEF Parts, Reader1OK, CrashReader, Reader1!Restart, ScenarioOK
<1>5. crashes' \in 0..scenario.crashes
  BY <1>2, InvParts DEF Parts, ScenarioOK, CrashReader
<1>6. HistoryOK'
  <2>1. committed1 \in 0..Len(log) /\ next1 - 1 \in 0..Len(log) /\ next1 \in Nat /\ committed1 \in Nat
    BY <1>2, InvParts DEF Parts, Reader1OK, ScenarioOK
  <2>2. 1..committed1 \subseteq DOMAIN log /\ (committed1 + 1)..(next1 - 1) \subseteq DOMAIN log
    BY <1>2, <2>1
  <2>3. excused' \subseteq Classes \X DOMAIN log /\ redelivered' \subseteq DOMAIN log
    BY <2>2, InvParts DEF Parts, HistoryOK, CrashReader
  <2> QED
    BY <1>1, <2>3, SameLog, InvParts DEF Parts, HistoryOK
<1>7. ScenarioOK'
  BY <1>1, <1>5, SameLog, InvParts DEF Parts, ScenarioOK
<1> QED
  BY <1>1, <1>3, <1>4, <1>6, <1>7, InvParts, ReadTypes DEF Parts

\* The next aggregate.
LEMMA AtAggregate ==
  ASSUME TypeInv, phase2 = "work"
  PROVE  /\ next2 \in 1..Len(aggregates) /\ Len(aggregates) \in Nat
         /\ aggregates[next2] \in AggregateMessage
<1>1. next2 \in 1..Len(aggregates) /\ Len(aggregates) \in Nat /\ aggregates \in Seq(AggregateMessage)
  BY InvParts DEF Parts, Reader2OK, LogsOK
<1> QED
  BY <1>1

\* What an aggregate adds to the second table.
LEMMA TakeAggregateIs ==
  ASSUME TypeInv, TakeAggregate
  PROVE  /\ table2' \in Counts
         /\ \A c \in Classes, i \in DOMAIN log : table2'[c][i] =
              table2[c][i] + InMessage(aggregates[next2], c, i)
         /\ next2' = next2 + 1 /\ Reader2OK'
<1>1. /\ aggregates[next2].class \in Classes
      /\ aggregates[next2].counts \in [DOMAIN log -> Nat]
  BY AtAggregate DEF TakeAggregate, AggregateMessage
<1>2. table2' \in Counts /\ \A c \in Classes, i \in DOMAIN log : table2'[c][i] =
        table2[c][i] + (IF c = aggregates[next2].class THEN aggregates[next2].counts[i] ELSE 0)
  BY <1>1, AddedIs, InvParts DEF TakeAggregate, Parts, TablesOK
<1>3. next2' = next2 + 1 /\ Reader2OK'
  BY InvParts DEF Parts, Reader2OK, TakeAggregate, Reader2!Take
<1> QED
  BY <1>2, <1>3 DEF InMessage

LEMMA TakeAggregateTyped == ASSUME TypeInv, TakeAggregate PROVE TypeInv'
<1>1. UNCHANGED <<scenario, sent, reader1, table1, buffer, aggregates, reported,
                  traced, history>>
  BY DEF TakeAggregate
<1>2. TablesOK'
  BY <1>1, TakeAggregateIs, InvParts, SameLog DEF Parts, TablesOK
<1> QED
  BY <1>1, <1>2, InvParts, ReadTypes, TakeAggregateIs DEF Parts, history

\* What a report takes out of the second table.
LEMMA ReportIs ==
  ASSUME TypeInv, NEW c \in Classes, Report(c)
  PROVE  /\ table2' \in Counts /\ reported' \in Counts
         /\ \A d \in Classes, i \in DOMAIN log :
              /\ table2'[d][i] = IF d = c THEN 0 ELSE table2[d][i]
              /\ reported'[d][i] = reported[d][i] + (IF d = c THEN table2[c][i] ELSE 0)
<1>1. table2 \in Counts /\ reported \in Counts /\ table2[c] \in [DOMAIN log -> Nat]
  BY InvParts DEF Parts, TablesOK, Counts
<1>2. table2' = Emptied(table2, c) /\ reported' = Added(reported, c, table2[c])
  BY DEF Report
<1>3. /\ table2' \in Counts
      /\ \A d \in Classes, i \in DOMAIN log : table2'[d][i] = IF d = c THEN 0 ELSE table2[d][i]
  BY <1>1, <1>2, EmptiedIs
<1>4. /\ reported' \in Counts
      /\ \A d \in Classes, i \in DOMAIN log :
           reported'[d][i] = reported[d][i] + (IF d = c THEN table2[c][i] ELSE 0)
  BY <1>1, <1>2, AddedIs
<1> QED
  BY <1>3, <1>4

LEMMA ReportTyped == ASSUME TypeInv, NEW c \in Classes, Report(c) PROVE TypeInv'
<1>1. UNCHANGED <<scenario, sent, reader1, table1, buffer, aggregates, reader2, traced,
                  history>>
  BY DEF Report
<1>2. TablesOK'
  BY <1>1, ReportIs, InvParts, SameLog DEF Parts, TablesOK
<1> QED
  BY <1>1, <1>2, InvParts, ReadTypes DEF Parts, history, LogsOK

LEMMA CrashOwnerTyped == ASSUME TypeInv, CrashOwner PROVE TypeInv'
<1>1. /\ UNCHANGED <<scenario, sent, reader1, table1, buffer, aggregates, reported,
                     traced>>
      /\ table2' = Empty
  BY DEF CrashOwner
<1>2. scenario.crashes \in Nat
  BY InvParts, LogIs DEF Parts, ScenarioOK
<1>3. TablesOK'
  BY <1>1, InvParts, CountTypes, SameLog DEF Parts, TablesOK
<1>4. Reader2OK'
  BY <1>1, InvParts DEF Parts, Reader2OK, CrashOwner, Reader2!Restart, LogsOK
<1>5. ScenarioOK'
  BY <1>1, <1>2, SameLog, InvParts DEF Parts, ScenarioOK, CrashOwner
<1>6. HistoryOK'
  BY <1>1, SameLog, InvParts DEF Parts, HistoryOK, CrashOwner
<1> QED
  BY <1>1, <1>3, <1>4, <1>5, <1>6, InvParts, ReadTypes DEF Parts, LogsOK

LEMMA InitTyped == Init => TypeInv
<1> SUFFICES ASSUME Init PROVE Parts
  BY InvParts
<1>1. scenario \in Scenarios
  BY DEF Init
<1>2. Len(log) \in Nat /\ scenario.crashes \in Nat
  BY <1>1, LogIs
<1>3. ScenarioOK /\ Reader1OK /\ Reader2OK
  BY <1>2 DEF Init, ScenarioOK, Reader1OK, Reader2OK, Reader1!Init, Reader2!Init
<1>4. TablesOK /\ LogsOK /\ HistoryOK
  BY CountTypes DEF Init, TablesOK, LogsOK, HistoryOK
<1> QED
  BY <1>3, <1>4 DEF Parts

LEMMA UnchangedTyped == ASSUME TypeInv, UNCHANGED vars PROVE TypeInv'
BY InvParts, ReadTypes DEF Parts, vars, history, LogsOK

LEMMA StepTyped == ASSUME TypeInv, [Next]_vars PROVE TypeInv'
BY ArriveTyped, Read1Typed, Read2Typed, TakeDocumentTyped, FlushTyped, DeliverTyped,
   RefuseTyped,
   CrashReaderTyped, TakeAggregateTyped, ReportTyped, CrashOwnerTyped,
   UnchangedTyped DEF Next

\* The readers never hand over what has not arrived, nor commit what they have
\* not handed over (tm_kafka_consume_messages, rd_kafka_commit), and what is
\* delivered are aggregates of documents that were read.
THEOREM TypeCorrect == Spec => []TypeOK
<1>1. Init => TypeInv
  BY InitTyped
<1>2. TypeInv /\ [Next]_vars => TypeInv'
  BY StepTyped
<1>3. TypeInv => TypeOK
  BY DEF TypeInv
<1> QED
  BY <1>1, <1>2, <1>3, PTL DEF Spec

(***************************************************************************)
(* Nothing is lost.                                                        *)
(***************************************************************************)

\* Where the updates of class c of document i are.
Somewhere(c, i) ==
  \/ table1[c][i] > 0
  \/ table2[c][i] > 0
  \/ reported[c][i] > 0
  \/ \E k \in DOMAIN buffer : InMessage(buffer[k], c, i) > 0
  \/ \E k \in next2..Len(aggregates) : InMessage(aggregates[k], c, i) > 0

\* What Held is at each of the places.
LEMMA PlacesAre ==
  ASSUME NEW c, NEW i
  PROVE  /\ \A place \in Places :
              \/ place = <<"table1", 0>> /\ Held(place, c, i) = table1[c][i]
              \/ place = <<"table2", 0>> /\ Held(place, c, i) = table2[c][i]
              \/ place = <<"reported", 0>> /\ Held(place, c, i) = reported[c][i]
              \/ \E k \in DOMAIN buffer :
                   place = <<"buffer", k>> /\ Held(place, c, i) = InMessage(buffer[k], c, i)
              \/ \E k \in next2..Len(aggregates) :
                   place = <<"topic", k>> /\ Held(place, c, i) = InMessage(aggregates[k], c, i)
         /\ <<"table1", 0>> \in Places /\ Held(<<"table1", 0>>, c, i) = table1[c][i]
         /\ <<"table2", 0>> \in Places /\ Held(<<"table2", 0>>, c, i) = table2[c][i]
         /\ <<"reported", 0>> \in Places /\ Held(<<"reported", 0>>, c, i) = reported[c][i]
         /\ \A k \in DOMAIN buffer :
              <<"buffer", k>> \in Places /\ Held(<<"buffer", k>>, c, i) = InMessage(buffer[k], c, i)
         /\ \A k \in next2..Len(aggregates) :
              <<"topic", k>> \in Places /\ Held(<<"topic", k>>, c, i) = InMessage(aggregates[k], c, i)
<1>1. /\ Held(<<"table1", 0>>, c, i) = table1[c][i]
      /\ Held(<<"table2", 0>>, c, i) = table2[c][i]
      /\ Held(<<"reported", 0>>, c, i) = reported[c][i]
      /\ \A k : Held(<<"buffer", k>>, c, i) = InMessage(buffer[k], c, i)
      /\ \A k : Held(<<"topic", k>>, c, i) = InMessage(aggregates[k], c, i)
  BY DEF Held
<1>2. \A place : place \in Places <=>
        \/ place \in {<<"table1", 0>>, <<"table2", 0>>, <<"reported", 0>>}
        \/ \E k \in DOMAIN buffer : place = <<"buffer", k>>
        \/ \E k \in next2..Len(aggregates) : place = <<"topic", k>>
  BY DEF Places
<1> HIDE DEF Places
<1> QED
  BY <1>1, <1>2

\* That updates are held is that they are in one of the places.
LEMMA HeldSomewhere == ASSUME NEW c, NEW i PROVE IsHeld(c, i) <=> Somewhere(c, i)
<1>1. ASSUME IsHeld(c, i) PROVE Somewhere(c, i)
  <2>1. PICK place \in Places : Held(place, c, i) > 0
    BY <1>1 DEF IsHeld
  <2> QED
    BY <2>1, PlacesAre DEF Somewhere
<1>2. ASSUME Somewhere(c, i) PROVE IsHeld(c, i)
  <2>1. CASE \E k \in DOMAIN buffer : InMessage(buffer[k], c, i) > 0
    <3>1. PICK k \in DOMAIN buffer : InMessage(buffer[k], c, i) > 0
      BY <2>1
    <3>2. <<"buffer", k>> \in Places /\ Held(<<"buffer", k>>, c, i) = InMessage(buffer[k], c, i)
      BY <3>1 DEF Places, Held
    <3>3. Held(<<"buffer", k>>, c, i) > 0
      BY <3>1, <3>2
    <3> QED
      BY <3>2, <3>3 DEF IsHeld
  <2>2. CASE \E k \in next2..Len(aggregates) : InMessage(aggregates[k], c, i) > 0
    <3>1. PICK k \in next2..Len(aggregates) : InMessage(aggregates[k], c, i) > 0
      BY <2>2
    <3>2. <<"topic", k>> \in Places /\ Held(<<"topic", k>>, c, i) = InMessage(aggregates[k], c, i)
      BY <3>1 DEF Places, Held
    <3>3. Held(<<"topic", k>>, c, i) > 0
      BY <3>1, <3>2
    <3> QED
      BY <3>2, <3>3 DEF IsHeld
  <2>3. CASE table1[c][i] > 0 \/ table2[c][i] > 0 \/ reported[c][i] > 0
    BY <2>3, PlacesAre DEF IsHeld
  <2> QED
    BY <1>2, <2>1, <2>2, <2>3 DEF Somewhere
<1> QED
  BY <1>1, <1>2

\* What is in the second table was in a message that was read.
Sources == \A c \in Classes, i \in DOMAIN log : table2[c][i] > 0 =>
  \E k \in 1..(next2 - 1) : InMessage(aggregates[k], c, i) > 0

\* What was read is somewhere.
KeptSomewhere == \A i \in DOMAIN log : \A c \in ClassesOf[log[i]] :
  i < next1 => Somewhere(c, i) \/ <<c, i>> \in excused

\* The inductive invariant of NothingLost.
LostInv == Sources /\ KeptSomewhere

\* The documents that were read.
LEMMA ReadDocuments ==
  ASSUME TypeInv, NEW i \in 1..(next1 - 1)
  PROVE  i \in DOMAIN log /\ ClassesOf[log[i]] \subseteq Classes
<1>1. i \in DOMAIN log /\ log[i] \in DOMAIN Messages
  BY InvParts, LogIs DEF Parts, Reader1OK, ScenarioOK
<1> QED
  BY <1>1, ClassesAre

\* A step keeps LostInv if what was somewhere is still, and what is newly read
\* is, or else excused.
LEMMA KeptStep ==
  ASSUME TypeInv, TypeInv', LostInv, UNCHANGED scenario, Sources', excused \subseteq excused',
         \A c \in Classes, i \in DOMAIN log : i < next1' /\ Somewhere(c, i) =>
           Somewhere(c, i)' \/ <<c, i>> \in excused',
         \A c \in Classes, i \in DOMAIN log :
           i < next1' /\ i >= next1 /\ c \in ClassesOf[log[i]] => Somewhere(c, i)' \/ <<c, i>> \in excused'
  PROVE  LostInv'
<1>1. log' = log
  BY SameLog
<1>2. next1 \in Nat /\ next1' \in Nat
  BY InvParts DEF Parts, Reader1OK
<1>3. ASSUME NEW i \in DOMAIN log, NEW c \in ClassesOf[log[i]], i < next1'
      PROVE  Somewhere(c, i)' \/ <<c, i>> \in excused'
  <2>1. c \in Classes /\ i \in Nat
    BY InvParts, LogIs, ClassesAre DEF Parts, ScenarioOK
  <2>2. CASE i < next1
    <3>1. Somewhere(c, i) \/ <<c, i>> \in excused
      BY <2>2 DEF LostInv, KeptSomewhere
    <3> QED
      BY <1>3, <2>1, <3>1
  <2>3. CASE i >= next1
    BY <1>3, <2>1, <2>3
  <2> QED
    BY <1>2, <2>1, <2>2, <2>3
<1> QED
  BY <1>1, <1>3 DEF LostInv, KeptSomewhere

\* For the steps that read no document.
LEMMA KeptStay ==
  ASSUME TypeInv, TypeInv', LostInv, UNCHANGED <<scenario, reader1>>, Sources',
         excused \subseteq excused',
         \A c \in Classes, i \in DOMAIN log : Somewhere(c, i) =>
           Somewhere(c, i)' \/ <<c, i>> \in excused'
  PROVE  LostInv'
<1>1. next1' = next1 /\ next1 \in Nat
  BY InvParts DEF reader1, Parts, Reader1OK
<1>2. \A i \in DOMAIN log : i \in Nat
  BY InvParts, LogIs DEF Parts, ScenarioOK
<1>3. \A i \in DOMAIN log : ~(i < next1' /\ i >= next1)
  BY <1>1, <1>2
<1> QED
  BY <1>3, KeptStep

\* Nothing moves.
LEMMA StillLostInv ==
  ASSUME TypeInv, TypeInv', LostInv, next1' = next1,
         UNCHANGED <<scenario, table1, buffer, aggregates, next2, table2, reported,
                     excused>>
  PROVE  LostInv'
BY SameLog DEF LostInv, Sources, KeptSomewhere, Somewhere

LEMMA Read1Kept == ASSUME TypeInv, TypeInv', LostInv, Read1 \/ Fetch1 PROVE LostInv'
<1>1. next1' = next1
  BY DEF Read1, Fetch1, Reader1!ConsumeNone, Reader1!Commit, Reader1!MeasureLag,
     Reader1!ConsumeSome
<1> QED
  BY <1>1, StillLostInv DEF Read1, Fetch1, reader2, history

LEMMA Read2Kept == ASSUME TypeInv, TypeInv', LostInv, Read2 \/ Fetch2 PROVE LostInv'
<1>1. next2' = next2
  BY DEF Read2, Fetch2, Reader2!ConsumeNone, Reader2!Commit, Reader2!MeasureLag,
     Reader2!ConsumeSome
<1> QED
  BY <1>1, StillLostInv DEF Read2, Fetch2, reader1, history

\* Where the readers are.
LEMMA Positions ==
  ASSUME TypeInv
  PROVE  /\ next1 \in Nat \ {0} /\ committed1 \in Nat /\ next2 \in Nat \ {0} /\ committed2 \in Nat
         /\ Len(aggregates) \in Nat /\ committed2 <= Len(aggregates)
         /\ next2 <= Len(aggregates) + 1 /\ aggregates \in Seq(AggregateMessage)
         /\ \A i \in DOMAIN log : i \in Nat
<1>1. aggregates \in Seq(AggregateMessage) /\ Len(aggregates) \in Nat
  BY InvParts DEF Parts, LogsOK
<1>2. next1 \in Nat \ {0} /\ committed1 \in Nat
  BY InvParts DEF Parts, Reader1OK
<1>3. /\ next2 \in Nat \ {0} /\ committed2 \in Nat /\ committed2 <= Len(aggregates)
      /\ next2 <= Len(aggregates) + 1
  <2>1. Reader2OK
    BY InvParts DEF Parts
  <2> QED
    BY <1>1, <2>1 DEF Reader2OK
<1>4. \A i \in DOMAIN log : i \in Nat
  BY InvParts, LogIs DEF Parts, ScenarioOK
<1> QED
  BY <1>1, <1>2, <1>3, <1>4

\* The entries of the tables are numbers.
LEMMA Numbers ==
  ASSUME TypeInv, NEW c \in Classes, NEW i \in DOMAIN log
  PROVE  /\ table1[c][i] \in Nat /\ table2[c][i] \in Nat /\ reported[c][i] \in Nat
         /\ \A k \in DOMAIN buffer : InMessage(buffer[k], c, i) \in Nat
         /\ \A k \in 1..Len(aggregates) : InMessage(aggregates[k], c, i) \in Nat
         /\ DOMAIN buffer = 1..Len(buffer) /\ Len(buffer) \in Nat /\ Len(aggregates) \in Nat
         /\ next1 \in Nat \ {0} /\ next2 \in Nat \ {0} /\ next2 <= Len(aggregates) + 1
<1>1. buffer \in Seq(AggregateMessage) /\ aggregates \in Seq(AggregateMessage)
  BY InvParts DEF Parts, LogsOK
<1>2. /\ \A k \in DOMAIN buffer : InMessage(buffer[k], c, i) \in Nat
      /\ \A k \in 1..Len(aggregates) : InMessage(aggregates[k], c, i) \in Nat
  BY <1>1, WithinIs
<1>3. table1[c][i] \in Nat /\ table2[c][i] \in Nat /\ reported[c][i] \in Nat
  BY InvParts DEF Parts, TablesOK, Counts
<1>4. next1 \in Nat \ {0} /\ next2 \in Nat \ {0} /\ next2 <= Len(aggregates) + 1
  BY <1>1, InvParts DEF Parts, Reader1OK, Reader2OK
<1> QED
  BY <1>1, <1>2, <1>3, <1>4

LEMMA TakeDocumentKept == ASSUME TypeInv, TypeInv', LostInv, TakeDocument PROVE LostInv'
<1>1. UNCHANGED <<scenario, sent, buffer, aggregates, reader2, table2, reported,
                  history>>
  BY DEF TakeDocument
<1>2. Sources'
  BY <1>1, SameLog DEF LostInv, Sources, reader2
<1>3. next1' = next1 + 1 /\ next1 \in Nat
  BY TakenIs, InvParts DEF Parts, Reader1OK
<1>4. ASSUME NEW c \in Classes, NEW i \in DOMAIN log, Somewhere(c, i) PROVE Somewhere(c, i)'
  BY <1>1, <1>4, TakenIs, Numbers DEF Somewhere, reader2
<1>5. ASSUME NEW c \in Classes, NEW i \in DOMAIN log, i = next1, c \in ClassesOf[log[i]]
      PROVE  Somewhere(c, i)'
  <2>1. table1[c][i] \in Nat
    BY Numbers
  <2>2. table1'[c][i] = table1[c][i] + 1
    BY <1>5, TakenIs
  <2> QED
    BY <2>1, <2>2 DEF Somewhere
<1>6. \A i \in DOMAIN log : i \in Nat
  BY InvParts, LogIs DEF Parts, ScenarioOK
<1> QED
  BY <1>1, <1>2, <1>3, <1>4, <1>5, <1>6, KeptStep DEF history

LEMMA FlushKept == ASSUME TypeInv, TypeInv', LostInv, NEW d \in Classes, Flush(d) PROVE LostInv'
<1>1. UNCHANGED <<scenario, sent, reader1, aggregates, reader2, table2, traced,
                  history>>
  BY DEF Flush
<1>2. Sources'
  BY <1>1, SameLog DEF LostInv, Sources, reader2
<1>3. ASSUME NEW c \in Classes, NEW i \in DOMAIN log, Somewhere(c, i) PROVE Somewhere(c, i)'
  <2>1. CASE UNCHANGED buffer /\ reported'[c][i] = reported[c][i] + (IF c = d THEN table1[c][i] ELSE 0)
             /\ table1'[c][i] = IF c = d THEN 0 ELSE table1[c][i]
    BY <1>1, <1>3, <2>1, Numbers DEF Somewhere, reader2
  <2>2. CASE /\ UNCHANGED reported /\ table1'[c][i] = IF c = d THEN 0 ELSE table1[c][i]
             /\ buffer' = Append(buffer, [class |-> d, counts |-> table1[d]])
    <3>1. /\ DOMAIN buffer = 1..Len(buffer) /\ DOMAIN buffer' = 1..(Len(buffer) + 1) /\ Len(buffer) \in Nat
          /\ \A k \in DOMAIN buffer : buffer'[k] = buffer[k]
          /\ buffer'[Len(buffer) + 1] = [class |-> d, counts |-> table1[d]]
      BY <2>2, InvParts DEF Parts, LogsOK
    <3>2. c = d => InMessage(buffer'[Len(buffer) + 1], c, i) = table1[c][i]
      BY <3>1 DEF InMessage
    <3> QED
      BY <1>1, <1>3, <2>2, <3>1, <3>2, Numbers DEF Somewhere, reader2
  <2> QED
    BY <1>3, <2>1, <2>2, FlushIs
<1> QED
  BY <1>1, <1>2, <1>3, KeptStay DEF history

LEMMA DeliverKept == ASSUME TypeInv, TypeInv', LostInv, Deliver PROVE LostInv'
<1>1. UNCHANGED <<scenario, sent, reader1, table1, reader2, table2, reported, traced,
                  history>>
  BY DEF Deliver
<1>2. next2 \in Nat \ {0} /\ next2 <= Len(aggregates) + 1 /\ Len(aggregates) \in Nat
  BY Positions
<1>3. Sources'
  BY <1>1, <1>2, SameLog, DeliverIs DEF LostInv, Sources, reader2
<1>4. /\ Len(buffer) \in Nat \ {0} /\ DOMAIN buffer = 1..Len(buffer)
      /\ DOMAIN buffer' = 1..(Len(buffer) - 1)
      /\ \A k \in DOMAIN buffer' : buffer'[k] = buffer[k + 1]
  BY TailIs DEF Deliver
<1>5. ASSUME NEW c \in Classes, NEW i \in DOMAIN log, Somewhere(c, i) PROVE Somewhere(c, i)'
  <2>1. CASE \E k \in DOMAIN buffer : InMessage(buffer[k], c, i) > 0
    <3>1. PICK k \in 1..Len(buffer) : InMessage(buffer[k], c, i) > 0
      BY <1>4, <2>1
    <3>2. CASE k = 1
      <4>1. Len(aggregates) + 1 \in next2'..Len(aggregates')
            /\ InMessage(aggregates'[Len(aggregates) + 1], c, i) > 0
        BY <1>1, <1>2, <3>1, <3>2, DeliverIs DEF reader2
      <4> QED
        BY <4>1 DEF Somewhere
    <3>3. CASE k > 1
      <4>1. k - 1 \in DOMAIN buffer' /\ buffer'[k - 1] = buffer[k]
        BY <1>4, <3>1, <3>3
      <4> QED
        BY <3>1, <4>1 DEF Somewhere
    <3> QED
      BY <3>1, <3>2, <3>3
  <2>2. CASE \E k \in next2..Len(aggregates) : InMessage(aggregates[k], c, i) > 0
    <3>1. PICK k \in next2..Len(aggregates) : InMessage(aggregates[k], c, i) > 0
      BY <2>2
    <3>2. k \in next2'..Len(aggregates') /\ aggregates'[k] = aggregates[k]
      BY <1>1, <1>2, DeliverIs DEF reader2
    <3> QED
      BY <3>1, <3>2 DEF Somewhere
  <2> QED
    BY <1>1, <1>5, <2>1, <2>2 DEF Somewhere
<1> QED
  BY <1>1, <1>3, <1>5, KeptStay DEF history

LEMMA RefuseKept == ASSUME TypeInv, TypeInv', LostInv, Refuse PROVE LostInv'
<1>1. /\ UNCHANGED <<scenario, sent, reader1, table1, aggregates, reader2, table2,
                     reported,
                     traced, redelivered, crashes>>
      /\ excused' = excused \cup Within(buffer[1])
  BY TailIs DEF Refuse
<1>2. Sources'
  BY <1>1, SameLog DEF LostInv, Sources, reader2
<1>4. /\ Len(buffer) \in Nat \ {0} /\ DOMAIN buffer = 1..Len(buffer)
      /\ DOMAIN buffer' = 1..(Len(buffer) - 1) /\ buffer[1] \in AggregateMessage
      /\ \A k \in DOMAIN buffer' : buffer'[k] = buffer[k + 1]
  BY TailIs DEF Refuse
<1>5. ASSUME NEW c \in Classes, NEW i \in DOMAIN log, Somewhere(c, i)
      PROVE  Somewhere(c, i)' \/ <<c, i>> \in excused'
  <2>1. CASE \E k \in DOMAIN buffer : InMessage(buffer[k], c, i) > 0
    <3>1. PICK k \in 1..Len(buffer) : InMessage(buffer[k], c, i) > 0
      BY <1>4, <2>1
    <3>2. CASE k = 1
      BY <1>1, <1>4, <3>1, <3>2, WithinIs
    <3>3. CASE k > 1
      <4>1. k - 1 \in DOMAIN buffer' /\ buffer'[k - 1] = buffer[k]
        BY <1>4, <3>1, <3>3
      <4> QED
        BY <3>1, <4>1 DEF Somewhere
    <3> QED
      BY <3>1, <3>2, <3>3
  <2> QED
    BY <1>1, <1>5, <2>1 DEF Somewhere, reader2
<1> QED
  BY <1>1, <1>2, <1>5, KeptStay

LEMMA CrashReaderKept == ASSUME TypeInv, TypeInv', LostInv, CrashReader PROVE LostInv'
<1>1. /\ UNCHANGED <<scenario, sent, aggregates, reader2, table2, reported, traced>>
      /\ next1' = committed1 + 1
  BY DEF CrashReader, Reader1!Restart
<1>2. Sources'
  BY <1>1, SameLog DEF LostInv, Sources, reader2
<1>3. next1 \in Nat /\ committed1 \in Nat /\ DOMAIN log = 1..Len(log) /\ Len(log) \in Nat
      /\ buffer \in Seq(AggregateMessage)
  BY InvParts, LogIs DEF Parts, Reader1OK, ScenarioOK, LogsOK
<1>4. ASSUME NEW c \in Classes, NEW i \in DOMAIN log, i <= committed1
      PROVE  \/ /\ i < next1 /\ ~(table1[c][i] > 0)
                /\ \A message \in ToSet(buffer) : <<c, i>> \notin Within(message)
             \/ <<c, i>> \in excused'
  <2>1. <<c, i>> \in Classes \X (1..committed1)
    BY <1>3, <1>4
  <2>2. i \in Nat /\ (~(i >= next1) => i < next1)
    BY <1>3
  <2>3. <<c, i>>[1] = c /\ <<c, i>>[2] = i
    OBVIOUS
  <2> QED
    BY <2>1, <2>2, <2>3 DEF CrashReader
<1>5. ASSUME NEW c \in Classes, NEW i \in DOMAIN log, i < next1', Somewhere(c, i)
      PROVE  Somewhere(c, i)' \/ <<c, i>> \in excused'
  <2>1. CASE \E k \in DOMAIN buffer : InMessage(buffer[k], c, i) > 0
    <3>1. PICK k \in DOMAIN buffer : InMessage(buffer[k], c, i) > 0
      BY <2>1
    <3>2. buffer[k] \in ToSet(buffer) /\ buffer[k] \in AggregateMessage
      BY <1>3, <3>1 DEF ToSet
    <3> QED
      BY <1>1, <1>3, <1>4, <1>5, <3>1, <3>2, WithinIs
  <2>2. CASE table1[c][i] > 0
    BY <1>1, <1>3, <1>4, <1>5, <2>2
  <2> QED
    BY <1>1, <1>5, <2>1, <2>2 DEF Somewhere, reader2
<1>6. ASSUME NEW c \in Classes, NEW i \in DOMAIN log, i < next1', i >= next1
      PROVE  <<c, i>> \in excused'
  BY <1>1, <1>3, <1>4, <1>6
<1>7. excused \subseteq excused'
  BY DEF CrashReader
<1> QED
  BY <1>1, <1>2, <1>5, <1>6, <1>7, KeptStep

LEMMA TakeAggregateKept == ASSUME TypeInv, TypeInv', LostInv, TakeAggregate PROVE LostInv'
<1>1. UNCHANGED <<scenario, sent, reader1, table1, buffer, aggregates, reported,
                  traced, history>>
  BY DEF TakeAggregate
<1>2. next2 \in 1..Len(aggregates) /\ Len(aggregates) \in Nat /\ next2' = next2 + 1
  BY AtAggregate, TakeAggregateIs DEF TakeAggregate
<1>3. ASSUME NEW c \in Classes, NEW i \in DOMAIN log, table2'[c][i] > 0
      PROVE  \E k \in 1..(next2' - 1) : InMessage(aggregates[k], c, i) > 0
  <2>1. table2[c][i] > 0 \/ InMessage(aggregates[next2], c, i) > 0
    BY <1>2, <1>3, TakeAggregateIs, Numbers
  <2>2. CASE table2[c][i] > 0
    BY <1>2, <2>2 DEF LostInv, Sources
  <2> QED
    BY <1>2, <2>1, <2>2
<1>4. Sources'
  BY <1>1, <1>3, SameLog DEF Sources
<1>5. ASSUME NEW c \in Classes, NEW i \in DOMAIN log, Somewhere(c, i) PROVE Somewhere(c, i)'
  <2>1. CASE \E k \in next2..Len(aggregates) : InMessage(aggregates[k], c, i) > 0
    <3>1. PICK k \in next2..Len(aggregates) : InMessage(aggregates[k], c, i) > 0
      BY <2>1
    <3>2. CASE k = next2
      <4>1. table2[c][i] \in Nat /\ InMessage(aggregates[k], c, i) \in Nat
        BY <1>2, <3>2, Numbers
      <4>2. table2'[c][i] = table2[c][i] + InMessage(aggregates[k], c, i)
        BY <3>2, TakeAggregateIs
      <4>3. table2'[c][i] > 0
        BY <3>1, <4>1, <4>2
      <4> QED
        BY <4>3 DEF Somewhere
    <3>3. CASE k # next2
      <4>1. k \in next2'..Len(aggregates')
        BY <1>1, <1>2, <3>1, <3>3
      <4> QED
        BY <1>1, <3>1, <4>1 DEF Somewhere
    <3> QED
      BY <3>2, <3>3
  <2>2. CASE table2[c][i] > 0
    <3>1. table2'[c][i] > 0
      BY <1>2, <2>2, TakeAggregateIs, Numbers
    <3> QED
      BY <3>1 DEF Somewhere
  <2> QED
    BY <1>1, <1>5, <2>1, <2>2 DEF Somewhere
<1> QED
  BY <1>1, <1>4, <1>5, KeptStay DEF history

LEMMA ReportKept == ASSUME TypeInv, TypeInv', LostInv, NEW d \in Classes, Report(d) PROVE LostInv'
<1>1. UNCHANGED <<scenario, sent, reader1, table1, buffer, aggregates, reader2, traced,
                  history>>
  BY DEF Report
<1>2. Sources'
  BY <1>1, ReportIs, Numbers, SameLog DEF LostInv, Sources, reader2
<1>3. ASSUME NEW c \in Classes, NEW i \in DOMAIN log, Somewhere(c, i) PROVE Somewhere(c, i)'
  <2>1. /\ table2'[c][i] = IF c = d THEN 0 ELSE table2[c][i]
        /\ reported'[c][i] = reported[c][i] + (IF c = d THEN table2[c][i] ELSE 0)
    BY ReportIs
  <2>2. table2[c][i] > 0 \/ reported[c][i] > 0 => table2'[c][i] > 0 \/ reported'[c][i] > 0
    BY <2>1, Numbers
  <2> QED
    BY <1>1, <1>3, <2>2 DEF Somewhere, reader2
<1> QED
  BY <1>1, <1>2, <1>3, KeptStay DEF history

LEMMA CrashOwnerKept == ASSUME TypeInv, TypeInv', LostInv, CrashOwner PROVE LostInv'
<1>1. /\ UNCHANGED <<scenario, sent, reader1, table1, buffer, aggregates, reported,
                     traced>>
      /\ next2' = committed2 + 1 /\ table2' = Empty /\ excused \subseteq excused'
  BY DEF CrashOwner, Reader2!Restart
<1>2. /\ next2 \in Nat \ {0} /\ committed2 \in Nat /\ Len(aggregates) \in Nat
      /\ committed2 <= Len(aggregates) /\ next2 <= Len(aggregates) + 1
      /\ aggregates \in Seq(AggregateMessage)
  BY Positions
<1>3. Sources'
  BY <1>1, CountTypes, SameLog DEF Sources
<1>4. \A c \in Classes, i \in DOMAIN log : \A k \in 1..committed2 :
        /\ InMessage(aggregates[k], c, i) > 0
        /\ k >= next2 \/ table2[c][i] > 0
        => <<c, i>> \in excused'
  <2>1. TAKE c \in Classes, i \in DOMAIN log
  <2>2. TAKE k \in 1..committed2
  <2>3. HAVE InMessage(aggregates[k], c, i) > 0 /\ (k >= next2 \/ table2[c][i] > 0)
  <2>4. <<c, i>> \in Within(aggregates[k])
    BY <1>2, <2>3, WithinIs
  <2> QED
    BY <2>3, <2>4 DEF CrashOwner
<1>5. ASSUME NEW c \in Classes, NEW i \in DOMAIN log, Somewhere(c, i)
      PROVE  Somewhere(c, i)' \/ <<c, i>> \in excused'
  <2>1. CASE \E k \in next2..Len(aggregates) : InMessage(aggregates[k], c, i) > 0
    <3>1. PICK k \in next2..Len(aggregates) : InMessage(aggregates[k], c, i) > 0
      BY <2>1
    <3>2. CASE k <= committed2
      BY <1>2, <1>4, <3>1, <3>2
    <3>3. CASE k > committed2
      <4>1. k \in next2'..Len(aggregates')
        BY <1>1, <1>2, <3>3
      <4> QED
        BY <1>1, <3>1, <4>1 DEF Somewhere
    <3> QED
      BY <1>2, <3>2, <3>3
  <2>2. CASE table2[c][i] > 0
    <3>1. PICK k \in 1..(next2 - 1) : InMessage(aggregates[k], c, i) > 0
      BY <2>2 DEF LostInv, Sources
    <3>2. CASE k <= committed2
      BY <1>2, <1>4, <2>2, <3>1, <3>2
    <3>3. CASE k > committed2
      <4>1. k \in next2'..Len(aggregates')
        BY <1>1, <1>2, <3>3
      <4> QED
        BY <1>1, <3>1, <4>1 DEF Somewhere
    <3> QED
      BY <1>2, <3>2, <3>3
  <2> QED
    BY <1>1, <1>5, <2>1, <2>2 DEF Somewhere
<1> QED
  BY <1>1, <1>3, <1>5, KeptStay

LEMMA StepKept == ASSUME TypeInv, TypeInv', LostInv, [Next]_vars PROVE LostInv'
<1>1. CASE Arrive
  BY <1>1, StillLostInv DEF Arrive, reader1, reader2, history
<1>2. CASE UNCHANGED vars
  BY <1>2, StillLostInv DEF vars, reader1, reader2, history
<1> QED
  BY <1>1, <1>2, Read1Kept, Read2Kept, TakeDocumentKept, FlushKept, DeliverKept,
     RefuseKept,
     CrashReaderKept, TakeAggregateKept, ReportKept, CrashOwnerKept DEF Next

LEMMA InitKept == Init => LostInv
<1> SUFFICES ASSUME Init PROVE LostInv
  OBVIOUS
<1>1. next1 = 1 /\ \A i \in DOMAIN log : i \in Nat /\ i >= 1
  BY LogIs DEF Init, Reader1!Init
<1>2. \A i \in DOMAIN log : ~(i < next1)
  BY <1>1
<1> QED
  BY <1>2, CountTypes DEF Init, LostInv, Sources, KeptSomewhere

\* Whatever was made of a document that was read is in a table, in the
\* producer's buffer, in the topic behind its reader or reported, unless it was
\* in memory at a crash after its offset had been committed, or the broker
\* refused it: however the two loops of tm_kafka_consume_messages, the flush
\* jobs and crashes interleave.
THEOREM NothingLost == Spec => []NothingLostUnlessExcused
<1>1. Init => TypeInv /\ LostInv
  BY InitTyped, InitKept
<1>2. TypeInv /\ LostInv /\ [Next]_vars => (TypeInv /\ LostInv)'
  BY StepTyped, StepKept
<1>3. TypeInv /\ LostInv => NothingLostUnlessExcused
  <2> SUFFICES ASSUME TypeInv, LostInv, NEW i \in 1..(next1 - 1), NEW c \in ClassesOf[log[i]]
               PROVE  IsHeld(c, i) \/ <<c, i>> \in excused
    BY DEF NothingLostUnlessExcused
  <2>1. i \in DOMAIN log /\ i < next1
    BY ReadDocuments, Positions
  <2> QED
    BY <2>1, HeldSomewhere DEF LostInv, KeptSomewhere
<1> QED
  BY <1>1, <1>2, <1>3, PTL DEF Spec

(***************************************************************************)
(* Nothing is counted twice.                                               *)
(***************************************************************************)

\* The update of class c of document i is in one place, the j-th message if that
\* is the buffer or the topic, or nowhere.
Kinds == {"table1", "table2", "reported", "buffer", "topic", "nowhere"}

\* The counts of c and i when they are at one place, the j-th of its kind.
InBuffer(kind, j, c, i) ==
  \A k \in DOMAIN buffer : InMessage(buffer[k], c, i) = IF kind = "buffer" /\ k = j THEN 1 ELSE 0
InTopic(kind, j, c, i) ==
  \A k \in next2..Len(aggregates) :
     InMessage(aggregates[k], c, i) = IF kind = "topic" /\ k = j THEN 1 ELSE 0
InTable1(kind, c, i)   == table1[c][i] = IF kind = "table1" THEN 1 ELSE 0
InTable2(kind, c, i)   == table2[c][i] = IF kind = "table2" THEN 1 ELSE 0
InReported(kind, c, i) == reported[c][i] = IF kind = "reported" THEN 1 ELSE 0
There(kind, j) ==
  /\ kind = "buffer" => j \in DOMAIN buffer
  /\ kind = "topic"  => j \in next2..Len(aggregates)
OnlyAt(kind, j, c, i) ==
  /\ InTable1(kind, c, i) /\ InTable2(kind, c, i) /\ InReported(kind, c, i)
  /\ InBuffer(kind, j, c, i) /\ InTopic(kind, j, c, i) /\ There(kind, j)

\* They are nowhere; they are in one place or nowhere.
Nowhere(c, i) == OnlyAt("nowhere", 0, c, i)
Once(c, i) == \E kind \in Kinds, j \in Nat : OnlyAt(kind, j, c, i)

OnceInv == \A c \in Classes, i \in DOMAIN log :
  i \notin redelivered => Once(c, i) /\ (i >= next1 => Nowhere(c, i))

\* A step that redelivers nothing more and reads no document keeps it if it
\* takes what is in one place to one place, and makes nothing of nothing.
LEMMA OnceStep ==
  ASSUME TypeInv, OnceInv, UNCHANGED scenario, redelivered \subseteq redelivered',
         \A c \in Classes, i \in DOMAIN log \ redelivered', kind \in Kinds, j \in Nat :
           OnlyAt(kind, j, c, i) => Once(c, i)',
         \A c \in Classes, i \in DOMAIN log \ redelivered' :
           Nowhere(c, i) /\ i >= next1' => Nowhere(c, i)',
         \A c \in Classes, i \in DOMAIN log \ redelivered' :
           i >= next1' => i >= next1
  PROVE  OnceInv'
<1>1. log' = log
  BY SameLog
<1>2. ASSUME NEW c \in Classes, NEW i \in DOMAIN log, i \notin redelivered'
      PROVE  Once(c, i)' /\ (i >= next1' => Nowhere(c, i)')
  <2>1. Once(c, i) /\ (i >= next1 => Nowhere(c, i))
    BY <1>2 DEF OnceInv
  <2>2. PICK kind \in Kinds, j \in Nat : OnlyAt(kind, j, c, i)
    BY <2>1 DEF Once
  <2>3. Once(c, i)'
    BY <1>2, <2>2
  <2> QED
    BY <1>2, <2>1, <2>3
<1> QED
  BY <1>1, <1>2 DEF OnceInv

\* The same for the steps that leave the reader of documents where it is.
LEMMA OnceStay ==
  ASSUME TypeInv, OnceInv, UNCHANGED <<scenario, reader1>>,
                                       redelivered \subseteq redelivered',
         \A c \in Classes, i \in DOMAIN log \ redelivered', kind \in Kinds, j \in Nat :
           OnlyAt(kind, j, c, i) => Once(c, i)',
         \A c \in Classes, i \in DOMAIN log \ redelivered' : Nowhere(c, i) => Nowhere(c, i)'
  PROVE  OnceInv'
<1>1. next1' = next1
  BY DEF reader1
<1> QED
  BY <1>1, OnceStep

\* Nothing moves.
LEMMA StillOnceInv ==
  ASSUME OnceInv, next1' = next1,
         UNCHANGED <<scenario, table1, buffer, aggregates, next2, table2, reported,
                     redelivered>>
  PROVE  OnceInv'
BY SameLog DEF OnceInv, Once, Nowhere, OnlyAt, InTable1, InTable2, InReported,
   InBuffer, InTopic, There

LEMMA TakeDocumentOnce == ASSUME TypeInv, OnceInv, TakeDocument PROVE OnceInv'
<1>1. UNCHANGED <<scenario, sent, buffer, aggregates, reader2, table2, reported,
                  history>>
  BY DEF TakeDocument
<1>2. next1' = next1 + 1 /\ next1 \in Nat /\ \A i \in DOMAIN log : i \in Nat
  BY TakenIs, Positions
<1>3. log' = log /\ redelivered' = redelivered
  BY <1>1, SameLog DEF history
<1>4. ASSUME NEW c \in Classes, NEW i \in DOMAIN log, NEW kind \in Kinds, NEW j \in Nat,
             OnlyAt(kind, j, c, i), ~(i = next1 /\ c \in ClassesOf[log[next1]])
      PROVE  OnlyAt(kind, j, c, i)'
  <2>1. table1'[c][i] = table1[c][i]
    BY <1>4, TakenIs, Numbers
  <2> QED
    BY <1>1, <1>4, <2>1 DEF OnlyAt, InTable1, InTable2, InReported, InBuffer, InTopic,
       There, reader2
<1>5. ASSUME NEW c \in Classes, NEW i \in DOMAIN log, Nowhere(c, i),
             i = next1 /\ c \in ClassesOf[log[next1]]
      PROVE  OnlyAt("table1", 0, c, i)'
  <2>1. table1'[c][i] = 1
    BY <1>5, TakenIs DEF Nowhere, OnlyAt, InTable1
  <2> QED
    BY <1>1, <1>5, <2>1
    DEF Nowhere, OnlyAt, InTable1, InTable2, InReported, InBuffer, InTopic, There, reader2
<1>6. ASSUME NEW c \in Classes, NEW i \in DOMAIN log, i \notin redelivered
      PROVE  Once(c, i)' /\ (i >= next1' => Nowhere(c, i)')
  <2>1. Once(c, i) /\ (i >= next1 => Nowhere(c, i))
    BY <1>6 DEF OnceInv
  <2>2. CASE i = next1 /\ c \in ClassesOf[log[next1]]
    <3>1. OnlyAt("table1", 0, c, i)' /\ "table1" \in Kinds
      BY <1>2, <1>5, <2>1, <2>2 DEF Kinds
    <3> QED
      BY <1>2, <2>2, <3>1 DEF Once
  <2>3. CASE ~(i = next1 /\ c \in ClassesOf[log[next1]])
    <3>1. PICK kind \in Kinds, j \in Nat : OnlyAt(kind, j, c, i)
      BY <2>1 DEF Once
    <3>2. OnlyAt(kind, j, c, i)'
      BY <1>4, <2>3, <3>1
    <3>3. Nowhere(c, i) => Nowhere(c, i)'
      BY <1>4, <2>3 DEF Nowhere, Kinds
    <3>4. i >= next1' => i >= next1
      BY <1>2
    <3>5. Once(c, i)'
      BY <3>2 DEF Once
    <3> QED
      BY <2>1, <3>3, <3>4, <3>5
  <2> QED
    BY <2>2, <2>3
<1> QED
  BY <1>3, <1>6 DEF OnceInv

\* What a flush takes out of the table it sends or reports.
LEMMA FlushOnce == ASSUME TypeInv, OnceInv, NEW d \in Classes, Flush(d) PROVE OnceInv'
<1>1. UNCHANGED <<scenario, sent, reader1, aggregates, reader2, table2, traced,
                  history>>
  BY DEF Flush
<1>2. ASSUME NEW c \in Classes, NEW i \in DOMAIN log, NEW kind \in Kinds, NEW j \in Nat,
             OnlyAt(kind, j, c, i)
      PROVE  /\ ~(c = d /\ kind = "table1") => OnlyAt(kind, j, c, i)'
             /\ c = d /\ kind = "table1" => \E k \in Nat : OnlyAt("reported", k, c, i)' \/ OnlyAt("buffer", k, c, i)'
  <2>1. table1'[c][i] = (IF c = d THEN 0 ELSE table1[c][i]) /\ UNCHANGED <<table2,
                                                                           next2,
                                                                           aggregates>>
    BY <1>1, FlushIs DEF reader2
  <2>2. CASE UNCHANGED buffer /\ reported'[c][i] = reported[c][i] + (IF c = d THEN table1[c][i] ELSE 0)
    <3>1. CASE ~(c = d /\ kind = "table1")
      <4>1. reported'[c][i] = reported[c][i] /\ InTable1(kind, c, i)'
        BY <1>2, <2>1, <2>2, <3>1, Numbers DEF OnlyAt, InTable1
      <4> QED
        BY <1>2, <2>1, <2>2, <3>1, <4>1
        DEF OnlyAt, InTable2, InReported, InBuffer, InTopic, There
    <3>2. CASE c = d /\ kind = "table1"
      <4>1. reported'[c][i] = 1 /\ table1'[c][i] = 0
        BY <1>2, <2>1, <2>2, <3>2 DEF OnlyAt, InTable1, InReported
      <4>2. OnlyAt("reported", j, c, i)'
        BY <1>2, <2>1, <2>2, <3>2, <4>1
        DEF OnlyAt, InTable1, InTable2, InReported, InBuffer, InTopic, There
      <4> QED
        BY <3>2, <4>2
    <3> QED
      BY <3>1, <3>2
  <2>3. CASE UNCHANGED reported /\ buffer' = Append(buffer, [class |-> d, counts |-> table1[d]])
    <3>1. /\ DOMAIN buffer = 1..Len(buffer) /\ DOMAIN buffer' = 1..(Len(buffer) + 1) /\ Len(buffer) \in Nat
          /\ \A k \in DOMAIN buffer : buffer'[k] = buffer[k]
          /\ buffer'[Len(buffer) + 1] = [class |-> d, counts |-> table1[d]]
      BY <2>3, InvParts DEF Parts, LogsOK
    <3>2. InMessage(buffer'[Len(buffer) + 1], c, i) = IF c = d THEN table1[c][i] ELSE 0
      BY <3>1 DEF InMessage
    <3>3. CASE ~(c = d /\ kind = "table1")
      <4>1. InTable1(kind, c, i)' /\ InMessage(buffer'[Len(buffer) + 1], c, i) = 0
        BY <1>2, <2>1, <3>2, <3>3 DEF OnlyAt, InTable1
      <4>2. InBuffer(kind, j, c, i)' /\ There(kind, j)'
        BY <1>2, <2>1, <3>1, <4>1 DEF OnlyAt, InBuffer, There
      <4> QED
        BY <1>2, <2>1, <2>3, <3>3, <4>1, <4>2 DEF OnlyAt, InTable2, InReported, InTopic
    <3>4. CASE c = d /\ kind = "table1"
      <4>1. InTable1("buffer", c, i)' /\ InMessage(buffer'[Len(buffer) + 1], c, i) = 1
        BY <1>2, <2>1, <3>2, <3>4 DEF OnlyAt, InTable1
      <4>2. PICK n \in Nat : n = Len(buffer) + 1
        BY <3>1
      <4>3. InBuffer("buffer", n, c, i)' /\ There("buffer", n)'
        <5>1. \A k \in DOMAIN buffer : InMessage(buffer[k], c, i) = 0
          BY <1>2, <3>4 DEF OnlyAt, InBuffer
        <5>2. ASSUME NEW k \in DOMAIN buffer'
              PROVE  InMessage(buffer'[k], c, i) = IF k = n THEN 1 ELSE 0
          <6>1. CASE k = n
            BY <4>1, <4>2, <6>1
          <6>2. CASE k \in DOMAIN buffer
            <7>1. buffer'[k] = buffer[k] /\ k # n
              BY <3>1, <4>2, <6>2
            <7> QED
              BY <5>1, <6>2, <7>1
          <6> QED
            BY <3>1, <4>2, <6>1, <6>2
        <5>3. n \in DOMAIN buffer'
          BY <3>1, <4>2
        <5> QED
          BY <5>2, <5>3 DEF InBuffer, There
      <4>4. OnlyAt("buffer", n, c, i)'
        BY <1>2, <2>1, <2>3, <3>4, <4>1, <4>3 DEF OnlyAt, InTable2, InReported, InTopic
      <4> QED
        BY <3>4, <4>4
    <3> QED
      BY <3>3, <3>4
  <2> QED
    BY <2>2, <2>3, FlushIs
<1>3. ASSUME NEW c \in Classes, NEW i \in DOMAIN log, NEW kind \in Kinds, NEW j \in Nat,
             OnlyAt(kind, j, c, i)
      PROVE  Once(c, i)'
  <2>1. CASE ~(c = d /\ kind = "table1")
    BY <1>2, <1>3, <2>1 DEF Once
  <2>2. CASE c = d /\ kind = "table1"
    <3>1. PICK k \in Nat : OnlyAt("reported", k, c, i)' \/ OnlyAt("buffer", k, c, i)'
      BY <1>2, <1>3, <2>2
    <3>2. "reported" \in Kinds /\ "buffer" \in Kinds
      BY DEF Kinds
    <3> QED
      BY <3>1, <3>2 DEF Once
  <2> QED
    BY <2>1, <2>2
<1>4. ASSUME NEW c \in Classes, NEW i \in DOMAIN log, Nowhere(c, i) PROVE Nowhere(c, i)'
  BY <1>2, <1>4 DEF Nowhere, Kinds
<1> QED
  BY <1>1, <1>3, <1>4, OnceStay DEF history

\* The head of the buffer goes to the end of the topic.
LEMMA DeliverOnce == ASSUME TypeInv, OnceInv, Deliver PROVE OnceInv'
<1>1. UNCHANGED <<scenario, sent, reader1, table1, reader2, table2, reported, traced,
                  history>>
  BY DEF Deliver
<1>2. next2 \in Nat \ {0} /\ next2 <= Len(aggregates) + 1 /\ Len(aggregates) \in Nat
  BY Positions
<1>3. /\ Len(buffer) \in Nat \ {0} /\ DOMAIN buffer = 1..Len(buffer)
      /\ DOMAIN buffer' = 1..(Len(buffer) - 1)
      /\ \A k \in DOMAIN buffer' : buffer'[k] = buffer[k + 1]
  BY TailIs DEF Deliver
<1>4. /\ next2' = next2 /\ Len(aggregates') = Len(aggregates) + 1
      /\ \A k \in 1..Len(aggregates) : aggregates'[k] = aggregates[k]
      /\ aggregates'[Len(aggregates) + 1] = buffer[1]
  BY <1>1, DeliverIs DEF reader2
<1>0. PICK n \in Nat : n = Len(aggregates) + 1
  BY <1>2
<1>5. ASSUME NEW c \in Classes, NEW i \in DOMAIN log, NEW kind \in Kinds, NEW j \in Nat,
             OnlyAt(kind, j, c, i)
      PROVE  /\ kind = "buffer" /\ j = 1 => OnlyAt("topic", n, c, i)'
             /\ kind = "buffer" /\ j # 1 => OnlyAt("buffer", j - 1, c, i)'
             /\ kind # "buffer" => OnlyAt(kind, j, c, i)'
  <2>1. /\ \A k \in DOMAIN buffer : InMessage(buffer[k], c, i) = IF kind = "buffer" /\ k = j THEN 1 ELSE 0
        /\ \A k \in next2..Len(aggregates) :
             InMessage(aggregates[k], c, i) = IF kind = "topic" /\ k = j THEN 1 ELSE 0
        /\ There(kind, j)
    BY <1>5 DEF OnlyAt, InBuffer, InTopic
  <2>2. \A k \in DOMAIN buffer' :
          InMessage(buffer'[k], c, i) = IF kind = "buffer" /\ k + 1 = j THEN 1 ELSE 0
    <3>1. ASSUME NEW k \in DOMAIN buffer'
          PROVE  InMessage(buffer'[k], c, i) = IF kind = "buffer" /\ k + 1 = j THEN 1 ELSE 0
      <4>1. k + 1 \in DOMAIN buffer /\ buffer'[k] = buffer[k + 1]
        BY <1>3
      <4> QED
        BY <2>1, <4>1
    <3> QED
      BY <3>1
  <2>3. InMessage(aggregates'[Len(aggregates) + 1], c, i) = IF kind = "buffer" /\ j = 1 THEN 1 ELSE 0
    <3>1. 1 \in DOMAIN buffer
      BY <1>3
    <3> QED
      BY <1>4, <2>1, <3>1
  <2>4. \A k \in next2'..Len(aggregates') :
          InMessage(aggregates'[k], c, i) =
            IF (kind = "topic" /\ k = j) \/ (kind = "buffer" /\ j = 1 /\ k = Len(aggregates) + 1)
            THEN 1 ELSE 0
    <3>1. ASSUME NEW k \in next2..(Len(aggregates) + 1)
          PROVE  InMessage(aggregates'[k], c, i) =
            IF (kind = "topic" /\ k = j) \/ (kind = "buffer" /\ j = 1 /\ k = Len(aggregates) + 1)
            THEN 1 ELSE 0
      <4>1. CASE k = Len(aggregates) + 1
        <5>1. ~(kind = "topic" /\ k = j)
          BY <1>2, <2>1, <4>1 DEF There
        <5> QED
          BY <2>3, <4>1, <5>1
      <4>2. CASE k # Len(aggregates) + 1
        <5>1. k \in next2..Len(aggregates) /\ k \in 1..Len(aggregates)
          BY <1>2, <4>2
        <5>2. InMessage(aggregates'[k], c, i) = InMessage(aggregates[k], c, i)
          BY <1>4, <5>1
        <5> QED
          BY <2>1, <4>2, <5>1, <5>2
      <4> QED
        BY <4>1, <4>2
    <3> QED
      BY <1>4, <3>1
  <2>5. \A other \in {kind, "topic", "buffer"} :
          (other = kind \/ kind \in {"topic", "buffer"}) =>
             (InTable1(other, c, i) /\ InTable2(other, c, i) /\ InReported(other, c, i))'
    BY <1>1, <1>5 DEF OnlyAt, InTable1, InTable2, InReported
  <2>6. CASE kind = "buffer" /\ j = 1
    <3>1. There("topic", n)'
      BY <1>0, <1>2, <1>4 DEF There
    <3>2. InBuffer("topic", n, c, i)'
      <4>1. \A k \in DOMAIN buffer' : k + 1 # j
        BY <1>3, <2>6
      <4> QED
        BY <2>2, <4>1 DEF InBuffer
    <3>3. InTopic("topic", n, c, i)'
      BY <1>0, <2>4, <2>6 DEF InTopic
    <3> QED
      BY <2>5, <2>6, <3>1, <3>2, <3>3 DEF OnlyAt
  <2>7. CASE kind = "buffer" /\ j # 1
    <3>1. There("buffer", j - 1)'
      BY <1>3, <2>1, <2>7 DEF There
    <3>2. InBuffer("buffer", j - 1, c, i)'
      <4>1. \A k \in DOMAIN buffer' : k + 1 = j <=> k = j - 1
        BY <1>3
      <4> QED
        BY <2>2, <2>7, <4>1 DEF InBuffer
    <3>3. InTopic("buffer", j - 1, c, i)'
      BY <2>4, <2>7 DEF InTopic
    <3> QED
      BY <2>5, <2>7, <3>1, <3>2, <3>3 DEF OnlyAt
  <2>8. CASE kind # "buffer"
    <3>1. There(kind, j)'
      BY <1>2, <1>4, <2>1, <2>8 DEF There
    <3>2. InBuffer(kind, j, c, i)'
      BY <2>2, <2>8 DEF InBuffer
    <3>3. InTopic(kind, j, c, i)'
      BY <2>4, <2>8 DEF InTopic
    <3> QED
      BY <2>5, <2>8, <3>1, <3>2, <3>3 DEF OnlyAt
  <2> QED
    BY <2>6, <2>7, <2>8
<1>6. ASSUME NEW c \in Classes, NEW i \in DOMAIN log, NEW kind \in Kinds, NEW j \in Nat,
             OnlyAt(kind, j, c, i)
      PROVE  Once(c, i)'
  <2>1. "topic" \in Kinds /\ "buffer" \in Kinds
    BY DEF Kinds
  <2>2. CASE kind = "buffer" /\ j # 1
    <3>1. j - 1 \in Nat
      BY <1>3, <1>6, <2>2 DEF OnlyAt, There
    <3> QED
      BY <1>5, <1>6, <2>1, <2>2, <3>1 DEF Once
  <2>3. CASE ~(kind = "buffer" /\ j # 1)
    BY <1>5, <1>6, <2>1, <2>3 DEF Once
  <2> QED
    BY <2>2, <2>3
<1>7. ASSUME NEW c \in Classes, NEW i \in DOMAIN log, Nowhere(c, i) PROVE Nowhere(c, i)'
  BY <1>5, <1>7 DEF Nowhere, Kinds
<1> QED
  BY <1>1, <1>6, <1>7, OnceStay DEF history

LEMMA RefuseOnce == ASSUME TypeInv, OnceInv, Refuse PROVE OnceInv'
<1>1. UNCHANGED <<scenario, sent, reader1, table1, aggregates, reader2, table2,
                  reported,
                  traced, redelivered, crashes>>
  BY DEF Refuse
<1>2. /\ Len(buffer) \in Nat \ {0} /\ DOMAIN buffer = 1..Len(buffer)
      /\ DOMAIN buffer' = 1..(Len(buffer) - 1)
      /\ \A k \in DOMAIN buffer' : buffer'[k] = buffer[k + 1]
  BY TailIs DEF Refuse
<1>3. ASSUME NEW c \in Classes, NEW i \in DOMAIN log, NEW kind \in Kinds, NEW j \in Nat,
             OnlyAt(kind, j, c, i)
      PROVE  /\ kind = "buffer" /\ j = 1 => Nowhere(c, i)'
             /\ kind = "buffer" /\ j # 1 => OnlyAt("buffer", j - 1, c, i)'
             /\ kind # "buffer" => OnlyAt(kind, j, c, i)'
  <2>1. /\ \A k \in DOMAIN buffer : InMessage(buffer[k], c, i) = IF kind = "buffer" /\ k = j THEN 1 ELSE 0
        /\ There(kind, j)
    BY <1>3 DEF OnlyAt, InBuffer
  <2>2. \A k \in DOMAIN buffer' :
          InMessage(buffer'[k], c, i) = IF kind = "buffer" /\ k + 1 = j THEN 1 ELSE 0
    <3>1. ASSUME NEW k \in DOMAIN buffer'
          PROVE  InMessage(buffer'[k], c, i) = IF kind = "buffer" /\ k + 1 = j THEN 1 ELSE 0
      <4>1. k + 1 \in DOMAIN buffer /\ buffer'[k] = buffer[k + 1]
        BY <1>2
      <4> QED
        BY <2>1, <4>1
    <3> QED
      BY <3>1
  <2>3. CASE kind = "buffer" /\ j = 1
    <3>1. InBuffer("nowhere", 0, c, i)'
      <4>1. \A k \in DOMAIN buffer' : k + 1 # j
        BY <1>2, <2>3
      <4> QED
        BY <2>2, <4>1 DEF InBuffer
    <3> QED
      BY <1>1, <1>3, <2>3, <3>1
      DEF Nowhere, OnlyAt, InTable1, InTable2, InReported, InTopic, There, reader2
  <2>4. CASE kind = "buffer" /\ j # 1
    <3>1. There("buffer", j - 1)'
      BY <1>2, <2>1, <2>4 DEF There
    <3>2. InBuffer("buffer", j - 1, c, i)'
      <4>1. \A k \in DOMAIN buffer' : k + 1 = j <=> k = j - 1
        BY <1>2
      <4> QED
        BY <2>2, <2>4, <4>1 DEF InBuffer
    <3> QED
      BY <1>1, <1>3, <2>4, <3>1, <3>2 DEF OnlyAt, InTable1, InTable2, InReported,
         InTopic, reader2
  <2>5. CASE kind # "buffer"
    <3>1. InBuffer(kind, j, c, i)'
      BY <2>2, <2>5 DEF InBuffer
    <3> QED
      BY <1>1, <1>3, <2>5, <3>1
      DEF OnlyAt, InTable1, InTable2, InReported, InTopic, There, reader2
  <2> QED
    BY <2>3, <2>4, <2>5
<1>4. ASSUME NEW c \in Classes, NEW i \in DOMAIN log, NEW kind \in Kinds, NEW j \in Nat,
             OnlyAt(kind, j, c, i)
      PROVE  Once(c, i)'
  <2>1. "nowhere" \in Kinds /\ "buffer" \in Kinds
    BY DEF Kinds
  <2>2. CASE kind = "buffer" /\ j # 1
    <3>1. j - 1 \in Nat
      BY <1>2, <1>4, <2>2 DEF OnlyAt, There
    <3> QED
      BY <1>3, <1>4, <2>1, <2>2, <3>1 DEF Once
  <2>3. CASE ~(kind = "buffer" /\ j # 1)
    BY <1>3, <1>4, <2>1, <2>3 DEF Once, Nowhere
  <2> QED
    BY <2>2, <2>3
<1>5. ASSUME NEW c \in Classes, NEW i \in DOMAIN log, Nowhere(c, i) PROVE Nowhere(c, i)'
  BY <1>3, <1>5 DEF Nowhere, Kinds
<1> QED
  BY <1>1, <1>4, <1>5, OnceStay

\* What is in memory of the reader is gone; a document after the committed
\* ones that is not read once more was not read before.
LEMMA CrashReaderOnce == ASSUME TypeInv, OnceInv, CrashReader PROVE OnceInv'
<1>1. /\ UNCHANGED <<scenario, sent, aggregates, reader2, table2, reported, traced>>
      /\ table1' = Empty /\ buffer' = <<>> /\ next1' = committed1 + 1
      /\ redelivered' = redelivered \cup ((committed1 + 1)..(next1 - 1))
  BY DEF CrashReader, Reader1!Restart
<1>2. ASSUME NEW c \in Classes, NEW i \in DOMAIN log, NEW kind \in Kinds, NEW j \in Nat,
             OnlyAt(kind, j, c, i)
      PROVE  /\ kind \in {"table1", "buffer"} => Nowhere(c, i)'
             /\ kind \notin {"table1", "buffer"} => OnlyAt(kind, j, c, i)'
  <2>1. table1'[c][i] = 0 /\ DOMAIN buffer' = {}
    BY <1>1, CountTypes
  <2>2. CASE kind \in {"table1", "buffer"}
    BY <1>1, <1>2, <2>1, <2>2
    DEF Nowhere, OnlyAt, InTable1, InTable2, InReported, InBuffer, InTopic, There, reader2
  <2>3. CASE kind \notin {"table1", "buffer"}
    BY <1>1, <1>2, <2>1, <2>3
    DEF OnlyAt, InTable1, InTable2, InReported, InBuffer, InTopic, There, reader2
  <2> QED
    BY <2>2, <2>3
<1>3. ASSUME NEW c \in Classes, NEW i \in DOMAIN log, NEW kind \in Kinds, NEW j \in Nat,
             OnlyAt(kind, j, c, i)
      PROVE  Once(c, i)'
  <2>1. "nowhere" \in Kinds
    BY DEF Kinds
  <2> QED
    BY <1>2, <1>3, <2>1 DEF Once, Nowhere
<1>4. ASSUME NEW c \in Classes, NEW i \in DOMAIN log, Nowhere(c, i) PROVE Nowhere(c, i)'
  BY <1>2, <1>4 DEF Nowhere, Kinds
<1>5. ASSUME NEW i \in DOMAIN log, i \notin redelivered', i >= next1' PROVE i >= next1
  BY <1>1, <1>5, Positions
<1> QED
  BY <1>1, <1>3, <1>4, <1>5, OnceStep

LEMMA TakeAggregateOnce == ASSUME TypeInv, OnceInv, TakeAggregate PROVE OnceInv'
<1>1. UNCHANGED <<scenario, sent, reader1, table1, buffer, aggregates, reported,
                  traced, history>>
  BY DEF TakeAggregate
<1>2. next2 \in 1..Len(aggregates) /\ Len(aggregates) \in Nat /\ next2' = next2 + 1
  BY AtAggregate, TakeAggregateIs DEF TakeAggregate
<1>3. ASSUME NEW c \in Classes, NEW i \in DOMAIN log, NEW kind \in Kinds, NEW j \in Nat,
             OnlyAt(kind, j, c, i)
      PROVE  /\ kind = "topic" /\ j = next2 => OnlyAt("table2", j, c, i)'
             /\ ~(kind = "topic" /\ j = next2) => OnlyAt(kind, j, c, i)'
  <2>1. next2 \in next2..Len(aggregates) /\ \A k \in next2'..Len(aggregates) : k \in next2..Len(aggregates)
    BY <1>2
  <2>2. \A k \in next2..Len(aggregates) :
          InMessage(aggregates[k], c, i) = IF kind = "topic" /\ k = j THEN 1 ELSE 0
    BY <1>3 DEF OnlyAt, InTopic
  <2>3. table2'[c][i] = table2[c][i] + IF kind = "topic" /\ j = next2 THEN 1 ELSE 0
    <3>1. table2'[c][i] = table2[c][i] + InMessage(aggregates[next2], c, i)
      BY TakeAggregateIs
    <3>2. InMessage(aggregates[next2], c, i) = IF kind = "topic" /\ next2 = j THEN 1 ELSE 0
      BY <2>1, <2>2
    <3> QED
      BY <3>1, <3>2
  <2>4. CASE kind = "topic" /\ j = next2
    <3>1. table2'[c][i] = 1
      BY <1>3, <2>3, <2>4 DEF OnlyAt, InTable2
    <3>2. InTopic("table2", j, c, i)'
      <4>1. \A k \in next2'..Len(aggregates) : InMessage(aggregates[k], c, i) = 0
        BY <1>2, <2>2, <2>4
      <4> QED
        BY <1>1, <4>1 DEF InTopic
    <3> QED
      BY <1>1, <1>3, <2>4, <3>1, <3>2
      DEF OnlyAt, InTable1, InTable2, InReported, InBuffer, There
  <2>5. CASE ~(kind = "topic" /\ j = next2)
    <3>1. table2'[c][i] = table2[c][i]
      BY <2>3, <2>5, Numbers
    <3>2. InTopic(kind, j, c, i)'
      BY <1>1, <2>1, <2>2 DEF InTopic
    <3>3. There(kind, j)'
      BY <1>1, <1>2, <1>3, <2>5 DEF There, OnlyAt
    <3>4. InTable2(kind, c, i)'
      BY <1>3, <3>1 DEF OnlyAt, InTable2
    <3>5. InTable1(kind, c, i)' /\ InReported(kind, c, i)' /\ InBuffer(kind, j, c, i)'
      BY <1>1, <1>3 DEF OnlyAt, InTable1, InReported, InBuffer
    <3> QED
      BY <2>5, <3>2, <3>3, <3>4, <3>5 DEF OnlyAt
  <2> QED
    BY <2>4, <2>5
<1>4. ASSUME NEW c \in Classes, NEW i \in DOMAIN log, NEW kind \in Kinds, NEW j \in Nat,
             OnlyAt(kind, j, c, i)
      PROVE  Once(c, i)'
  <2>1. "table2" \in Kinds
    BY DEF Kinds
  <2> QED
    BY <1>3, <1>4, <2>1 DEF Once
<1>5. ASSUME NEW c \in Classes, NEW i \in DOMAIN log, Nowhere(c, i) PROVE Nowhere(c, i)'
  BY <1>3, <1>5 DEF Nowhere, Kinds
<1> QED
  BY <1>1, <1>4, <1>5, OnceStay DEF history

LEMMA ReportOnce == ASSUME TypeInv, OnceInv, NEW d \in Classes, Report(d) PROVE OnceInv'
<1>1. UNCHANGED <<scenario, sent, reader1, table1, buffer, aggregates, reader2, traced,
                  history>>
  BY DEF Report
<1>2. ASSUME NEW c \in Classes, NEW i \in DOMAIN log, NEW kind \in Kinds, NEW j \in Nat,
             OnlyAt(kind, j, c, i)
      PROVE  /\ c = d /\ kind = "table2" => OnlyAt("reported", j, c, i)'
             /\ ~(c = d /\ kind = "table2") => OnlyAt(kind, j, c, i)'
  <2>1. /\ table2'[c][i] = IF c = d THEN 0 ELSE table2[c][i]
        /\ reported'[c][i] = reported[c][i] + (IF c = d THEN table2[c][i] ELSE 0)
    BY ReportIs
  <2>2. CASE c = d /\ kind = "table2"
    <3>1. table2'[c][i] = 0 /\ reported'[c][i] = 1
      BY <1>2, <2>1, <2>2 DEF OnlyAt, InTable2, InReported
    <3> QED
      BY <1>1, <1>2, <2>2, <3>1
      DEF OnlyAt, InTable1, InTable2, InReported, InBuffer, InTopic, There, reader2
  <2>3. CASE ~(c = d /\ kind = "table2")
    <3>1. table2'[c][i] = table2[c][i] /\ reported'[c][i] = reported[c][i]
      BY <1>2, <2>1, <2>3, Numbers DEF OnlyAt, InTable2
    <3>2. InTable2(kind, c, i)' /\ InReported(kind, c, i)'
      BY <1>2, <3>1 DEF OnlyAt, InTable2, InReported
    <3>3. InTable1(kind, c, i)' /\ InBuffer(kind, j, c, i)' /\ InTopic(kind, j, c, i)' /\ There(kind, j)'
      BY <1>1, <1>2 DEF OnlyAt, InTable1, InBuffer, InTopic, There, reader2
    <3> QED
      BY <2>3, <3>2, <3>3 DEF OnlyAt
  <2> QED
    BY <2>2, <2>3
<1>3. ASSUME NEW c \in Classes, NEW i \in DOMAIN log, NEW kind \in Kinds, NEW j \in Nat,
             OnlyAt(kind, j, c, i)
      PROVE  Once(c, i)'
  <2>1. "reported" \in Kinds
    BY DEF Kinds
  <2> QED
    BY <1>2, <1>3, <2>1 DEF Once
<1>4. ASSUME NEW c \in Classes, NEW i \in DOMAIN log, Nowhere(c, i) PROVE Nowhere(c, i)'
  BY <1>2, <1>4 DEF Nowhere, Kinds
<1> QED
  BY <1>1, <1>3, <1>4, OnceStay DEF history

\* A document that is not read once more is in none of the messages that are.
LEMMA CrashOwnerOnce == ASSUME TypeInv, OnceInv, CrashOwner PROVE OnceInv'
<1>1. /\ UNCHANGED <<scenario, sent, reader1, table1, buffer, aggregates, reported,
                     traced>>
      /\ next2' = committed2 + 1 /\ table2' = Empty
      /\ redelivered' = redelivered \cup
           {i \in DOMAIN log : \E k \in (committed2 + 1)..(next2 - 1) : aggregates[k].counts[i] > 0}
  BY DEF CrashOwner, Reader2!Restart
<1>2. /\ next2 \in Nat \ {0} /\ committed2 \in Nat /\ Len(aggregates) \in Nat
      /\ next2 <= Len(aggregates) + 1
  BY Positions
<1>3. ASSUME NEW c \in Classes, NEW i \in DOMAIN log, i \notin redelivered',
             NEW k \in (committed2 + 1)..(next2 - 1)
      PROVE  InMessage(aggregates[k], c, i) = 0
  <2>1. ~(aggregates[k].counts[i] > 0)
    BY <1>1, <1>3
  <2>2. k \in 1..Len(aggregates)
    BY <1>2
  <2>3. InMessage(aggregates[k], c, i) \in Nat
    BY <2>2, Numbers
  <2> QED
    BY <2>1, <2>3 DEF InMessage
<1>4. ASSUME NEW c \in Classes, NEW i \in DOMAIN log, i \notin redelivered',
             NEW kind \in Kinds, NEW j \in Nat, OnlyAt(kind, j, c, i)
      PROVE  /\ kind = "table2" \/ (kind = "topic" /\ j <= committed2) => Nowhere(c, i)'
             /\ ~(kind = "table2" \/ (kind = "topic" /\ j <= committed2)) => OnlyAt(kind, j, c, i)'
  <2>1. \A k \in (committed2 + 1)..Len(aggregates) :
          InMessage(aggregates[k], c, i) = IF kind = "topic" /\ k = j THEN 1 ELSE 0
    <3>1. ASSUME NEW k \in (committed2 + 1)..Len(aggregates)
          PROVE  InMessage(aggregates[k], c, i) = IF kind = "topic" /\ k = j THEN 1 ELSE 0
      <4>1. CASE k < next2
        <5>1. InMessage(aggregates[k], c, i) = 0
          <6>1. k \in (committed2 + 1)..(next2 - 1)
            BY <1>2, <4>1
          <6> QED
            BY <1>3, <1>4, <6>1
        <5>2. ~(kind = "topic" /\ k = j)
          BY <1>2, <1>4, <4>1 DEF OnlyAt, There
        <5> QED
          BY <5>1, <5>2
      <4>2. CASE k >= next2
        <5>1. k \in next2..Len(aggregates)
          BY <1>2, <4>2
        <5> QED
          BY <1>4, <5>1 DEF OnlyAt, InTopic
      <4> QED
        BY <1>2, <4>1, <4>2
    <3> QED
      BY <3>1
  <2>2. table2'[c][i] = 0
    BY <1>1, CountTypes
  <2>3. CASE kind = "table2" \/ (kind = "topic" /\ j <= committed2)
    <3>1. InTopic("nowhere", 0, c, i)'
      <4>1. \A k \in (committed2 + 1)..Len(aggregates) : InMessage(aggregates[k], c, i) = 0
        BY <1>2, <2>1, <2>3
      <4> QED
        BY <1>1, <4>1 DEF InTopic
    <3> QED
      BY <1>1, <1>4, <2>2, <2>3, <3>1
      DEF Nowhere, OnlyAt, InTable1, InTable2, InReported, InBuffer, There
  <2>4. CASE ~(kind = "table2" \/ (kind = "topic" /\ j <= committed2))
    <3>1. InTopic(kind, j, c, i)'
      BY <1>1, <2>1 DEF InTopic
    <3>2. There(kind, j)'
      BY <1>1, <1>2, <1>4, <2>4 DEF There, OnlyAt
    <3> QED
      BY <1>1, <1>4, <2>2, <2>4, <3>1, <3>2
      DEF OnlyAt, InTable1, InTable2, InReported, InBuffer
  <2> QED
    BY <2>3, <2>4
<1>5. ASSUME NEW c \in Classes, NEW i \in DOMAIN log, i \notin redelivered',
             NEW kind \in Kinds, NEW j \in Nat, OnlyAt(kind, j, c, i)
      PROVE  Once(c, i)'
  <2>1. "nowhere" \in Kinds
    BY DEF Kinds
  <2> QED
    BY <1>4, <1>5, <2>1 DEF Once, Nowhere
<1>6. ASSUME NEW c \in Classes, NEW i \in DOMAIN log, i \notin redelivered', Nowhere(c, i)
      PROVE  Nowhere(c, i)'
  BY <1>4, <1>6 DEF Nowhere, Kinds
<1> QED
  BY <1>1, <1>5, <1>6, OnceStay

LEMMA StepOnce == ASSUME TypeInv, OnceInv, [Next]_vars PROVE OnceInv'
<1>1. CASE Arrive \/ UNCHANGED vars
  BY <1>1, StillOnceInv DEF Arrive, vars, reader1, reader2, history
<1>2. CASE Read1 \/ Fetch1
  <2>1. next1' = next1
    BY <1>2 DEF Read1, Fetch1, Reader1!ConsumeNone, Reader1!Commit, Reader1!MeasureLag,
                Reader1!ConsumeSome
  <2> QED
    BY <1>2, <2>1, StillOnceInv DEF Read1, Fetch1, reader2, history
<1>3. CASE Read2 \/ Fetch2
  <2>1. next2' = next2
    BY <1>3 DEF Read2, Fetch2, Reader2!ConsumeNone, Reader2!Commit, Reader2!MeasureLag,
                Reader2!ConsumeSome
  <2> QED
    BY <1>3, <2>1, StillOnceInv DEF Read2, Fetch2, reader1, history
<1> QED
  BY <1>1, <1>2, <1>3, TakeDocumentOnce, FlushOnce, DeliverOnce, RefuseOnce,
     CrashReaderOnce,
     TakeAggregateOnce, ReportOnce, CrashOwnerOnce DEF Next

LEMMA InitOnce == Init => OnceInv
<1> SUFFICES ASSUME Init, NEW c \in Classes, NEW i \in DOMAIN log PROVE Nowhere(c, i) /\ Once(c, i)
  BY DEF OnceInv
<1>1. /\ table1[c][i] = 0 /\ table2[c][i] = 0 /\ reported[c][i] = 0
      /\ DOMAIN buffer = {} /\ next2..Len(aggregates) = {}
  BY CountTypes DEF Init, Reader2!Init
<1>2. Nowhere(c, i)
  BY <1>1 DEF Nowhere, OnlyAt, InTable1, InTable2, InReported, InBuffer, InTopic, There
<1> QED
  BY <1>2 DEF Nowhere, Once, Kinds

\* The updates of a document are in one place, and count once there, unless the
\* document or an aggregate that it is in is read again after a crash, from the
\* offset that rd_kafka_commit last wrote.
THEOREM NothingCountedTwice == Spec => []CountedOnce
<1>1. Init => TypeInv /\ OnceInv
  BY InitTyped, InitOnce
<1>2. TypeInv /\ OnceInv /\ [Next]_vars => (TypeInv /\ OnceInv)'
  BY StepTyped, StepOnce
<1>3. OnceInv => CountedOnce
  <2> SUFFICES ASSUME OnceInv, NEW i \in DOMAIN log \ redelivered, NEW c \in Classes,
                      NEW p \in Places, NEW q \in Places, Held(p, c, i) > 0, Held(q, c, i) > 0
               PROVE  p = q /\ Held(p, c, i) = 1
    BY DEF CountedOnce
  <2>1. PICK kind \in Kinds, j \in Nat : OnlyAt(kind, j, c, i)
    BY DEF OnceInv, Once
  <2>2. ASSUME NEW place \in Places, Held(place, c, i) > 0
        PROVE  /\ Held(place, c, i) = 1
               /\ place = IF kind \in {"buffer", "topic"} THEN <<kind, j>> ELSE <<kind, 0>>
    BY <2>1, <2>2, PlacesAre DEF OnlyAt, InTable1, InTable2, InReported, InBuffer,
       InTopic
  <2> QED
    BY <2>2
<1> QED
  BY <1>1, <1>2, <1>3, PTL DEF Spec

(***************************************************************************)
(* Roots.                                                                  *)
(***************************************************************************)

\* A call of a document is kept with the ones it came with.
LEMMA TakeDocumentMarks ==
  ASSUME TypeInv, MarkedRootsKept, TakeDocument PROVE MarkedRootsKept'
<1>1. log' = log /\ next1 \in DOMAIN log
  BY SameLog, AtMessage DEF TakeDocument
<1>2. PICK lagging : traced' = traced \cup
        {<<next1, call>> : call \in ToSet(ProcessMessage(At(next1), lagging).store)}
  BY TakenIs
<1>3. ASSUME NEW i \in DOMAIN log, At(i).event = "transaction", At(i).more = <<>>,
             <<i, "mark_traceable">> \in traced'
      PROVE  <<i, "put">> \in traced'
  <2>1. CASE <<i, "mark_traceable">> \in traced
    BY <1>2, <1>3, <2>1 DEF MarkedRootsKept
  <2>2. CASE <<i, "mark_traceable">> \notin traced
    <3>1. i = next1 /\ "mark_traceable" \in ToSet(ProcessMessage(At(i), lagging).store)
      BY <1>2, <1>3, <2>2
    <3>2. "put" \in ToSet(ProcessMessage(At(i), lagging).store)
      BY <1>3, <3>1, MessagesCalls
    <3> QED
      BY <1>2, <3>1, <3>2
  <2> QED
    BY <2>1, <2>2
<1>4. \A i : At(i)' = At(i)
  BY <1>1 DEF At
<1> QED
  BY <1>1, <1>3, <1>4 DEF MarkedRootsKept

LEMMA StepMarks == ASSUME TypeInv, MarkedRootsKept, [Next]_vars PROVE MarkedRootsKept'
<1>1. CASE TakeDocument
  BY <1>1, TakeDocumentMarks
<1>2. CASE [Next]_vars /\ ~TakeDocument
  <2>1. UNCHANGED <<scenario, traced>>
    BY <1>2 DEF Next, vars, Arrive, Fetch1, Read1, Deliver, Refuse, CrashReader,
       Fetch2, Read2,
                TakeAggregate, CrashOwner, Flush, Report
  <2> QED
    BY <2>1 DEF MarkedRootsKept, At, log
<1> QED
  BY <1>1, <1>2

\* A trace that process_transaction_message marks has its root put as well, no
\* matter how far the reader lags.
THEOREM MarkedRoots == Spec => []MarkedRootsKept
<1>1. Init => TypeInv /\ MarkedRootsKept
  BY InitTyped DEF Init, MarkedRootsKept
<1>2. TypeInv /\ MarkedRootsKept /\ [Next]_vars => (TypeInv /\ MarkedRootsKept)'
  BY StepTyped, StepMarks
<1> QED
  BY <1>1, <1>2, PTL DEF Spec
=============================================================================
