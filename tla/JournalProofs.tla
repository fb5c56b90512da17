---------------------------- MODULE JournalProofs ---------------------------
(***************************************************************************)
(* What holds of the journal for every bound on messages and crashes,      *)
(* whatever fails: proofs for TLAPS.                                       *)
(***************************************************************************)
EXTENDS Journal, TLAPS

\* The sender's progress, which NothingSkippedUnseen needs to be inductive:
\* the messages between the checkpoint and the sender have been read, and so
\* has the one it posts or is about to checkpoint, which by then is settled.
\* What the sender has left behind arrived or was given up.
Passed == settled \cup dropped

Progress ==
  /\ 1 .. ckpt \subseteq Passed
  /\ pc # "interval" => /\ ckpt + 1 .. begin - 1 \subseteq visited
                        /\ ckpt + 1 .. begin - 1 \subseteq Passed
  /\ pc \in {"post", "checkpoint"} => begin \in visited
  /\ pc = "checkpoint" => begin \in settled

IInv == TypeOK /\ Progress /\ NothingSkippedUnseen

\* Advance keeps the sender within the interval it read.
LEMMA AdvanceStays ==
  ASSUME TypeOK, pc # "interval", Advance
  PROVE  /\ pc' \in {"message", "interval"}
         /\ pc' = "interval" => begin' = 0 /\ finish' = 0
         /\ pc' = "message" => /\ begin' = begin + 1 /\ finish' = finish
                               /\ begin' <= finish'
BY DEF TypeOK, Advance

\* Type correctness, the first half of the inductive invariant.
LEMMA TypeStep ==
  ASSUME TypeOK, [Next]_vars
  PROVE  TypeOK'
<1> USE JournalAssumption DEF Phases, AllClasses
<1>1. CASE Write
  BY <1>1 DEF Write, TypeOK
<1>2. CASE ReadInterval
  BY <1>2 DEF ReadInterval, FirstUnsent, TypeOK
<1>3. CASE Sleep
  BY <1>3 DEF Sleep, vars, TypeOK
<1>4. CASE ReadMessage
  <2>1. begin \in 1 .. Len(log)
    BY <1>4 DEF ReadMessage, TypeOK
  <2>2. /\ visited' \subseteq 1 .. Len(log) /\ settled' \subseteq 1 .. Len(log)
        /\ dropped' \subseteq 1 .. Len(log)
    BY <1>4, <2>1 DEF ReadMessage, TypeOK
  <2>3. CASE pc' \in {"post", "checkpoint"} /\ UNCHANGED <<begin, finish>>
    BY <1>4, <2>2, <2>3 DEF ReadMessage, TypeOK
  <2>4. CASE Advance
    BY <1>4, <2>2, <2>4, AdvanceStays DEF ReadMessage, TypeOK
  <2> QED
    BY <1>4, <2>3, <2>4 DEF ReadMessage
<1>5. CASE PostAccepted
  <2>1. begin \in 1 .. Len(log)
    BY <1>5 DEF PostAccepted, TypeOK
  <2>2. settled' \subseteq 1 .. Len(log)
    BY <1>5, <2>1 DEF PostAccepted, TypeOK
  <2> QED
    BY <1>5, <2>2 DEF PostAccepted, TypeOK
<1>6. CASE PostFailed
  <2>1. begin \in 1 .. Len(log)
    BY <1>6 DEF PostFailed, TypeOK
  <2>2. settled' \subseteq 1 .. Len(log) /\ dropped' \subseteq 1 .. Len(log)
    BY <1>6, <2>1 DEF PostFailed, TypeOK
  <2> QED
    BY <1>6, <2>2, AdvanceStays DEF PostFailed, TypeOK
<1>7. CASE Checkpoint
  <2>1. ckpt' \in 0 .. Len(log) /\ ckpt' <= begin
    BY <1>7 DEF Checkpoint, CheckpointAt, TypeOK
  <2> QED
    BY <1>7, <2>1, AdvanceStays DEF Checkpoint, TypeOK
<1>8. CASE Crash
  BY <1>8 DEF Crash, TypeOK
<1>9. CASE UNCHANGED vars
  BY <1>9 DEF vars, TypeOK
<1> QED
  BY <1>1, <1>2, <1>3, <1>4, <1>5, <1>6, <1>7, <1>8, <1>9 DEF Next, Send

\* The invariant holds at the start.
LEMMA InitIInv == Init => IInv
BY JournalAssumption DEF Init, IInv, TypeOK, Progress, Passed,
                         NothingSkippedUnseen, Phases, AllClasses

\* Every step, failed posts and crashes included, keeps the invariant.
LEMMA IInvStep ==
  ASSUME IInv, [Next]_vars
  PROVE  IInv'
<1>0. TypeOK /\ TypeOK'
  BY TypeStep DEF IInv
<1> SUFFICES Progress' /\ NothingSkippedUnseen'
  BY <1>0 DEF IInv
<1> USE DEF Progress, Passed, NothingSkippedUnseen
<1>1. CASE Write
  BY <1>0, <1>1 DEF Write, IInv
<1>2. CASE ReadInterval
  BY <1>0, <1>2 DEF ReadInterval, FirstUnsent, TypeOK, IInv
<1>3. CASE Sleep
  BY <1>3 DEF Sleep, vars, IInv
<1>4. CASE ReadMessage
  <2>1. /\ begin \in visited' /\ visited \subseteq visited' /\ ckpt' = ckpt
        /\ settled \subseteq settled' /\ dropped \subseteq dropped'
    BY <1>4 DEF ReadMessage
  <2>2. CASE pc' \in {"post", "checkpoint"} /\ UNCHANGED <<begin, finish>>
    <3>1. pc' = "checkpoint" => begin' \in settled'
      BY <1>4, <2>2 DEF ReadMessage, Advance
    <3> QED
      BY <1>4, <2>1, <2>2, <3>1 DEF ReadMessage, IInv
  <2>3. CASE Advance
    <3>1. pc' = "message" => begin' = begin + 1
      BY <1>0, <1>4, <2>3, AdvanceStays DEF ReadMessage
    <3>2. begin \in dropped'
      BY <1>0, <1>4, <2>3 DEF ReadMessage, Advance, TypeOK
    <3> QED
      BY <1>0, <1>4, <2>1, <2>3, <3>1, <3>2, AdvanceStays DEF ReadMessage, TypeOK, IInv
  <2> QED
    BY <1>4, <2>2, <2>3 DEF ReadMessage
<1>5. CASE PostAccepted
  BY <1>0, <1>5 DEF PostAccepted, IInv
<1>6. CASE PostFailed
  <2>1. /\ begin \in settled' \cup dropped' /\ UNCHANGED <<visited, ckpt>>
        /\ settled \subseteq settled' /\ dropped \subseteq dropped'
    BY <1>6 DEF PostFailed
  <2>2. pc' = "message" => begin' = begin + 1
    BY <1>0, <1>6, AdvanceStays DEF PostFailed
  <2> QED
    BY <1>0, <1>6, <2>1, <2>2, AdvanceStays DEF PostFailed, TypeOK, IInv
<1>7. CASE Checkpoint
  <2>1. ckpt' = ckpt \/ ckpt' = begin
    BY <1>7 DEF Checkpoint, CheckpointAt
  <2>2. 1 .. begin \subseteq visited /\ 1 .. begin \subseteq settled \cup dropped
    BY <1>0, <1>7 DEF Checkpoint, TypeOK, IInv
  <2> QED
    BY <1>0, <1>7, <2>1, <2>2, AdvanceStays DEF Checkpoint, TypeOK, IInv
<1>8. CASE Crash
  BY <1>0, <1>8 DEF Crash, IInv
<1>9. CASE UNCHANGED vars
  BY <1>9 DEF vars, IInv
<1> QED
  BY <1>1, <1>2, <1>3, <1>4, <1>5, <1>6, <1>7, <1>8, <1>9 DEF Next, Send

\* The inductive invariant of the journal.
LEMMA Invariance == Spec => []IInv
<1>1. IInv /\ [Next]_vars => IInv'
  BY IInvStep
<1> QED
  BY InitIInv, <1>1, PTL DEF Spec

\* The sender never leaves the journal and never falls behind its
\* checkpoint (the loop over start and end of tm_circonus.c).
THEOREM TypeCorrect == Spec => []TypeOK
<1>1. IInv => TypeOK
  BY DEF IInv
<1> QED
  BY Invariance, <1>1, PTL

\* Whatever lies behind the checkpoint has been read: a crash between a post
\* and its checkpoint, or an interval cut short, skips nothing.
THEOREM Seen == Spec => []NothingSkippedUnseen
<1>1. IInv => NothingSkippedUnseen
  BY DEF IInv
<1> QED
  BY Invariance, <1>1, PTL

\* jlog_ctx_read_checkpoint is called only forwards, and only for a message
\* that arrived or had nothing to send.
THEOREM Checkpoints == Spec => CheckpointMovesToSettled
<1>1. ASSUME IInv, [Next]_vars, ckpt' # ckpt
      PROVE  ckpt' > ckpt /\ ckpt' \in settled'
  <2>1. Checkpoint
    BY <1>1 DEF Next, Send, Write, ReadInterval, Sleep, ReadMessage, PostAccepted,
                PostFailed, Crash, vars
  <2> QED
    BY <1>1, <2>1 DEF Checkpoint, CheckpointAt, IInv, TypeOK, Progress
<1>2. IInv /\ [Next]_vars => [ckpt' # ckpt => ckpt' > ckpt /\ ckpt' \in settled']_vars
  BY <1>1
<1> QED
  BY Invariance, <1>2, PTL DEF Spec, CheckpointMovesToSettled

(***************************************************************************)
(* The journal implements StoreAndForward.                                 *)
(***************************************************************************)

\* Every step of the journal stores, settles, gives up or releases messages,
\* or does nothing to them.
LEMMA StepSimulation ==
  ASSUME IInv, IInv', [Next]_vars
  PROVE  [Promise!Next]_Promise!vars
<1> USE DEF Promise!vars, Promise!Next
<1>0. TypeOK /\ TypeOK'
  BY DEF IInv
<1>1. CASE Write
  <2>1. Len(log') = Len(log) + 1
    BY <1>0, <1>1, JournalAssumption DEF Write, TypeOK
  <2> QED
    BY <1>1, <2>1 DEF Write, Promise!Store
<1>2. CASE ReadInterval
  BY <1>2 DEF ReadInterval
<1>3. CASE Sleep
  BY <1>3 DEF Sleep, vars
<1>4. CASE ReadMessage
  <2>1. begin \in ckpt + 1 .. Len(log)
    BY <1>0, <1>4 DEF ReadMessage, TypeOK
  <2>2. \/ UNCHANGED <<settled, dropped>>
        \/ settled' = settled \cup {begin} /\ UNCHANGED dropped
        \/ dropped' = dropped \cup {begin} /\ UNCHANGED settled
    BY <1>4 DEF ReadMessage
  <2> QED
    BY <1>4, <2>1, <2>2 DEF ReadMessage, Promise!Settle, Promise!GiveUp
<1>5. CASE PostAccepted
  <2>1. begin \in ckpt + 1 .. Len(log)
    BY <1>0, <1>5 DEF PostAccepted, TypeOK
  <2> QED
    BY <1>5, <2>1 DEF PostAccepted, Promise!Settle
<1>6. CASE PostFailed
  <2>1. begin \in ckpt + 1 .. Len(log)
    BY <1>0, <1>6 DEF PostFailed, TypeOK
  <2> QED
    BY <1>6, <2>1 DEF PostFailed, Promise!Settle, Promise!GiveUp
<1>7. CASE Checkpoint
  <2>1. UNCHANGED <<settled, dropped, log>>
    BY <1>7 DEF Checkpoint
  <2>2. CASE ckpt' = ckpt
    BY <2>1, <2>2
  <2>3. CASE ckpt' = begin
    <3>1. begin \in ckpt + 1 .. Len(log)
      BY <1>0, <1>7 DEF Checkpoint, TypeOK
    <3>2. 1 .. begin \subseteq settled \cup dropped
      BY <2>1, <2>3 DEF IInv, Progress, Passed
    <3> QED
      BY <2>1, <2>3, <3>1, <3>2 DEF Promise!Release
  <2> QED
    BY <1>7, <2>2, <2>3 DEF Checkpoint, CheckpointAt
<1>8. CASE Crash
  BY <1>8 DEF Crash
<1>9. CASE UNCHANGED vars
  BY <1>9 DEF vars
<1> QED
  BY <1>1, <1>2, <1>3, <1>4, <1>5, <1>6, <1>7, <1>8, <1>9 DEF Next, Send

\* The journal of tm_circonus.c stores and forwards: through any crashes and
\* any failures, it forgets only what arrived or was given up message by
\* message.
THEOREM Refinement == Spec => ImplementsStoreAndForward
<1>1. Init => Promise!Init
  BY DEF Init, Promise!Init
<1>2. IInv /\ IInv' /\ [Next]_vars => [Promise!Next]_Promise!vars
  BY StepSimulation
<1> QED
  BY Invariance, <1>1, <1>2, PTL DEF Spec, ImplementsStoreAndForward, Promise!Spec

(***************************************************************************)
(* Without failed posts, jlog errors and unparsable messages nothing is    *)
(* given up.                                                               *)
(***************************************************************************)
Faultless == ~MayReject /\ ~MayFail /\ "unparsable" \notin Classes

NoneDropped == dropped = {} /\ \A i \in 1 .. Len(log) : log[i] # "unparsable"

LEMMA NoneDroppedStep ==
  ASSUME Faultless, IInv, NoneDropped, [Next]_vars
  PROVE  NoneDropped'
<1> USE DEF Faultless, NoneDropped
<1>0. TypeOK
  BY DEF IInv
<1>1. CASE Write
  <2>1. PICK c \in Classes : log' = Append(log, c)
    BY <1>1 DEF Write
  <2>2. c # "unparsable"
    BY <2>1
  <2>3. \A i \in 1 .. Len(log') : log'[i] # "unparsable"
    BY <1>0, <2>1, <2>2, JournalAssumption DEF TypeOK
  <2> QED
    BY <1>1, <2>3 DEF Write
<1>2. CASE ReadMessage
  <2>1. begin \in 1 .. Len(log)
    BY <1>0, <1>2 DEF ReadMessage, TypeOK
  <2> QED
    BY <1>2, <2>1 DEF ReadMessage
<1>3. CASE PostFailed
  BY <1>3 DEF PostFailed
<1>4. CASE UNCHANGED <<log, dropped>>
  BY <1>4
<1> QED
  BY <1>1, <1>2, <1>3, <1>4 DEF Next, Send, ReadInterval, Sleep, PostAccepted,
                                Checkpoint, Crash, vars

\* "No data gets lost before it successfully arrives to Circonus", crashes at
\* any point included, while Circonus takes what it is sent and the jlog works.
THEOREM NothingLost ==
  ASSUME Faultless
  PROVE  Spec => []NoDataLost
<1>1. Init => NoneDropped
  BY DEF Init, NoneDropped
<1>2. IInv /\ NoneDropped /\ [Next]_vars => NoneDropped'
  BY NoneDroppedStep
<1>3. IInv /\ NoneDropped => NoDataLost
  BY DEF IInv, Progress, Passed, NoneDropped, NoDataLost
<1> QED
  BY Invariance, <1>1, <1>2, <1>3, PTL DEF Spec
=============================================================================
