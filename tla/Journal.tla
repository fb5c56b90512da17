------------------------------- MODULE Journal ------------------------------
(***************************************************************************)
(* The Circonus journal: src/src/tm_circonus.c.  Flush threads append      *)
(* batches of metrics to a jlog; one sender thread reads the interval      *)
(* after its checkpoint, posts the messages one by one and checkpoints the *)
(* ones that arrived.  The jlog and the checkpoint are files.              *)
(***************************************************************************)
EXTENDS Integers, Sequences

CONSTANTS
  MaxLog,      \* bound on the messages written
  MaxCrashes,  \* bound on process crashes
  MayReject,   \* whether a post may fail or time out
  MayFail,     \* whether a jlog operation may return an error
  Classes      \* the classes of messages found in the journal

\* A complete message has a url and data; an incomplete one lacks either; an
\* unparsable one is not JSON.
AllClasses == {"complete", "incomplete", "unparsable"}

ASSUME JournalAssumption ==
  /\ MaxLog \in Nat /\ MaxCrashes \in Nat
  /\ MayReject \in BOOLEAN /\ MayFail \in BOOLEAN
  /\ Classes \subseteq AllClasses

VARIABLES
  log,      \* the classes of the messages in the journal, in order (file)
  ckpt,     \* the checkpoint of subscriber "reader" (file)
  pc,       \* where the sender is
  begin,    \* the message it is at
  finish,   \* the last message of the interval it read
  settled,  \* messages Circonus received or the sender discarded (history)
  dropped,  \* messages passed over without success (history)
  visited,  \* messages the sender has been at (history)
  crashes   \* number of crashes so far

vars == <<log, ckpt, pc, begin, finish, settled, dropped, visited, crashes>>

Phases == {"interval", "message", "post", "checkpoint"}

Init ==
  /\ log = <<>>
  /\ ckpt = 0
  /\ pc = "interval"
  /\ begin = 0
  /\ finish = 0
  /\ settled = {}
  /\ dropped = {}
  /\ visited = {}
  /\ crashes = 0

\* journal_output_metrics: one jlog write under jlog_write_mutex.
Write ==
  /\ Len(log) < MaxLog
  /\ \E c \in Classes : log' = Append(log, c)
  /\ UNCHANGED <<ckpt, pc, begin, finish, settled, dropped, visited, crashes>>

FirstUnsentMutant == ckpt + 2  \* advances once too often
FirstUnsent       == ckpt + 1

\* jlog_ctx_read_interval: from the message after the checkpoint to the last
\* message of a segment, which may not be the last one written.
ReadInterval ==
  /\ pc = "interval"
  /\ FirstUnsent <= Len(log)
  /\ begin' = FirstUnsent
  /\ finish' \in FirstUnsent .. Len(log)
  /\ pc' = "message"
  /\ UNCHANGED <<log, ckpt, settled, dropped, visited, crashes>>

\* Nothing to read: the thread sleeps and asks again.
Sleep ==
  /\ pc = "interval"
  /\ FirstUnsent > Len(log)
  /\ UNCHANGED vars

AdvanceMutant ==  \* off by one
  /\ pc' = IF begin <= finish THEN "message" ELSE "interval"
  /\ begin' = IF begin <= finish THEN begin + 1 ELSE 0
  /\ finish' = IF begin <= finish THEN finish ELSE 0

\* The next message of the interval, or the next interval.
Advance ==
  /\ pc' = IF begin < finish THEN "message" ELSE "interval"
  /\ begin' = IF begin < finish THEN begin + 1 ELSE 0
  /\ finish' = IF begin < finish THEN finish ELSE 0

\* One message is read: it is posted, or discarded, or passed over when it
\* cannot be read or parsed.
ReadMessage ==
  /\ pc = "message"
  /\ visited' = visited \cup {begin}
  /\ \/ log[begin] = "complete" /\ pc' = "post"
        /\ UNCHANGED <<begin, finish, settled, dropped>>
     \/ /\ log[begin] = "incomplete"
        /\ pc' = "checkpoint"
        /\ settled' = settled \cup {begin}
        /\ UNCHANGED <<begin, finish, dropped>>
     \/ /\ log[begin] = "unparsable" \/ MayFail
        /\ Advance
        /\ dropped' = dropped \cup {begin}
        /\ UNCHANGED settled
  /\ UNCHANGED <<log, ckpt, crashes>>

\* The post arrived and was answered with success.
PostAccepted ==
  /\ pc = "post"
  /\ settled' = settled \cup {begin}
  /\ pc' = "checkpoint"
  /\ UNCHANGED <<log, ckpt, begin, finish, dropped, visited, crashes>>

\* The post was refused, or no answer came in time, whether or not it
\* arrived: the message is not checkpointed and the next one is read.
PostFailed ==
  /\ MayReject
  /\ pc = "post"
  /\ \/ settled' = settled \cup {begin} /\ UNCHANGED dropped
     \/ dropped' = dropped \cup {begin} /\ UNCHANGED settled
  /\ Advance
  /\ UNCHANGED <<log, ckpt, visited, crashes>>

CheckpointAtMutant == finish  \* the end of the interval
CheckpointAt       == begin

\* jlog_ctx_read_checkpoint at the message, whatever became of the messages
\* before it.
Checkpoint ==
  /\ pc = "checkpoint"
  /\ \/ ckpt' = CheckpointAt
     \/ MayFail /\ UNCHANGED ckpt
  /\ Advance
  /\ UNCHANGED <<log, settled, dropped, visited, crashes>>

\* The process dies and starts again: the sender resumes from the checkpoint.
Crash ==
  /\ crashes < MaxCrashes
  /\ crashes' = crashes + 1
  /\ pc' = "interval" /\ begin' = 0 /\ finish' = 0
  /\ UNCHANGED <<log, ckpt, settled, dropped, visited>>

Send == ReadInterval \/ Sleep \/ ReadMessage \/ PostAccepted \/ PostFailed \/ Checkpoint

Next == Write \/ Send \/ Crash

Spec == Init /\ [][Next]_vars

\* The sender loops for ever; and a read, a post or a checkpoint that is tried
\* again and again succeeds at last.
FairSpec ==
  /\ Spec
  /\ WF_vars(Send)
  /\ SF_vars(ReadMessage /\ UNCHANGED begin)
  /\ SF_vars(PostAccepted)
  /\ SF_vars(Checkpoint /\ ckpt' # ckpt)

(***************************************************************************)
(* Properties.                                                             *)
(***************************************************************************)

\* Types, and the sender's place: within the journal and past its checkpoint.
TypeOK ==
  /\ log \in Seq(AllClasses)
  /\ ckpt \in 0 .. Len(log)
  /\ pc \in Phases
  /\ pc = "interval" => begin = 0 /\ finish = 0
  /\ pc # "interval" => /\ begin \in Nat /\ finish \in Nat
                        /\ ckpt < begin /\ begin <= finish /\ finish <= Len(log)
  /\ settled \subseteq 1 .. Len(log)
  /\ dropped \subseteq 1 .. Len(log)
  /\ visited \subseteq 1 .. Len(log)
  /\ crashes \in Nat

\* No message is passed over unseen: whatever lies behind the checkpoint has
\* been read and, if complete, posted at least once, also when intervals end
\* early and the process dies between a post and its checkpoint.
NothingSkippedUnseen == 1 .. ckpt \subseteq visited

\* The checkpoint never moves back, and moves only to a message that arrived
\* or had nothing to send.
CheckpointMovesToSettled ==
  [][ckpt' # ckpt => ckpt' > ckpt /\ ckpt' \in settled']_vars

\* A complete message does not stay in front of the checkpoint for ever: it
\* is retried until something at or after it arrives.  Only an unparsable
\* message before it may stop this: when an interval ends with one, it is read
\* again and again.
CompleteIsPassed ==
  \A i \in 1 .. MaxLog :
     (i \in DOMAIN log /\ log[i] = "complete")
       ~> (ckpt >= i \/ \E j \in DOMAIN log : j < i /\ log[j] = "unparsable")

\* The journal implements store and forward: through crashes at any point and
\* whatever fails, the checkpoint passes only messages that arrived or were
\* given up one by one.
Promise == INSTANCE StoreAndForward WITH stored <- Len(log), released <- ckpt
ImplementsStoreAndForward == Promise!Spec

\* README, Journal path: "checkpointing to ensure no data gets lost before it
\* successfully arrives to Circonus".  Here: behind the checkpoint every
\* message arrived.  A post that fails is passed over for good when a later
\* post of the same interval succeeds and is checkpointed.
NoDataLost == \A i \in 1 .. ckpt : log[i] = "complete" => i \in settled
=============================================================================
