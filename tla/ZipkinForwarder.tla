--------------------------- MODULE ZipkinForwarder ---------------------------
(***************************************************************************)
(* The span forwarder (apitrace/zipkin_forwarder.go).  Request goroutines  *)
(* hand their spans to SubmitSpan, which puts them in a bounded channel;   *)
(* one goroutine takes them out, keeps the newest maxBatchSize of them,    *)
(* and posts them to the collector when its ticker ticks, with a retry.    *)
(* While it posts, or waits to retry, it takes nothing out of the channel. *)
(*                                                                         *)
(* The collector is outside.  An attempt ends in one of four ways: stored  *)
(* and acknowledged; stored, but the answer is lost or late; not stored,   *)
(* and an error; not stored, and an answer with an error status.           *)
(***************************************************************************)
EXTENDS Sequences, Naturals, FiniteSets, Functions

CONSTANTS
  Spans,         \* spans, each submitted once
  Unsampled,     \* those that are not sampled
  ChanCap,       \* capacity of the channel
  MaxBatchSize,  \* maxBatchSize
  MaxRetries     \* maxretries

ASSUME SpansAssumption == Unsampled \subseteq Spans
ASSUME BoundsAssumption ==
  /\ ChanCap \in Nat \ {0}
  /\ MaxBatchSize \in Nat \ {0}
  /\ MaxRetries \in Nat \ {0}

VARIABLES
  submitter,  \* each span's call of SubmitSpan: "idle", "sending", "returned"
  chan,       \* the channel
  batch,      \* the goroutine's batch
  pc,         \* the goroutine: "select", "attempt", "sleep" or "done"
  retry,      \* attempts that have failed in this submitBatchWithRetry
  ctxDone,    \* is the context done?
  stored,     \* history: the spans the collector has
  refused,    \* history: the spans it has answered with an error status
  dropped,    \* history: the spans trimmed from the batch
  acked,      \* history: the spans whose submission was acknowledged
  abandoned   \* history: the spans left behind by a goroutine that has returned

history == <<stored, refused, dropped, acked, abandoned>>

vars == <<submitter, chan, batch, pc, retry, ctxDone, history>>

\* Every variable keeps its type; the channel and the batch keep their bounds.
TypeOK ==
  /\ submitter \in [Spans -> {"idle", "sending", "returned"}]
  /\ chan \in Seq(Spans) /\ Len(chan) <= ChanCap
  /\ batch \in Seq(Spans) /\ Len(batch) <= MaxBatchSize
  /\ pc \in {"select", "attempt", "sleep", "done"}
  /\ retry \in 0..(MaxRetries - 1)
  /\ ctxDone \in BOOLEAN
  /\ stored \subseteq Spans
  /\ refused \subseteq Spans
  /\ dropped \subseteq Spans
  /\ acked \subseteq Spans
  /\ abandoned \subseteq Spans

Init ==
  /\ submitter = [s \in Spans |-> "idle"]
  /\ chan = <<>>
  /\ batch = <<>>
  /\ pc = "select"
  /\ retry = 0
  /\ ctxDone = FALSE
  /\ stored = {}
  /\ refused = {}
  /\ dropped = {}
  /\ acked = {}
  /\ abandoned = {}
-----------------------------------------------------------------------------
(***************************************************************************)
(* SubmitSpan, called by each request's goroutine.                         *)
(***************************************************************************)
SubmitSpan(s) ==
  /\ submitter[s] = "idle"
  /\ submitter' = [submitter EXCEPT ![s] = IF s \in Unsampled THEN "returned" ELSE "sending"]
  /\ UNCHANGED <<chan, batch, pc, retry, ctxDone, history>>

\* The send blocks while the channel is full, whatever became of the reader: a
\* span sent after the goroutine has returned is left behind in the channel.
SendSpan(s) ==
  /\ submitter[s] = "sending"
  /\ Len(chan) < ChanCap
  /\ chan' = Append(chan, s)
  /\ submitter' = [submitter EXCEPT ![s] = "returned"]
  /\ abandoned' = IF pc = "done" THEN abandoned \cup {s} ELSE abandoned
  /\ UNCHANGED <<batch, pc, retry, ctxDone, stored, refused, dropped, acked>>
-----------------------------------------------------------------------------
(***************************************************************************)
(* The goroutine.                                                          *)
(***************************************************************************)
Overflow(b) == IF Len(b) > MaxBatchSize THEN Len(b) - MaxBatchSize ELSE 0

\* One span too few kept.
Trim_OffByOne(b) == IF Len(b) >= MaxBatchSize THEN SubSeq(b, 2, Len(b)) ELSE b

\* The newest MaxBatchSize spans of b.
Trim(b) == SubSeq(b, Overflow(b) + 1, Len(b))

\* A span is received and put at the end of the batch.
ReceiveSpan ==
  /\ pc = "select"
  /\ chan # <<>>
  /\ LET b == Append(batch, Head(chan)) IN
       /\ batch' = Trim(b)
       /\ dropped' = dropped \cup (Range(b) \ Range(Trim(b)))
  /\ chan' = Tail(chan)
  /\ UNCHANGED <<submitter, pc, retry, ctxDone, stored, refused, acked, abandoned>>

\* The ticker ticks and there is something to submit.
StartSubmit ==
  /\ pc = "select"
  /\ batch # <<>>
  /\ pc' = "attempt"
  /\ retry' = 0
  /\ UNCHANGED <<submitter, chan, batch, ctxDone, history>>

\* The batch is not cleared, and goes out again with the next tick.
Succeed_KeepsBatch == UNCHANGED batch /\ pc' = "select" /\ retry' = 0

\* submitBatch returns nil: the batch is cleared.
Succeed == batch' = <<>> /\ pc' = "select" /\ retry' = 0

\* The last error is forgotten, and with it the batch.
Fail_Forgets ==
  IF retry + 1 >= MaxRetries
  THEN pc' = "select" /\ retry' = 0 /\ batch' = <<>>
  ELSE pc' = "sleep" /\ retry' = retry + 1 /\ UNCHANGED batch

\* One retry too many.
Fail_OneMore ==
  IF retry >= MaxRetries
  THEN pc' = "select" /\ retry' = 0 /\ UNCHANGED batch
  ELSE pc' = "sleep" /\ retry' = retry + 1 /\ UNCHANGED batch

\* The attempts are not counted.
Fail_NoCount == pc' = "sleep" /\ UNCHANGED <<retry, batch>>

\* submitBatch returns an error: retry after a delay, or give up and keep the
\* batch for the next tick.
Fail ==
  IF retry + 1 >= MaxRetries
  THEN pc' = "select" /\ retry' = 0 /\ UNCHANGED batch
  ELSE pc' = "sleep" /\ retry' = retry + 1 /\ UNCHANGED batch

AttemptStored ==
  /\ pc = "attempt"
  /\ ~ctxDone
  /\ stored' = stored \cup Range(batch)
  /\ acked' = acked \cup Range(batch)
  /\ Succeed
  /\ UNCHANGED <<submitter, chan, ctxDone, refused, dropped, abandoned>>

\* The answer is lost, or comes after batchSubmitTimeout.
AttemptUnanswered ==
  /\ pc = "attempt"
  /\ stored' = stored \cup Range(batch)
  /\ Fail
  /\ UNCHANGED <<submitter, chan, ctxDone, refused, dropped, acked, abandoned>>

AttemptFails ==
  /\ pc = "attempt"
  /\ Fail
  /\ UNCHANGED <<submitter, chan, ctxDone, history>>

\* The test of the status, >= 200 || <= 299, holds of every status.
AttemptRejected ==
  /\ pc = "attempt"
  /\ ~ctxDone
  /\ refused' = refused \cup Range(batch)
  /\ Succeed
  /\ UNCHANGED <<submitter, chan, ctxDone, stored, dropped, acked, abandoned>>

\* The delay before a retry is slept through.
Retry ==
  /\ pc = "sleep"
  /\ pc' = "attempt"
  /\ UNCHANGED <<submitter, chan, batch, retry, ctxDone, history>>

\* The goroutine returns: nobody will read the channel or submit the batch.
SeesContext ==
  /\ pc = "select"
  /\ ctxDone
  /\ pc' = "done"
  /\ abandoned' = abandoned \cup Range(chan) \cup Range(batch)
  /\ UNCHANGED <<submitter, chan, batch, retry, ctxDone, stored, refused, dropped, acked>>

ContextEnds ==
  /\ ~ctxDone
  /\ ctxDone' = TRUE
  /\ UNCHANGED <<submitter, chan, batch, pc, retry, history>>

\* All spans are submitted, and nothing is left to do or nobody to do it.
Terminated ==
  /\ pc = "done" \/ (pc = "select" /\ chan = <<>> /\ batch = <<>>)
  /\ \A s \in Spans : submitter[s] = "returned"
  /\ UNCHANGED vars
-----------------------------------------------------------------------------
Attempt == AttemptStored \/ AttemptUnanswered \/ AttemptFails \/ AttemptRejected

Next == \/ \E s \in Spans : SubmitSpan(s) \/ SendSpan(s)
        \/ ReceiveSpan \/ StartSubmit \/ Attempt \/ Retry \/ SeesContext
        \/ ContextEnds \/ Terminated

Spec == Init /\ [][Next]_vars

(***************************************************************************)
(* An attempt ends, at the latest when batchSubmitTimeout has passed, and  *)
(* so does a delay.  Go's select chooses at random among the cases that    *)
(* are ready, so that none that is ready time and again is passed over for *)
(* ever; senders blocked on a channel are served in order.                 *)
(***************************************************************************)
Fairness ==
  /\ WF_vars(Attempt)
  /\ WF_vars(Retry)
  /\ SF_vars(ReceiveSpan)
  /\ SF_vars(StartSubmit)
  /\ SF_vars(SeesContext)
  /\ \A s \in Spans : SF_vars(SendSpan(s))

FairSpec == Spec /\ Fairness
-----------------------------------------------------------------------------
\* While the forwarder runs no span is lost silently: a sampled span whose
\* SubmitSpan has returned is still in the channel or in the batch, or the
\* collector has it or refused it, or it was trimmed from a batch that was full.
\* Once the goroutine has returned, what it left in channel and batch, and what
\* is sent into the channel after it, is lost without a word; nothing else is,
\* and nothing is before.
Accepted == {s \in Spans \ Unsampled : submitter[s] = "returned"}
Kept == IF pc = "done" THEN {} ELSE Range(chan) \cup Range(batch)
NoSilentLoss ==
  /\ Accepted \subseteq Kept \cup stored \cup refused \cup dropped \cup abandoned
  /\ abandoned # {} => pc = "done"

\* A span is submitted again only while no submission of it was answered: what
\* the collector acknowledged, or refused, is neither in the batch nor in the
\* channel, whatever comes in while it is being submitted.  (What it stored
\* without the answer getting through is, and is stored again.)
AnsweredOnce == (acked \cup refused) \cap (Range(chan) \cup Range(batch)) = {}

\* Spans are trimmed only from a full batch, and then the oldest: what is lost
\* was received before everything the batch keeps.
TrimsOldestOfFull ==
  [][dropped' # dropped =>
       /\ Len(batch) = MaxBatchSize
       /\ dropped' = dropped \cup {Head(batch)}
       /\ batch' = Append(Tail(batch), Head(chan))]_vars

\* A request goroutine is not held up for ever by SubmitSpan, however full the
\* channel is and however long the collector fails, while the forwarder runs.
SubmitReturns ==
  \A s \in Spans : (submitter[s] = "sending") ~> (submitter[s] = "returned" \/ ctxDone)

\* If the collector, asked again and again, acknowledges in the end, then every
\* accepted span reaches it, or is refused, or makes room for newer ones.
SpansArrive ==
  SF_vars(AttemptStored) =>
    \A s \in Spans :
       (s \in Accepted) ~> (s \in stored \cup refused \cup dropped \/ ctxDone)

\* What submitBatch says of an answer with an error status, that it is an
\* error: the batch is kept, as it is after any other.
RefusedIsKept == refused \subseteq Range(batch) \cup stored \cup dropped
=============================================================================
