----------------------- MODULE ZipkinForwarderProofs -----------------------
(***************************************************************************)
(* ZipkinForwarder for every set of spans, every capacity of the channel   *)
(* and of the batch, any number of retries: no span handed over is lost    *)
(* without a trace while the forwarder runs, what is trimmed is the oldest *)
(* of a full batch, and what was answered is not submitted again.          *)
(***************************************************************************)
EXTENDS ZipkinForwarder, SequenceTheorems, TLAPS

\* A span put at the end of a sequence is one more of its elements.
LEMMA RangeOfAppend ==
  ASSUME NEW S, NEW s \in Seq(S), NEW x \in S
  PROVE  Range(Append(s, x)) = Range(s) \cup {x}
<1>1. /\ Append(s, x) \in Seq(S) /\ Len(Append(s, x)) = Len(s) + 1 /\ Len(s) \in Nat
      /\ \A i \in 1..Len(s) : Append(s, x)[i] = s[i]
      /\ Append(s, x)[Len(s) + 1] = x
  OBVIOUS
<1>2. DOMAIN Append(s, x) = 1..(Len(s) + 1) /\ DOMAIN s = 1..Len(s)
  BY <1>1
<1>3. ASSUME NEW y \in Range(Append(s, x)) PROVE y \in Range(s) \cup {x}
  <2>1. PICK i \in 1..(Len(s) + 1) : y = Append(s, x)[i]
    BY <1>2, <1>3 DEF Range
  <2>2. CASE i \in 1..Len(s)
    BY <1>1, <1>2, <2>1, <2>2 DEF Range
  <2>3. CASE i = Len(s) + 1
    BY <1>1, <2>1, <2>3
  <2> QED
    BY <1>1, <2>1, <2>2, <2>3
<1>4. ASSUME NEW y \in Range(s) \cup {x} PROVE y \in Range(Append(s, x))
  <2>1. CASE y = x
    <3>1. Len(s) + 1 \in 1..(Len(s) + 1)
      BY <1>1
    <3> QED
      BY <1>1, <1>2, <2>1, <3>1 DEF Range
  <2>2. CASE y \in Range(s)
    <3>1. PICK i \in 1..Len(s) : y = s[i]
      BY <1>2, <2>2 DEF Range
    <3>2. i \in 1..(Len(s) + 1)
      BY <1>1
    <3> QED
      BY <1>1, <1>2, <3>1, <3>2 DEF Range
  <2> QED
    BY <1>4, <2>1, <2>2
<1> QED
  BY <1>3, <1>4

\* The elements of a sequence are its first and those of the rest.
LEMMA RangeOfTail ==
  ASSUME NEW S, NEW s \in Seq(S), s # <<>>
  PROVE  /\ Head(s) \in S /\ Tail(s) \in Seq(S) /\ Len(Tail(s)) = Len(s) - 1
         /\ Range(s) = {Head(s)} \cup Range(Tail(s))
<1>1. /\ Head(s) = s[1] /\ Head(s) \in S /\ Tail(s) \in Seq(S)
      /\ Len(s) \in Nat /\ Len(s) >= 1 /\ Len(Tail(s)) = Len(s) - 1
      /\ \A i \in 1..(Len(s) - 1) : Tail(s)[i] = s[i + 1]
  OBVIOUS
<1>2. DOMAIN Tail(s) = 1..(Len(s) - 1) /\ DOMAIN s = 1..Len(s)
  BY <1>1
<1>3. ASSUME NEW y \in Range(s) PROVE y \in {Head(s)} \cup Range(Tail(s))
  <2>1. PICK i \in 1..Len(s) : y = s[i]
    BY <1>2, <1>3 DEF Range
  <2>2. CASE i = 1
    BY <1>1, <2>1, <2>2
  <2>3. CASE i # 1
    <3>1. i - 1 \in 1..(Len(s) - 1) /\ (i - 1) + 1 = i
      BY <1>1, <2>1, <2>3
    <3>2. y = Tail(s)[i - 1]
      BY <1>1, <2>1, <3>1
    <3> QED
      BY <1>2, <3>1, <3>2 DEF Range
  <2> QED
    BY <2>2, <2>3
<1>4. ASSUME NEW y \in {Head(s)} \cup Range(Tail(s)) PROVE y \in Range(s)
  <2>1. CASE y = Head(s)
    <3>1. 1 \in 1..Len(s)
      BY <1>1
    <3> QED
      BY <1>1, <1>2, <2>1, <3>1 DEF Range
  <2>2. CASE y \in Range(Tail(s))
    <3>1. PICK i \in 1..(Len(s) - 1) : y = Tail(s)[i]
      BY <1>2, <2>2 DEF Range
    <3>2. i + 1 \in 1..Len(s)
      BY <1>1
    <3> QED
      BY <1>1, <1>2, <3>1, <3>2 DEF Range
  <2> QED
    BY <1>4, <2>1, <2>2
<1> QED
  BY <1>1, <1>3, <1>4
-----------------------------------------------------------------------------
\* What the goroutine keeps of a batch and a span put behind it: all of it if
\* there was room, and otherwise all but the oldest.
LEMMA TrimOfReceived ==
  ASSUME NEW b \in Seq(Spans), Len(b) <= MaxBatchSize, NEW x \in Spans
  PROVE  Trim(Append(b, x)) =
           IF Len(b) = MaxBatchSize THEN Append(Tail(b), x) ELSE Append(b, x)
<1> DEFINE c == Append(b, x)
<1>1. /\ c \in Seq(Spans) /\ Len(c) = Len(b) + 1 /\ Len(b) \in Nat
      /\ \A i \in 1..Len(b) : c[i] = b[i]
      /\ c[Len(b) + 1] = x
  OBVIOUS
<1>2. MaxBatchSize \in Nat /\ MaxBatchSize >= 1
  BY BoundsAssumption
<1>3. CASE Len(b) = MaxBatchSize
  <2>1. b # <<>> /\ Overflow(c) = 1
    BY <1>1, <1>2, <1>3 DEF Overflow
  <2>2. Trim(c) = SubSeq(c, 2, Len(b) + 1)
    BY <1>1, <2>1 DEF Trim
  <2>3. Tail(c) = SubSeq(c, 2, Len(b) + 1)
    BY <1>1, <1>2, <1>3
  <2>4. Tail(c) = Append(Tail(b), x)
    BY <1>1, <2>1
  <2> QED
    BY <1>3, <2>2, <2>3, <2>4
<1>4. CASE Len(b) # MaxBatchSize
  <2>1. Overflow(c) = 0
    BY <1>1, <1>2, <1>4 DEF Overflow
  <2>2. Trim(c) = SubSeq(c, 1, Len(c))
    BY <1>1, <2>1 DEF Trim
  <2>3. SubSeq(c, 1, Len(c)) = c
    BY <1>1
  <2> QED
    BY <1>4, <2>2, <2>3
<1> QED
  BY <1>3, <1>4
-----------------------------------------------------------------------------
\* Receiving a span: the batch keeps its bound, everything is still in the
\* batch or dropped, and what is dropped was the oldest of a full batch.
LEMMA ReceiveKeeps ==
  ASSUME TypeOK, ReceiveSpan
  PROVE  /\ Head(chan) \in Spans /\ chan' \in Seq(Spans) /\ Len(chan') = Len(chan) - 1
         /\ Range(chan) = {Head(chan)} \cup Range(chan')
         /\ batch' \in Seq(Spans) /\ Len(batch') <= MaxBatchSize
         /\ Range(batch') \cup dropped' = Range(batch) \cup {Head(chan)} \cup dropped
         /\ dropped' \subseteq Spans
         /\ dropped' # dropped => /\ Len(batch) = MaxBatchSize
                                  /\ dropped' = dropped \cup {Head(batch)}
                                  /\ batch' = Append(Tail(batch), Head(chan))
<1> DEFINE x == Head(chan)
           b == Append(batch, x)
<1>1. /\ chan \in Seq(Spans) /\ chan # <<>> /\ chan' = Tail(chan)
      /\ batch \in Seq(Spans) /\ Len(batch) <= MaxBatchSize /\ dropped \subseteq Spans
      /\ batch' = Trim(b) /\ dropped' = dropped \cup (Range(b) \ Range(Trim(b)))
  BY DEF TypeOK, ReceiveSpan
<1>2. /\ x \in Spans /\ chan' \in Seq(Spans) /\ Len(chan') = Len(chan) - 1
      /\ Range(chan) = {x} \cup Range(chan')
  BY <1>1, RangeOfTail
<1>3. Len(batch) \in Nat /\ MaxBatchSize \in Nat /\ MaxBatchSize >= 1
  BY <1>1, BoundsAssumption
<1>4. b \in Seq(Spans) /\ Len(b) = Len(batch) + 1
  BY <1>1, <1>2
<1>5. Range(b) = Range(batch) \cup {x}
  BY <1>1, <1>2, RangeOfAppend
<1>6. CASE Len(batch) = MaxBatchSize
  <2>1. batch # <<>>
    BY <1>3, <1>6
  <2>2. /\ Head(batch) \in Spans /\ Tail(batch) \in Seq(Spans)
        /\ Len(Tail(batch)) = Len(batch) - 1
        /\ Range(batch) = {Head(batch)} \cup Range(Tail(batch))
    BY <1>1, <2>1, RangeOfTail
  <2>3. batch' = Append(Tail(batch), x) /\ batch' = Trim(b)
    BY <1>1, <1>2, <1>6, TrimOfReceived
  <2>4. batch' \in Seq(Spans) /\ Len(batch') = Len(batch)
    BY <1>2, <1>3, <2>2, <2>3
  <2>5. Range(batch') = Range(Tail(batch)) \cup {x}
    <3> DEFINE t == Tail(batch)
    <3>1. t \in Seq(Spans) /\ batch' = Append(t, x)
      BY <2>2, <2>3
    <3> HIDE DEF t
    <3>2. Range(Append(t, x)) = Range(t) \cup {x}
      BY <1>2, <3>1, RangeOfAppend
    <3> QED
      BY <3>1, <3>2 DEF t
  <2>6. dropped' = dropped \cup (Range(b) \ Range(batch'))
    BY <1>1
  <2>7. Range(b) = {Head(batch)} \cup Range(batch')
    BY <1>5, <2>2, <2>5
  <2>8. dropped' # dropped => dropped' = dropped \cup {Head(batch)}
    BY <2>6, <2>7
  <2>9. /\ Range(batch') \cup dropped' = Range(batch) \cup {x} \cup dropped
        /\ dropped' \subseteq Spans
    BY <1>1, <1>5, <2>2, <2>6, <2>7
  <2> QED
    BY <1>2, <1>3, <1>6, <2>3, <2>4, <2>8, <2>9
<1>7. CASE Len(batch) # MaxBatchSize
  <2>1. batch' = b /\ Trim(b) = b
    BY <1>1, <1>2, <1>7, TrimOfReceived
  <2>2. dropped' = dropped
    BY <1>1, <2>1
  <2>3. Len(batch') <= MaxBatchSize
    BY <1>1, <1>3, <1>4, <1>7, <2>1
  <2> QED
    BY <1>1, <1>2, <1>4, <1>5, <2>1, <2>2, <2>3
<1> QED
  BY <1>6, <1>7
-----------------------------------------------------------------------------
\* The invariant holds initially.
LEMMA InitNoSilentLoss == Init => TypeOK /\ NoSilentLoss
<1> SUFFICES ASSUME Init PROVE TypeOK /\ NoSilentLoss
  OBVIOUS
<1>1. /\ ChanCap \in Nat /\ MaxBatchSize \in Nat /\ MaxRetries \in Nat /\ MaxRetries >= 1
      /\ 0 \in 0..(MaxRetries - 1)
  BY BoundsAssumption
<1>2. <<>> \in Seq(Spans) /\ Len(<<>>) = 0
  OBVIOUS
<1>3. TypeOK
  <2>1. /\ submitter \in [Spans -> {"idle", "sending", "returned"}]
        /\ pc \in {"select", "attempt", "sleep", "done"} /\ ctxDone \in BOOLEAN
        /\ stored \subseteq Spans /\ refused \subseteq Spans /\ dropped \subseteq Spans
        /\ acked \subseteq Spans /\ abandoned \subseteq Spans
    BY DEF Init
  <2>2. chan = <<>> /\ batch = <<>> /\ retry = 0
    BY DEF Init
  <2>3. Len(chan) <= ChanCap /\ Len(batch) <= MaxBatchSize
    BY <1>1, <1>2, <2>2
  <2> QED
    BY <1>1, <1>2, <2>1, <2>2, <2>3 DEF TypeOK
<1>4. Accepted = {} /\ abandoned = {}
  BY DEF Init, Accepted
<1> QED
  BY <1>3, <1>4 DEF NoSilentLoss

\* A failed attempt keeps the batch, and counts up to the last of its retries.
LEMMA FailKeeps ==
  ASSUME TypeOK, Fail
  PROVE  batch' = batch /\ pc' \in {"select", "sleep"} /\ retry' \in 0..(MaxRetries - 1)
<1>1. MaxRetries \in Nat /\ MaxRetries >= 1
  BY BoundsAssumption
<1>2. retry \in Nat /\ retry <= MaxRetries - 1
  BY <1>1 DEF TypeOK
<1> QED
  BY <1>1, <1>2 DEF Fail

\* No step of a request or of the goroutine breaks it: what was handed over
\* moves only from the channel to the batch, and from the batch to the
\* collector or among the refused or the dropped.
LEMMA NextNoSilentLoss ==
  TypeOK /\ NoSilentLoss /\ [Next]_vars => TypeOK' /\ NoSilentLoss'
<1> SUFFICES ASSUME TypeOK, NoSilentLoss, [Next]_vars PROVE TypeOK' /\ NoSilentLoss'
  OBVIOUS
<1> DEFINE Gone == stored \cup refused \cup dropped \cup abandoned
<1>0. /\ submitter \in [Spans -> {"idle", "sending", "returned"}]
      /\ Accepted \subseteq Kept \cup Gone
      /\ abandoned # {} => pc = "done"
  BY DEF TypeOK, NoSilentLoss
<1>bounds. ChanCap \in Nat /\ MaxBatchSize \in Nat /\ MaxRetries \in Nat /\ MaxRetries >= 1
  BY BoundsAssumption
<1>1. ASSUME NEW s \in Spans, SubmitSpan(s) PROVE TypeOK' /\ NoSilentLoss'
  <2>1. TypeOK'
    BY <1>1 DEF TypeOK, SubmitSpan, history
  <2>2. Accepted' = Accepted
    BY <1>0, <1>1 DEF Accepted, SubmitSpan
  <2>3. UNCHANGED <<chan, batch, pc, stored, refused, dropped, abandoned>>
    BY <1>1 DEF SubmitSpan, history
  <2> QED
    BY <1>0, <2>1, <2>2, <2>3 DEF NoSilentLoss, Kept
<1>2. ASSUME NEW s \in Spans, SendSpan(s) PROVE TypeOK' /\ NoSilentLoss'
  <2>1. /\ chan \in Seq(Spans) /\ Len(chan) \in Nat /\ Len(chan) < ChanCap
        /\ chan' = Append(chan, s)
        /\ UNCHANGED <<batch, pc, retry, ctxDone, stored, refused, dropped, acked>>
        /\ abandoned' = IF pc = "done" THEN abandoned \cup {s} ELSE abandoned
    BY <1>2 DEF TypeOK, SendSpan
  <2>2. chan' \in Seq(Spans) /\ Len(chan') = Len(chan) + 1
    BY <2>1
  <2>3. Len(chan') <= ChanCap
    BY <1>bounds, <2>1, <2>2
  <2>4. submitter' \in [Spans -> {"idle", "sending", "returned"}]
    BY <1>0, <1>2 DEF SendSpan
  <2>5. TypeOK'
    BY <2>1, <2>2, <2>3, <2>4 DEF TypeOK
  <2>6. Range(chan') = Range(chan) \cup {s}
    BY <2>1, RangeOfAppend
  <2>7. Accepted' \subseteq Accepted \cup {s}
    BY <1>0, <1>2 DEF Accepted, SendSpan
  <2> QED
    BY <1>0, <2>1, <2>5, <2>6, <2>7 DEF NoSilentLoss, Kept
<1>3. CASE ReceiveSpan
  <2>1. /\ chan' \in Seq(Spans) /\ Len(chan') = Len(chan) - 1
        /\ Range(chan) = {Head(chan)} \cup Range(chan')
        /\ batch' \in Seq(Spans) /\ Len(batch') <= MaxBatchSize
        /\ Range(batch') \cup dropped' = Range(batch) \cup {Head(chan)} \cup dropped
        /\ dropped' \subseteq Spans
    BY <1>3, ReceiveKeeps
  <2>2. /\ UNCHANGED <<submitter, pc, retry, ctxDone, stored, refused, acked, abandoned>>
        /\ pc = "select"
    BY <1>3 DEF ReceiveSpan
  <2>3. Len(chan) \in Nat /\ Len(chan) <= ChanCap
    BY DEF TypeOK
  <2>4. Len(chan') <= ChanCap
    BY <1>bounds, <2>1, <2>3
  <2>5. TypeOK'
    BY <2>1, <2>2, <2>4 DEF TypeOK
  <2>6. Accepted' = Accepted
    BY <2>2 DEF Accepted
  <2> QED
    BY <1>0, <2>1, <2>2, <2>5, <2>6 DEF NoSilentLoss, Kept
<1>4. CASE StartSubmit \/ Retry \/ ContextEnds
  <2>1. UNCHANGED <<submitter, chan, batch, stored, refused, dropped, acked, abandoned>>
    BY <1>4 DEF StartSubmit, Retry, ContextEnds, history
  <2>2. /\ pc' \in {"select", "attempt", "sleep", "done"}
        /\ (pc = "done") = (pc' = "done")
        /\ ctxDone' \in BOOLEAN
    BY <1>4 DEF TypeOK, StartSubmit, Retry, ContextEnds
  <2>3. retry' = 0 \/ retry' = retry
    BY <1>4 DEF StartSubmit, Retry, ContextEnds
  <2>4. retry' \in 0..(MaxRetries - 1)
    BY <1>bounds, <2>3 DEF TypeOK
  <2>5. TypeOK'
    BY <2>1, <2>2, <2>4 DEF TypeOK
  <2> QED
    BY <1>0, <2>1, <2>2, <2>5 DEF NoSilentLoss, Accepted, Kept
<1>8. CASE SeesContext
  <2>1. /\ UNCHANGED <<submitter, chan, batch, retry, ctxDone, stored, refused, dropped, acked>>
        /\ pc = "select" /\ pc' = "done"
        /\ abandoned' = abandoned \cup Range(chan) \cup Range(batch)
    BY <1>8 DEF SeesContext
  <2>2. Range(chan) \subseteq Spans /\ Range(batch) \subseteq Spans
    BY DEF TypeOK, Range
  <2>3. TypeOK'
    BY <2>1, <2>2 DEF TypeOK
  <2> QED
    BY <1>0, <2>1, <2>3 DEF NoSilentLoss, Accepted, Kept
<1>5. CASE AttemptUnanswered \/ AttemptFails
  <2>1. Fail
    BY <1>5 DEF AttemptUnanswered, AttemptFails
  <2>2. batch' = batch /\ pc' \in {"select", "sleep"} /\ retry' \in 0..(MaxRetries - 1)
    BY <2>1, FailKeeps
  <2>3. /\ UNCHANGED <<submitter, chan, ctxDone, refused, dropped, acked, abandoned>>
        /\ pc = "attempt"
    BY <1>5 DEF AttemptUnanswered, AttemptFails, history
  <2>4. stored' = stored \/ stored' = stored \cup Range(batch)
    BY <1>5 DEF AttemptUnanswered, AttemptFails, history
  <2>5. Range(batch) \subseteq Spans
    BY DEF TypeOK, Range
  <2>6. stored' \subseteq Spans
    BY <2>4, <2>5 DEF TypeOK
  <2>7. TypeOK'
    BY <2>2, <2>3, <2>6 DEF TypeOK
  <2> QED
    BY <1>0, <2>2, <2>3, <2>4, <2>7 DEF NoSilentLoss, Accepted, Kept
<1>6. CASE AttemptStored \/ AttemptRejected
  <2>1. batch' = <<>> /\ pc' = "select" /\ retry' = 0
    BY <1>6 DEF AttemptStored, AttemptRejected, Succeed
  <2>2. UNCHANGED <<submitter, chan, ctxDone, dropped, abandoned>> /\ pc = "attempt"
    BY <1>6 DEF AttemptStored, AttemptRejected
  <2>3. \/ stored' = stored \cup Range(batch) /\ refused' = refused
        \/ stored' = stored /\ refused' = refused \cup Range(batch)
    BY <1>6 DEF AttemptStored, AttemptRejected
  <2>9. acked' = acked \/ acked' = acked \cup Range(batch)
    BY <1>6 DEF AttemptStored, AttemptRejected
  <2>4. Range(batch) \subseteq Spans
    BY DEF TypeOK, Range
  <2>5. stored' \subseteq Spans /\ refused' \subseteq Spans /\ acked' \subseteq Spans
    BY <2>3, <2>4, <2>9 DEF TypeOK
  <2>6. <<>> \in Seq(Spans) /\ Len(<<>>) = 0
    OBVIOUS
  <2>7. batch' \in Seq(Spans) /\ Len(batch') <= MaxBatchSize /\ retry' \in 0..(MaxRetries - 1)
    BY <1>bounds, <2>1, <2>6
  <2>8. TypeOK'
    BY <2>1, <2>2, <2>5, <2>7 DEF TypeOK
  <2> QED
    BY <1>0, <2>1, <2>2, <2>3, <2>8 DEF NoSilentLoss, Accepted, Kept
<1>7. CASE Terminated \/ UNCHANGED vars
  <2>1. UNCHANGED <<submitter, chan, batch, pc, retry, ctxDone, stored, refused, dropped, acked,
                    abandoned>>
    BY <1>7 DEF Terminated, vars, history
  <2> QED
    BY <2>1 DEF TypeOK, NoSilentLoss, Accepted, Kept
<1> QED
  BY <1>1, <1>2, <1>3, <1>4, <1>5, <1>6, <1>7, <1>8 DEF Next, Attempt
-----------------------------------------------------------------------------
\* TypeOK holds: the channel and the batch keep their bounds, and no submission
\* is tried more often than maxretries says, for any capacities.
THEOREM TypeCorrectness == Spec => []TypeOK
<1>1. Init => TypeOK /\ NoSilentLoss
  BY InitNoSilentLoss
<1>2. TypeOK /\ NoSilentLoss /\ [Next]_vars => (TypeOK /\ NoSilentLoss)'
  BY NextNoSilentLoss
<1> QED
  BY <1>1, <1>2, PTL DEF Spec

\* NoSilentLoss: whatever the collector answers and however the goroutines
\* interleave, a sampled span that SubmitSpan took is in the channel, in the
\* batch, with the collector, refused by it, or trimmed from a full batch, unless
\* the goroutine returned at the end of its context with the span in its hands,
\* or before the span was sent.
THEOREM NothingLostSilently == Spec => []NoSilentLoss
<1>1. Init => TypeOK /\ NoSilentLoss
  BY InitNoSilentLoss
<1>2. TypeOK /\ NoSilentLoss /\ [Next]_vars => (TypeOK /\ NoSilentLoss)'
  BY NextNoSilentLoss
<1> QED
  BY <1>1, <1>2, PTL DEF Spec

\* TrimsOldestOfFull: a step that drops a span found the batch full, drops the
\* span received before all the others in it, and keeps the rest in order.
THEOREM OnlyOldestDropped == Spec => TrimsOldestOfFull
<1> DEFINE Step == dropped' # dropped => /\ Len(batch) = MaxBatchSize
                                         /\ dropped' = dropped \cup {Head(batch)}
                                         /\ batch' = Append(Tail(batch), Head(chan))
<1>1. TypeOK /\ [Next]_vars => [Step]_vars
  <2> SUFFICES ASSUME TypeOK, Next PROVE Step
    OBVIOUS
  <2>1. CASE ReceiveSpan
    BY <2>1, ReceiveKeeps
  <2>2. CASE ~ReceiveSpan
    <3>1. dropped' = dropped
      BY <2>2 DEF Next, SubmitSpan, SendSpan, StartSubmit, Attempt, AttemptStored,
                  AttemptUnanswered, AttemptFails, AttemptRejected, Retry, SeesContext,
                  ContextEnds, Terminated, vars, history
    <3> QED
      BY <3>1
  <2> QED
    BY <2>1, <2>2
<1>2. Spec => []TypeOK
  BY TypeCorrectness
<1> QED
  BY <1>1, <1>2, PTL DEF Spec, TrimsOldestOfFull
-----------------------------------------------------------------------------
(***************************************************************************)
(* The order of the spans.  Batch and channel are one queue.               *)
(***************************************************************************)
Queue == batch \o chan

\* Receiving moves the border between the two, or drops the first of the queue.
LEMMA BorderMoves ==
  ASSUME NEW S, NEW b \in Seq(S), NEW c \in Seq(S), c # <<>>
  PROVE  /\ Append(b, Head(c)) \o Tail(c) = b \o c
         /\ b # <<>> => Append(Tail(b), Head(c)) \o Tail(c) = Tail(b \o c)
<1>1. /\ Len(b) \in Nat /\ Len(c) \in Nat /\ Len(c) >= 1
      /\ Head(c) \in S /\ Head(c) = c[1] /\ Tail(c) \in Seq(S) /\ Len(Tail(c)) = Len(c) - 1
      /\ \A i \in 1..(Len(c) - 1) : Tail(c)[i] = c[i + 1]
  OBVIOUS
<1>2. \A s \in Seq(S), t \in Seq(S) :
         Len(s) = Len(t) /\ (\A i \in 1..Len(s) : s[i] = t[i]) => s = t
  BY SeqEqual
<1>3. ASSUME NEW d \in Seq(S)
      PROVE  /\ Append(d, Head(c)) \o Tail(c) \in Seq(S) /\ d \o c \in Seq(S)
             /\ Append(d, Head(c)) \o Tail(c) = d \o c
  <2>1. /\ Len(d) \in Nat /\ Append(d, Head(c)) \in Seq(S)
        /\ Len(Append(d, Head(c))) = Len(d) + 1
        /\ \A i \in 1..Len(d) : Append(d, Head(c))[i] = d[i]
        /\ Append(d, Head(c))[Len(d) + 1] = Head(c)
    BY <1>1
  <2>2. /\ Append(d, Head(c)) \o Tail(c) \in Seq(S) /\ d \o c \in Seq(S)
        /\ Len(Append(d, Head(c)) \o Tail(c)) = Len(d) + Len(c) /\ Len(d \o c) = Len(d) + Len(c)
    BY <1>1, <2>1
  <2>3. ASSUME NEW i \in 1..(Len(d) + Len(c))
        PROVE  (Append(d, Head(c)) \o Tail(c))[i] = (d \o c)[i]
    <3>1. CASE i <= Len(d)
      BY <1>1, <2>1, <3>1
    <3>2. CASE i = Len(d) + 1
      BY <1>1, <2>1, <3>2
    <3>3. CASE i > Len(d) + 1
      <4>1. /\ i - (Len(d) + 1) \in 1..(Len(c) - 1)
            /\ (i - (Len(d) + 1)) + 1 = i - Len(d)
        BY <1>1, <2>1, <3>3
      <4>2. (Append(d, Head(c)) \o Tail(c))[i] = Tail(c)[i - (Len(d) + 1)]
        BY <1>1, <2>1, <3>3
      <4>3. (d \o c)[i] = c[i - Len(d)]
        BY <1>1, <2>1, <3>3
      <4> QED
        BY <1>1, <4>1, <4>2, <4>3
    <3> QED
      BY <1>1, <2>1, <3>1, <3>2, <3>3
  <2> QED
    BY <1>2, <2>2, <2>3
<1>4. ASSUME b # <<>> PROVE Append(Tail(b), Head(c)) \o Tail(c) = Tail(b \o c)
  <2>1. Tail(b) \in Seq(S) /\ Len(b) >= 1 /\ Len(Tail(b)) = Len(b) - 1
        /\ \A i \in 1..(Len(b) - 1) : Tail(b)[i] = b[i + 1]
    BY <1>4
  <2>2. Append(Tail(b), Head(c)) \o Tail(c) = Tail(b) \o c
    BY <1>3, <2>1
  <2>3. /\ b \o c \in Seq(S) /\ Len(b \o c) = Len(b) + Len(c) /\ b \o c # <<>>
    BY <1>1, <2>1
  <2>4. /\ Tail(b \o c) \in Seq(S) /\ Len(Tail(b \o c)) = Len(b) + Len(c) - 1
        /\ \A i \in 1..(Len(b) + Len(c) - 1) : Tail(b \o c)[i] = (b \o c)[i + 1]
    BY <1>1, <2>3
  <2>5. Tail(b) \o c \in Seq(S) /\ Len(Tail(b) \o c) = Len(b) + Len(c) - 1
    BY <1>1, <2>1
  <2>6. ASSUME NEW i \in 1..(Len(b) + Len(c) - 1) PROVE (Tail(b) \o c)[i] = (b \o c)[i + 1]
    BY <1>1, <2>1
  <2>7. Tail(b) \o c = Tail(b \o c)
    BY <1>2, <2>4, <2>5, <2>6
  <2> QED
    BY <2>2, <2>7
<1> QED
  BY <1>3, <1>4

\* Whoever is in the queue has been handed over, and is there once.
Once(q) == \A i, j \in 1..Len(q) : q[i] = q[j] => i = j
QueuedOnce ==
  /\ Once(Queue)
  /\ \A i \in 1..Len(Queue) : submitter[Queue[i]] = "returned"

\* The first of such a queue is not among the others.
LEMMA FirstIsOnce ==
  ASSUME NEW S, NEW b \in Seq(S), NEW c \in Seq(S), b # <<>>, c # <<>>, Once(b \o c)
  PROVE  Head(b) \notin Range(Tail(b)) /\ Head(b) # Head(c)
<1>1. /\ Len(b) \in Nat /\ Len(b) >= 1 /\ Len(c) \in Nat /\ Len(c) >= 1
      /\ Head(b) = b[1] /\ Head(c) = c[1]
      /\ Tail(b) \in Seq(S) /\ Len(Tail(b)) = Len(b) - 1
      /\ \A i \in 1..(Len(b) - 1) : Tail(b)[i] = b[i + 1]
  OBVIOUS
<1>2. /\ b \o c \in Seq(S) /\ Len(b \o c) = Len(b) + Len(c)
      /\ \A i \in 1..Len(b) : (b \o c)[i] = b[i]
      /\ (b \o c)[Len(b) + 1] = c[1]
  BY <1>1
<1>3. ASSUME NEW i \in 2..(Len(b) + 1) PROVE (b \o c)[1] # (b \o c)[i]
  <2>1. 1 \in 1..Len(b \o c) /\ i \in 1..Len(b \o c) /\ i # 1
    BY <1>1, <1>2
  <2> QED
    BY <2>1 DEF Once
<1>4. (b \o c)[1] = Head(b)
  BY <1>1, <1>2
<1>5. Head(b) # Head(c)
  <2>1. Len(b) + 1 \in 2..(Len(b) + 1)
    BY <1>1
  <2> QED
    BY <1>1, <1>2, <1>3, <1>4, <2>1
<1>6. ASSUME NEW x \in Range(Tail(b)) PROVE x # Head(b)
  <2>1. DOMAIN Tail(b) = 1..(Len(b) - 1)
    BY <1>1
  <2>2. PICK i \in 1..(Len(b) - 1) : x = Tail(b)[i]
    BY <1>6, <2>1 DEF Range
  <2>3. i + 1 \in 2..(Len(b) + 1) /\ i + 1 \in 1..Len(b)
    BY <1>1, <2>2
  <2>4. x = (b \o c)[i + 1]
    BY <1>1, <1>2, <2>2, <2>3
  <2> QED
    BY <1>3, <1>4, <2>3, <2>4
<1> QED
  BY <1>5, <1>6

\* A step leaves the queue as it is, puts the span of a SubmitSpan that returns
\* at its end, drops its first, or hands over the batch, the front of it.
QueueMoves ==
  \/ Queue' = Queue
  \/ \E s \in Spans : /\ submitter[s] = "sending" /\ submitter'[s] = "returned"
                      /\ Queue' = Append(Queue, s)
  \/ Queue # <<>> /\ Queue' = Tail(Queue) /\ dropped' = dropped \cup {Head(Queue)}
  \/ /\ Queue' = chan
     /\ stored' \cup refused' = stored \cup refused \cup Range(batch)
\* A call of SubmitSpan that has returned has returned.
LEMMA SubmitterStays ==
  ASSUME TypeOK, [Next]_vars, NEW s \in Spans, submitter[s] = "returned"
  PROVE  submitter'[s] = "returned"
<1>0. submitter \in [Spans -> {"idle", "sending", "returned"}]
  BY DEF TypeOK
<1>1. ASSUME NEW r \in Spans, SubmitSpan(r) \/ SendSpan(r) PROVE submitter'[s] = "returned"
  BY <1>0, <1>1 DEF SubmitSpan, SendSpan
<1>2. CASE ~(\E r \in Spans : SubmitSpan(r) \/ SendSpan(r))
  BY <1>2 DEF Next, ReceiveSpan, StartSubmit, Attempt, AttemptStored, AttemptUnanswered,
              AttemptFails, AttemptRejected, Retry, SeesContext, ContextEnds, Terminated, vars, history
<1> QED
  BY <1>1, <1>2

\* The queue moves in no other way.
LEMMA StepQueueMoves == TypeOK /\ QueuedOnce /\ [Next]_vars => QueueMoves
<1> SUFFICES ASSUME TypeOK, QueuedOnce, [Next]_vars PROVE QueueMoves
  OBVIOUS
<1>0. /\ submitter \in [Spans -> {"idle", "sending", "returned"}]
      /\ chan \in Seq(Spans) /\ batch \in Seq(Spans)
  BY DEF TypeOK
<1>1. ASSUME NEW s \in Spans, SendSpan(s) PROVE QueueMoves
  <2>1. submitter[s] = "sending" /\ submitter'[s] = "returned"
    BY <1>0, <1>1 DEF SendSpan
  <2>2. Queue' = batch \o Append(chan, s)
    BY <1>1 DEF SendSpan, Queue
  <2>3. batch \o Append(chan, s) = Append(batch \o chan, s)
    BY <1>0
  <2> QED
    BY <2>1, <2>2, <2>3 DEF QueueMoves, Queue
<1>2. CASE ReceiveSpan
  <2>1. /\ chan # <<>> /\ chan' = Tail(chan) /\ Head(chan) \in Spans
        /\ batch' = Trim(Append(batch, Head(chan)))
        /\ dropped' # dropped => dropped' = dropped \cup {Head(batch)}
        /\ Len(batch) <= MaxBatchSize
    BY <1>0, <1>2, ReceiveKeeps DEF ReceiveSpan, TypeOK
  <2>2. CASE Len(batch) # MaxBatchSize
    <3>1. batch' = Append(batch, Head(chan))
      BY <1>0, <2>1, <2>2, TrimOfReceived
    <3>2. Queue' = Queue
      BY <1>0, <2>1, <3>1, BorderMoves DEF Queue
    <3> QED
      BY <3>2 DEF QueueMoves
  <2>3. CASE Len(batch) = MaxBatchSize
    <3>1. batch # <<>>
      BY <1>0, <2>3, BoundsAssumption
    <3>2. batch' = Append(Tail(batch), Head(chan))
      BY <1>0, <2>1, <2>3, TrimOfReceived
    <3>3. Queue' = Tail(Queue)
      BY <1>0, <2>1, <3>1, <3>2, BorderMoves DEF Queue
    <3>4. Queue # <<>> /\ Head(Queue) = Head(batch)
      BY <1>0, <3>1 DEF Queue
    <3>5. dropped' = dropped \cup {Head(batch)}
      <4>1. /\ Head(batch) \in Spans /\ Tail(batch) \in Seq(Spans)
            /\ Append(batch, Head(chan)) \in Seq(Spans)
            /\ Range(batch) = {Head(batch)} \cup Range(Tail(batch))
        BY <1>0, <2>1, <3>1, RangeOfTail
      <4>2. /\ Range(Append(batch, Head(chan))) = Range(batch) \cup {Head(chan)}
            /\ Range(Append(Tail(batch), Head(chan))) = Range(Tail(batch)) \cup {Head(chan)}
        <5>1. ASSUME NEW b \in Seq(Spans)
              PROVE  Range(Append(b, Head(chan))) = Range(b) \cup {Head(chan)}
          BY <2>1, RangeOfAppend
        <5> QED
          BY <1>0, <4>1, <5>1
      <4>3. dropped' = dropped \cup (Range(Append(batch, Head(chan))) \ Range(batch'))
        BY <1>2, <2>1 DEF ReceiveSpan
      <4>4. Head(batch) \notin Range(Tail(batch)) /\ Head(batch) # Head(chan)
        BY <1>0, <2>1, <3>1, FirstIsOnce DEF QueuedOnce, Queue
      <4> QED
        BY <3>2, <4>1, <4>2, <4>3, <4>4
    <3> QED
      BY <3>3, <3>4, <3>5 DEF QueueMoves
  <2> QED
    BY <2>2, <2>3
<1>3. CASE AttemptStored \/ AttemptRejected
  <2>1. batch' = <<>> /\ chan' = chan
    BY <1>3 DEF AttemptStored, AttemptRejected, Succeed
  <2>2. Queue' = chan
    BY <1>0, <2>1 DEF Queue
  <2>3. stored' \cup refused' = stored \cup refused \cup Range(batch)
    BY <1>3 DEF AttemptStored, AttemptRejected
  <2> QED
    BY <2>2, <2>3 DEF QueueMoves
<1>4. ASSUME NEW s \in Spans, SubmitSpan(s) PROVE QueueMoves
  BY <1>4 DEF SubmitSpan, QueueMoves, Queue
<1>5. CASE AttemptUnanswered \/ AttemptFails
  <2>1. batch' = batch /\ chan' = chan
    BY <1>5, FailKeeps DEF AttemptUnanswered, AttemptFails
  <2> QED
    BY <2>1 DEF QueueMoves, Queue
<1>6. CASE StartSubmit \/ Retry \/ SeesContext \/ ContextEnds \/ Terminated \/ UNCHANGED vars
  <2>1. batch' = batch /\ chan' = chan
    BY <1>6 DEF StartSubmit, Retry, SeesContext, ContextEnds, Terminated, vars, history
  <2> QED
    BY <2>1 DEF QueueMoves, Queue
<1> QED
  BY <1>1, <1>2, <1>3, <1>4, <1>5, <1>6 DEF Next, Attempt

\* A span put at the end of a sequence is its last, and moves none of the others.
LEMMA AppendedLast ==
  ASSUME NEW S, NEW q \in Seq(S), NEW x \in S
  PROVE  /\ Len(Append(q, x)) = Len(q) + 1 /\ Append(q, x)[Len(q) + 1] = x
         /\ \A i \in 1..Len(q) : Append(q, x)[i] = q[i]
OBVIOUS

\* What joins the queue is not in it, and what leaves it leaves from its front.
LEMMA StepQueuedOnce == TypeOK /\ QueuedOnce /\ [Next]_vars => QueuedOnce'
<1> SUFFICES ASSUME TypeOK, QueuedOnce, [Next]_vars PROVE QueuedOnce'
  OBVIOUS
<1>0. /\ submitter \in [Spans -> {"idle", "sending", "returned"}]
      /\ chan \in Seq(Spans) /\ batch \in Seq(Spans)
      /\ Queue \in Seq(Spans) /\ Len(Queue) \in Nat
      /\ Len(Queue) = Len(batch) + Len(chan)
  BY DEF TypeOK, Queue
<1>1. \A s \in Spans : submitter[s] = "returned" => submitter'[s] = "returned"
  BY <1>0, SubmitterStays
<1>2. QueueMoves
  BY StepQueueMoves
<1>3. \A i \in 1..Len(Queue) : Queue[i] \in Spans
  BY <1>0
<1>4. CASE Queue' = Queue
  BY <1>1, <1>3, <1>4 DEF QueuedOnce, Once
<1>5. ASSUME NEW s \in Spans, submitter[s] = "sending", submitter'[s] = "returned",
             Queue' = Append(Queue, s)
      PROVE  QueuedOnce'
  <2>1. /\ Len(Queue') = Len(Queue) + 1 /\ Queue'[Len(Queue) + 1] = s
        /\ \A i \in 1..Len(Queue) : Queue'[i] = Queue[i]
    BY <1>0, <1>5, AppendedLast
  <2>2. \A i \in 1..Len(Queue) : Queue[i] # s
    BY <1>5 DEF QueuedOnce
  <2> QED
    BY <1>0, <1>1, <1>3, <1>5, <2>1, <2>2 DEF QueuedOnce, Once
<1>6. CASE Queue # <<>> /\ Queue' = Tail(Queue)
  <2>1. /\ Len(Queue') = Len(Queue) - 1
        /\ \A i \in 1..(Len(Queue) - 1) : Queue'[i] = Queue[i + 1] /\ i + 1 \in 1..Len(Queue)
    BY <1>0, <1>6
  <2> QED
    BY <1>0, <1>1, <1>3, <2>1 DEF QueuedOnce, Once
<1>7. CASE Queue' = chan
  <2>1. \A i \in 1..Len(chan) : chan[i] = Queue[Len(batch) + i] /\ Len(batch) + i \in 1..Len(Queue)
    BY <1>0 DEF Queue
  <2>2. Once(Queue) /\ \A i \in 1..Len(Queue) : submitter[Queue[i]] = "returned"
    BY DEF QueuedOnce
  <2>3. Once(chan)
    <3> SUFFICES ASSUME NEW i \in 1..Len(chan), NEW j \in 1..Len(chan), chan[i] = chan[j]
                 PROVE  i = j
      BY DEF Once
    <3> DEFINE I == Len(batch) + i
               J == Len(batch) + j
    <3>1. I \in 1..Len(Queue) /\ J \in 1..Len(Queue) /\ Queue[I] = chan[i] /\ Queue[J] = chan[j]
      BY <2>1
    <3>2. I = J
      <4> HIDE DEF I, J
      <4> QED
        BY <2>2, <3>1 DEF Once
    <3>3. Len(batch) \in Nat /\ i \in Nat /\ j \in Nat
      BY <1>0
    <3> QED
      BY <3>2, <3>3
  <2>4. \A i \in 1..Len(chan) : submitter'[chan[i]] = "returned"
    BY <1>1, <1>3, <2>1, <2>2
  <2> QED
    BY <1>7, <2>3, <2>4 DEF QueuedOnce
<1> QED
  BY <1>2, <1>4, <1>5, <1>6, <1>7 DEF QueueMoves

\* A span handed over is in channel and batch at most once, and no other is.
LEMMA QueueInvariance == Spec => [](TypeOK /\ QueuedOnce)
<1>1. Init => QueuedOnce
  BY DEF Init, QueuedOnce, Once, Queue
<1> QED
  BY <1>1, StepQueuedOnce, TypeCorrectness, PTL DEF Spec

\* Spans reach the collector in the order in which their SubmitSpan returned:
\* they leave the queue of channel and batch only from its front, a whole batch
\* at a time when it is answered, or one by one when it is trimmed.
THEOREM SpansKeepTheirOrder == Spec => [][QueueMoves]_vars
BY QueueInvariance, StepQueueMoves, PTL
   DEF Spec

\* What was answered was handed over, and has left the queue of batch and channel.
Answered == acked \cup refused
AnsweredOut ==
  /\ \A s \in Answered : submitter[s] = "returned"
  /\ \A i \in 1..Len(Queue) : Queue[i] \notin Answered

\* Only an answered attempt adds to it, and that takes the batch off the queue;
\* what joins the queue was not handed over before.
LEMMA StepAnsweredOut == TypeOK /\ QueuedOnce /\ AnsweredOut /\ [Next]_vars => AnsweredOut'
<1> SUFFICES ASSUME TypeOK, QueuedOnce, AnsweredOut, [Next]_vars PROVE AnsweredOut'
  OBVIOUS
<1>0. /\ chan \in Seq(Spans) /\ batch \in Seq(Spans) /\ Answered \subseteq Spans
      /\ Queue \in Seq(Spans) /\ Len(Queue) \in Nat /\ Len(batch) \in Nat /\ Len(chan) \in Nat
      /\ Len(Queue) = Len(batch) + Len(chan)
      /\ \A i \in 1..Len(batch) : Queue[i] = batch[i] /\ i \in 1..Len(Queue)
      /\ \A i \in 1..Len(chan) : Queue[Len(batch) + i] = chan[i] /\ Len(batch) + i \in 1..Len(Queue)
  BY DEF TypeOK, Queue, Answered
<1>1. \A s \in Spans : submitter[s] = "returned" => submitter'[s] = "returned"
  BY SubmitterStays
<1>2. CASE AttemptStored \/ AttemptRejected
  <2>1. /\ Queue' = chan
        /\ Answered' \subseteq Answered \cup Range(batch)
    <3>1. batch' = <<>> /\ chan' = chan
      BY <1>2 DEF AttemptStored, AttemptRejected, Succeed
    <3>2. Answered' \subseteq Answered \cup Range(batch)
      BY <1>2 DEF AttemptStored, AttemptRejected, Answered
    <3> QED
      BY <1>0, <3>1, <3>2 DEF Queue
  <2>2. DOMAIN batch = 1..Len(batch)
    BY <1>0
  <2>3. \A s \in Range(batch) : s \in Spans /\ submitter[s] = "returned"
    BY <1>0, <2>2 DEF Range, QueuedOnce
  <2>4. ASSUME NEW i \in 1..Len(chan) PROVE chan[i] \notin Answered'
    <3>1. chan[i] \notin Answered
      BY <1>0 DEF AnsweredOut
    <3>2. ASSUME NEW j \in 1..Len(batch) PROVE chan[i] # batch[j]
      <4> DEFINE I == Len(batch) + i
      <4>1. I \in 1..Len(Queue) /\ j \in 1..Len(Queue) /\ Queue[I] = chan[i] /\ Queue[j] = batch[j]
        BY <1>0
      <4>2. I # j
        BY <1>0
      <4> HIDE DEF I
      <4> QED
        BY <4>1, <4>2 DEF QueuedOnce, Once
    <3> QED
      BY <2>1, <2>2, <3>1, <3>2 DEF Range
  <2> QED
    BY <1>0, <1>1, <2>1, <2>3, <2>4 DEF AnsweredOut
<1>3. CASE ~AttemptStored /\ ~AttemptRejected
  <2>1. Answered' = Answered
    BY <1>3 DEF Next, SubmitSpan, SendSpan, ReceiveSpan, StartSubmit, Attempt, AttemptUnanswered,
                AttemptFails, Retry, SeesContext, ContextEnds, Terminated, vars, history, Answered
  <2>2. \A s \in Answered' : submitter'[s] = "returned"
    BY <1>0, <1>1, <2>1 DEF AnsweredOut
  <2>3. CASE Queue' = Queue
    BY <2>1, <2>2, <2>3 DEF AnsweredOut
  <2>4. ASSUME NEW s \in Spans, submitter[s] = "sending", Queue' = Append(Queue, s)
        PROVE  AnsweredOut'
    <3>1. /\ Len(Queue') = Len(Queue) + 1 /\ Queue'[Len(Queue) + 1] = s
          /\ \A i \in 1..Len(Queue) : Queue'[i] = Queue[i]
      <4>1. Queue \in Seq(Spans)
        BY <1>0
      <4>2. /\ Len(Append(Queue, s)) = Len(Queue) + 1 /\ Append(Queue, s)[Len(Queue) + 1] = s
            /\ \A i \in 1..Len(Queue) : Append(Queue, s)[i] = Queue[i]
        BY <4>1, AppendedLast
      <4> QED
        BY <2>4, <4>2
    <3>2. s \notin Answered
      BY <2>4 DEF AnsweredOut
    <3> QED
      BY <1>0, <2>1, <2>2, <3>1, <3>2 DEF AnsweredOut
  <2>5. CASE Queue # <<>> /\ Queue' = Tail(Queue)
    <3>1. /\ Len(Queue') = Len(Queue) - 1
          /\ \A i \in 1..(Len(Queue) - 1) : Queue'[i] = Queue[i + 1] /\ i + 1 \in 1..Len(Queue)
      BY <1>0, <2>5
    <3> QED
      BY <1>0, <2>1, <2>2, <3>1 DEF AnsweredOut
  <2>6. CASE Queue' = chan
    BY <1>0, <2>1, <2>2, <2>6 DEF AnsweredOut
  <2> QED
    BY <2>3, <2>4, <2>5, <2>6, StepQueueMoves DEF QueueMoves
<1> QED
  BY <1>2, <1>3

\* AnsweredOnce: however many attempts fail first and whatever comes in while the
\* batch is being submitted, a span whose submission was answered is not
\* submitted again.
THEOREM AnsweredIsNotSentAgain == Spec => []AnsweredOnce
<1>1. Init => AnsweredOut
  BY DEF Init, AnsweredOut, Answered, Queue
<1>2. TypeOK /\ AnsweredOut => AnsweredOnce
  <2> SUFFICES ASSUME TypeOK, AnsweredOut PROVE AnsweredOnce
    OBVIOUS
  <2>1. /\ chan \in Seq(Spans) /\ batch \in Seq(Spans)
        /\ \A i \in 1..Len(batch) : Queue[i] = batch[i] /\ i \in 1..Len(Queue)
        /\ \A i \in 1..Len(chan) : Queue[Len(batch) + i] = chan[i] /\ Len(batch) + i \in 1..Len(Queue)
    BY DEF TypeOK, Queue
  <2>2. DOMAIN batch = 1..Len(batch) /\ DOMAIN chan = 1..Len(chan)
    BY <2>1
  <2> QED
    BY <2>1, <2>2 DEF AnsweredOut, Answered, AnsweredOnce, Range
<1> QED
  BY <1>1, <1>2, StepAnsweredOut, QueueInvariance, PTL DEF Spec
-----------------------------------------------------------------------------
(***************************************************************************)
(* Progress.  The prover cannot evaluate ENABLED, so that an action that   *)
(* is called for can be taken is a hypothesis of what follows.             *)
(***************************************************************************)
Room == Len(chan) < ChanCap

ActionsEnabled ==
  /\ pc = "attempt" => ENABLED <<Attempt>>_vars
  /\ pc = "sleep" => ENABLED <<Retry>>_vars
  /\ pc = "select" /\ chan # <<>> => ENABLED <<ReceiveSpan>>_vars
  /\ \A s \in Spans : submitter[s] = "sending" /\ Room => ENABLED <<SendSpan(s)>>_vars
  /\ pc = "select" /\ batch # <<>> => ENABLED <<StartSubmit>>_vars
  /\ pc = "attempt" /\ ~ctxDone => ENABLED <<AttemptStored>>_vars

\* While the goroutine submits a batch it is in an attempt or before a retry.
Submitting == pc \in {"attempt", "sleep"}

\* The attempts and the delays that are left.
TriesLeft == 2 * (MaxRetries - retry) + (IF pc = "sleep" THEN 1 ELSE 0)

\* They are a number.
LEMMA TriesLeftType == TypeOK => TriesLeft \in Nat
<1> SUFFICES ASSUME TypeOK PROVE TriesLeft \in Nat
  OBVIOUS
<1>1. MaxRetries \in Nat /\ retry \in Nat /\ retry <= MaxRetries - 1
  BY BoundsAssumption DEF TypeOK
<1> QED
  BY <1>1 DEF TriesLeft

\* An attempt that fails is followed by a delay, or was the last.
LEMMA AttemptCounts ==
  ASSUME TypeOK, Attempt
  PROVE  pc' = "select" \/ (pc' = "sleep" /\ TriesLeft' < TriesLeft)
<1>1. pc = "attempt" /\ MaxRetries \in Nat /\ retry \in Nat
  BY BoundsAssumption
     DEF TypeOK, Attempt, AttemptStored, AttemptUnanswered, AttemptFails, AttemptRejected
<1>2. CASE Succeed
  BY <1>2 DEF Succeed
<1>3. CASE Fail
  <2>1. CASE pc' = "select"
    BY <2>1
  <2>2. CASE pc' # "select"
    <3>1. pc' = "sleep" /\ retry' = retry + 1
      BY <1>3, <2>2 DEF Fail
    <3>2. TriesLeft = 2 * (MaxRetries - retry) /\ TriesLeft' = 2 * (MaxRetries - (retry + 1)) + 1
      BY <1>1, <3>1 DEF TriesLeft
    <3> QED
      BY <1>1, <3>1, <3>2
  <2> QED
    BY <2>1, <2>2
<1> QED
  BY <1>2, <1>3 DEF Attempt, AttemptStored, AttemptUnanswered, AttemptFails, AttemptRejected

\* A delay is followed by an attempt.
LEMMA RetryCounts ==
  ASSUME TypeOK, Retry
  PROVE  pc' = "attempt" /\ TriesLeft' < TriesLeft
<1>1. pc = "sleep" /\ pc' = "attempt" /\ retry' = retry /\ MaxRetries \in Nat /\ retry \in Nat
  BY BoundsAssumption DEF TypeOK, Retry
<1>2. TriesLeft = 2 * (MaxRetries - retry) + 1 /\ TriesLeft' = 2 * (MaxRetries - retry)
  BY <1>1 DEF TriesLeft
<1> QED
  BY <1>1, <1>2

\* Nobody else has a hand in it.
LEMMA OthersKeepSubmitting ==
  ASSUME [Next]_vars, Submitting, ~Attempt, ~Retry
  PROVE  pc' = pc /\ TriesLeft' = TriesLeft
<1>1. pc' = pc /\ retry' = retry
  BY DEF Submitting, Next, SubmitSpan, SendSpan, ReceiveSpan, StartSubmit, SeesContext,
         ContextEnds, Terminated, vars, history
<1> QED
  BY <1>1 DEF TriesLeft

\* Every step of a submission but its last leaves fewer of them, and nobody else
\* gives it any.
TriesAreCounted ==
  Submitting =>
    /\ pc' \in {"attempt", "sleep", "select"}
    /\ pc' \in {"attempt", "sleep"} /\ pc' # pc => TriesLeft' < TriesLeft
    /\ pc' = pc => TriesLeft' = TriesLeft

\* Neither the collector nor the requests can make a submission go on for ever.
THEOREM RetriesRunOut == Spec => [][TriesAreCounted]_vars
<1>1. TypeOK /\ [Next]_vars => TriesAreCounted
  <2> SUFFICES ASSUME TypeOK, [Next]_vars, Submitting PROVE TriesAreCounted
    BY DEF TriesAreCounted
  <2>1. CASE Attempt
    <3>1. pc = "attempt"
      BY <2>1 DEF Attempt, AttemptStored, AttemptUnanswered, AttemptFails, AttemptRejected
    <3> QED
      BY <2>1, <3>1, AttemptCounts DEF TriesAreCounted
  <2>2. CASE Retry
    <3>1. pc = "sleep"
      BY <2>2 DEF Retry
    <3> QED
      BY <2>2, <3>1, RetryCounts DEF TriesAreCounted
  <2>3. CASE ~Attempt /\ ~Retry
    BY <2>3, OthersKeepSubmitting DEF Submitting, TriesAreCounted
  <2> QED
    BY <2>1, <2>2, <2>3
<1> QED
  BY <1>1, TypeCorrectness, PTL DEF Spec
\* AttemptsEnd, one attempt or delay at a time: from any number of them left, the
\* submission ends or there are fewer.
AttemptsEnd == Submitting ~> ~Submitting

\* A submission of spans runs out of attempts and delays: from any number of them
\* left, it ends or there are fewer.
THEOREM AttemptsEndComesNearer ==
  ASSUME NEW n \in Nat
  PROVE  FairSpec /\ []ActionsEnabled =>
           ((Submitting /\ TriesLeft = n) ~> (~Submitting \/ TriesLeft < n))
<1> DEFINE InAttempt == pc = "attempt" /\ TriesLeft = n
           InDelay == pc = "sleep" /\ TriesLeft = n
           Goal == ~Submitting \/ TriesLeft < n
<1>1. TypeOK /\ InAttempt /\ [Next]_vars => InAttempt' \/ Goal'
  <2> SUFFICES ASSUME TypeOK, InAttempt, [Next]_vars PROVE InAttempt' \/ Goal'
    OBVIOUS
  <2>1. CASE Attempt
    BY <2>1, AttemptCounts DEF Submitting
  <2>2. CASE ~Attempt
    BY <2>2, OthersKeepSubmitting DEF Submitting, Retry
  <2> QED
    BY <2>1, <2>2
<1>2. TypeOK /\ InDelay /\ [Next]_vars => InDelay' \/ Goal'
  <2> SUFFICES ASSUME TypeOK, InDelay, [Next]_vars PROVE InDelay' \/ Goal'
    OBVIOUS
  <2>1. CASE Retry
    BY <2>1, RetryCounts
  <2>2. CASE ~Retry
    BY <2>2, OthersKeepSubmitting
       DEF Submitting, Attempt, AttemptStored, AttemptUnanswered, AttemptFails, AttemptRejected
  <2> QED
    BY <2>1, <2>2
<1>3. TypeOK /\ InAttempt /\ <<Attempt>>_vars => Goal'
  BY AttemptCounts DEF Submitting
<1>4. TypeOK /\ InDelay /\ <<Retry>>_vars => Goal'
  BY RetryCounts
<1>5. ActionsEnabled => /\ InAttempt => ENABLED <<Attempt>>_vars
                        /\ InDelay => ENABLED <<Retry>>_vars
  BY DEF ActionsEnabled
<1>6. Submitting /\ TriesLeft = n => InAttempt \/ InDelay
  BY DEF Submitting
<1>7. FairSpec => Spec /\ WF_vars(Attempt) /\ WF_vars(Retry)
  BY PTL DEF FairSpec, Fairness
<1> QED
  BY <1>1, <1>2, <1>3, <1>4, <1>5, <1>6, <1>7, TypeCorrectness, PTL DEF Spec

\* The goroutine ends only when the context is done.
LEMMA DoneMeansContext == Spec => [](pc = "done" => ctxDone)
<1>1. Init => (pc = "done" => ctxDone)
  BY DEF Init
<1>2. TypeOK /\ (pc = "done" => ctxDone) /\ [Next]_vars => (pc = "done" => ctxDone)'
  <2> SUFFICES ASSUME TypeOK, pc = "done" => ctxDone, [Next]_vars PROVE (pc = "done" => ctxDone)'
    OBVIOUS
  <2>1. CASE Attempt
    BY <2>1, AttemptCounts
  <2>2. CASE ~Attempt
    BY <2>2 DEF Next, SubmitSpan, SendSpan, ReceiveSpan, StartSubmit, Retry, SeesContext,
                ContextEnds, Terminated, vars, history
  <2> QED
    BY <2>1, <2>2
<1> QED
  BY <1>1, <1>2, TypeCorrectness, PTL DEF Spec

\* SubmitReturns for a span: the call of SubmitSpan returns, or the forwarder is
\* told to stop, if every submission of a batch ends, which is the sum of
\* AttemptsEndComesNearer over the attempts.  The fairness of the span's own send
\* is the one that FairSpec has for every span.
THEOREM SubmitReturnsIfAttemptsEnd ==
  ASSUME NEW s \in Spans
  PROVE  FairSpec /\ SF_vars(SendSpan(s)) /\ []ActionsEnabled /\ AttemptsEnd =>
           ((submitter[s] = "sending") ~> (submitter[s] = "returned" \/ ctxDone))
<1> DEFINE Sending == submitter[s] = "sending"
           Returned == submitter[s] = "returned"
<1>1. TypeOK /\ Sending /\ [Next]_vars => Sending' \/ Returned'
  <2> SUFFICES ASSUME TypeOK, Sending, [Next]_vars PROVE Sending' \/ Returned'
    OBVIOUS
  <2>0. submitter \in [Spans -> {"idle", "sending", "returned"}]
    BY DEF TypeOK
  <2>1. ASSUME NEW r \in Spans, SubmitSpan(r) \/ SendSpan(r) PROVE Sending' \/ Returned'
    BY <2>0, <2>1 DEF SubmitSpan, SendSpan
  <2>2. CASE ~(\E r \in Spans : SubmitSpan(r) \/ SendSpan(r))
    BY <2>2 DEF Next, ReceiveSpan, StartSubmit, Attempt, AttemptStored, AttemptUnanswered,
                AttemptFails, AttemptRejected, Retry, SeesContext, ContextEnds, Terminated, vars, history
  <2> QED
    BY <2>1, <2>2
<1>2. TypeOK /\ <<SendSpan(s)>>_vars => Returned'
  BY DEF TypeOK, SendSpan
<1>3. TypeOK /\ <<ReceiveSpan>>_vars => Room'
  <2> SUFFICES ASSUME TypeOK, ReceiveSpan PROVE Room'
    OBVIOUS
  <2>1. Len(chan') = Len(chan) - 1 /\ Len(chan) \in Nat /\ Len(chan) <= ChanCap /\ ChanCap \in Nat
    BY ReceiveKeeps, BoundsAssumption DEF TypeOK
  <2> QED
    BY <2>1 DEF Room
<1>4. TypeOK /\ ~Room /\ pc = "select" /\ ActionsEnabled => ENABLED <<ReceiveSpan>>_vars
  <2> SUFFICES ASSUME TypeOK, ~Room PROVE chan # <<>>
    BY DEF ActionsEnabled
  <2>1. ~(Len(chan) < ChanCap) /\ ChanCap >= 1 /\ ChanCap \in Nat
    BY BoundsAssumption DEF Room
  <2> QED
    BY <2>1
<1>5. ActionsEnabled => (Sending /\ Room => ENABLED <<SendSpan(s)>>_vars)
  BY DEF ActionsEnabled
<1>6. TypeOK => Submitting \/ pc = "select" \/ pc = "done"
  BY DEF TypeOK, Submitting
<1>7. FairSpec => Spec /\ SF_vars(ReceiveSpan)
  BY PTL DEF FairSpec, Fairness
<1> QED
  BY <1>1, <1>2, <1>3, <1>4, <1>5, <1>6, <1>7, TypeCorrectness, DoneMeansContext, PTL
     DEF Spec, AttemptsEnd
\* What SpansArrive promises of a span.
Settled(s) == s \in stored \cup refused \cup dropped

\* A span in the batch stays there until it is settled.
LEMMA BatchKeeps ==
  ASSUME TypeOK, [Next]_vars, NEW s \in Spans, s \in Range(batch)
  PROVE  s \in Range(batch') \/ Settled(s)'
<1>1. CASE ReceiveSpan
  BY <1>1, ReceiveKeeps DEF Settled
<1>2. CASE AttemptStored \/ AttemptRejected
  BY <1>2 DEF AttemptStored, AttemptRejected, Settled
<1>3. CASE AttemptUnanswered \/ AttemptFails
  <2>1. batch' = batch
    BY <1>3, FailKeeps DEF AttemptUnanswered, AttemptFails
  <2> QED
    BY <2>1
<1>4. CASE ~ReceiveSpan /\ ~Attempt
  <2>1. batch' = batch
    BY <1>4 DEF Next, SubmitSpan, SendSpan, StartSubmit, Retry, SeesContext, ContextEnds,
                Terminated, vars, history
  <2> QED
    BY <2>1
<1> QED
  BY <1>1, <1>2, <1>3, <1>4 DEF Attempt

\* SpansArrive for a span that is in the batch: if the collector acknowledges in
\* the end, the span is stored, refused, or makes room for newer ones, however
\* many attempts fail before; again if every submission ends.
THEOREM BatchArrivesIfAttemptsEnd ==
  ASSUME NEW s \in Spans
  PROVE  FairSpec /\ SF_vars(AttemptStored) /\ []ActionsEnabled /\ AttemptsEnd =>
           ((s \in Range(batch)) ~> (Settled(s) \/ ctxDone))
<1> DEFINE Held == s \in Range(batch)
           Done == Settled(s)
<1>1. TypeOK /\ Held /\ [Next]_vars => Held' \/ Done'
  BY BatchKeeps
<1>2. Held => batch # <<>>
  BY DEF Range
<1>3. ActionsEnabled => /\ pc = "select" /\ batch # <<>> => ENABLED <<StartSubmit>>_vars
                        /\ pc = "attempt" /\ ~ctxDone => ENABLED <<AttemptStored>>_vars
  BY DEF ActionsEnabled
<1>4. <<StartSubmit>>_vars => (pc = "attempt")'
  BY DEF StartSubmit
<1>5. Held /\ <<AttemptStored>>_vars => Done'
  BY DEF AttemptStored, Settled
<1>6. TypeOK => Submitting \/ pc = "select" \/ pc = "done"
  BY DEF TypeOK, Submitting
<1>7. FairSpec => Spec /\ SF_vars(StartSubmit)
  BY PTL DEF FairSpec, Fairness
<1> QED
  BY <1>1, <1>2, <1>3, <1>4, <1>5, <1>6, <1>7, TypeCorrectness, DoneMeansContext, PTL
     DEF Spec, AttemptsEnd

\* Nothing overtakes a span in the channel, and nothing but the goroutine takes it
\* from there.
LEMMA ChannelKeeps ==
  ASSUME TypeOK, [Next]_vars, NEW i \in 1..Len(chan)
  PROVE  \/ i \in 1..Len(chan') /\ chan'[i] = chan[i] /\ ~ReceiveSpan
         \/ /\ ReceiveSpan
            /\ \/ i > 1 /\ i - 1 \in 1..Len(chan') /\ chan'[i - 1] = chan[i]
               \/ i = 1 /\ (chan[i] \in Range(batch') \/ chan[i] \in dropped')
<1>0. chan \in Seq(Spans) /\ Len(chan) \in Nat
  BY DEF TypeOK
<1>1. CASE ReceiveSpan
  <2>1. /\ chan' = Tail(chan) /\ chan # <<>>
        /\ chan[1] \in Range(batch') \cup dropped'
    BY <1>0, <1>1, ReceiveKeeps DEF ReceiveSpan
  <2>2. CASE i > 1
    BY <1>0, <1>1, <2>1, <2>2
  <2>3. CASE i = 1
    BY <1>1, <2>1, <2>3
  <2> QED
    BY <1>0, <2>2, <2>3
<1>2. ASSUME NEW r \in Spans, SendSpan(r) PROVE i \in 1..Len(chan') /\ chan'[i] = chan[i]
  BY <1>0, <1>2 DEF SendSpan
<1>3. CASE ~ReceiveSpan /\ ~(\E r \in Spans : SendSpan(r))
  <2>1. chan' = chan
    BY <1>3 DEF Next, SubmitSpan, StartSubmit, Attempt, AttemptStored, AttemptUnanswered,
                AttemptFails, AttemptRejected, Retry, SeesContext, ContextEnds, Terminated, vars, history
  <2> QED
    BY <1>3, <2>1
<1> QED
  BY <1>1, <1>2, <1>3

\* Where a span is in the channel.
At(s, i) == i \in 1..Len(chan) /\ chan[i] = s

\* SpansArrive for a span in the channel, one place at a time: from any place the
\* span gets to the place before it, and from the first into the batch.
THEOREM ChannelAdvancesIfAttemptsEnd ==
  ASSUME NEW s \in Spans, NEW i \in Nat \ {0}
  PROVE  FairSpec /\ []ActionsEnabled /\ AttemptsEnd =>
           (At(s, i) ~> ((i > 1 /\ At(s, i - 1)) \/ s \in Range(batch) \/ Settled(s) \/ ctxDone))
<1> DEFINE Here == At(s, i)
           Further == (i > 1 /\ At(s, i - 1)) \/ s \in Range(batch) \/ Settled(s)
<1>1. TypeOK /\ Here /\ [Next]_vars => Here' \/ Further'
  BY ChannelKeeps DEF At, Settled
<1>2. TypeOK /\ Here /\ <<ReceiveSpan>>_vars => Further'
  <2> SUFFICES ASSUME TypeOK, Here, ReceiveSpan PROVE Further'
    OBVIOUS
  <2>1. [Next]_vars
    BY DEF Next
  <2> QED
    BY <2>1, ChannelKeeps DEF At, Settled
<1>3. TypeOK /\ Here => chan # <<>>
  BY DEF At, TypeOK
<1>4. ActionsEnabled => (pc = "select" /\ chan # <<>> => ENABLED <<ReceiveSpan>>_vars)
  BY DEF ActionsEnabled
<1>5. TypeOK => Submitting \/ pc = "select" \/ pc = "done"
  BY DEF TypeOK, Submitting
<1>6. FairSpec => Spec /\ SF_vars(ReceiveSpan)
  BY PTL DEF FairSpec, Fairness
<1>7. Further => (i > 1 /\ At(s, i - 1)) \/ s \in Range(batch) \/ Settled(s)
  OBVIOUS
<1> QED
  BY <1>1, <1>2, <1>3, <1>4, <1>5, <1>6, <1>7, TypeCorrectness, DoneMeansContext, PTL
     DEF Spec, AttemptsEnd

\* What is accepted and not yet settled is in one of these places, while the
\* forwarder runs.
LEMMA AcceptedIsOnItsWay ==
  Spec => [](pc # "done" =>
               \A s \in Accepted :
                  Settled(s) \/ s \in Range(batch) \/ \E i \in 1..Len(chan) : At(s, i))
<1>1. TypeOK /\ NoSilentLoss /\ pc # "done" =>
        \A s \in Accepted : Settled(s) \/ s \in Range(batch) \/ \E i \in 1..Len(chan) : At(s, i)
  <2> SUFFICES ASSUME TypeOK, NoSilentLoss, pc # "done",
                      NEW s \in Accepted, ~Settled(s), s \notin Range(batch)
               PROVE  \E i \in 1..Len(chan) : At(s, i)
    OBVIOUS
  <2>1. s \in Range(chan) /\ DOMAIN chan = 1..Len(chan)
    BY DEF NoSilentLoss, Kept, Settled, TypeOK
  <2> QED
    BY <2>1 DEF Range, At
<1> QED
  BY <1>1, TypeCorrectness, NothingLostSilently, PTL
=============================================================================
