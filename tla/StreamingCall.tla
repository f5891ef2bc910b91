--------------------------- MODULE StreamingCall ---------------------------
(***************************************************************************)
(* One streaming call, whole: the two halves run concurrently over one     *)
(* HTTP exchange, and the goroutines of Client.Do report to the errgroup   *)
(* that the caller passed to it.                                           *)
(*                                                                         *)
(* The exchange ties the halves together: when it is reset, both are, and  *)
(* when the handler returns, both end.  The group ties them a second time: *)
(* if the context given to Do is the group's (as it is for a call made     *)
(* with the context and the group that ServeHTTP gives a handler), the     *)
(* first goroutine to return an error cancels the exchange.                *)
(***************************************************************************)
EXTENDS Sequences, Naturals

CONSTANTS
  Data, None, Unmarshalable, Undecodable, Oversize,
  WireCap, MaxBuffered, MaxKeepAlives,
  MaxMsgs,        \* bound: values the caller sends
  MaxWrites       \* bound: writes to the body that the handler makes

\* What both halves assume of them.
ASSUME ValuesAssumption ==
  /\ None \notin Data
  /\ Unmarshalable \subseteq Data
  /\ Undecodable \subseteq Data
  /\ Oversize \subseteq Data
ASSUME BoundsAssumption ==
  /\ WireCap \in Nat \ {0} /\ MaxBuffered \in 1..WireCap
  /\ MaxMsgs \in Nat /\ MaxWrites \in Nat /\ MaxKeepAlives \in Nat

VARIABLES
  \* the request half
  offer, chanClosed, sent, pc, frame, err, closed, keepAlives, reader, writeEnd,
  reqWire, reqWireEnd, received, outcome,
  \* the response half
  call, handler, headersWritten, status, head, sentHead, written, finished,
  writes, late, buffered, respWire, respWireEnd, do, pump, hand, garbled, result,
  delivered,
  \* what they share
  ctxFromGroup,   \* is Do's context the one the errgroup cancels?
  groupErr,       \* the group's error: the first one returned to it
  lost            \* history: connection lost, deadline passed, caller gave up

Req == INSTANCE RequestStream
         WITH wire <- reqWire, wireEnd <- reqWireEnd, BuildCanFail <- FALSE
Resp == INSTANCE ResponseStream
          WITH wire <- respWire, wireEnd <- respWireEnd, EmptyDecodes <- FALSE,
               MaxMsgs <- MaxWrites

reqVars  == <<offer, chanClosed, sent, pc, frame, err, closed, keepAlives, reader,
              writeEnd, reqWire, reqWireEnd, received, outcome>>
respVars == <<call, handler, headersWritten, status, head, sentHead, written,
              finished, writes, late, buffered, respWire, respWireEnd, do, pump,
              hand, garbled, result, delivered>>
sharedVars == <<ctxFromGroup, groupErr, lost>>
vars == <<reqVars, respVars, sharedVars>>

Init ==
  /\ Req!Init
  /\ Resp!Init
  /\ ctxFromGroup \in BOOLEAN
  /\ groupErr = "none"
  /\ lost = FALSE
-----------------------------------------------------------------------------
(***************************************************************************)
(* The caller and the goroutines of Do.                                    *)
(***************************************************************************)
RequestStep ==
  /\ \/ Req!Producer
     \/ Req!PumpReceive \/ Req!PumpSeesClose \/ Req!PumpKeepAlive
     \/ Req!PumpWriteFails \/ Req!PumpExit \/ Req!PumpEofFails \/ Req!DrainDiscards
     \/ Req!StartRequest \/ Req!TransportTakesFrame
  /\ UNCHANGED <<respVars, sharedVars>>

\* The error of a goroutine that returns, if it is the first, is the group's.
GroupRecords(e) == groupErr' = IF groupErr = "none" THEN e ELSE groupErr

\* The goroutine keeps its error to itself.
RequestPumpReturns_Nil ==
  /\ Req!DrainEnds
  /\ GroupRecords(IF err = "EOF" THEN "EOF" ELSE "none")
  /\ UNCHANGED <<respVars, ctxFromGroup, lost>>

RequestPumpReturns ==
  /\ Req!DrainEnds
  /\ GroupRecords(err)
  /\ UNCHANGED <<respVars, ctxFromGroup, lost>>

ResponseStep ==
  /\ Resp!Do \/ Resp!ConsumerTakes \/ (Resp!PumpReads /\ pump' # "done")
  /\ UNCHANGED <<reqVars, sharedVars>>

ResponsePumpReturns ==
  /\ Resp!PumpReads \/ Resp!PumpReadsEnd
  /\ pump' = "done"
  /\ GroupRecords(IF result' = "nil" THEN "none" ELSE result')
  /\ UNCHANGED <<reqVars, ctxFromGroup, lost>>
-----------------------------------------------------------------------------
(***************************************************************************)
(* The handler: it runs once the request has reached the server.           *)
(***************************************************************************)
HandlerRuns == handler = "serving" /\ reader \in {"reading", "closed"}

HandlerReads ==
  /\ HandlerRuns
  /\ Req!ServerReadsFrame \/ Req!ServerReadsEnd
  /\ UNCHANGED <<respVars, sharedVars>>

HandlerWrites ==
  /\ HandlerRuns
  /\ \/ \E v \in Data : Resp!WriteMessage(v) \/ Resp!WriteOutput(v)
     \/ Resp!WriteMessageFails \/ Resp!WriteEofMessage \/ Resp!WriteError
  /\ UNCHANGED <<reqVars, sharedVars>>

\* Returning, or panicking, ends the handler's part in both halves.
HandlerEnds ==
  /\ HandlerRuns
  /\ Resp!HandlerReturns \/ Resp!WriteMessagePanics
  /\ IF outcome = "open" THEN Req!ServerStops ELSE UNCHANGED reqVars
  /\ UNCHANGED sharedVars
-----------------------------------------------------------------------------
(***************************************************************************)
(* The exchange.                                                           *)
(***************************************************************************)
RequestEnds ==
  /\ writeEnd = "closed"
  /\ Req!TransportSeesWriteEnd
  /\ UNCHANGED <<respVars, sharedVars>>

ResetRequest ==
  IF reqWireEnd # "aborted" /\ reader \in {"reading", "closed"}
  THEN Req!TransportAborts ELSE UNCHANGED reqVars

ResetResponse ==
  IF respWireEnd # "aborted" THEN Resp!TransportAborts ELSE UNCHANGED respVars

\* The transport cuts both directions.
Reset == reader # "unused" /\ ResetRequest /\ ResetResponse

\* A failed request body that leaves the response running.
RequestBreaks_KeepsResponse ==
  /\ writeEnd = "closedWithError"
  /\ Req!TransportSeesWriteEnd
  /\ UNCHANGED <<respVars, sharedVars>>

\* The request body failed: the exchange cannot be completed.
RequestBreaks ==
  /\ writeEnd = "closedWithError"
  /\ Req!TransportSeesWriteEnd
  /\ ResetResponse
  /\ UNCHANGED sharedVars

ConnectionLost ==
  /\ ~lost
  /\ Reset
  /\ lost' = TRUE
  /\ UNCHANGED <<ctxFromGroup, groupErr>>

\* Every context is cancelled by the group's first error.
ContextCancelled_AnyContext ==
  /\ groupErr # "none"
  /\ Reset
  /\ UNCHANGED sharedVars

\* The group's first error has cancelled the context of the request.
ContextCancelled ==
  /\ ctxFromGroup
  /\ groupErr # "none"
  /\ Reset
  /\ UNCHANGED sharedVars

\* The client closes a response body that has not ended.
BodyClosed ==
  /\ do = "failed" \/ pump = "done"
  /\ respWireEnd = "open"
  /\ Reset
  /\ UNCHANGED sharedVars

\* The response is complete: the rest of the request body is not wanted.
ExchangeEnds ==
  /\ handler # "serving"
  /\ Req!ExchangeEnds
  /\ UNCHANGED <<respVars, sharedVars>>

Terminated ==
  /\ pc = "done"
  /\ handler # "serving" \/ reqWireEnd = "aborted"
  /\ Resp!ClientDone
  /\ UNCHANGED vars
-----------------------------------------------------------------------------
Next == \/ RequestStep \/ RequestPumpReturns \/ ResponseStep \/ ResponsePumpReturns
        \/ HandlerReads \/ HandlerWrites \/ HandlerEnds
        \/ RequestEnds \/ RequestBreaks \/ ConnectionLost \/ ContextCancelled
        \/ BodyClosed \/ ExchangeEnds \/ Terminated

Spec == Init /\ [][Next]_vars

(***************************************************************************)
(* As in the halves: the library's goroutines and the transport run, and   *)
(* the consumer receives until its channel is closed.  The producer may    *)
(* stop at any time, the connection may hold, and the handler may go on    *)
(* for ever.                                                               *)
(***************************************************************************)
PumpStep == Req!Pump /\ (RequestStep \/ RequestPumpReturns)

Fairness ==
  /\ WF_vars(PumpStep)
  /\ WF_vars(Req!StartRequest /\ RequestStep)
  /\ WF_vars(Req!TransportTakesFrame /\ RequestStep)
  /\ WF_vars(ResponseStep \/ ResponsePumpReturns)
  /\ WF_vars(RequestEnds \/ RequestBreaks)
  /\ WF_vars(ContextCancelled)
  /\ WF_vars(BodyClosed)
  /\ WF_vars(ExchangeEnds)

FairSpec == Spec /\ Fairness
-----------------------------------------------------------------------------
\* A call fails only if something failed: the connection or the caller's
\* context, the handler, or the marshalling of a value the caller sent; or if the
\* handler did not answer in the form that the operation has.  In
\* particular the caller's closing its request channel, which makes the
\* request goroutine return io.EOF to the group, leaves the response alone.
Cause == \/ lost
         \/ handler = "panicked"
         \/ sentHead \in {"error", "empty"}
         \/ err = "marshal"
         \/ sentHead \in {"stream", "unary"} /\ sentHead # call
         \/ sentHead = "unary" /\ (garbled \/ hand \in Undecodable)
OnlyBrokenIfCaused == do = "failed" \/ result = "transport" => Cause

\* So it is if the context of the call is not the group's.
HalfCloseKeepsResponse == ~ctxFromGroup => OnlyBrokenIfCaused

\* What g.Wait returns once both goroutines have returned.
WaitReturns == pc = "done" /\ do = "ok" /\ pump \in {"none", "done"}
Ignorable == groupErr \in {"none", "EOF"}

\* g.Wait tells a caller that its values were not all sent: if the request
\* goroutine stopped before it saw the channel closed, the group has an error
\* other than io.EOF, unless the response ended in io.EOF first.
CutRequestIsReported ==
  WaitReturns /\ err # "EOF" => ~Ignorable \/ result = "EOF"

\* A request goroutine that fails, and then waits for the caller to close its
\* channel, is not the only one to know, even if the handler never returns, as
\* long as it reads what it was sent: Do fails or the response channel is closed,
\* which is the caller's occasion to stop sending.
FailureIsVisible ==
  WF_vars(HandlerReads) => ((err \notin {"nil", "EOF"}) ~> Resp!ClientDone)

\* Once the caller has closed its channel, and if the handler returns, the call
\* ends on the client: both goroutines return, the response channel is closed,
\* g.Wait returns.
HandlerReturns == HandlerEnds /\ handler' = "returned"
CallEnds ==
  WF_vars(HandlerReturns) => (chanClosed ~> (pc = "done" /\ Resp!ClientDone))
=============================================================================
