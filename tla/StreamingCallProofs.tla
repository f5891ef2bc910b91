------------------------ MODULE StreamingCallProofs ------------------------
(***************************************************************************)
(* StreamingCall for every set of values, every window, any number of      *)
(* messages: what the two halves and the group promise together.  What is  *)
(* proved of a half alone is used of the call; that it may be, since the   *)
(* call's actions are made of the halves', is stated first.                *)
(***************************************************************************)
EXTENDS StreamingCall, TLAPS

\* The halves again, with what is proved of them.
ReqP == INSTANCE RequestStreamProofs
          WITH wire <- reqWire, wireEnd <- reqWireEnd, BuildCanFail <- FALSE
RespP == INSTANCE ResponseStreamProofs
           WITH wire <- respWire, wireEnd <- respWireEnd, EmptyDecodes <- FALSE,
                MaxMsgs <- MaxWrites
-----------------------------------------------------------------------------
(***************************************************************************)
(* The step mapping.                                                       *)
(***************************************************************************)

\* Every step of the call is a step of the request half, or leaves it alone.
LEMMA StepRequest == [Next]_vars => [Req!Next]_(Req!vars)
<1> SUFFICES ASSUME [Next]_vars PROVE Req!Next \/ UNCHANGED Req!vars
  OBVIOUS
<1> USE DEF Req!Next, Req!Pump, Req!Transport, Req!Server
<1>1. CASE UNCHANGED reqVars
  BY <1>1 DEF reqVars, Req!vars, Req!producerVars, Req!pumpVars,
              Req!transportVars, Req!handlerVars
<1>2. CASE RequestStep \/ RequestPumpReturns
  BY <1>2 DEF RequestStep, RequestPumpReturns
<1>3. CASE HandlerReads
  BY <1>3 DEF HandlerReads
<1>4. CASE HandlerEnds
  BY <1>1, <1>4 DEF HandlerEnds
<1>5. CASE RequestEnds \/ RequestBreaks
  BY <1>5 DEF RequestEnds, RequestBreaks
<1>6. CASE ConnectionLost \/ ContextCancelled \/ BodyClosed
  BY <1>1, <1>6 DEF ConnectionLost, ContextCancelled, BodyClosed, Reset, ResetRequest
<1>7. CASE ExchangeEnds
  BY <1>7 DEF ExchangeEnds, Req!ExchangeEnds
<1>8. CASE \/ ResponseStep \/ ResponsePumpReturns \/ HandlerWrites
           \/ Terminated \/ UNCHANGED vars
  BY <1>1, <1>8 DEF ResponseStep, ResponsePumpReturns, HandlerWrites, Terminated, vars
<1> QED
  BY <1>2, <1>3, <1>4, <1>5, <1>6, <1>7, <1>8 DEF Next

\* Every step of the call is a step of the response half, or leaves it alone.
LEMMA StepResponse == [Next]_vars => [Resp!Next]_(Resp!vars)
<1> SUFFICES ASSUME [Next]_vars PROVE Resp!Next \/ UNCHANGED Resp!vars
  OBVIOUS
<1> USE DEF Resp!Next, Resp!Handler, Resp!Pump
<1>1. CASE UNCHANGED respVars
  BY <1>1 DEF respVars, Resp!vars, Resp!serverVars, Resp!writerVars, Resp!wireVars,
              Resp!clientVars
<1>2. CASE ResponseStep \/ ResponsePumpReturns
  BY <1>2 DEF ResponseStep, ResponsePumpReturns
<1>3. CASE HandlerWrites
  BY <1>3 DEF HandlerWrites
<1>4. CASE HandlerEnds
  BY <1>4 DEF HandlerEnds
<1>5. CASE RequestBreaks
  BY <1>1, <1>5 DEF RequestBreaks, ResetResponse
<1>6. CASE ConnectionLost \/ ContextCancelled \/ BodyClosed
  BY <1>1, <1>6 DEF ConnectionLost, ContextCancelled, BodyClosed, Reset, ResetResponse
<1>7. CASE \/ RequestStep \/ RequestPumpReturns \/ HandlerReads \/ RequestEnds
           \/ ExchangeEnds \/ Terminated \/ UNCHANGED vars
  BY <1>1, <1>7 DEF RequestStep, RequestPumpReturns, HandlerReads, RequestEnds,
                    ExchangeEnds, Terminated, vars
<1> QED
  BY <1>2, <1>3, <1>4, <1>5, <1>6, <1>7 DEF Next

\* So what the caller, the goroutines and the handler do in a call is, of each half,
\* what its own specification allows.
LEMMA CallHasHalves == Spec => Req!Spec /\ Resp!Spec
<1>1. Init => Req!Init /\ Resp!Init
  BY DEF Init
<1> QED
  BY <1>1, StepRequest, StepResponse, PTL DEF Spec, Req!Spec, Resp!Spec
-----------------------------------------------------------------------------
(***************************************************************************)
(* What is proved of the halves, in the call.  Req and ReqP are the same   *)
(* text, and expanding both shows that they are the same formulas.         *)
(***************************************************************************)

\* The request half as RequestStreamProofs knows it.
LEMMA SameRequestHalf ==
  /\ Req!Init => ReqP!Init
  /\ [Req!Next]_(Req!vars) => [ReqP!Next]_(ReqP!vars)
  BY DEF Req!DataFrame, ReqP!DataFrame, Req!EofFrame, ReqP!EofFrame,
      Req!KeepAliveFrame, ReqP!KeepAliveFrame, Req!producerVars,
      ReqP!producerVars, Req!pumpVars, ReqP!pumpVars, Req!transportVars,
      ReqP!transportVars, Req!handlerVars, ReqP!handlerVars, Req!vars,
      ReqP!vars, Req!NoFrame, ReqP!NoFrame, Req!Init, ReqP!Init, Req!Offer,
      ReqP!Offer, Req!CloseChannel, ReqP!CloseChannel, Req!PumpReceive,
      ReqP!PumpReceive, Req!PumpSeesClose, ReqP!PumpSeesClose,
      Req!PumpKeepAlive, ReqP!PumpKeepAlive, Req!PumpWriteFails,
      ReqP!PumpWriteFails, Req!PumpExit, ReqP!PumpExit, Req!PumpEofFails,
      ReqP!PumpEofFails, Req!DrainDiscards, ReqP!DrainDiscards,
      Req!DrainEnds, ReqP!DrainEnds, Req!StartRequest, ReqP!StartRequest,
      Req!BuildFails, ReqP!BuildFails, Req!TransportTakesFrame,
      ReqP!TransportTakesFrame, Req!TransportSeesWriteEnd,
      ReqP!TransportSeesWriteEnd, Req!TransportAborts, ReqP!TransportAborts,
      Req!ServerReadsFrame, ReqP!ServerReadsFrame, Req!BodyExhausted,
      ReqP!BodyExhausted, Req!ServerReadsEnd, ReqP!ServerReadsEnd,
      Req!ServerStops, ReqP!ServerStops, Req!Terminated, ReqP!Terminated,
      Req!Producer, ReqP!Producer, Req!Pump, ReqP!Pump, Req!Transport,
      ReqP!Transport, Req!Server, ReqP!Server, Req!Next, ReqP!Next

\* The response half as ResponseStreamProofs knows it.
LEMMA SameResponseHalf ==
  /\ Resp!Init => RespP!Init
  /\ [Resp!Next]_(Resp!vars) => [RespP!Next]_(RespP!vars)
  BY DEF Resp!DataFrame, RespP!DataFrame, Resp!EofFrame, RespP!EofFrame,
      Resp!KeepAliveFrame, RespP!KeepAliveFrame, Resp!RawChunk,
      RespP!RawChunk, Resp!writerVars, RespP!writerVars,
      Resp!serverVars, RespP!serverVars, Resp!wireVars, RespP!wireVars,
      Resp!clientVars, RespP!clientVars, Resp!vars, RespP!vars,
      Resp!Init, RespP!Init, Resp!Writes, RespP!Writes,
      Resp!WriteHeader, RespP!WriteHeader, Resp!StreamHeaders,
      RespP!StreamHeaders, Resp!ErrorHeaders, RespP!ErrorHeaders,
      Resp!WriteMessage, RespP!WriteMessage, Resp!WriteMessageFails,
      RespP!WriteMessageFails, Resp!WriteMessagePanics,
      RespP!WriteMessagePanics, Resp!WriteEofMessage,
      RespP!WriteEofMessage, Resp!WriteError, RespP!WriteError,
      Resp!WriteOutput, RespP!WriteOutput, Resp!HandlerReturns,
      RespP!HandlerReturns, Resp!TransportAborts, RespP!TransportAborts,
      Resp!DoStartsStream, RespP!DoStartsStream, Resp!DoReads,
      RespP!DoReads, Resp!BodyRead, RespP!BodyRead, Resp!DoReadsBody,
      RespP!DoReadsBody, Resp!DoReturnsBody, RespP!DoReturnsBody,
      Resp!NoUsableResponse, RespP!NoUsableResponse, Resp!DoFails,
      RespP!DoFails, Resp!PumpReturns, RespP!PumpReturns,
      Resp!PumpReadsFrame, RespP!PumpReadsFrame, Resp!PumpMisreads,
      RespP!PumpMisreads, Resp!PumpReads, RespP!PumpReads,
      Resp!BodyExhausted, RespP!BodyExhausted, Resp!PumpReadsEnd,
      RespP!PumpReadsEnd, Resp!ConsumerTakes, RespP!ConsumerTakes,
      Resp!ClientDone, RespP!ClientDone, Resp!Terminated,
      RespP!Terminated, Resp!Handler, RespP!Handler, Resp!Do, RespP!Do,
      Resp!Pump, RespP!Pump, Resp!Next, RespP!Next

\* So the call satisfies the specifications that the halves' theorems are about.
LEMMA CallIsBothHalves == Spec => ReqP!Spec /\ RespP!Spec
<1>1. Req!Spec => ReqP!Spec
  BY SameRequestHalf, PTL DEF Req!Spec, ReqP!Spec
<1>2. Resp!Spec => RespP!Spec
  BY SameResponseHalf, PTL DEF Resp!Spec, RespP!Spec
<1> QED
  BY <1>1, <1>2, CallHasHalves

\* The halves keep their invariants in the call.
LEMMA HalvesInvariance == Spec => [](ReqP!IndInv /\ RespP!IndInv)
<1>1. ReqP!Spec => []ReqP!IndInv
  BY ValuesAssumption, BoundsAssumption, ReqP!Invariance
<1>2. RespP!Spec => []RespP!IndInv
  BY ValuesAssumption, BoundsAssumption, RespP!Invariance
<1> QED
  BY <1>1, <1>2, CallIsBothHalves, PTL
-----------------------------------------------------------------------------
(***************************************************************************)
(* The invariant of the call.  What the halves' own invariants leave open  *)
(* is what one half knows of the other: that a write end closed with an    *)
(* error means a marshalling error or a pipe that the transport had closed *)
(* before, that a response is cut for a cause, unless its goroutine has    *)
(* returned already, and whose error the group has.                        *)
(***************************************************************************)
RequestErrors ==
  /\ err = "closedPipe" => reader = "closed"
  /\ writeEnd = "closedWithError" => err \in {"marshal", "closedPipe"}

\* The group has cancelled the call for the request goroutine's error.
CutByGroup == ctxFromGroup /\ pc = "done" /\ groupErr = err

CutForCause == respWireEnd = "aborted" => Cause \/ CutByGroup \/ pump = "done"

BrokenForCause == OnlyBrokenIfCaused \/ CutByGroup

GroupState ==
  /\ groupErr \in {"none", "EOF", "marshal", "closedPipe", "unmarshal", "transport"}
  /\ pc = "done" => groupErr # "none"
  /\ groupErr # "none" => \/ pc = "done" /\ groupErr = err
                          \/ pump = "done" /\ groupErr = result

CallInv == RequestErrors /\ CutForCause /\ GroupState /\ BrokenForCause

\* The parts of the halves' invariants that the call needs.
HalvesInv == /\ ReqP!TypeOK /\ ReqP!PumpState
             /\ RespP!TypeOK /\ RespP!WriterState /\ RespP!ClientState
-----------------------------------------------------------------------------
(***************************************************************************)
(* What a step of one half keeps.                                          *)
(***************************************************************************)

\* The goroutine's error comes from the marshaller or from a closed pipe, and
\* a pipe that is closed stays so.
LEMMA StepRequestErrors == HalvesInv /\ RequestErrors /\ [Next]_vars => RequestErrors'
<1> SUFFICES ASSUME ReqP!TypeOK, ReqP!PumpState, RequestErrors, [Next]_vars
             PROVE  RequestErrors'
  BY DEF HalvesInv
<1>1. [Req!Next]_(Req!vars)
  BY StepRequest
<1> USE DEF RequestErrors, ReqP!PumpState, Req!producerVars, Req!pumpVars,
            Req!transportVars, Req!handlerVars
<1>2. CASE Req!Producer
  BY <1>2 DEF Req!Producer, Req!Offer, Req!CloseChannel
<1>3. CASE Req!PumpReceive \/ Req!PumpSeesClose \/ Req!PumpKeepAlive
  BY <1>3 DEF Req!PumpReceive, Req!PumpSeesClose, Req!PumpKeepAlive
<1>4. CASE Req!PumpWriteFails
  BY <1>4 DEF Req!PumpWriteFails
<1>5. CASE Req!PumpExit
  BY <1>5 DEF Req!PumpExit, ReqP!TypeOK
<1>6. CASE Req!PumpEofFails \/ Req!DrainDiscards \/ Req!DrainEnds
  BY <1>6 DEF Req!PumpEofFails, Req!DrainDiscards, Req!DrainEnds
<1>7. CASE Req!Transport
  BY <1>7 DEF Req!Transport, Req!StartRequest, Req!BuildFails,
     Req!TransportTakesFrame, Req!TransportSeesWriteEnd, Req!TransportAborts
<1>8. CASE Req!Server
  BY <1>8 DEF Req!Server, Req!ServerReadsFrame, Req!ServerReadsEnd, Req!ServerStops
<1>9. CASE UNCHANGED Req!vars
  BY <1>9 DEF Req!vars
<1> QED
  BY <1>1, <1>2, <1>3, <1>4, <1>5, <1>6, <1>7, <1>8, <1>9
     DEF Req!Next, Req!Pump, Req!Terminated

\* An error of the goroutine is final, and so is its return.
LEMMA RequestErrorIsFinal ==
  ASSUME HalvesInv, [Next]_vars
  PROVE  /\ err # "nil" => err' = err
         /\ pc = "done" => pc' = "done"
         /\ pc' = "done" /\ pc # "done" => RequestPumpReturns
<1>1. [Req!Next]_(Req!vars)
  BY StepRequest
<1> USE DEF Req!producerVars, Req!pumpVars, Req!transportVars, Req!handlerVars
<1>2. (err # "nil" => err' = err) /\ (pc = "done" => pc' = "done")
  BY <1>1 DEF Req!Next, HalvesInv, ReqP!PumpState, Req!Producer, Req!Offer,
     Req!CloseChannel,
     Req!Pump, Req!PumpReceive, Req!PumpSeesClose, Req!PumpKeepAlive, Req!PumpWriteFails,
     Req!PumpExit, Req!PumpEofFails, Req!DrainDiscards, Req!DrainEnds,
     Req!Transport, Req!StartRequest, Req!BuildFails, Req!TransportTakesFrame,
     Req!TransportSeesWriteEnd, Req!TransportAborts, Req!Server, Req!ServerReadsFrame,
     Req!ServerReadsEnd, Req!ServerStops, Req!Terminated, Req!vars
<1>3. ASSUME pc' = "done", pc # "done" PROVE RequestPumpReturns
  <2>1. CASE RequestStep
    BY <1>3, <2>1 DEF RequestStep, Req!Producer, Req!Offer, Req!CloseChannel,
       Req!PumpReceive, Req!PumpSeesClose, Req!PumpKeepAlive, Req!PumpWriteFails,
       Req!PumpExit, Req!PumpEofFails, Req!DrainDiscards, Req!StartRequest,
       Req!TransportTakesFrame
  <2>2. CASE HandlerReads \/ HandlerEnds
    BY <1>3, <2>2 DEF HandlerReads, HandlerEnds, Req!ServerReadsFrame,
       Req!ServerReadsEnd, Req!ServerStops, reqVars
  <2>3. CASE RequestEnds \/ RequestBreaks
    BY <1>3, <2>3 DEF RequestEnds, RequestBreaks, Req!TransportSeesWriteEnd
  <2>4. CASE ConnectionLost \/ ContextCancelled \/ BodyClosed \/ ExchangeEnds
    BY <1>3, <2>4 DEF ConnectionLost, ContextCancelled, BodyClosed, Reset, ResetRequest,
       ExchangeEnds, Req!ExchangeEnds, Req!TransportAborts, reqVars
  <2>5. CASE \/ ResponseStep \/ ResponsePumpReturns \/ HandlerWrites
             \/ Terminated \/ UNCHANGED vars
    BY <1>3, <2>5 DEF ResponseStep, ResponsePumpReturns, HandlerWrites, Terminated,
       vars, reqVars
  <2> QED
    BY <1>3, <2>1, <2>2, <2>3, <2>4, <2>5 DEF Next
<1> QED
  BY <1>2, <1>3

\* A step of the call is one of the response half, of the server or of the client.
LEMMA ResponseSteps ==
  ASSUME [Next]_vars
  PROVE  /\ [RespP!Next]_(RespP!vars)
         /\ \/ RespP!Handler
            \/ \/ RespP!TransportAborts \/ RespP!Do \/ RespP!Pump \/ RespP!ConsumerTakes
               \/ UNCHANGED RespP!vars
<1>1. [RespP!Next]_(RespP!vars)
  BY StepResponse, SameResponseHalf
<1> QED
  BY <1>1 DEF RespP!Next, RespP!Terminated

\* What a step of the response half does to the heads, to the handler's end and
\* to the client's.
LEMMA ResponseIsFinal ==
  ASSUME HalvesInv, [Next]_vars
  PROVE  /\ sentHead # "none" => sentHead' = sentHead
         /\ call' = call
         /\ garbled => garbled'
         /\ handler = "panicked" => handler' = "panicked"
         /\ pump = "done" => pump' = "done" /\ result' = result
<1>1. [RespP!Next]_(RespP!vars)
  BY ResponseSteps
<1>2. RespP!TypeOK /\ RespP!WriterState /\ RespP!ClientState
  BY DEF HalvesInv
<1>3. garbled => garbled'
  BY <1>1, <1>2, RespP!Stays, ValuesAssumption, BoundsAssumption
<1>4. CASE RespP!Handler
  <2>1. /\ handler = "serving" /\ sentHead' \in {sentHead, head'}
        /\ head # "none" => head' = head
    BY <1>2, <1>4, RespP!HeadSteps, ValuesAssumption, BoundsAssumption
  <2>2. UNCHANGED <<call, pump, result>>
    BY <1>4, RespP!HandlerLeavesClient, ValuesAssumption, BoundsAssumption
  <2> QED
    BY <1>2, <1>3, <2>1, <2>2 DEF RespP!WriterState
<1>5. CASE \/ RespP!TransportAborts \/ RespP!Do \/ RespP!Pump \/ RespP!ConsumerTakes
           \/ UNCHANGED RespP!vars
  <2>1. UNCHANGED <<call, handler, sentHead>>
    BY <1>5, RespP!ClientLeavesWriter, ValuesAssumption, BoundsAssumption
  <2>2. pump = "done" => pump' = "done" /\ result' = result
    BY <1>2, <1>5 DEF RespP!TransportAborts, RespP!Do, RespP!DoStartsStream, RespP!DoReads,
       RespP!DoReadsBody, RespP!DoReturnsBody, RespP!DoFails, RespP!Pump, RespP!PumpReads,
       RespP!PumpReadsEnd, RespP!ConsumerTakes, RespP!vars, RespP!serverVars,
       RespP!wireVars, RespP!clientVars, RespP!ClientState
  <2> QED
    BY <1>3, <2>1, <2>2
<1> QED
  BY <1>4, <1>5, ResponseSteps

\* A unary body that cannot be decoded stays so: Do does not take it, and what
\* follows does not mend it.
LEMMA UndecodableStays ==
  ASSUME HalvesInv, [Next]_vars, sentHead = "unary", hand \in Undecodable
  PROVE  garbled' \/ hand' = hand
<1>1. hand # None /\ pump = "none"
  BY ValuesAssumption DEF HalvesInv, RespP!ClientState, RespP!TypeOK
<1>2. CASE RespP!Handler
  BY <1>2, RespP!HandlerLeavesClient, ValuesAssumption, BoundsAssumption
<1>3. ~RespP!Pump /\ ~RespP!ConsumerTakes
  BY <1>1 DEF RespP!Pump, RespP!PumpReads, RespP!PumpReadsEnd, RespP!ConsumerTakes
<1>4. CASE RespP!DoReads \/ RespP!DoReadsBody
  BY <1>1, <1>4 DEF RespP!DoReads, RespP!DoReadsBody
<1>5. CASE \/ RespP!TransportAborts \/ RespP!DoStartsStream \/ RespP!DoReturnsBody
           \/ RespP!DoFails \/ UNCHANGED RespP!vars
  BY <1>5 DEF RespP!TransportAborts, RespP!DoStartsStream, RespP!DoReturnsBody,
     RespP!DoFails, RespP!vars, RespP!clientVars
<1> QED
  BY <1>2, <1>3, <1>4, <1>5, ResponseSteps DEF RespP!Do

\* What has broken the call stays to be seen.
LEMMA CauseStays ==
  ASSUME HalvesInv, [Next]_vars, Cause
  PROVE  Cause'
<1>1. lost => lost'
  BY DEF Next, vars, sharedVars, RequestStep, RequestPumpReturns, ResponseStep,
     ResponsePumpReturns, HandlerReads, HandlerWrites, HandlerEnds, RequestEnds,
     RequestBreaks, ConnectionLost, ContextCancelled, BodyClosed, ExchangeEnds, Terminated
<1>2. CASE lost
  BY <1>1, <1>2 DEF Cause
<1>3. CASE handler = "panicked" \/ sentHead \in {"error", "empty"}
  BY <1>3, ResponseIsFinal DEF Cause
<1>4. CASE err = "marshal"
  BY <1>4, RequestErrorIsFinal DEF Cause
<1>5. CASE sentHead \in {"stream", "unary"} /\ sentHead # call
  BY <1>5, ResponseIsFinal DEF Cause
<1>6. CASE sentHead = "unary" /\ (garbled \/ hand \in Undecodable)
  <2>1. sentHead' = "unary" /\ (garbled' \/ hand' \in Undecodable)
    BY <1>6, UndecodableStays, ResponseIsFinal
  <2> QED
    BY <2>1 DEF Cause
<1> QED
  BY <1>2, <1>3, <1>4, <1>5, <1>6 DEF Cause
-----------------------------------------------------------------------------
(***************************************************************************)
(* What the halves and the group keep together.                            *)
(***************************************************************************)

\* A step that cuts the response is the panic of the handler, the loss of the
\* connection, the group's cancelling, or the failure of the request body, or
\* it is the client's that wants no more of the response.
LEMMA WhoCuts ==
  ASSUME [Next]_vars, respWireEnd # "aborted", respWireEnd' = "aborted"
  PROVE  \/ handler' = "panicked"
         \/ lost'
         \/ ctxFromGroup /\ groupErr # "none"
         \/ writeEnd = "closedWithError" /\ reader = "reading"
         \/ do = "failed" \/ pump = "done"
<1> USE DEF Resp!serverVars, Resp!writerVars, Resp!wireVars, Resp!clientVars
<1>1. CASE UNCHANGED respVars
  BY <1>1 DEF respVars
<1>2. CASE ResponseStep \/ ResponsePumpReturns
  BY <1>2 DEF ResponseStep, ResponsePumpReturns, Resp!Do, Resp!DoStartsStream,
     Resp!DoReads, Resp!DoReadsBody, Resp!DoReturnsBody, Resp!DoFails, Resp!PumpReads,
     Resp!PumpReadsEnd, Resp!ConsumerTakes
<1>3. CASE HandlerWrites
  BY <1>3 DEF HandlerWrites, Resp!WriteMessage, Resp!WriteOutput, Resp!WriteMessageFails,
     Resp!WriteEofMessage, Resp!WriteError
<1>4. CASE HandlerEnds
  BY <1>4 DEF HandlerEnds, Resp!HandlerReturns, Resp!WriteMessagePanics
<1>5. CASE RequestBreaks
  BY <1>5 DEF RequestBreaks, Req!TransportSeesWriteEnd
<1>6. CASE ConnectionLost \/ ContextCancelled
  BY <1>6 DEF ConnectionLost, ContextCancelled
<1>7. CASE BodyClosed
  BY <1>7 DEF BodyClosed, Reset, ResetResponse, Resp!TransportAborts
<1>8. CASE \/ RequestStep \/ RequestPumpReturns \/ HandlerReads \/ RequestEnds
           \/ ExchangeEnds \/ Terminated \/ UNCHANGED vars
  BY <1>1, <1>8 DEF RequestStep, RequestPumpReturns, HandlerReads, RequestEnds,
                    ExchangeEnds, Terminated, vars
<1> QED
  BY <1>2, <1>3, <1>4, <1>5, <1>6, <1>7, <1>8 DEF Next

\* The context given to Do is what it is.
LEMMA ContextStays == [Next]_vars => ctxFromGroup' = ctxFromGroup
  BY DEF Next, vars, sharedVars, RequestStep, RequestPumpReturns, ResponseStep,
     ResponsePumpReturns, HandlerReads, HandlerWrites, HandlerEnds, RequestEnds,
     RequestBreaks, ConnectionLost, ContextCancelled, BodyClosed, ExchangeEnds, Terminated

\* What the group has done to the call stays done.
LEMMA CutByGroupStays ==
  ASSUME HalvesInv, CallInv, [Next]_vars, CutByGroup
  PROVE  CutByGroup'
<1>1. pc' = "done" /\ err' = err /\ err # "nil"
  BY RequestErrorIsFinal DEF HalvesInv, ReqP!PumpState, CutByGroup
<1>2. groupErr' = groupErr
  <2>1. groupErr # "none" /\ pc = "done"
    BY DEF CallInv, GroupState, CutByGroup
  <2> QED
    BY <2>1 DEF Next, vars, sharedVars, RequestStep, RequestPumpReturns, GroupRecords,
       ResponseStep, ResponsePumpReturns, HandlerReads, HandlerWrites, HandlerEnds,
       RequestEnds, RequestBreaks, ConnectionLost, ContextCancelled, BodyClosed,
       ExchangeEnds, Terminated
<1> QED
  BY <1>1, <1>2, ContextStays DEF CutByGroup

\* A response is cut for a cause: an io.EOF that the group has does not cut it
\* unless the call uses the group's context.
LEMMA StepCutForCause ==
  ASSUME HalvesInv, CallInv, [Next]_vars
  PROVE  CutForCause'
<1> SUFFICES ASSUME respWireEnd' = "aborted"
             PROVE  Cause' \/ CutByGroup' \/ pump' = "done"
  BY DEF CutForCause
<1>1. /\ Cause => Cause'
      /\ CutByGroup => CutByGroup'
      /\ pump = "done" => pump' = "done"
  BY CauseStays, CutByGroupStays, ResponseIsFinal DEF CallInv
<1>2. CASE respWireEnd = "aborted"
  BY <1>1, <1>2 DEF CallInv, CutForCause
<1>3. CASE respWireEnd # "aborted"
  <2>1. CASE handler' = "panicked" \/ lost'
    BY <2>1 DEF Cause
  <2>2. CASE ctxFromGroup /\ groupErr # "none"
    BY <1>1, <2>2 DEF CallInv, GroupState, CutByGroup
  <2>3. CASE writeEnd = "closedWithError" /\ reader = "reading"
    <3>1. err = "marshal"
      BY <2>3 DEF CallInv, RequestErrors
    <3> QED
      BY <1>1, <3>1 DEF Cause
  <2>4. CASE do = "failed"
    BY <1>1, <2>4 DEF CallInv, BrokenForCause, OnlyBrokenIfCaused
  <2> QED
    BY <1>1, <1>3, <2>1, <2>2, <2>3, <2>4, WhoCuts
<1> QED
  BY <1>2, <1>3

\* Do fails, and the response goroutine returns an error of the transport, only
\* for a cause.
LEMMA StepBrokenForCause ==
  ASSUME HalvesInv, CallInv, [Next]_vars
  PROVE  BrokenForCause'
<1> SUFFICES ASSUME do' = "failed" \/ result' = "transport"
             PROVE  Cause' \/ CutByGroup'
  BY DEF BrokenForCause, OnlyBrokenIfCaused
<1>1. Cause \/ CutByGroup => Cause' \/ CutByGroup'
  BY CauseStays, CutByGroupStays DEF CallInv
<1>2. CASE do = "failed" \/ result = "transport"
  BY <1>1, <1>2 DEF CallInv, BrokenForCause, OnlyBrokenIfCaused
<1>3. respWireEnd = "aborted" => Cause \/ CutByGroup \/ pump = "done"
  BY DEF CallInv, CutForCause
<1>4. [Resp!Next]_(Resp!vars)
  BY StepResponse
<1> USE DEF Resp!serverVars, Resp!writerVars, Resp!wireVars, Resp!clientVars
<1>5. CASE Resp!DoFails
  <2>1. pump # "done" /\ do = "waiting"
    BY <1>5 DEF Resp!DoFails, HalvesInv, RespP!ClientState
  <2>2. sentHead \in {"error", "empty"} => Cause
    BY DEF Cause
  <2>3. sentHead \in {"stream", "unary"} /\ sentHead # call => Cause
    BY DEF Cause
  <2>4. sentHead = "unary" /\ (garbled \/ hand \in Undecodable) => Cause
    BY DEF Cause
  <2> QED
    BY <1>1, <1>3, <1>5, <2>1, <2>2, <2>3, <2>4 DEF Resp!DoFails, Resp!NoUsableResponse
<1>6. CASE Resp!PumpReadsEnd
  <2>1. pump # "done" /\ do' = do
    BY <1>6 DEF Resp!PumpReadsEnd
  <2>2. CASE do = "failed"
    BY <1>2, <2>2
  <2>3. CASE result' = "transport"
    BY <1>1, <1>3, <1>6, <2>1, <2>3
       DEF Resp!PumpReadsEnd, Resp!PumpReturns, Resp!BodyExhausted, Resp!BodyRead
  <2> QED
    BY <2>1, <2>2, <2>3
<1>7. CASE UNCHANGED <<do, result>>
  BY <1>2, <1>7
<1>8. CASE Resp!DoStartsStream \/ Resp!DoReads \/ Resp!DoReadsBody \/ Resp!DoReturnsBody
  BY <1>2, <1>8 DEF Resp!DoStartsStream, Resp!DoReads, Resp!DoReadsBody,
     Resp!DoReturnsBody
<1>9. CASE Resp!PumpReads
  BY <1>2, <1>9 DEF Resp!PumpReads, Resp!PumpReadsFrame, Resp!PumpMisreads,
     Resp!PumpReturns
<1>10. CASE \/ Resp!Handler \/ Resp!TransportAborts \/ Resp!ConsumerTakes
            \/ UNCHANGED Resp!vars
  BY <1>7, <1>10 DEF Resp!Handler, Resp!WriteMessage, Resp!WriteOutput,
     Resp!WriteMessageFails, Resp!WriteMessagePanics, Resp!WriteEofMessage,
     Resp!WriteError, Resp!HandlerReturns, Resp!TransportAborts, Resp!ConsumerTakes,
     Resp!vars
<1> QED
  BY <1>4, <1>5, <1>6, <1>8, <1>9, <1>10
     DEF Resp!Next, Resp!Do, Resp!Pump, Resp!Terminated

\* The group's error is what one of the goroutines that have returned returned.
LEMMA StepGroupState ==
  ASSUME HalvesInv, CallInv, [Next]_vars
  PROVE  GroupState'
<1>1. /\ pc = "done" => pc' = "done" /\ err' = err
      /\ pump = "done" => pump' = "done" /\ result' = result
  BY RequestErrorIsFinal, ResponseIsFinal DEF HalvesInv, ReqP!PumpState
<1>2. CASE RequestPumpReturns
  <2>1. pc' = "done" /\ err' = err /\ err \in {"EOF", "marshal", "closedPipe"}
    BY <1>2 DEF RequestPumpReturns, Req!DrainEnds, HalvesInv, ReqP!TypeOK, ReqP!PumpState
  <2>2. groupErr' = IF groupErr = "none" THEN err ELSE groupErr
    BY <1>2 DEF RequestPumpReturns, GroupRecords
  <2> QED
    BY <1>1, <2>1, <2>2 DEF CallInv, GroupState
<1>3. CASE ResponsePumpReturns
  <2>1. /\ pump' = "done" /\ UNCHANGED <<pc, err>>
        /\ result' \in {"nil", "EOF", "unmarshal", "transport"}
    BY <1>3 DEF ResponsePumpReturns, Resp!PumpReads, Resp!PumpReadsFrame,
       Resp!PumpMisreads, Resp!PumpReadsEnd, Resp!PumpReturns, reqVars
  <2>2. groupErr' = IF groupErr # "none" THEN groupErr
                    ELSE IF result' = "nil" THEN "none" ELSE result'
    BY <1>3 DEF ResponsePumpReturns, GroupRecords
  <2> QED
    BY <1>1, <2>1, <2>2 DEF CallInv, GroupState
<1>4. CASE ~RequestPumpReturns /\ ~ResponsePumpReturns
  <2>1. groupErr' = groupErr
    BY <1>4 DEF Next, vars, sharedVars, RequestStep, ResponseStep, HandlerReads,
       HandlerWrites, HandlerEnds, RequestEnds, RequestBreaks, ConnectionLost,
       ContextCancelled, BodyClosed, ExchangeEnds, Terminated
  <2>2. pc' = "done" => pc = "done"
    BY <1>4, RequestErrorIsFinal
  <2> QED
    BY <1>1, <2>1, <2>2 DEF CallInv, GroupState
<1> QED
  BY <1>2, <1>3, <1>4
-----------------------------------------------------------------------------
(***************************************************************************)
(* The invariant holds, and the theorems about the call.                   *)
(***************************************************************************)

\* The invariant holds initially.
LEMMA InitCallInv == Init => CallInv
  BY DEF Init, Req!Init, Resp!Init, CallInv, RequestErrors, CutForCause,
         GroupState, BrokenForCause, OnlyBrokenIfCaused

\* Every step of the call keeps it.
LEMMA StepCallInv == HalvesInv /\ CallInv /\ [Next]_vars => CallInv'
  BY StepRequestErrors, StepCutForCause, StepGroupState, StepBrokenForCause DEF CallInv

\* The invariant of the call is one.
THEOREM Invariance == Spec => [](HalvesInv /\ CallInv)
<1>1. ReqP!IndInv /\ RespP!IndInv => HalvesInv
  BY DEF ReqP!IndInv, RespP!IndInv, HalvesInv
<1> QED
  BY <1>1, InitCallInv, StepCallInv, HalvesInvariance, PTL DEF Spec

\* A call breaks for a cause, or because it uses the context of the group to
\* which its own request goroutine has returned first: an error, or the io.EOF
\* that only says that the request channel was closed.
THEOREM BreaksForCauseOrByGroup ==
  Spec => [](OnlyBrokenIfCaused \/ (ctxFromGroup /\ pc = "done" /\ groupErr = err))
<1>1. CallInv => OnlyBrokenIfCaused \/ (ctxFromGroup /\ pc = "done" /\ groupErr = err)
  BY DEF CallInv, BrokenForCause, CutByGroup
<1> QED
  BY <1>1, Invariance, PTL

\* Closing the request channel breaks no response: if the context given to Do
\* is not the group's, Do and the response goroutine fail only if the
\* connection, the handler or the marshalling of a value did.
THEOREM HalfCloseIsHarmless == Spec => []HalfCloseKeepsResponse
<1>1. CallInv => HalfCloseKeepsResponse
  BY DEF CallInv, BrokenForCause, CutByGroup, HalfCloseKeepsResponse
<1> QED
  BY <1>1, Invariance, PTL

\* g.Wait reports a request stream that was cut short, with the goroutine's
\* error or with the one of the response goroutine that came first.
THEOREM CutRequestsAreReported == Spec => []CutRequestIsReported
<1>1. HalvesInv /\ CallInv => CutRequestIsReported
  <2> SUFFICES ASSUME HalvesInv, CallInv, WaitReturns, err # "EOF"
               PROVE  ~Ignorable \/ result = "EOF"
    BY DEF CutRequestIsReported
  <2>1. pc = "done" /\ err \in {"marshal", "closedPipe"}
    BY DEF WaitReturns, HalvesInv, ReqP!TypeOK, ReqP!PumpState
  <2> QED
    BY <2>1 DEF CallInv, GroupState, Ignorable
<1> QED
  BY <1>1, Invariance, PTL

\* In the whole call, too, each side is told that a stream is complete only if
\* it has every value that was sent: the handler with io.EOF, the consumer with
\* the response goroutine's nil (unless a value was too long for the client, or the
\* handler put something else between them).
THEOREM EndsAreTrue == Spec => [](Req!CleanEndIsComplete /\ Resp!CleanResultIsComplete)
<1>1. ReqP!IndInv => Req!CleanEndIsComplete
  BY DEF ReqP!IndInv, ReqP!CleanEndIsComplete, Req!CleanEndIsComplete
<1>2. RespP!IndInv => Resp!CleanResultIsComplete
  BY DEF RespP!IndInv, RespP!CleanResultIsComplete, RespP!CutShort,
         Resp!CleanResultIsComplete, Resp!CutShort
<1> QED
  BY <1>1, <1>2, HalvesInvariance, PTL

\* What a receiver has is what the sender gave, up to a point, in order and each
\* once.
Begins(s, t) == Len(s) <= Len(t) /\ \A i \in 1..Len(s) : s[i] = t[i]

\* The consumer's values grow by those of the response, and only up to what is
\* garbled.
LEMMA StepDelivered ==
  ASSUME RespP!IndInv, RespP!IndInv', Begins(delivered, written), [Next]_vars
  PROVE  Begins(delivered, written)'
<1>1. [RespP!Next]_(RespP!vars)
  BY ResponseSteps
<1>2. RespP!TypeOK /\ RespP!WriterState
  BY DEF RespP!IndInv
<1>3. /\ written' \in Seq(Data) /\ delivered' \in Seq(Data)
      /\ Len(written') \in Nat /\ Len(delivered') \in Nat
  BY DEF RespP!IndInv, RespP!TypeOK
<1>4. CASE delivered' = delivered
  <2>1. /\ Len(written') >= Len(written)
        /\ \A i \in 1..Len(written) : written'[i] = written[i]
    BY <1>1, <1>2, RespP!WrittenGrows, ValuesAssumption, BoundsAssumption
  <2>2. Len(written) \in Nat /\ Len(delivered) \in Nat
    BY <1>2 DEF RespP!TypeOK
  <2>3. Begins(delivered, written')
    BY <1>3, <2>1, <2>2 DEF Begins
  <2> QED
    BY <1>4, <2>3 DEF Begins
<1>5. CASE ~garbled'
  <2>1. CASE head' = "unary"
    <3>1. delivered' = written' \/ delivered' = <<>>
      BY <1>5, <2>1 DEF RespP!IndInv, RespP!UnaryState
    <3> QED
      BY <1>3, <3>1 DEF Begins
  <2>2. CASE head' # "unary"
    <3>1. /\ RespP!Got' <= Len(written')
          /\ \A i \in 1..Len(delivered') : delivered'[i] = written'[i]
      BY <1>5, <2>2 DEF RespP!IndInv, RespP!StreamState
    <3> QED
      BY <1>3, <3>1 DEF RespP!Got, Begins
  <2> QED
    BY <2>1, <2>2
<1>6. CASE delivered' # delivered /\ garbled'
  <2>1. ~RespP!Handler
    BY <1>6, RespP!HandlerLeavesClient, ValuesAssumption, BoundsAssumption
  <2>2. FALSE
    BY <1>6, <2>1, ResponseSteps DEF RespP!TransportAborts, RespP!Do,
       RespP!DoStartsStream, RespP!DoReads, RespP!DoReadsBody, RespP!DoReturnsBody,
       RespP!DoFails, RespP!Pump, RespP!PumpReads, RespP!PumpReadsEnd,
       RespP!ConsumerTakes, RespP!vars, RespP!clientVars
  <2> QED
    BY <2>2
<1> QED
  BY <1>4, <1>5, <1>6

\* However the two halves, the exchange and the group's cancelling interleave,
\* neither side gets a value that was not sent, one twice, or one out of order (in
\* a garbled response: up to where it is garbled).
THEOREM DeliveredInOrder == Spec => [](Begins(received, sent) /\ Begins(delivered, written))
<1>1. ReqP!IndInv => Begins(received, sent)
  BY DEF ReqP!IndInv, ReqP!ReceivedIsPrefix, Begins
<1>2. Init => Begins(delivered, written)
  BY DEF Init, Resp!Init, Begins
<1>3. RespP!IndInv /\ RespP!IndInv' /\ Begins(delivered, written) /\ [Next]_vars
        => Begins(delivered, written)'
  BY StepDelivered
<1> QED
  BY <1>1, <1>2, <1>3, HalvesInvariance, PTL DEF Spec

\* In the whole call, too, what the caller and the handler observe of the
\* request stream is a MessageStream.
THEOREM RequestRefinement == Spec => Req!ImplementsMessageStream
<1>1. ReqP!Spec => ReqP!ImplementsMessageStream
  BY ValuesAssumption, BoundsAssumption, ReqP!Refinement
<1>2. /\ ReqP!Abstract!Init => Req!Abstract!Init
      /\ [ReqP!Abstract!Next]_(ReqP!Abstract!vars) => [Req!Abstract!Next]_(Req!Abstract!vars)
  BY DEF ReqP!AbstractOutcome, Req!AbstractOutcome, ReqP!Abstract!Init,
         Req!Abstract!Init, ReqP!Abstract!vars, Req!Abstract!vars,
         ReqP!Abstract!Next, Req!Abstract!Next, ReqP!Abstract!Send,
         Req!Abstract!Send, ReqP!Abstract!Close, Req!Abstract!Close,
         ReqP!Abstract!Deliver, Req!Abstract!Deliver,
         ReqP!Abstract!Complete, Req!Abstract!Complete, ReqP!Abstract!Fail,
         Req!Abstract!Fail
<1> QED
  BY <1>1, <1>2, CallIsBothHalves, PTL
     DEF ReqP!ImplementsMessageStream, ReqP!Abstract!Spec,
         Req!ImplementsMessageStream, Req!Abstract!Spec

\* In the whole call, too, what the handler and the consumer observe of the
\* response is a MessageStream.
THEOREM ResponseRefinement == Spec => Resp!ImplementsMessageStream
<1>1. RespP!Spec => RespP!ImplementsMessageStream
  BY ValuesAssumption, BoundsAssumption, RespP!Refinement
<1>2. /\ RespP!Abstract!Init => Resp!Abstract!Init
      /\ [RespP!Abstract!Next]_(RespP!Abstract!vars) => [Resp!Abstract!Next]_(Resp!Abstract!vars)
  BY DEF RespP!AbstractOutcome, Resp!AbstractOutcome, RespP!CutShort,
         Resp!CutShort, RespP!Abstract!Init, Resp!Abstract!Init,
         RespP!Abstract!vars, Resp!Abstract!vars, RespP!Abstract!Next,
         Resp!Abstract!Next, RespP!Abstract!Send, Resp!Abstract!Send,
         RespP!Abstract!Close, Resp!Abstract!Close, RespP!Abstract!Deliver,
         Resp!Abstract!Deliver, RespP!Abstract!Complete,
         Resp!Abstract!Complete, RespP!Abstract!Fail, Resp!Abstract!Fail
<1> QED
  BY <1>1, <1>2, CallIsBothHalves, PTL
     DEF RespP!ImplementsMessageStream, RespP!Abstract!Spec,
         Resp!ImplementsMessageStream, Resp!Abstract!Spec
-----------------------------------------------------------------------------
(***************************************************************************)
(* A request goroutine that fails.  It closes its pipe with the error, and *)
(* the transport that finds it so cuts the response, unless the response   *)
(* has ended by then.                                                      *)
(***************************************************************************)
RequestFailed == err \notin {"nil", "EOF"}

FailureState ==
  /\ pc \in {"select", "write", "exit", "writeEof"} => writeEnd = "open"
  /\ RequestFailed /\ pc # "exit" => writeEnd = "closedWithError"
  /\ reader = "closed" /\ writeEnd # "closed" => respWireEnd # "open"

\* What the halves' invariants say of it.
RequestEndInv == ReqP!TypeOK /\ ReqP!PumpState /\ ReqP!EndState
ResponseEndInv == RespP!TypeOK /\ RespP!EndState

\* They hold in the whole call.
LEMMA EndsInvariance == Spec => [](RequestEndInv /\ ResponseEndInv /\ ReqP!IndInv /\ RespP!IndInv)
<1>1. ReqP!IndInv => RequestEndInv
  BY DEF ReqP!IndInv, RequestEndInv
<1>2. RespP!IndInv => ResponseEndInv
  BY DEF RespP!IndInv, ResponseEndInv
<1> QED
  BY <1>1, <1>2, HalvesInvariance, PTL

\* A response that has ended has ended.
LEMMA ResponseEndStays == respWireEnd # "open" /\ [Next]_vars => respWireEnd' # "open"
<1> SUFFICES ASSUME respWireEnd # "open", [Resp!Next]_(Resp!vars) PROVE respWireEnd' # "open"
  BY StepResponse
<1> QED
  BY DEF Resp!Next, Resp!Handler, Resp!WriteMessage, Resp!WriteOutput, Resp!WriteMessageFails,
     Resp!WriteMessagePanics, Resp!WriteEofMessage, Resp!WriteError, Resp!HandlerReturns,
     Resp!TransportAborts, Resp!Do, Resp!DoStartsStream, Resp!DoReads, Resp!DoReadsBody, Resp!DoReturnsBody,
     Resp!DoFails, Resp!Pump, Resp!PumpReads, Resp!PumpReadsEnd, Resp!ConsumerTakes,
     Resp!Terminated, Resp!vars, Resp!serverVars, Resp!wireVars, Resp!clientVars, Resp!writerVars

\* A step that closes the read end of the pipe found its write end closed in
\* order, or leaves a response that has ended.
LEMMA WhoClosesReader ==
  ASSUME ResponseEndInv, [Next]_vars, reader # "closed", reader' = "closed"
  PROVE  writeEnd' = "closed" \/ respWireEnd' # "open"
<1>1. CASE RequestStep
  BY <1>1 DEF RequestStep, Req!Producer, Req!Offer, Req!CloseChannel, Req!PumpReceive,
     Req!PumpSeesClose, Req!PumpKeepAlive, Req!PumpWriteFails, Req!PumpExit, Req!PumpEofFails,
     Req!DrainDiscards, Req!StartRequest, Req!TransportTakesFrame, Req!pumpVars,
     Req!transportVars
<1>2. CASE RequestPumpReturns
  BY <1>2 DEF RequestPumpReturns, Req!DrainEnds, Req!transportVars
<1>3. CASE HandlerReads
  BY <1>3 DEF HandlerReads, Req!ServerReadsFrame, Req!ServerReadsEnd, Req!transportVars
<1>4. CASE HandlerEnds
  BY <1>4 DEF HandlerEnds, Req!ServerStops, Req!transportVars, reqVars
<1>5. CASE RequestEnds
  BY <1>5 DEF RequestEnds, Req!TransportSeesWriteEnd
<1>6. CASE RequestBreaks \/ ConnectionLost \/ ContextCancelled \/ BodyClosed
  <2>1. ResetResponse
    BY <1>6 DEF RequestBreaks, ConnectionLost, ContextCancelled, BodyClosed, Reset
  <2> QED
    BY <2>1 DEF ResetResponse, Resp!TransportAborts, respVars
<1>7. CASE ExchangeEnds
  <2>1. handler # "serving" /\ respWireEnd' = respWireEnd
    BY <1>7 DEF ExchangeEnds, respVars
  <2> QED
    BY <2>1 DEF ResponseEndInv, RespP!EndState
<1>8. CASE ResponseStep \/ ResponsePumpReturns \/ HandlerWrites \/ Terminated \/ UNCHANGED vars
  BY <1>8 DEF ResponseStep, ResponsePumpReturns, HandlerWrites, Terminated, vars, reqVars
<1> QED
  BY <1>1, <1>2, <1>3, <1>4, <1>5, <1>6, <1>7, <1>8 DEF Next

\* What a step does to the goroutine and its end of the pipe.
LEMMA WriteEndStep ==
  ASSUME RequestEndInv, FailureState, [Next]_vars
  PROVE  /\ writeEnd # "open" => writeEnd' = writeEnd
         /\ pc' \in {"select", "write", "exit", "writeEof"} => writeEnd' = "open"
         /\ RequestFailed => RequestFailed'
         /\ RequestFailed' /\ pc' # "exit" => writeEnd' = "closedWithError"
<1>1. [Req!Next]_(Req!vars)
  BY StepRequest
<1> USE DEF Req!producerVars, Req!pumpVars, Req!transportVars, Req!handlerVars, RequestFailed,
        RequestEndInv, ReqP!PumpState, ReqP!EndState, ReqP!TypeOK, FailureState
<1>2. CASE Req!Producer
  BY <1>2 DEF Req!Producer, Req!Offer, Req!CloseChannel
<1>3. CASE Req!Pump
  <2>1. CASE Req!PumpReceive \/ Req!PumpSeesClose \/ Req!PumpKeepAlive \/ Req!PumpWriteFails
    BY <2>1 DEF Req!PumpReceive, Req!PumpSeesClose, Req!PumpKeepAlive, Req!PumpWriteFails
  <2>2. CASE Req!PumpExit \/ Req!PumpEofFails
    BY <2>2 DEF Req!PumpExit, Req!PumpEofFails
  <2>3. CASE Req!DrainDiscards \/ Req!DrainEnds
    BY <2>3 DEF Req!DrainDiscards, Req!DrainEnds
  <2> QED
    BY <1>3, <2>1, <2>2, <2>3 DEF Req!Pump
<1>4. CASE Req!Transport
  BY <1>4 DEF Req!Transport, Req!StartRequest, Req!BuildFails, Req!TransportTakesFrame,
     Req!TransportSeesWriteEnd, Req!TransportAborts
<1>5. CASE Req!Server \/ Req!Terminated \/ UNCHANGED Req!vars
  BY <1>5 DEF Req!Server, Req!ServerReadsFrame, Req!ServerReadsEnd, Req!ServerStops,
     Req!Terminated, Req!vars
<1> QED
  BY <1>1, <1>2, <1>3, <1>4, <1>5 DEF Req!Next

\* A reader that has closed stays closed.
LEMMA ReaderEndStays == reader = "closed" /\ [Next]_vars => reader' = "closed"
<1> SUFFICES ASSUME reader = "closed", [Req!Next]_(Req!vars) PROVE reader' = "closed"
  BY StepRequest
<1> QED
  BY DEF Req!Next, Req!Producer, Req!Offer, Req!CloseChannel, Req!Pump, Req!PumpReceive,
     Req!PumpSeesClose, Req!PumpKeepAlive, Req!PumpWriteFails, Req!PumpExit, Req!PumpEofFails,
     Req!DrainDiscards, Req!DrainEnds, Req!Transport, Req!StartRequest, Req!BuildFails,
     Req!TransportTakesFrame, Req!TransportSeesWriteEnd, Req!TransportAborts, Req!Server,
     Req!ServerReadsFrame, Req!ServerReadsEnd, Req!ServerStops, Req!Terminated, Req!vars,
     Req!producerVars, Req!pumpVars, Req!transportVars, Req!handlerVars

\* A reader that is closed and a write end that is not closed in order: the
\* response has ended.
LEMMA StepFailureState ==
  RequestEndInv /\ ResponseEndInv /\ FailureState /\ [Next]_vars => FailureState'
<1> SUFFICES ASSUME RequestEndInv, ResponseEndInv, FailureState, [Next]_vars
             PROVE  FailureState'
  OBVIOUS
<1>1. (reader = "closed" /\ writeEnd # "closed" => respWireEnd # "open")'
  <2> SUFFICES ASSUME reader' = "closed", writeEnd' # "closed"
               PROVE  respWireEnd' # "open"
    OBVIOUS
  <2>1. CASE reader = "closed"
    BY <2>1, WriteEndStep, ResponseEndStays DEF FailureState
  <2>2. CASE reader # "closed"
    BY <2>2, WhoClosesReader
  <2> QED
    BY <2>1, <2>2
<1> QED
  BY <1>1, WriteEndStep DEF FailureState

\* What the call's liveness rests on, is an invariant of it.
LEMMA FailureInvariance ==
  Spec => [](RequestEndInv /\ ResponseEndInv /\ FailureState)
<1>1. Init => FailureState
  BY DEF Init, Req!Init, FailureState, RequestFailed
<1> QED
  BY <1>1, StepFailureState, EndsInvariance, PTL DEF Spec
-----------------------------------------------------------------------------
(***************************************************************************)
(* Deadlock.  In the call the handler both reads and writes, the exchange  *)
(* ends when the handler does, and the client closes a response it has     *)
(* given up; a cycle of goroutines, each waiting for the next, could run   *)
(* through both halves.                                                    *)
(***************************************************************************)

\* The handler's part in the two halves ends at once, and a unary call's Do has
\* its result only when the handler has returned.
HandlerEndState ==
  /\ handler # "serving" => outcome # "open"
  /\ do = "decoded" \/ (do = "ok" /\ pump = "none") => handler # "serving"

\* Who can go on, on the client: the request goroutine, the transport that reads
\* its pipe, Do, the response goroutine and its consumer.
RequestPumpCanGoOn ==
  \/ pc \in {"select", "drain"} /\ (offer # None \/ chanClosed)
  \/ pc = "exit"
  \/ pc \in {"write", "writeEof"} /\ reader = "closed"
RequestCanStart == reader = "unused"
FrameCanBeTaken ==
  pc \in {"write", "writeEof"} /\ reader = "reading" /\ Len(reqWire) < WireCap
ClientCanGoOn == RespP!DoCanGoOn \/ RespP!PumpCanGoOn \/ RespP!ConsumerCanTake

\* And of the exchange: the handler returns, the transport stops reading a request
\* whose response is complete, the client closes a response it has given up.
HandlerCanReturn == HandlerRuns /\ RespP!HandlerCanReturn
ExchangeCanEnd == handler # "serving" /\ outcome # "open" /\ reader = "reading"
BodyCanBeClosed ==
  (do = "failed" \/ pump = "done") /\ respWireEnd = "open" /\ reader # "unused"

\* A sender is blocked, or g.Wait is to return, or the consumer is to see the end.
CallerWaits == offer # None \/ (chanClosed /\ pc # "done") \/ ~Resp!ClientDone

NobodyStuck ==
  CallerWaits => \/ RequestPumpCanGoOn \/ RequestCanStart \/ FrameCanBeTaken
                 \/ ClientCanGoOn \/ HandlerCanReturn \/ ExchangeCanEnd \/ BodyCanBeClosed

\* A handler that has returned or panicked has done so for good, in one step.
LEMMA HandlerEndsOnce ==
  ASSUME [Next]_vars
  PROVE  /\ handler # "serving" => handler' = handler
         /\ handler = "serving" /\ handler' # "serving" => HandlerEnds
<1>1. [Resp!Next]_(Resp!vars)
  BY StepResponse
<1>2. handler # "serving" => handler' = handler
  BY <1>1 DEF Resp!Next, Resp!Handler, Resp!WriteMessage, Resp!WriteOutput,
     Resp!WriteMessageFails, Resp!WriteMessagePanics, Resp!WriteEofMessage, Resp!WriteError,
     Resp!HandlerReturns, Resp!TransportAborts, Resp!Do, Resp!DoStartsStream, Resp!DoReads, Resp!DoReadsBody,
     Resp!DoReturnsBody, Resp!DoFails, Resp!Pump, Resp!PumpReads, Resp!PumpReadsEnd,
     Resp!ConsumerTakes, Resp!Terminated, Resp!vars, Resp!serverVars, Resp!wireVars,
     Resp!clientVars
<1>3. HandlerEnds \/ handler' = handler
  <2>1. CASE HandlerWrites
    BY <2>1 DEF HandlerWrites, Resp!WriteMessage, Resp!WriteOutput, Resp!WriteMessageFails,
       Resp!WriteEofMessage, Resp!WriteError
  <2>2. CASE ResponseStep \/ ResponsePumpReturns
    BY <2>2 DEF ResponseStep, ResponsePumpReturns, Resp!Do, Resp!DoStartsStream,
       Resp!DoReads, Resp!DoReadsBody, Resp!DoReturnsBody, Resp!DoFails, Resp!ConsumerTakes, Resp!PumpReads,
       Resp!PumpReadsEnd, Resp!serverVars
  <2>3. CASE RequestBreaks \/ ConnectionLost \/ ContextCancelled \/ BodyClosed
    BY <2>3 DEF RequestBreaks, ConnectionLost, ContextCancelled, BodyClosed, Reset,
       ResetResponse, Resp!TransportAborts, Resp!serverVars, respVars
  <2>4. CASE UNCHANGED respVars
    BY <2>4 DEF respVars
  <2> QED
    BY <2>1, <2>2, <2>3, <2>4 DEF Next, RequestStep, RequestPumpReturns, HandlerReads,
       RequestEnds, ExchangeEnds, Terminated, vars
<1> QED
  BY <1>2, <1>3

\* Reading that has ended has ended.
LEMMA OutcomeStays == outcome # "open" /\ [Next]_vars => outcome' # "open"
<1> SUFFICES ASSUME outcome # "open", [Req!Next]_(Req!vars) PROVE outcome' # "open"
  BY StepRequest
<1> QED
  BY DEF Req!Next, Req!Producer, Req!Offer, Req!CloseChannel, Req!Pump, Req!PumpReceive,
     Req!PumpSeesClose, Req!PumpKeepAlive, Req!PumpWriteFails, Req!PumpExit, Req!PumpEofFails,
     Req!DrainDiscards, Req!DrainEnds, Req!Transport, Req!StartRequest, Req!BuildFails,
     Req!TransportTakesFrame, Req!TransportSeesWriteEnd, Req!TransportAborts, Req!Server,
     Req!ServerReadsFrame, Req!ServerReadsEnd, Req!ServerStops, Req!Terminated, Req!vars,
     Req!producerVars, Req!pumpVars, Req!transportVars, Req!handlerVars

\* Every step keeps what is said of the handler's end.
LEMMA StepHandlerEndState ==
  ResponseEndInv /\ HandlerEndState /\ [Next]_vars => HandlerEndState'
<1> SUFFICES ASSUME ResponseEndInv, HandlerEndState, [Next]_vars PROVE HandlerEndState'
  OBVIOUS
<1>1. handler' # "serving" => outcome' # "open"
  <2>1. HandlerEnds => outcome' # "open"
    BY OutcomeStays DEF HandlerEnds, Req!ServerStops, reqVars
  <2> QED
    BY <2>1, HandlerEndsOnce, OutcomeStays DEF HandlerEndState
<1>2. do' = "decoded" \/ (do' = "ok" /\ pump' = "none") => handler' # "serving"
  <2> SUFFICES ASSUME do' = "decoded" \/ (do' = "ok" /\ pump' = "none")
               PROVE  handler # "serving"
    BY HandlerEndsOnce
  <2>1. [Resp!Next]_(Resp!vars)
    BY StepResponse
  <2>2. CASE do' = do /\ pump' = pump
    BY <2>2 DEF HandlerEndState
  <2>3. CASE Resp!Do
    BY <2>3 DEF Resp!Do, Resp!DoStartsStream, Resp!DoReads, Resp!DoReadsBody, Resp!DoReturnsBody,
       Resp!DoFails, Resp!BodyRead, ResponseEndInv, RespP!EndState, HandlerEndState
  <2>4. CASE Resp!PumpReads \/ Resp!PumpReadsEnd \/ Resp!ConsumerTakes
    BY <2>4 DEF Resp!PumpReads, Resp!PumpReadsFrame, Resp!PumpMisreads, Resp!PumpReadsEnd,
       Resp!PumpReturns, Resp!ConsumerTakes, HandlerEndState
  <2> QED
    BY <2>1, <2>2, <2>3, <2>4 DEF Resp!Next, Resp!Pump, Resp!Handler, Resp!WriteMessage,
       Resp!WriteOutput, Resp!WriteMessageFails, Resp!WriteMessagePanics, Resp!WriteEofMessage,
       Resp!WriteError, Resp!HandlerReturns, Resp!TransportAborts, Resp!Terminated,
       Resp!vars, Resp!clientVars
<1> QED
  BY <1>1, <1>2 DEF HandlerEndState

\* What the absence of deadlock rests on.
GoesOnInv ==
  /\ ReqP!IndInv /\ RespP!IndInv
  /\ HandlerEndState /\ reader # "abandoned"

\* In every state that it allows somebody can go on.
LEMMA CallGoesOn == GoesOnInv => NobodyStuck
<1> SUFFICES ASSUME GoesOnInv, CallerWaits, ~RequestPumpCanGoOn, ~RequestCanStart,
                    ~FrameCanBeTaken, ~ClientCanGoOn, ~ExchangeCanEnd, ~BodyCanBeClosed
             PROVE  HandlerCanReturn
  BY DEF NobodyStuck
<1>1. reader \in {"reading", "closed"}
  BY DEF GoesOnInv, ReqP!IndInv, ReqP!TypeOK, RequestCanStart
<1>2. CASE ~Resp!ClientDone
  <2>1. ~RespP!ClientDone
    BY <1>2 DEF Resp!ClientDone, RespP!ClientDone
  <2>2. RespP!HandlerCanReturn
    BY <2>1, RespP!Progress, ValuesAssumption, BoundsAssumption
       DEF GoesOnInv, RespP!NobodyStuck, ClientCanGoOn
  <2> QED
    BY <1>1, <2>2 DEF HandlerCanReturn, HandlerRuns, RespP!HandlerCanReturn
<1>3. CASE Resp!ClientDone
  <2>1. pc \in {"write", "writeEof"} /\ reader = "reading"
    BY <1>1, <1>3 DEF GoesOnInv, ReqP!IndInv, ReqP!TypeOK, ReqP!PumpState,
       CallerWaits, RequestPumpCanGoOn
  <2>2. handler = "serving"
    BY <2>1 DEF GoesOnInv, HandlerEndState, ExchangeCanEnd
  <2>3. do = "failed" \/ pump = "done"
    BY <1>3, <2>2 DEF Resp!ClientDone, GoesOnInv, HandlerEndState
  <2>4. respWireEnd = "aborted"
    BY <2>1, <2>2, <2>3 DEF BodyCanBeClosed, GoesOnInv, RespP!EndState, RespP!IndInv,
       RespP!TypeOK
  <2> QED
    BY <2>1, <2>2, <2>4 DEF HandlerCanReturn, HandlerRuns, RespP!HandlerCanReturn
<1> QED
  BY <1>2, <1>3

\* Nobody abandons the read end: Do of a streaming call hands it to the HTTP
\* client.
LEMMA ReaderIsKept == Spec => [](reader # "abandoned")
<1>1. Init => reader # "abandoned"
  BY DEF Init, Req!Init
<1>2. reader # "abandoned" /\ [Next]_vars => (reader # "abandoned")'
  <2> SUFFICES ASSUME reader # "abandoned", [Req!Next]_(Req!vars) PROVE reader' # "abandoned"
    BY StepRequest
  <2> QED
    BY DEF Req!Next, Req!Producer, Req!Offer, Req!CloseChannel, Req!Pump, Req!PumpReceive,
     Req!PumpSeesClose, Req!PumpKeepAlive, Req!PumpWriteFails, Req!PumpExit, Req!PumpEofFails,
     Req!DrainDiscards, Req!DrainEnds, Req!Transport, Req!StartRequest, Req!BuildFails,
     Req!TransportTakesFrame, Req!TransportSeesWriteEnd, Req!TransportAborts, Req!Server,
     Req!ServerReadsFrame, Req!ServerReadsEnd, Req!ServerStops, Req!Terminated, Req!vars,
     Req!producerVars, Req!pumpVars, Req!transportVars, Req!handlerVars
<1> QED
  BY <1>1, <1>2, PTL DEF Spec

\* No deadlock: while a sender is blocked, or a goroutine of the call has still to
\* return, it is never the case that the request goroutine waits for the transport,
\* the transport for the handler, the handler for the consumer of the response, and
\* that one for the handler.  Neither half alone excludes it.
THEOREM NoDeadlock == Spec => []NobodyStuck
<1>1. Init => HandlerEndState
  BY DEF Init, Resp!Init, Req!Init, HandlerEndState
<1>2. RequestEndInv /\ ResponseEndInv /\ ReqP!IndInv /\ RespP!IndInv /\ HandlerEndState
        /\ reader # "abandoned" => GoesOnInv
  BY DEF GoesOnInv, ResponseEndInv
<1> QED
  BY <1>1, <1>2, StepHandlerEndState, EndsInvariance, ReaderIsKept, CallGoesOn, PTL DEF Spec

\* How much is at most left to do: in the halves, and that the connection may be
\* lost once.
CallRank == ReqP!Rank + RespP!Rank + (IF lost THEN 0 ELSE 1)

\* While a sender waits, or g.Wait for the request goroutine, whatever happens
\* lowers the rank, unless it ends the waiting.
CallRankFalls == ReqP!Waiting /\ ReqP!Waiting' => CallRank' < CallRank

\* A connection that was lost stays lost, and is all that a step can change which
\* leaves both halves alone.
LEMMA StepsMoveAHalf ==
  ASSUME [Next]_vars
  PROVE  /\ lost \in BOOLEAN => lost' \in BOOLEAN
         /\ lost => lost'
         /\ UNCHANGED <<reqVars, respVars>> => UNCHANGED vars \/ (~lost /\ lost')
<1>0. lost' = lost \/ lost' = TRUE
  BY DEF Next, vars, sharedVars, RequestStep, RequestPumpReturns, ResponseStep,
     ResponsePumpReturns, HandlerReads, HandlerWrites, HandlerEnds, RequestEnds,
     RequestBreaks, ConnectionLost, ContextCancelled, BodyClosed, ExchangeEnds, Terminated
<1>1. lost => lost'
  BY DEF Next, vars, sharedVars, RequestStep, RequestPumpReturns, ResponseStep,
     ResponsePumpReturns, HandlerReads, HandlerWrites, HandlerEnds, RequestEnds,
     RequestBreaks, ConnectionLost, ContextCancelled, BodyClosed, ExchangeEnds, Terminated
<1>2. ASSUME UNCHANGED <<reqVars, respVars>> PROVE UNCHANGED vars \/ (~lost /\ lost')
  <2>1. CASE RequestPumpReturns \/ ResponsePumpReturns
    BY <1>2, <2>1 DEF RequestPumpReturns, ResponsePumpReturns, reqVars, respVars,
       Req!DrainEnds, Resp!PumpReads, Resp!PumpReadsEnd
  <2>2. CASE ConnectionLost
    BY <1>2, <2>2 DEF ConnectionLost
  <2>3. CASE UNCHANGED sharedVars
    BY <1>2, <2>3 DEF vars
  <2> QED
    BY <2>1, <2>2, <2>3 DEF Next, RequestStep, ResponseStep, HandlerReads, HandlerWrites,
       HandlerEnds, RequestEnds, RequestBreaks, ContextCancelled, BodyClosed, ExchangeEnds,
       Terminated, vars
<1>3. lost \in BOOLEAN => lost' \in BOOLEAN
  BY <1>0, Zenon
<1> QED
  BY <1>1, <1>2, <1>3

\* The ranks of the halves are natural numbers, before and after a step.
LEMMA RanksAreNumbers ==
  /\ ReqP!RankTypeOK /\ ReqP!RankTypeOK' => ReqP!Rank \in Nat /\ (ReqP!Rank \in Nat)'
  /\ RespP!RankTypeOK /\ RespP!RankTypeOK' => RespP!Rank \in Nat /\ (RespP!Rank \in Nat)'
<1>1. ReqP!RankTypeOK => ReqP!Rank \in Nat
  BY DEF ReqP!RankTypeOK, ReqP!Rank
<1>2. RespP!RankTypeOK => RespP!Rank \in Nat
  BY DEF RespP!RankTypeOK, RespP!Rank
<1> QED
  BY <1>1, <1>2, PTL

\* A sum of three falls when one of them falls and none rises.
LEMMA CallSum ==
  ASSUME NEW a \in Nat, NEW b \in Nat, NEW c \in Nat,
         NEW x \in Nat, NEW y \in Nat, NEW z \in Nat,
         a <= x, b <= y, c <= z, a < x \/ b < y \/ c < z
  PROVE  a + b + c < x + y + z
  OBVIOUS

\* Every step does so.
LEMMA StepCallRank ==
  ASSUME ReqP!IndInv, ReqP!IndInv', ReqP!OpenWhileReading,
         RespP!IndInv, RespP!IndInv',
         lost \in BOOLEAN, [Next]_vars
  PROVE  [CallRankFalls]_vars
<1> SUFFICES ASSUME vars' # vars, ReqP!Waiting, ReqP!Waiting' PROVE CallRank' < CallRank
  BY DEF CallRankFalls
<1> DEFINE left == IF lost THEN 0 ELSE 1
<1>1. /\ ReqP!Rank \in Nat /\ ReqP!Rank' \in Nat
      /\ RespP!Rank \in Nat /\ RespP!Rank' \in Nat
  <2>1. ReqP!RankTypeOK /\ ReqP!RankTypeOK'
    BY ReqP!RankPartsOfStep, ValuesAssumption, BoundsAssumption DEF ReqP!IndInv
  <2>2. RespP!RankTypeOK /\ RespP!RankTypeOK'
    BY RespP!RankPartsOfStep, ValuesAssumption, BoundsAssumption DEF RespP!IndInv
  <2> QED
    BY <2>1, <2>2, RanksAreNumbers
<1>2. UNCHANGED ReqP!vars \/ ReqP!Rank' < ReqP!Rank
  BY StepRequest, SameRequestHalf, ReqP!StepRank, ValuesAssumption, BoundsAssumption
     DEF ReqP!RankFalls
<1>3. UNCHANGED RespP!vars \/ RespP!Rank' < RespP!Rank
  BY StepResponse, SameResponseHalf, RespP!StepRank, ValuesAssumption, BoundsAssumption
     DEF RespP!IndInv
<1>4. UNCHANGED ReqP!vars => UNCHANGED reqVars /\ ReqP!Rank' = ReqP!Rank
  BY DEF ReqP!vars, reqVars, ReqP!producerVars, ReqP!pumpVars, ReqP!transportVars,
     ReqP!handlerVars, ReqP!Rank, ReqP!KeepAliveRank, ReqP!PumpRank, ReqP!WireRank,
     ReqP!ReaderRank, ReqP!OutcomeRank, ReqP!EndRank
<1>5. UNCHANGED RespP!vars => UNCHANGED respVars /\ RespP!Rank' = RespP!Rank
  BY DEF RespP!vars, respVars, RespP!serverVars, RespP!wireVars, RespP!clientVars,
     RespP!writerVars, RespP!Rank, RespP!HandlerRank, RespP!WritesRank, RespP!HeadRank,
     RespP!ServingRank, RespP!WireRank, RespP!EndRank,
     RespP!ClientRank, RespP!DoRank, RespP!PumpRank
<1>6. /\ left \in Nat /\ left' \in Nat /\ left' <= left
      /\ ~lost /\ lost' => left' < left
  BY StepsMoveAHalf
<1>7. ReqP!Rank' <= ReqP!Rank /\ RespP!Rank' <= RespP!Rank
  BY <1>1, <1>2, <1>3, <1>4, <1>5
<1>8. ReqP!Rank' < ReqP!Rank \/ RespP!Rank' < RespP!Rank \/ left' < left
  BY <1>2, <1>3, <1>4, <1>5, <1>6, StepsMoveAHalf
<1>9. ReqP!Rank' + RespP!Rank' + left' < ReqP!Rank + RespP!Rank + left
  <2> HIDE DEF left
  <2> QED
    BY <1>1, <1>6, <1>7, <1>8, CallSum
<1> QED
  BY <1>9 DEF CallRank

\* No livelock: only boundedly many steps of anybody are left, in both halves
\* together, until a blocked sender is released and, once the channel is closed,
\* the request goroutine has returned to the group.
THEOREM NoLivelock == Spec => [][CallRankFalls]_vars
<1>1. ReqP!Spec => [](ReqP!IndInv /\ ReqP!OpenWhileReading)
  BY ValuesAssumption, BoundsAssumption, ReqP!ProgressInvariance
<1>2. RespP!Spec => []RespP!IndInv
  BY ValuesAssumption, BoundsAssumption, RespP!Invariance
<1>3. Init => lost \in BOOLEAN
  BY DEF Init
<1>4. lost \in BOOLEAN /\ [Next]_vars => (lost \in BOOLEAN)'
  BY StepsMoveAHalf
<1> DEFINE Inv == /\ ReqP!IndInv /\ ReqP!OpenWhileReading
                  /\ RespP!IndInv /\ lost \in BOOLEAN
<1>5. Inv /\ Inv' /\ [Next]_vars => [CallRankFalls]_vars
  BY StepCallRank
<1> QED
  BY <1>1, <1>2, <1>3, <1>4, <1>5, CallIsBothHalves, PTL DEF Spec
-----------------------------------------------------------------------------
(***************************************************************************)
(* Liveness, from the fairness of FairSpec and from the fact that the      *)
(* actions it is fair to are enabled when their guards say so, which the   *)
(* prover cannot evaluate.                                                 *)
(***************************************************************************)
Ending == respWireEnd # "open" /\ ~Resp!ClientDone

ActionsEnabled ==
  /\ pc = "exit" => ENABLED <<PumpStep>>_vars
  /\ reader = "unused" => ENABLED <<Req!StartRequest /\ RequestStep>>_vars
  /\ reader = "reading" /\ writeEnd # "open" /\ Len(reqWire) < WireCap
       => ENABLED <<RequestEnds \/ RequestBreaks>>_vars
  /\ HandlerRuns /\ outcome = "open" /\ reqWire # <<>> => ENABLED <<HandlerReads>>_vars
  /\ Ending => ENABLED <<ResponseStep \/ ResponsePumpReturns>>_vars

Failing == RequestFailed /\ pc = "exit"
Broken(r) == reader = r /\ writeEnd = "closedWithError"

\* A failed goroutine closes its pipe with the error, and it stays closed so.
LEMMA FailingStep ==
  ASSUME RequestEndInv, FailureState, FailureState', [Next]_vars
  PROVE  /\ Failing => Failing' \/ (writeEnd = "closedWithError")'
         /\ Failing /\ PumpStep => (writeEnd = "closedWithError")'
         /\ Broken("unused") => (writeEnd = "closedWithError")'
         /\ Broken("reading") => (writeEnd = "closedWithError")'
<1>1. Failing => RequestFailed'
  BY WriteEndStep DEF Failing
<1>2. Failing /\ PumpStep => pc' # "exit"
  BY DEF Failing, PumpStep, Req!Pump, Req!PumpReceive, Req!PumpSeesClose, Req!PumpKeepAlive,
     Req!PumpWriteFails, Req!PumpExit, Req!PumpEofFails, Req!DrainDiscards, Req!DrainEnds
<1> QED
  BY <1>1, <1>2, WriteEndStep DEF Failing, Broken

\* The read end of the pipe: first nobody reads it, then the transport does,
\* until it closes it.
LEMMA ReaderMoves ==
  ASSUME RequestEndInv, [Next]_vars
  PROVE  /\ reader = "unused" => reader' \in {"unused", "reading", "closed"}
         /\ reader = "reading" => reader' \in {"reading", "closed"}
         /\ reader = "unused" /\ Req!StartRequest => reader' = "reading"
         /\ RequestEnds \/ RequestBreaks => reader' = "closed"
<1>1. [Req!Next]_(Req!vars)
  BY StepRequest
<1>2. /\ reader = "unused" => reader' \in {"unused", "reading", "closed"}
      /\ reader = "reading" => reader' \in {"reading", "closed"}
  BY <1>1 DEF Req!Next, Req!Producer, Req!Offer, Req!CloseChannel, Req!Pump, Req!PumpReceive,
     Req!PumpSeesClose, Req!PumpKeepAlive, Req!PumpWriteFails, Req!PumpExit, Req!PumpEofFails,
     Req!DrainDiscards, Req!DrainEnds, Req!Transport, Req!StartRequest, Req!BuildFails,
     Req!TransportTakesFrame, Req!TransportSeesWriteEnd, Req!TransportAborts, Req!Server,
     Req!ServerReadsFrame, Req!ServerReadsEnd, Req!ServerStops, Req!Terminated, Req!vars,
     Req!producerVars, Req!pumpVars, Req!transportVars, Req!handlerVars
<1> QED
  BY <1>2 DEF Req!StartRequest, RequestEnds, RequestBreaks, Req!TransportSeesWriteEnd

\* Why the handler's reading has ended, if it has, while the transport is reading.
ReadingState ==
  /\ outcome = "eof" => err = "EOF"
  /\ outcome = "error" => reader = "closed"
  /\ outcome = "stopped" => handler # "serving"

\* Reading ends with the EOF message, with a connection that is gone, or with the
\* handler.
LEMMA StepReadingState ==
  ASSUME HalvesInv, RequestEndInv, ReqP!OpenWhileReading, reader # "abandoned",
         ReadingState, [Next]_vars
  PROVE  ReadingState'
<1>1. /\ err # "nil" => err' = err
      /\ reader = "closed" => reader' = "closed"
      /\ handler # "serving" => handler' = handler
  BY RequestErrorIsFinal, ReaderEndStays, HandlerEndsOnce
<1>2. CASE outcome' = outcome
  BY <1>1, <1>2 DEF ReadingState
<1>3. CASE HandlerEnds
  <2>1. handler' # "serving" /\ (outcome' = outcome \/ outcome' = "stopped")
    BY <1>3 DEF HandlerEnds, Resp!HandlerReturns, Resp!WriteMessagePanics, Req!ServerStops,
       reqVars
  <2> QED
    BY <1>2, <2>1 DEF ReadingState
<1>4. CASE HandlerReads /\ Req!ServerReadsFrame
  <2>1. outcome' = outcome \/ (outcome' = "eof" /\ reqWire[1].type = "eof" /\ err' = err)
    BY <1>4 DEF Req!ServerReadsFrame, Req!pumpVars, RequestEndInv, ReqP!TypeOK
  <2>2. 1 \in 1..Len(reqWire)
    <3>1. reqWire # <<>> /\ reqWire \in Seq(ReqP!Frame)
      BY <1>4 DEF Req!ServerReadsFrame, RequestEndInv, ReqP!TypeOK
    <3> QED
      BY <3>1
  <2>3. reqWire[1].type = "eof" => err = "EOF"
    BY <2>2 DEF RequestEndInv, ReqP!EndState
  <2> QED
    BY <1>2, <2>1, <2>3 DEF ReadingState
<1>5. CASE HandlerReads /\ Req!ServerReadsEnd
  <2>1. /\ reqWireEnd # "open" /\ err' = err /\ reader' = reader
        /\ outcome' = IF reqWireEnd = "clean" THEN "eof" ELSE "error"
    BY <1>5 DEF Req!ServerReadsEnd, Req!BodyExhausted, Req!pumpVars, Req!transportVars
  <2>2. reader = "closed"
    BY <2>1 DEF RequestEndInv, ReqP!EndState, ReqP!OpenWhileReading, ReqP!TypeOK
  <2> QED
    BY <2>1, <2>2 DEF RequestEndInv, ReqP!EndState, ReadingState
<1>6. CASE \/ RequestStep \/ RequestPumpReturns \/ RequestEnds \/ RequestBreaks
           \/ ConnectionLost \/ ContextCancelled \/ BodyClosed \/ ExchangeEnds
  <2>1. outcome' = outcome
    BY <1>6 DEF RequestStep, RequestPumpReturns, RequestEnds, RequestBreaks,
       ConnectionLost, ContextCancelled, BodyClosed, ExchangeEnds, Reset, ResetRequest,
       Req!ExchangeEnds, Req!TransportAborts, Req!TransportSeesWriteEnd, Req!Producer,
       Req!Offer, Req!CloseChannel, Req!PumpReceive, Req!PumpSeesClose, Req!PumpKeepAlive,
       Req!PumpWriteFails, Req!PumpExit, Req!PumpEofFails, Req!DrainDiscards,
       Req!DrainEnds, Req!StartRequest, Req!TransportTakesFrame, Req!handlerVars, reqVars
  <2> QED
    BY <1>2, <2>1
<1>7. CASE \/ ResponseStep \/ ResponsePumpReturns \/ HandlerWrites \/ Terminated
           \/ UNCHANGED vars
  BY <1>2, <1>7 DEF ResponseStep, ResponsePumpReturns, HandlerWrites, Terminated, vars,
     reqVars
<1> QED
  BY <1>3, <1>4, <1>5, <1>6, <1>7 DEF Next, HandlerReads

\* A pipe closed with the error, and the transport between two reads of it.
Full == Broken("reading") /\ Len(reqWire) >= WireCap
Room == Broken("reading") /\ Len(reqWire) < WireCap

\* While the window is full a handler that is serving has frames to read.
LEMMA FullIsToRead ==
  ASSUME RequestErrors, RequestEndInv, ResponseEndInv, ReadingState, Full,
         respWireEnd = "open"
  PROVE  HandlerRuns /\ outcome = "open" /\ reqWire # <<>>
<1>1. handler = "serving" /\ reader = "reading" /\ writeEnd = "closedWithError"
  BY DEF ResponseEndInv, RespP!EndState, Full, Broken
<1>2. err # "EOF"
  BY <1>1 DEF RequestErrors
<1>3. outcome = "open"
  BY <1>1, <1>2 DEF ReadingState, RequestEndInv, ReqP!TypeOK
<1>4. reqWire # <<>>
  BY BoundsAssumption DEF Full
<1> QED
  BY <1>1, <1>3, <1>4 DEF HandlerRuns

\* Nothing more comes into the window, and what the handler reads leaves it.
LEMMA WindowStep ==
  ASSUME HalvesInv, RequestEndInv, FailureState, ReqP!OpenWhileReading,
         Broken("reading"), [Next]_vars
  PROVE  /\ Len(reqWire') <= Len(reqWire)
         /\ HandlerReads => Len(reqWire') < WireCap
<1>1. /\ pc \in {"drain", "done"} /\ reqWireEnd = "open"
      /\ reqWire \in Seq(ReqP!Frame) /\ Len(reqWire) <= WireCap
  BY DEF FailureState, Broken, RequestEndInv, ReqP!TypeOK, ReqP!OpenWhileReading
<1>2. [Req!Next]_(Req!vars)
  BY StepRequest
<1>3. ~Req!TransportTakesFrame /\ ~Req!ServerReadsEnd
  BY <1>1 DEF Req!TransportTakesFrame, Req!ServerReadsEnd, Req!BodyExhausted
<1>4. Req!ServerReadsFrame => Len(reqWire') = Len(reqWire) - 1
  BY <1>1, ReqP!TailElements, ValuesAssumption, BoundsAssumption DEF Req!ServerReadsFrame
<1>5. ~Req!ServerReadsFrame => reqWire' = reqWire
  BY <1>2, <1>3 DEF Req!Next, Req!Producer, Req!Offer, Req!CloseChannel, Req!Pump,
     Req!PumpReceive, Req!PumpSeesClose, Req!PumpKeepAlive, Req!PumpWriteFails,
     Req!PumpExit, Req!PumpEofFails, Req!DrainDiscards, Req!DrainEnds, Req!Transport,
     Req!StartRequest, Req!BuildFails, Req!TransportSeesWriteEnd, Req!TransportAborts,
     Req!Server, Req!ServerStops, Req!Terminated, Req!vars, Req!transportVars
<1>6. Len(reqWire) \in Nat
  BY <1>1
<1>7. HandlerReads => Req!ServerReadsFrame
  BY <1>3 DEF HandlerReads
<1> QED
  BY <1>1, <1>4, <1>5, <1>6, <1>7, BoundsAssumption

\* A request goroutine that fails ends the response, if nothing else has and if
\* the handler reads what it was sent: then the transport finds the pipe closed
\* with the error and cuts the exchange.  Whether the handler ever returns does
\* not matter.
THEOREM FailureEndsResponse ==
  FairSpec /\ WF_vars(HandlerReads) /\ []ActionsEnabled
    => (RequestFailed ~> (respWireEnd # "open"))
<1> DEFINE Inv == /\ HalvesInv /\ RequestErrors /\ RequestEndInv /\ ResponseEndInv
                  /\ FailureState /\ ReqP!OpenWhileReading /\ ReadingState
                  /\ reader # "abandoned"
           W == writeEnd = "closedWithError"
           Goal == respWireEnd # "open"
           ToRead == HandlerRuns /\ outcome = "open" /\ reqWire # <<>>
<1>1. Inv /\ Inv' /\ Failing /\ [Next]_vars => Failing' \/ W'
  BY FailingStep
<1>2. Inv /\ Inv' /\ Failing /\ <<PumpStep>>_vars => W'
  BY FailingStep DEF PumpStep, Next
<1>3. Inv /\ Inv' /\ Broken("unused") /\ [Next]_vars
        => Broken("unused")' \/ Broken("reading")' \/ Broken("closed")'
  BY FailingStep, ReaderMoves DEF Broken
<1>4. Inv /\ Inv' /\ Broken("unused") /\ <<Req!StartRequest /\ RequestStep>>_vars
        => Broken("reading")'
  <2> SUFFICES ASSUME Inv, Inv', Broken("unused"), Req!StartRequest, RequestStep
               PROVE  Broken("reading")'
    OBVIOUS
  <2>1. [Next]_vars
    BY DEF Next
  <2> QED
    BY <2>1, FailingStep, ReaderMoves DEF Broken
<1>5. Inv /\ Inv' /\ Broken("reading") /\ [Next]_vars => Broken("reading")' \/ Broken("closed")'
  BY FailingStep, ReaderMoves DEF Broken
<1>6. Inv => Len(reqWire) \in Nat
  BY DEF RequestEndInv, ReqP!TypeOK
<1>7. Inv /\ Broken("reading") => Full \/ Room
  BY <1>6, BoundsAssumption DEF Full, Room
<1>8. Inv /\ Inv' /\ Full /\ [Next]_vars => Full' \/ Room' \/ Broken("closed")'
  BY <1>5, <1>7, PTL DEF Full
<1>9. Inv /\ Inv' /\ Room /\ [Next]_vars => Room' \/ Broken("closed")'
  <2> SUFFICES ASSUME Inv, Inv', Room, [Next]_vars, ~(Broken("closed")')
               PROVE  Room'
    OBVIOUS
  <2>1. Broken("reading")'
    BY <1>5 DEF Room
  <2>2. Len(reqWire') <= Len(reqWire) /\ Len(reqWire) < WireCap
    BY WindowStep DEF Room
  <2>3. Len(reqWire) \in Nat /\ Len(reqWire') \in Nat /\ WireCap \in Nat
    BY BoundsAssumption DEF RequestEndInv, ReqP!TypeOK
  <2> QED
    BY <2>1, <2>2, <2>3 DEF Room
<1>10. Inv /\ Inv' /\ Full /\ <<HandlerReads>>_vars => Room' \/ Broken("closed")'
  <2> SUFFICES ASSUME Inv, Inv', Full, HandlerReads PROVE Room' \/ Broken("closed")'
    OBVIOUS
  <2>1. [Next]_vars
    BY DEF Next
  <2>2. Len(reqWire') < WireCap
    BY <2>1, WindowStep DEF Full
  <2> QED
    BY <1>5, <2>1, <2>2 DEF Full, Room
<1>11. Inv /\ Inv' /\ Room /\ <<RequestEnds \/ RequestBreaks>>_vars => Broken("closed")'
  <2> SUFFICES ASSUME Inv, Inv', Room, RequestEnds \/ RequestBreaks
               PROVE  Broken("closed")'
    OBVIOUS
  <2>1. [Next]_vars
    BY DEF Next
  <2> QED
    BY <2>1, FailingStep, ReaderMoves DEF Room, Broken
<1>12. Inv /\ Broken("closed") => Goal
  BY DEF Broken, FailureState
<1>13. Inv /\ W => Broken("unused") \/ Broken("reading") \/ Broken("closed")
  BY DEF Broken, RequestEndInv, ReqP!TypeOK
<1>14. Inv /\ RequestFailed => Failing \/ W
  BY DEF FailureState, Failing
<1>15. Inv /\ Full => ToRead \/ Goal
  BY FullIsToRead
<1>16. ActionsEnabled =>
         /\ Failing => ENABLED <<PumpStep>>_vars
         /\ Broken("unused") => ENABLED <<Req!StartRequest /\ RequestStep>>_vars
         /\ Room => ENABLED <<RequestEnds \/ RequestBreaks>>_vars
         /\ ToRead => ENABLED <<HandlerReads>>_vars
  BY DEF ActionsEnabled, Failing, Broken, Room
<1>17. Spec => []Inv
  <2>1. ReqP!Spec => [](ReqP!IndInv /\ ReqP!OpenWhileReading)
    BY ValuesAssumption, BoundsAssumption, ReqP!ProgressInvariance
  <2>2. Init => ReadingState
    BY DEF Init, Req!Init, ReadingState
  <2>3. HalvesInv /\ RequestEndInv /\ ReqP!OpenWhileReading /\ reader # "abandoned"
          /\ ReadingState /\ [Next]_vars => ReadingState'
    BY StepReadingState
  <2>4. CallInv => RequestErrors
    BY DEF CallInv
  <2> QED
    BY <2>1, <2>2, <2>3, <2>4, CallIsBothHalves, Invariance, FailureInvariance,
       ReaderIsKept, PTL
       DEF Spec
<1> QED
  BY <1>1, <1>2, <1>3, <1>4, <1>7, <1>8, <1>9, <1>10, <1>11, <1>12, <1>13, <1>14, <1>15,
     <1>16, <1>17, PTL
     DEF FairSpec, Fairness, Spec

\* Once the response has ended, from any rank n of the response half, the
\* client's part of it comes to an end or the rank falls, whatever the request
\* goroutine, the group and the connection do meanwhile.
THEOREM EndComesNearer ==
  ASSUME NEW n \in Nat
  PROVE  FairSpec /\ []ActionsEnabled =>
           ((Ending /\ RespP!Rank = n) ~> (Resp!ClientDone \/ (Ending /\ RespP!Rank < n)))
<1> DEFINE Inv == RespP!IndInv
           Done == Resp!ClientDone
           Less == Ending /\ RespP!Rank < n
<1>1. Inv /\ Inv' /\ Ending /\ RespP!Rank = n /\ [Next]_vars
        => (Ending /\ RespP!Rank = n)' \/ Done' \/ Less'
  <2> SUFFICES ASSUME Inv, Inv', Ending, RespP!Rank = n, [Next]_vars
               PROVE  Done' \/ (Ending' /\ ((RespP!Rank = n)' \/ (RespP!Rank < n)'))
    OBVIOUS
  <2>1. [RespP!Next]_(RespP!vars)
    BY StepResponse, SameResponseHalf
  <2>2. [RespP!Rank' < RespP!Rank]_(RespP!vars)
    BY <2>1, RespP!StepRank, ValuesAssumption, BoundsAssumption DEF RespP!IndInv
  <2>3. (RespP!Rank = n)' \/ (RespP!Rank < n)'
    <3>1. CASE UNCHANGED RespP!vars
      BY <3>1 DEF RespP!vars, RespP!serverVars, RespP!wireVars, RespP!clientVars,
         RespP!writerVars, RespP!Rank, RespP!HandlerRank, RespP!WritesRank, RespP!HeadRank,
         RespP!ServingRank, RespP!WireRank, RespP!EndRank,
         RespP!ClientRank, RespP!DoRank, RespP!PumpRank
    <3>2. CASE RespP!Rank' < RespP!Rank
      BY <3>2
    <3> QED
      BY <2>2, <3>1, <3>2
  <2>4. respWireEnd' # "open"
    BY ResponseEndStays DEF Ending
  <2> QED
    BY <2>3, <2>4 DEF Ending
<1>2. Inv /\ Inv' /\ Ending /\ RespP!Rank = n /\ <<ResponseStep \/ ResponsePumpReturns>>_vars
        => Done' \/ Less'
  <2> SUFFICES ASSUME Inv, Inv', Ending, RespP!Rank = n, ResponseStep \/ ResponsePumpReturns,
                      vars' # vars
               PROVE  Done' \/ Less'
    OBVIOUS
  <2>1. [Next]_vars
    BY DEF Next
  <2>2. [RespP!Rank' < RespP!Rank]_(RespP!vars)
    BY <2>1, StepResponse, SameResponseHalf, RespP!StepRank, ValuesAssumption,
       BoundsAssumption DEF RespP!IndInv
  <2>3. RespP!vars' # RespP!vars
    <3>1. CASE pump # "done" /\ pump' = "done"
      BY <3>1 DEF RespP!vars, RespP!clientVars
    <3>2. CASE UNCHANGED <<reqVars, sharedVars>>
      BY <3>2 DEF vars, reqVars, sharedVars, RespP!vars, RespP!serverVars, RespP!wireVars,
         RespP!clientVars, RespP!writerVars, respVars
    <3> QED
      BY <3>1, <3>2 DEF ResponseStep, ResponsePumpReturns, Resp!PumpReads, Resp!PumpReadsEnd
  <2>4. RespP!Rank' < RespP!Rank
    BY <2>2, <2>3
  <2>5. RespP!Rank' < n
    BY <2>4
  <2>6. respWireEnd' # "open"
    BY <2>1, ResponseEndStays DEF Ending
  <2> QED
    BY <2>5, <2>6 DEF Ending
<1>3. ActionsEnabled => (Ending => ENABLED <<ResponseStep \/ ResponsePumpReturns>>_vars)
  BY DEF ActionsEnabled
<1>4. Spec => []Inv
  BY HalvesInvariance, PTL
<1> QED
  BY <1>1, <1>2, <1>3, <1>4, PTL DEF FairSpec, Fairness, Spec

\* A failed request goroutine becomes visible to the caller, given that a
\* response that has ended is seen to end, which is what EndComesNearer, from
\* rank to rank, comes to.
THEOREM FailureIsVisibleIfEndIsSeen ==
  FairSpec /\ []ActionsEnabled /\ ((respWireEnd # "open") ~> Resp!ClientDone)
    => FailureIsVisible
<1>1. (err \notin {"nil", "EOF"}) => RequestFailed
  BY DEF RequestFailed
<1> QED
  BY <1>1, FailureEndsResponse, PTL DEF FailureIsVisible
=============================================================================
