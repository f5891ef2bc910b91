--------------------------- MODULE RequestStream ---------------------------
(***************************************************************************)
(* The request half of a streaming call: the goroutine Client.Do starts to *)
(* move the values of the caller's channel into the HTTP request body      *)
(* (apirt/client.go), and the handler that takes them out again with       *)
(* Request.ReadMessage (apirt/request.go).                                 *)
(*                                                                         *)
(*   producer --channel--> pump --io.Pipe--> transport --body--> handler   *)
(*                                                                         *)
(* The channel is unbuffered, and io.Pipe is synchronous: Write returns    *)
(* when the reader has taken the bytes or has closed its end.  Between     *)
(* them nothing is stored but the value in the producer's hand and the     *)
(* frame in the pump's.  The producer, io.Pipe and the HTTP transport are  *)
(* not in this repository; they are modelled as client.go uses them.       *)
(*                                                                         *)
(* A frame on the wire is whole.  A frame cut short by a failing           *)
(* connection makes ReadMessage return the transport's error, which is     *)
(* what reading at its boundary does too.                                  *)
(***************************************************************************)
EXTENDS Frames

CONSTANTS
  Unmarshalable,  \* the values the serializer refuses
  WireCap,        \* frames the transport buffers (flow-control window)
  BuildCanFail,   \* may http.NewRequestWithContext reject the URL?
  MaxMsgs,        \* bound: values the producer sends
  MaxKeepAlives   \* bound: keep-alive frames written

ASSUME UnmarshalableAssumption == Unmarshalable \subseteq Data
ASSUME BoundsAssumption ==
  /\ WireCap \in Nat \ {0}
  /\ BuildCanFail \in BOOLEAN
  /\ MaxMsgs \in Nat
  /\ MaxKeepAlives \in Nat

VARIABLES
  offer,       \* value a sender blocked on the channel holds, or None
  chanClosed,  \* has the caller closed req.Param?
  sent,        \* history: the values received from the channel, in order
  pc,          \* where the pump goroutine is
  frame,       \* the frame in the pump's w.Write call
  err,         \* the pump's named result
  closed,      \* the pump's local: has it seen the channel closed?
  keepAlives,  \* keep-alive frames written so far (bounds the model)
  reader,      \* read end of the pipe: who, if anybody, is reading
  writeEnd,    \* write end of the pipe
  wire,        \* frames the transport holds for the handler
  wireEnd,     \* what follows them
  received,    \* history: the values ReadMessage gave the handler, in order
  outcome      \* how the handler's reading ended

producerVars  == <<offer, chanClosed>>
pumpVars      == <<pc, frame, err, closed, keepAlives>>
transportVars == <<reader, writeEnd, wire, wireEnd>>
handlerVars   == <<received, outcome>>
vars == <<producerVars, sent, pumpVars, transportVars, handlerVars>>

NoFrame == KeepAliveFrame   \* placeholder while no Write is running

\* Every variable keeps its type: the transport never holds more frames than
\* its window, and the pump has no result other than the four it can return.
TypeOK ==
  /\ offer \in Data \cup {None}
  /\ chanClosed \in BOOLEAN
  /\ sent \in Seq(Data)
  /\ pc \in {"select", "write", "exit", "writeEof", "drain", "done"}
  /\ frame \in Frame
  /\ err \in {"nil", "EOF", "marshal", "closedPipe"}
  /\ closed \in BOOLEAN
  /\ keepAlives \in 0..MaxKeepAlives
  /\ reader \in {"unused", "reading", "closed", "abandoned"}
  /\ writeEnd \in {"open", "closed", "closedWithError"}
  /\ wire \in Seq(Frame) /\ Len(wire) <= WireCap
  /\ wireEnd \in {"open", "clean", "aborted"}
  /\ received \in Seq(Data)
  /\ outcome \in {"open", "eof", "error", "stopped"}

Init ==
  /\ offer = None
  /\ chanClosed = FALSE
  /\ sent = <<>>
  /\ pc = "select"
  /\ frame = NoFrame
  /\ err = "nil"
  /\ closed = FALSE
  /\ keepAlives = 0
  /\ reader = "unused"
  /\ writeEnd = "open"
  /\ wire = <<>>
  /\ wireEnd = "open"
  /\ received = <<>>
  /\ outcome = "open"
-----------------------------------------------------------------------------
(***************************************************************************)
(* The producer: the caller's side of req.Param.                           *)
(***************************************************************************)
Offer(v) ==
  /\ offer = None
  /\ ~chanClosed
  /\ Len(sent) < MaxMsgs
  /\ offer' = v
  /\ UNCHANGED <<chanClosed, sent, pumpVars, transportVars, handlerVars>>

CloseChannel ==
  /\ offer = None
  /\ ~chanClosed
  /\ chanClosed' = TRUE
  /\ UNCHANGED <<offer, sent, pumpVars, transportVars, handlerVars>>
-----------------------------------------------------------------------------
(***************************************************************************)
(* The pump goroutine.                                                     *)
(***************************************************************************)

\* The select receives a value; it is marshalled and its Write begins.
PumpReceive ==
  /\ pc = "select"
  /\ offer # None
  /\ sent' = Append(sent, offer)
  /\ offer' = None
  /\ \/ /\ offer \in Unmarshalable
        /\ err' = "marshal"
        /\ pc' = "exit"
        /\ UNCHANGED frame
     \/ /\ offer \notin Unmarshalable
        /\ frame' = DataFrame(offer)
        /\ pc' = "write"
        /\ UNCHANGED err
  /\ UNCHANGED <<chanClosed, closed, keepAlives, transportVars, handlerVars>>

\* A closed channel mistaken for one more (zero) value: the loop goes on.
PumpSeesClose_Ignored ==
  /\ pc = "select"
  /\ offer = None
  /\ chanClosed
  /\ closed' = TRUE
  /\ UNCHANGED <<producerVars, sent, pc, frame, err, keepAlives, transportVars,
                 handlerVars>>

\* The select finds the channel closed: the request stream is over.
PumpSeesClose ==
  /\ pc = "select"
  /\ offer = None
  /\ chanClosed
  /\ err' = "EOF"
  /\ closed' = TRUE
  /\ pc' = "exit"
  /\ UNCHANGED <<producerVars, sent, frame, keepAlives, transportVars, handlerVars>>

\* The watchdog ticker is ready: nothing was written for five seconds, or
\* the last Write blocked that long.
PumpKeepAlive ==
  /\ pc = "select"
  /\ keepAlives < MaxKeepAlives
  /\ keepAlives' = keepAlives + 1
  /\ frame' = KeepAliveFrame
  /\ pc' = "write"
  /\ UNCHANGED <<producerVars, sent, err, closed, transportVars, handlerVars>>

\* The Write of a data or keep-alive frame returns ErrClosedPipe.
PumpWriteFails ==
  /\ pc = "write"
  /\ reader = "closed"
  /\ err' = "closedPipe"
  /\ frame' = NoFrame
  /\ pc' = "exit"
  /\ UNCHANGED <<producerVars, sent, closed, keepAlives, transportVars, handlerVars>>

\* The EOF message written on every way out.
PumpExit_AlwaysEof ==
  /\ pc = "exit"
  /\ frame' = EofFrame
  /\ pc' = "writeEof"
  /\ UNCHANGED <<producerVars, sent, err, closed, keepAlives, transportVars, handlerVars>>

\* An exit that leaves the channel undrained.
PumpExit_NoDrain ==
  /\ pc = "exit"
  /\ \/ /\ err \in {"nil", "EOF"}
        /\ frame' = EofFrame
        /\ pc' = "writeEof"
        /\ UNCHANGED writeEnd
     \/ /\ err \notin {"nil", "EOF"}
        /\ writeEnd' = "closedWithError"
        /\ pc' = "done"
        /\ UNCHANGED frame
  /\ UNCHANGED <<producerVars, sent, err, closed, keepAlives, reader, wire,
                 wireEnd, handlerVars>>

\* The deferred epilogue: end the stream cleanly, or with the error.
PumpExit ==
  /\ pc = "exit"
  /\ \/ /\ err \in {"nil", "EOF"}
        /\ frame' = EofFrame
        /\ pc' = "writeEof"
        /\ UNCHANGED writeEnd
     \/ /\ err \notin {"nil", "EOF"}
        /\ writeEnd' = "closedWithError"
        /\ pc' = "drain"
        /\ UNCHANGED frame
  /\ UNCHANGED <<producerVars, sent, err, closed, keepAlives, reader, wire,
                 wireEnd, handlerVars>>

\* The error of the EOF message's Write is ignored; w.Close follows anyway.
PumpEofFails ==
  /\ pc = "writeEof"
  /\ reader = "closed"
  /\ frame' = NoFrame
  /\ writeEnd' = "closed"
  /\ pc' = "drain"
  /\ UNCHANGED <<producerVars, sent, err, closed, keepAlives, reader, wire,
                 wireEnd, handlerVars>>

\* The last deferred function discards what the producer still sends ...
DrainDiscards ==
  /\ pc = "drain"
  /\ ~closed
  /\ offer # None
  /\ sent' = Append(sent, offer)
  /\ offer' = None
  /\ UNCHANGED <<chanClosed, pumpVars, transportVars, handlerVars>>

\* A drain that stops as soon as nobody is sending.
DrainEnds_WhenIdle ==
  /\ pc = "drain"
  /\ closed \/ offer = None
  /\ pc' = "done"
  /\ UNCHANGED <<producerVars, sent, frame, err, closed, keepAlives,
                 transportVars, handlerVars>>

\* ... until the channel is closed.  Only then does the goroutine return.
DrainEnds ==
  /\ pc = "drain"
  /\ closed \/ (chanClosed /\ offer = None)
  /\ pc' = "done"
  /\ UNCHANGED <<producerVars, sent, frame, err, closed, keepAlives,
                 transportVars, handlerVars>>
-----------------------------------------------------------------------------
(***************************************************************************)
(* The HTTP transport: from the pipe's read end to the handler's body.     *)
(***************************************************************************)

\* Do goes on to build the request and hand it to the HTTP client.
StartRequest ==
  /\ reader = "unused"
  /\ reader' = "reading"
  /\ UNCHANGED <<producerVars, sent, pumpVars, writeEnd, wire, wireEnd, handlerVars>>

\* http.NewRequestWithContext fails: Do returns, nobody owns the read end.
BuildFails ==
  /\ BuildCanFail
  /\ reader = "unused"
  /\ reader' = "abandoned"
  /\ outcome' = "stopped"   \* no request, so no handler
  /\ UNCHANGED <<producerVars, sent, pumpVars, writeEnd, wire, wireEnd, received>>

\* The transport reads the frame and Write returns: the pump goes back to
\* its select, or, after the EOF message, closes the write end.
TransportTakesFrame ==
  /\ pc \in {"write", "writeEof"}
  /\ reader = "reading"
  /\ Len(wire) < WireCap
  /\ wire' = Append(wire, frame)
  /\ frame' = NoFrame
  /\ \/ pc = "write" /\ pc' = "select" /\ UNCHANGED writeEnd
     \/ pc = "writeEof" /\ pc' = "drain" /\ writeEnd' = "closed"
  /\ UNCHANGED <<producerVars, sent, err, closed, keepAlives, reader, wireEnd,
                 handlerVars>>

\* The pipe read returns io.EOF or the pump's error: the body is finished,
\* or the request is aborted.  While its window is full the transport is not
\* reading.
TransportSeesWriteEnd ==
  /\ reader = "reading"
  /\ writeEnd # "open"
  /\ Len(wire) < WireCap
  /\ reader' = "closed"
  /\ wireEnd' = IF writeEnd = "closed" THEN "clean" ELSE "aborted"
  /\ UNCHANGED <<producerVars, sent, pumpVars, writeEnd, wire, handlerVars>>

\* The exchange is cut: connection lost, context cancelled, no connection at
\* all, or the response ended first.  The transport closes the pipe.
TransportAborts ==
  /\ reader \in {"reading", "closed"}
  /\ wireEnd # "aborted"
  /\ reader' = "closed"
  /\ wireEnd' = "aborted"
  /\ UNCHANGED <<producerVars, sent, pumpVars, writeEnd, wire, handlerVars>>

\* Once the handler has returned the exchange is over, and the transport
\* stops reading a request body that is still open.
ExchangeEnds == outcome # "open" /\ reader = "reading" /\ TransportAborts
-----------------------------------------------------------------------------
(***************************************************************************)
(* The handler, reading with Request.ReadMessage.                          *)
(***************************************************************************)
ServerReadsFrame ==
  /\ outcome = "open"
  /\ wire # <<>>
  /\ LET f == Head(wire) IN
       /\ received' = IF f.type = "data" THEN Append(received, f.payload) ELSE received
       /\ outcome' = IF f.type = "eof" THEN "eof" ELSE outcome
  /\ wire' = Tail(wire)
  /\ UNCHANGED <<producerVars, sent, pumpVars, reader, writeEnd, wireEnd>>

\* An aborted body may lose the frames that were in flight.
BodyExhausted == \/ wireEnd = "aborted"
                 \/ wireEnd = "clean" /\ wire = <<>>

\* Every error of the body taken for its end.
ServerReadsEnd_AsEof ==
  /\ outcome = "open"
  /\ BodyExhausted
  /\ outcome' = "eof"
  /\ UNCHANGED <<producerVars, sent, pumpVars, transportVars, received>>

\* The length prefix cannot be read: io.EOF if the body ended in order, the
\* transport's error if it did not.
ServerReadsEnd ==
  /\ outcome = "open"
  /\ BodyExhausted
  /\ outcome' = IF wireEnd = "clean" THEN "eof" ELSE "error"
  /\ UNCHANGED <<producerVars, sent, pumpVars, transportVars, received>>

\* The handler may return without reading the stream to its end.
ServerStops ==
  /\ outcome = "open"
  /\ reader \in {"reading", "closed"}   \* there is a request
  /\ outcome' = "stopped"
  /\ UNCHANGED <<producerVars, sent, pumpVars, transportVars, received>>

\* Everything has come to rest: the goroutine returned, the handler is done.
Terminated ==
  /\ pc = "done"
  /\ outcome # "open"
  /\ UNCHANGED vars
-----------------------------------------------------------------------------
Producer == (\E v \in Data : Offer(v)) \/ CloseChannel
Pump == \/ PumpReceive \/ PumpSeesClose \/ PumpKeepAlive \/ PumpWriteFails
        \/ PumpExit \/ PumpEofFails \/ DrainDiscards \/ DrainEnds
Transport == \/ StartRequest \/ BuildFails \/ TransportTakesFrame
             \/ TransportSeesWriteEnd \/ TransportAborts
Server == ServerReadsFrame \/ ServerReadsEnd \/ ServerStops

Next == Producer \/ Pump \/ Transport \/ Server \/ Terminated

Spec == Init /\ [][Next]_vars

(***************************************************************************)
(* Goroutines that can run do run, and the transport moves bytes, but      *)
(* nobody makes the producer send or close, the connection fail, or the    *)
(* handler give up.                                                        *)
(***************************************************************************)
Fairness ==
  /\ WF_vars(Pump)
  /\ WF_vars(StartRequest \/ BuildFails)
  /\ WF_vars(TransportTakesFrame)
  /\ WF_vars(TransportSeesWriteEnd)
  /\ WF_vars(ExchangeEnds)
  /\ WF_vars(ServerReadsFrame \/ ServerReadsEnd)

FairSpec == Spec /\ Fairness
-----------------------------------------------------------------------------
\* The handler is told that the stream is complete (ReadMessage returned
\* io.EOF) only if the caller closed the channel and every value it ever
\* sent was received: no failure of the marshaller, the pipe or the
\* connection, and no value thrown away by the drain, looks like a clean end.
CleanEndIsComplete == outcome = "eof" => chanClosed /\ received = sent

\* The pump goroutine returns only after the caller closed the channel, so
\* no sender is left blocked on a channel nobody receives from, whatever
\* failed on the way.
ReturnedMeansChannelClosed == pc = "done" => chanClosed /\ offer = None

\* What the two ends of the request stream observe is a MessageStream.
AbstractOutcome == [open |-> "open", eof |-> "complete",
                    error |-> "failed", stopped |-> "failed"][outcome]
Abstract == INSTANCE MessageStream
              WITH closed <- chanClosed, delivered <- received,
                   outcome <- AbstractOutcome
ImplementsMessageStream == Abstract!Spec

\* A sender blocked on the channel is released: the pump receives its value
\* to send it or, after a failure, to discard it.  (See SenderReleased.)
ReleasedIfBuilt == (offer # None) ~> (offer = None \/ reader = "abandoned")

\* Once the caller closes the channel the goroutine returns, so g.Wait can.
PumpReturns == chanClosed ~> (pc = "done" \/ reader = "abandoned")

\* The same without the exception, as the comment on the goroutine's deferred
\* drain has it: it drains the channel unless it has seen it closed.
SenderReleased == (offer # None) ~> (offer = None)
-----------------------------------------------------------------------------
(***************************************************************************)
(* The inductive invariant behind CleanEndIsComplete,                      *)
(* ReturnedMeansChannelClosed and ImplementsMessageStream.                 *)
(***************************************************************************)

\* Which pump states go with which result, and with the state of the channel.
PumpState ==
  /\ chanClosed => offer = None
  /\ closed <=> err = "EOF"
  /\ err = "EOF" => chanClosed
  /\ err = "nil" <=> pc \in {"select", "write"}
  /\ pc = "writeEof" => err = "EOF"
  /\ pc = "write" => frame.type # "eof"
  /\ pc = "writeEof" => frame = EofFrame
  /\ pc = "done" => chanClosed

\* Only a stream that ended with EOF is ended cleanly, by the frame as well
\* as by the pipe, and the EOF frame is the last one.
EndState ==
  /\ reader = "unused" => outcome = "open" /\ wire = <<>> /\ wireEnd = "open"
  /\ writeEnd = "closed" => err = "EOF"
  /\ wireEnd = "clean" => err = "EOF"
  /\ \A i \in 1..Len(wire) :
        wire[i].type = "eof" => /\ i = Len(wire)
                                /\ pc \in {"drain", "done"}
                                /\ err = "EOF"

\* The value the pump has received but not yet written, if any.
Pending == IF pc = "write" /\ frame.type = "data" THEN 1 ELSE 0

\* The frames on the wire carry, in order and without a gap, what was sent
\* after what is received, and, while the stream is in order, up to the value
\* in the pump's hands.
InFlight ==
  \E pos \in [0..Len(wire) -> 0..Len(sent)] :
    /\ Numbers(pos, wire, sent, Len(received))
    /\ err \in {"nil", "EOF"} => pos[Len(wire)] + Pending = Len(sent)
    /\ Pending = 1 => frame.payload = sent[Len(sent)]

ReceivedIsPrefix ==
  /\ Len(received) <= Len(sent)
  /\ \A i \in 1..Len(received) : received[i] = sent[i]

\* At every moment the pump's state, its result and the two ends of the
\* stream agree, and what the caller sent is, in order, what the handler
\* received, then what is on the wire, then the value in the pump's Write
\* (and, once the stream has failed, values that are lost).
IndInv ==
  /\ TypeOK
  /\ PumpState
  /\ EndState
  /\ InFlight
  /\ ReceivedIsPrefix
  /\ CleanEndIsComplete
=============================================================================
