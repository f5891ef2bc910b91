--------------------------- MODULE ResponseStream ---------------------------
(***************************************************************************)
(* The response half of a call: the ResponseWriter a handler writes with   *)
(* (apirt/response_writer.go) and the part of Client.Do that takes the     *)
(* response apart, with the goroutine it starts for a streaming one        *)
(* (apirt/client.go).                                                      *)
(*                                                                         *)
(*   handler --ResponseWriter--> net/http --wire--> Do, pump --> consumer  *)
(*                                                                         *)
(* A unary response is its one value as the whole body; a streaming one is *)
(* a sequence of frames.  What is written stays in the server's buffer     *)
(* until it is flushed; net/http flushes the rest when the handler has     *)
(* returned.  net/http, the handler and the consumer are modelled as this  *)
(* package uses them.  The handler calls the writer from one goroutine,    *)
(* with any of its operations in any order, which the writer leaves to it. *)
(* A body that mixes the two forms is garbled: what its reader makes of it *)
(* from there on may be anything.                                          *)
(***************************************************************************)
EXTENDS Frames

CONSTANTS
  Unmarshalable,  \* the values the server's serializer refuses
  Undecodable,    \* the values the client's serializer refuses
  Oversize,       \* the values longer than client.go's gb
  EmptyDecodes,   \* does an empty body decode?  (block-io: yes, JSON: no)
  WireCap,        \* frames the transport buffers (flow-control window)
  MaxBuffered,    \* bound: chunks the handler leaves unflushed
  MaxMsgs         \* bound: writes to the body that the handler makes

ASSUME ValuesAssumption ==
  /\ Unmarshalable \subseteq Data
  /\ Undecodable \subseteq Data
  /\ Oversize \subseteq Data
  /\ EmptyDecodes \in BOOLEAN
ASSUME BoundsAssumption ==
  WireCap \in Nat \ {0} /\ MaxBuffered \in 1..WireCap /\ MaxMsgs \in Nat

\* What a body is made of: frames, and what WriteOutput writes, which is none.
RawChunk(v) == [type |-> "raw", payload |-> v]
Chunk == Frame \cup [type : {"raw"}, payload : Data \cup {None}]

VARIABLES
  call,           \* is the operation's result a "unary" or a "stream"?
  handler,        \* "serving", "returned" or "panicked"
  headersWritten, \* the writer's flag
  status,         \* the server's stats.StatusCode
  head,           \* the response head given to net/http
  sentHead,       \* the response head on the wire
  written,        \* history: the values of the response, in order: those of a
                  \* stream up to its first EOF message, or the unary one
  finished,       \* history: has the handler written the end as well?  (The end
                  \* of a unary body is written when the handler returns.)
  writes,         \* counts the handler's writes to the body
  late,           \* history: has it called WriteOutput with a response begun?
  buffered,       \* written but not flushed
  wire,           \* flushed, not yet read by the client
  wireEnd,        \* what follows
  do,             \* Client.Do: "waiting", "decoded", "ok" or "failed"
  pump,           \* where the response goroutine is
  hand,           \* the value in its respCh.Send, or the unary body read, or None
  garbled,        \* history: has the client read what is no message, or a unary
                  \* body that is more than one value?
  result,         \* what it returned
  delivered       \* history: the values the consumer has, in order, up to what is
                  \* garbled

writerVars == <<headersWritten, status, head>>
serverVars == <<call, handler, writerVars, written, finished, writes, late, buffered>>
wireVars   == <<sentHead, wire, wireEnd>>
clientVars == <<do, pump, hand, garbled, result, delivered>>
vars == <<serverVars, wireVars, clientVars>>

\* Every variable keeps its type: the transport never holds more than its
\* window, what the client hands on and has delivered are values, whatever is on
\* the wire, and in whatever order the handler calls its writer.
TypeOK ==
  /\ call \in {"unary", "stream"}
  /\ handler \in {"serving", "returned", "panicked"}
  /\ headersWritten \in BOOLEAN
  /\ status \in {"unset", "ok", "error"}
  /\ head \in {"none", "stream", "unary", "error", "empty"}
  /\ sentHead \in {"none", "stream", "unary", "error", "empty"}
  /\ written \in Seq(Data)
  /\ finished \in BOOLEAN
  /\ writes \in 0..MaxMsgs
  /\ late \in BOOLEAN
  /\ buffered \in Seq(Chunk) /\ Len(buffered) <= MaxBuffered
  /\ wire \in Seq(Chunk) /\ Len(wire) <= WireCap
  /\ wireEnd \in {"open", "clean", "aborted"}
  /\ do \in {"waiting", "decoded", "ok", "failed"}
  /\ pump \in {"none", "read", "send", "done"}
  /\ hand \in Data \cup {None}
  /\ garbled \in BOOLEAN
  /\ result \in {"none", "nil", "EOF", "unmarshal", "transport"}
  /\ delivered \in Seq(Data)

Init ==
  /\ call \in {"unary", "stream"}
  /\ handler = "serving"
  /\ headersWritten = FALSE
  /\ status = "unset"
  /\ head = "none"
  /\ sentHead = "none"
  /\ written = <<>>
  /\ finished = FALSE
  /\ writes = 0
  /\ late = FALSE
  /\ buffered = <<>>
  /\ wire = <<>>
  /\ wireEnd = "open"
  /\ do = "waiting"
  /\ pump = "none"
  /\ hand = None
  /\ garbled = FALSE
  /\ result = "none"
  /\ delivered = <<>>
-----------------------------------------------------------------------------
(***************************************************************************)
(* The ResponseWriter.                                                     *)
(***************************************************************************)

\* Only the first WriteHeader of a response counts.
WriteHeader(h) == head' = IF head = "none" THEN h ELSE head

\* The preamble of WriteMessage and WriteEofMessage.
StreamHeaders ==
  /\ WriteHeader("stream")
  /\ status' = IF headersWritten THEN status ELSE "ok"
  /\ headersWritten' = TRUE

ErrorHeaders ==
  /\ WriteHeader("error")
  /\ status' = "error"
  /\ headersWritten' = TRUE

\* A write to the body.
Writes == writes < MaxMsgs /\ writes' = writes + 1

\* The value is framed, written and flushed, with the head if it is the first and
\* whatever was not flushed before.  The writer does not know of the end.
WriteMessage(v) ==
  /\ handler = "serving"
  /\ Writes
  /\ wireEnd = "open"
  /\ Len(wire) + Len(buffered) < WireCap
  /\ v \notin Unmarshalable
  /\ StreamHeaders
  /\ written' = IF head' = "stream" /\ ~finished THEN Append(written, v) ELSE written
  /\ wire' = wire \o Append(buffered, DataFrame(v))
  /\ buffered' = <<>>
  /\ sentHead' = head'
  /\ UNCHANGED <<call, handler, finished, late, wireEnd, clientVars>>

\* The connection is gone: the Write fails and the handler is told.
WriteMessageFails ==
  /\ handler = "serving"
  /\ wireEnd = "aborted"
  /\ StreamHeaders
  /\ UNCHANGED <<call, handler, written, finished, writes, late, buffered, wireVars, clientVars>>

\* A value that cannot be marshalled is skipped and the stream goes on.
WriteMessagePanics_Skipped ==
  /\ handler = "serving"
  /\ Writes
  /\ StreamHeaders
  /\ ~finished /\ head' = "stream"
  /\ \E v \in Unmarshalable : written' = Append(written, v)
  /\ UNCHANGED <<call, handler, finished, late, buffered, wireVars, clientVars>>

\* The value cannot be marshalled: WriteMessage panics, and net/http ends the
\* exchange without completing the body.
WriteMessagePanics ==
  /\ handler = "serving"
  /\ Unmarshalable # {}
  /\ StreamHeaders
  /\ handler' = "panicked"
  /\ buffered' = <<>>
  /\ wireEnd' = "aborted"
  /\ UNCHANGED <<call, written, finished, writes, late, sentHead, wire, clientVars>>

\* The EOF message is written but, unlike a value, not flushed.  Nothing remembers
\* that it was.
WriteEofMessage ==
  /\ handler = "serving"
  /\ Writes
  /\ Len(buffered) < MaxBuffered
  /\ StreamHeaders
  /\ finished' = (finished \/ head' = "stream")
  /\ buffered' = Append(buffered, EofFrame)
  /\ UNCHANGED <<call, handler, written, late, wireVars, clientVars>>

\* The guard on headersWritten forgotten.
WriteError_Always ==
  /\ handler = "serving"
  /\ ErrorHeaders
  /\ UNCHANGED <<call, handler, written, finished, writes, late, buffered, wireVars, clientVars>>

\* An error becomes the response only while there is no response yet.  Its body,
\* the serializer's empty one, is not read by anybody.
WriteError ==
  /\ handler = "serving"
  /\ IF headersWritten THEN UNCHANGED writerVars ELSE ErrorHeaders
  /\ UNCHANGED <<call, handler, written, finished, writes, late, buffered, wireVars, clientVars>>

\* A unary response: the value, or the marshaller's error in its place.  Whether a
\* response has begun is not looked at: if so the head stays, and the body and the
\* status do not.  The empty body of an error has no bytes in block-io.
WriteOutput(v) ==
  /\ handler = "serving"
  /\ Writes
  /\ Len(buffered) < MaxBuffered
  /\ late' = (late \/ headersWritten)
  /\ \/ /\ v \in Unmarshalable
        /\ ErrorHeaders
        /\ buffered' = IF headersWritten /\ ~EmptyDecodes
                       THEN Append(buffered, RawChunk(None)) ELSE buffered
        /\ UNCHANGED written
     \/ /\ v \notin Unmarshalable
        /\ WriteHeader("unary")
        /\ status' = "ok"
        /\ headersWritten' = TRUE
        /\ written' = IF headersWritten THEN written ELSE <<v>>
        /\ buffered' = Append(buffered, RawChunk(v))
  /\ UNCHANGED <<call, handler, finished, wireVars, clientVars>>
-----------------------------------------------------------------------------
(***************************************************************************)
(* The HTTP server and the connection.                                     *)
(***************************************************************************)

\* ServeHTTP returns: net/http flushes what is left and ends the body.  A
\* handler that has written nothing has answered 200 with an empty body.
HandlerReturns ==
  /\ handler = "serving"
  /\ Len(wire) + Len(buffered) <= WireCap \/ wireEnd = "aborted"
  /\ handler' = "returned"
  /\ head' = IF head = "none" THEN "empty" ELSE head
  /\ finished' = (finished \/ head = "unary")
  /\ buffered' = <<>>
  /\ IF wireEnd = "aborted"
     THEN UNCHANGED wireVars
     ELSE /\ sentHead' = head'
          /\ wire' = wire \o buffered
          /\ wireEnd' = "clean"
  /\ UNCHANGED <<call, headersWritten, status, written, writes, late, clientVars>>

\* The connection is lost or the context cancelled.
TransportAborts ==
  /\ wireEnd # "aborted"
  /\ wireEnd' = "aborted"
  /\ UNCHANGED <<serverVars, sentHead, wire, clientVars>>

\* The client closes the response body it no longer reads.
BodyClosed == (do = "failed" \/ pump = "done") /\ wireEnd = "open" /\ TransportAborts
-----------------------------------------------------------------------------
(***************************************************************************)
(* Client.Do, after it has sent the request.                               *)
(***************************************************************************)

\* A streaming response: Do starts the response goroutine and returns nil.
DoStartsStream ==
  /\ do = "waiting"
  /\ call = "stream"
  /\ sentHead = "stream"
  /\ do' = "ok"
  /\ pump' = "read"
  /\ UNCHANGED <<serverVars, wireVars, hand, garbled, result, delivered>>

\* ReadAll takes what has arrived of a unary body: its value, if that is all.
DoReads ==
  /\ do = "waiting"
  /\ sentHead = "unary"
  /\ wire # <<>>
  /\ IF hand = None /\ ~garbled /\ Len(wire) = 1
     THEN hand' = wire[1].payload /\ UNCHANGED garbled
     ELSE hand' = None /\ garbled' = TRUE
  /\ wire' = <<>>
  /\ UNCHANGED <<serverVars, sentHead, wireEnd, do, pump, result, delivered>>

BodyRead == wireEnd = "clean" /\ wire = <<>>

\* Any body that can be decoded, whatever the status says.
DoReadsBody_AnyStatus ==
  /\ do = "waiting"
  /\ call = "unary"
  /\ wireEnd = "clean"
  /\ sentHead \in {"unary", "error"}
  /\ do' = "decoded"
  /\ delivered' = IF hand = None THEN delivered ELSE <<hand>>
  /\ wire' = <<>>
  /\ hand' = None
  /\ UNCHANGED <<serverVars, sentHead, wireEnd, pump, garbled, result>>

\* The body of a unary response has been read to its end and is decoded.
DoReadsBody ==
  /\ do = "waiting"
  /\ call = "unary"
  /\ BodyRead
  /\ \/ /\ sentHead = "unary"
        /\ ~garbled /\ hand \notin Undecodable
        /\ delivered' = <<hand>>
     \/ /\ sentHead = "unary"
        /\ garbled
        /\ UNCHANGED delivered
     \/ /\ sentHead = "empty"
        /\ EmptyDecodes
        /\ UNCHANGED delivered
  /\ do' = "decoded"
  /\ hand' = None
  /\ UNCHANGED <<serverVars, wireVars, pump, garbled, result>>

DoReturnsBody ==
  /\ do = "decoded"
  /\ do' = "ok"
  /\ UNCHANGED <<serverVars, wireVars, pump, hand, garbled, result, delivered>>

\* An empty answer to a streaming call expected to become a stream yet.
NoUsableResponse_NotEmpty ==
  \/ wireEnd = "aborted"
  \/ sentHead = "error"
  \/ sentHead = "stream" /\ call = "unary"
  \/ sentHead = "unary" /\ BodyRead /\ (call = "stream" \/ garbled \/ hand \in Undecodable)

\* The reasons for Do to return an error: no response, one with an error status,
\* a stream where one value is expected, or a body that cannot be read or decoded
\* into the result, which is impossible if that is a channel.
NoUsableResponse ==
  \/ wireEnd = "aborted"
  \/ sentHead = "error"
  \/ sentHead = "stream" /\ call = "unary"
  \/ sentHead = "unary" /\ BodyRead /\ (call = "stream" \/ garbled \/ hand \in Undecodable)
  \/ sentHead = "empty" /\ (call = "stream" \/ ~EmptyDecodes)

DoFails ==
  /\ do = "waiting"
  /\ NoUsableResponse
  /\ do' = "failed"
  /\ UNCHANGED <<serverVars, wireVars, pump, hand, garbled, result, delivered>>
-----------------------------------------------------------------------------
(***************************************************************************)
(* The response goroutine and the consumer of its channel.  Returning      *)
(* closes the channel, then the body.                                      *)
(***************************************************************************)
PumpReturns(r) ==
  /\ pump' = "done"
  /\ result' = r

\* A value the client refuses ends the stream with the error, one that is too
\* long with nil, the EOF message with nil.
PumpReadsFrame(f) ==
  /\ \/ /\ f.type = "data" /\ f.payload \in Oversize
        /\ PumpReturns("nil")
        /\ UNCHANGED hand
     \/ /\ f.type = "data" /\ f.payload \in Undecodable \ Oversize
        /\ PumpReturns("unmarshal")
        /\ UNCHANGED hand
     \/ /\ f.type = "data" /\ f.payload \notin Undecodable \cup Oversize
        /\ hand' = f.payload
        /\ pump' = "send"
        /\ UNCHANGED result
     \/ /\ f.type = "eof"
        /\ PumpReturns("nil")
        /\ UNCHANGED hand
     \/ f.type = "keepAlive" /\ UNCHANGED <<pump, hand, result>>
  /\ UNCHANGED garbled

\* What is no message, and all that follows it, is taken for lengths, types and
\* values as it comes: swallowed, given to the consumer, the end of the stream or
\* an error.  (Or of no known type, for which the goroutine panics and takes the
\* client's process with it; that is left out.)
PumpMisreads ==
  /\ garbled' = TRUE
  /\ \/ UNCHANGED <<pump, hand, result>>
     \/ hand' \in Data /\ pump' = "send" /\ UNCHANGED result
     \/ PumpReturns("nil") /\ UNCHANGED hand
     \/ PumpReturns("unmarshal") /\ UNCHANGED hand

\* The EOF message read as a value with no bytes.
PumpReads_EofAsValue ==
  /\ pump = "read"
  /\ wire # <<>>
  /\ IF garbled \/ Head(wire).type = "raw" THEN PumpMisreads
     ELSE IF Head(wire).type = "eof"
     THEN hand' = None /\ pump' = "send" /\ UNCHANGED <<result, garbled>>
     ELSE PumpReadsFrame(Head(wire))
  /\ wire' = Tail(wire)
  /\ UNCHANGED <<serverVars, sentHead, wireEnd, do, delivered>>

PumpReads ==
  /\ pump = "read"
  /\ wire # <<>>
  /\ IF garbled \/ Head(wire).type = "raw" THEN PumpMisreads ELSE PumpReadsFrame(Head(wire))
  /\ wire' = Tail(wire)
  /\ UNCHANGED <<serverVars, sentHead, wireEnd, do, delivered>>

BodyExhausted == wireEnd = "aborted" \/ BodyRead

\* The end of the body taken for the end of the stream.
PumpReadsEnd_AsComplete ==
  /\ pump = "read"
  /\ BodyExhausted
  /\ PumpReturns(IF wireEnd = "clean" THEN "nil" ELSE "transport")
  /\ UNCHANGED <<serverVars, wireVars, do, hand, garbled, delivered>>

\* The end of the body waited out, in case more comes.
PumpReadsEnd_Retried ==
  /\ pump = "read"
  /\ BodyExhausted
  /\ wireEnd = "aborted" /\ PumpReturns("transport")
  /\ UNCHANGED <<serverVars, wireVars, do, hand, garbled, delivered>>

\* The body ends without an EOF message: io.EOF, or the transport's error.
PumpReadsEnd ==
  /\ pump = "read"
  /\ BodyExhausted
  /\ PumpReturns(IF wireEnd = "clean" THEN "EOF" ELSE "transport")
  /\ UNCHANGED <<serverVars, wireVars, do, hand, garbled, delivered>>

\* The consumer receives the value the goroutine is blocked sending.
ConsumerTakes ==
  /\ pump = "send"
  /\ delivered' = IF garbled THEN delivered ELSE Append(delivered, hand)
  /\ hand' = None
  /\ pump' = "read"
  /\ UNCHANGED <<serverVars, wireVars, do, garbled, result>>

ClientDone == do = "failed" \/ (do = "ok" /\ pump \in {"none", "done"})

Terminated == handler # "serving" /\ ClientDone /\ UNCHANGED vars
-----------------------------------------------------------------------------
Handler == \/ \E v \in Data : WriteMessage(v) \/ WriteOutput(v)
           \/ WriteMessageFails \/ WriteMessagePanics
           \/ WriteEofMessage \/ WriteError \/ HandlerReturns
Do == DoStartsStream \/ DoReads \/ DoReadsBody \/ DoReturnsBody \/ DoFails
Pump == PumpReads \/ PumpReadsEnd

Next == Handler \/ TransportAborts \/ Do \/ Pump \/ ConsumerTakes \/ Terminated

Spec == Init /\ [][Next]_vars

(***************************************************************************)
(* The client's goroutines run.  That a handler returns and that a         *)
(* consumer receives until its channel is closed is what this package      *)
(* asks of its users; nothing else in the model waits for them.            *)
(***************************************************************************)
Fairness ==
  /\ WF_vars(HandlerReturns)
  /\ WF_vars(Do)
  /\ WF_vars(Pump)
  /\ WF_vars(ConsumerTakes)
  /\ WF_vars(BodyClosed)

FairSpec == Spec /\ Fairness
-----------------------------------------------------------------------------
\* The value that the consumer has to get next is longer than gb: the client's
\* sanity check ends the stream there, and it ends it with nil.
CutShort == Len(delivered) < Len(written) /\ written[Len(delivered) + 1] \in Oversize

\* The response goroutine returns nil only if the handler finished the stream
\* and the consumer was given every value it wrote before, but for one that is too
\* long: a handler that returns early, a panic, a lost connection or a value the
\* client cannot decode is never taken for the end of the stream, nor does it
\* matter what the handler writes after the end.  The other exception is a stream
\* that WriteOutput was called in, once the client has come to that.
CleanResultIsComplete ==
  result = "nil" => (finished /\ delivered = written) \/ CutShort \/ garbled

\* Do reports success only for a response the handler really gave: an error
\* response does not count, nor does the silence of a handler that wrote
\* nothing, unless the client's serializer makes a value of an empty body.
SuccessMeansAnswered ==
  do = "ok" => sentHead \in {"stream", "unary"} \/ (sentHead = "empty" /\ EmptyDecodes)

\* The status recorded in the server's stats is the status of the response,
\* whichever of the writer's operations the handler called, in which order, but
\* for WriteOutput, which records its own whether a response has begun or not.
StatsMatchHead ==
  late \/ status = CASE head \in {"stream", "unary"} -> "ok"
                     [] head = "error" -> "error"
                     [] OTHER -> "unset"

\* What the handler's writer and the client's consumer observe of a response
\* is a MessageStream, of one value if the operation is unary.  A response cut
\* short, one garbled, and one made of an empty body, are failures of that stream.
AbstractOutcome ==
  IF garbled THEN "failed"
  ELSE IF do = "failed" \/ result \in {"EOF", "unmarshal", "transport"} THEN "failed"
  ELSE IF result = "nil" /\ CutShort THEN "failed"
  ELSE IF sentHead = "empty" /\ do # "waiting" THEN "failed"
  ELSE IF result = "nil" \/ (do = "ok" /\ call = "unary") THEN "complete"
  ELSE "open"
Abstract == INSTANCE MessageStream
              WITH sent <- written, closed <- finished, outcome <- AbstractOutcome
ImplementsMessageStream == Abstract!Spec

\* Do returns ...
DoReturns == (do = "waiting") ~> (do \in {"ok", "failed"})

\* ... and so does the goroutine it started: the consumer's range over the
\* channel and the caller's g.Wait end, however the response ends.
PumpFinishes == (pump # "none") ~> (pump = "done")
=============================================================================
