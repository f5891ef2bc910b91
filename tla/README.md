# pcc-rpclib-go: a TLA+ verification project

pcc-rpclib-go is an RPC library over HTTP: unary calls, and calls that stream
messages in one direction or in both. This directory holds TLA+ models of its
concurrent core, written from the Go source, TLC configurations that check them on
small instances, and proofs that TLAPS checks for every instance. Paths such as
`apirt/client.go` are relative to `src/`.

## 1. Inventory

| component | state it keeps | operations | correct when |
|---|---|---|---|
| message format (`apirt/message.go`, `message_stream.go`) | none; three kinds of message: data, EOF, keep-alive, behind a length prefix | Type, Content, MarshalValue | a stream's end is a message, so it cannot be confused with a connection's end |
| streaming request (`apirt/client.go` 118-230, `request.go`) | caller's channel, io.Pipe, the goroutine's `err` and `closed` | Do's first goroutine, ReadMessage | nothing lost, reordered or repeated; a clean end is complete; the sender is never left blocked |
| response (`response_writer.go`, `client.go` 258-410) | `headersWritten`, stats, buffered body; the client's body reader and channel | WriteOutput, WriteMessage, WriteEofMessage, WriteError; Do's second goroutine | the same in the other direction; success means an answer |
| streaming call (`client.go`, `server_endpoint.go` 200-225) | both halves, an errgroup, a context | Do, g.Wait | one direction can end without the other; a failure is seen on both sides; everything ends |
| read watchdog (`watchdog.go`) | ticker, two channels, a cancel function | startReadWatchdog | a dead peer is noticed and a living one left alone |
| server endpoint (`server_endpoint.go`, `operation.go`, `context.go`, `exception.go`) | bound calls, hooks; for each request an errgroup and its context | BindCall, ServeHTTP, invokeOperationWithHooks | only admissible requests reach a handler; a refused one is told why; nothing of it outlives ServeHTTP |
| routing (`client.go` buildRequestUrl, `server_endpoint.go` parseCallKey, `call_key.go`, `httpx/httpx.go` cleanUrl) | none | URL built and taken apart again | a call reaches the handler bound for it |
| unary input (`client.go` 219-228, `request.go` UnmarshalBody, `exception.go`) | the body, the object decoded so far | Do's Marshal, ReadAll, Unmarshal, WriteError | a handler gets the object that was sent, or the call is refused with a status that tells why |
| serializers (`serializer.go`, `byte_string.go`, `duration.go`, `time.go`, `empty.go`) | a registry | FindSerializerByMime, Marshal, Unmarshal | decode inverts encode |
| block-io codec (`apirt/internal/blockio/`) | cached type descriptions | Marshal, Unmarshal | values arrive under their names, in their types, between equal and different versions of a type |
| span forwarder (`apitrace/zipkin_forwarder.go`) | channel, batch, ticker | SubmitSpan, the batching goroutine | no span silently lost; requests are not held up |
| tracing of a call (`apitrace/middleware.go`, `apitrace.go`, `zipkin/`) | spans in contexts and X-B3 headers | NewSpan, SetHeaders, three middleware handlers | spans hang together as the calls did |
| input validation (`apivalidation/`) | constraint sets | ValidateObject, ValidateValue | a value passes if and only if every constraint on it is kept, wherever in it that is |
| tokens (`apitoken/`) | a key | encode, decode | a decoded token is one that was encoded |
| statistics (`apistats/`), HTTP helpers (`httpx/`) | counters; none | thin calls of other libraries | - |

How they interact. `Client.Do` starts at most one goroutine for the request and one
for the response; both belong to an `errgroup.Group` the *caller* passes in, so the
caller's `g.Wait` is where their errors appear, and the first of them cancels the
group's context. On the server, ServeHTTP makes such a group for each request and
hands it, with its context, to the bound handler, whose own outgoing calls may use
them: then a call's goroutines can cancel the call. The goroutines and the caller
share channels without buffers. Do makes a client span and sends it in headers; the
middleware makes the server's, and both go to the forwarder's channel.

What is hard: several goroutines per call whose ends depend on one another (a pipe
nobody reads, a channel nobody drains); the many ways a stream can end, of which one
only is success, while io.EOF is used for success in one place and for failure in
another; errgroups that keep the first error only; a ticker against messages; a
bounded channel whose reader sleeps; answers that are lost. PROJECT.json
("hazards") lists them line by line.

## 2. The modules

| module | code | state and actions |
|---|---|---|
| Frames | `message.go` | the three kinds of message as records; positions of data frames on a wire |
| MessageStream | `message_stream.go` | abstract: what a sender sent, what a receiver got, "open", "complete" or "failed" |
| RequestStream | `client.go` 118-258, `request.go` | `pc`, `err`, `closed` are the goroutine's; `reader` and `writeEnd` the ends of io.Pipe; `wire`, `wireEnd` the transport. One action per select case, per Write (taken or failed), for the deferred function, for its drain loop; the transport's actions; ReadMessage |
| ResponseStream | `response_writer.go`, `client.go` 258-410 | `headersWritten`, `status`, `head` are the writer's; `buffered` what is not flushed, frames and the bodies WriteOutput writes; `do`, `hand` and `pump` the client's two threads. One action per ResponseWriter method and outcome, each possible at any time while the handler serves; one per read and return path of Do, per turn of the response goroutine |
| StreamingCall | `client.go`, `server_endpoint.go` | instances of RequestStream and ResponseStream over one exchange, plus `groupErr`, `ctxFromGroup`, `lost`; resets hit both halves |
| ReadWatchdog | `watchdog.go` | one action per select case, the blocked send, the ticker and the passing of time |
| Routing | `client.go` buildRequestUrl, `httpx/httpx.go` cleanUrl, `server_endpoint.go` parseCallKey | no state: functions on strings, which are sequences of characters |
| ServerEndpoint | `server_endpoint.go` ServeHTTP | the requests are those Routing makes of a client's prefix, the server's URL and a call, and others; `stage` is the position in ServeHTTP; each check is an action; hook and group goroutines run beside it; the hook may panic, which ends ServeHTTP without its wait |
| ZipkinForwarder | `zipkin_forwarder.go` | `chan`, `batch`, `retry` are the code's; an attempt has four outcomes |
| Tracing | `client.go` 100-116, `middleware.go`, `zipkin/headers.go` | for each call its two spans, its headers, and the handler it has reached; a request is this client's, or another one's with whatever headers that makes up |
| BlockIO | `apirt/internal/blockio/` | no state: types and values as records and sequences; what Marshal writes, as a sequence of records; what Unmarshal makes of one |
| Validation | `apivalidation/` | no state: the constraint sets, the walk over an object with its early returns, and, as a reference, the set of all places a constraint is put on |
| UnaryInput | `client.go` 219-228, `request.go` 34-52, `exception.go` | `stage` is how far the input has got; one action for Marshal, the broken connection, ReadAll, each turn of Unmarshal's loop, the handler's ValidateObject, its answer or its error |
| FrameLemmas, and RequestStreamProofs, ResponseStreamProofs, StreamingCallProofs, ReadWatchdogProofs, ServerEndpointProofs, ZipkinForwarderProofs, TracingProofs | - | lemmas and theorems (section 4) |
| MC* | - | values for TLC |

StreamingCall composes RequestStream and ResponseStream, and both refine
MessageStream; ServerEndpoint serves paths made by Routing; UnaryInput is what happens to the
input of a unary call in a handler that ServerEndpoint runs. The other components meet a call in one place only (the endpoint
around the handler, the forwarder behind the end of a span, the watchdog between
two channels) and are modelled by themselves.

Modelled by use, not from source: Go's channels, select, io.Pipe, errgroup, ticker
(as of Go 1.23: Reset discards a waiting tick), net/http (head sent once; body
buffered until flushed; 200 for a handler that wrote nothing; a panic aborts the
response), reflection (SetInt keeps the low bits, setting the wrong kind panics), the
zipkin collector, and the application's handlers, consumers and Validate methods.

Operators named `Action_Something`, defined beside an action or helper, are
plausible mistakes in it. They are used to check that a property is able to fail,
and are no part of a specification.

## 3. The runs

All passing runs but `tracing` and `unary_input` (safety only) use
FairSpec. The types of RequestStream and ReadWatchdog are checked as part of their
IndInv; those of ServerEndpoint, Tracing and the streaming call are proved (section 4).

**request_stream.** A caller sends up to three values, one of which the serializer
refuses, while the connection may break, the handler may stop reading, and the
request may not even be built. `CleanEndIsComplete`: ReadMessage's io.EOF means that
everything was received and the channel was closed. `ReturnedMeansChannelClosed`: the
goroutine never leaves a sender behind. `ImplementsMessageStream`: the half refines
MessageStream. `ReleasedIfBuilt`, `PumpReturns`: a blocked sender is released; the
goroutine returns after the close. `IndInv` is the invariant of the proof. Three
values with a window of two frames let a frame wait in each place of the way at
once; one keep-alive suffices to put one between any two values.

**request_stream_build_failure** (violation). `SenderReleased`, without the
exception for a request that could not be built, fails; see section 6.

**response_stream.** A handler that calls the writer's operations in any order, up to
four writes to the body: values and EOF messages behind an EOF message, WriteOutput
in a stream or twice, WriteError anywhere. Among the values are one the server cannot
encode (WriteMessage panics; WriteOutput writes an error), one the client cannot
decode, one beyond the client's sanity check; the serializer decodes an empty body.
`CleanResultIsComplete`: nil from the response goroutine means a complete response,
except before an oversized value and in a body that a WriteOutput has garbled.
`SuccessMeansAnswered`: Do's nil means the handler answered, except for the silent
handler and such a serializer. `StatsMatchHead`: recorded status and status sent agree,
except after a WriteOutput with a response begun. `ImplementsMessageStream` as above;
`DoReturns`, `PumpFinishes`: the client's threads end. The exceptions are what the code
does (section 6), stated in the properties so that they stay exactly these. `TypeOK`:
the client hands on values only, whatever is on the wire; an EOF message, say, is never
one. Four writes make a value, the end, and both again behind it; the buffer and the
window take two chunks, the number an unflushed end and a second body need (86 000
states). A larger buffer only lets more of the same wait: that nobody empties it before
a flush is the code's, that it ends somewhere is the bound `MaxBuffered`.

**streaming_call.** Both halves at once, one value and a keep-alive for the request, two
writes for the response, a window and a buffer of one chunk, a context that is or is not
the group's. `HalfCloseKeepsResponse`: with another context a call fails only if something
failed, so the io.EOF of the finished request goroutine hurts nothing.
`CutRequestIsReported`: g.Wait tells that a request was cut. `FailureIsVisible`: a request
goroutine that fails is not the only one to know, even if the handler never returns, as
long as it reads what it was sent. (If it does neither, the transport is held up by flow
control, does not read the pipe, and does not learn that it was closed with an error.)
`CallEnds`: after half-close, if the handler returns, all of the call ends. This is the
largest run (330 000 states, about a minute): a keep-alive can fill the window before the
value fails or is cut, and the response can have a value and its end, or a body behind
it; more of either is what the halves' own runs have. The composed actions are those of
the halves, so a step of the call is a step of a half or leaves it alone by construction;
that is used in the proofs (section 4) and is not a property of a run.

**streaming_call_group_context** (violation). `OnlyBrokenIfCaused` with the group's
context fails.

**read_watchdog.** Period 3, patience 2, silence measured up to 7 (more than period
plus patience, so the case arises), four messages. `CancelIfSilentForLong`,
`CancelOnlyIfSilent`: the two directions of what cancel means, against a ticker that
is not the silence. `NothingDropped`, `EndsWithInput`.

**forwarder.** Three sampled spans and one unsampled, a channel of one, a batch of
two, two attempts: the batch overflows, the channel is full and a retry fails, all
at once. `NoSilentLoss`: while the goroutine runs an accepted span is somewhere; what
is left in channel and batch when the context has ended it, and what is sent into the
channel behind it, is `abandoned`, which is the code's own loss (section 6).
`AnsweredOnce`: what the collector has answered is not submitted again, whatever comes
in meanwhile. `TrimsOldestOfFull`, `SubmitReturns`, `SpansArrive` (under the assumption,
part of the property, that an attempt made again and again is acknowledged in the end).

**forwarder_refused** (violation). `RefusedIsKept`.

**endpoint.** An endpoint with an empty prefix, a short or a longer one; clients that
agree with each (with slashes at either end, or part of the prefix in the server's
URL) or with none, calls that are bound, one with a slash in the operation's name,
and one that is not; other paths, among them the bare prefix and one that only
starts with its letters; every combination of method, content type, protocol and
direction; two goroutines in the handler's group, so that one can fail while another
is blocked. `HookOnlyIfAdmissible`, `RefusalIsAnswered`, `CallReachesItsHandler`
(client and endpoint understand each other). `NothingOutlivesRequest`: when ServeHTTP
has ended the body is closed and nothing of the request runs, unless the hook has
panicked, as it does in WriteMessage with a value that cannot be encoded: then ServeHTTP
is unwound past its g.Wait. `LeftoversEnd`: the goroutines which that leaves end all the
same, because net/http cancels the request's context. `ServeReturns`. One operation with a slash suffices to tell the first from the last.

**tracing.** Two calls at once; a caller with a span in its context or without; one
that passes on headers of another trace; requests of other clients, with no headers,
headers of their own making or those of a request they have seen. `SharedIdsAreHalves`:
two spans have one identifier only as halves of a call, or because the server believes
another client that repeats one. `ServerSpanHasItsPlace`: headers passed on do not
move a server's span. Symmetric in the calls (there is no liveness in the run).

**tracing_endpoint** (violation). `AnsweredByEndpoint`.

**unary_input.** Twenty-two pairs of a client's and a server's type, made after the
objects of `biased_serializer_test.go`: a list of structs, or of pointers to them,
beside a pointer to a string; a struct in a struct, byte strings, numbers of three
bits (as wide as the model's uint64, so that the conversion of a negative bound wraps
within reach) or two; the same in two versions, with fields added, removed, moved,
narrowed or of another kind; and types the codec does not handle. Validate methods
have value receivers, pointer receivers or are not there. Lists have up to two
elements: enough for a nil before a value and behind one, and for an error in the
second element only. The connection may break behind any record.
`InputIsWhatWasSent`: a handler gets the client's object, field for field by name, or
nothing. Two exceptions, both the code's (section 6): a number for which the server's
type has no room (`HasType(u, v) =>`), and what precedes a nil in a list of pointers
(`Kept`). `ValidatedIsValid`: in a handler that validates its input, all constraints
are kept, those in the last element of a list and behind a pointer too, except those
of a struct held by value whose Validate method has a pointer receiver, which the walk
cannot see. `RefusedOnlyForCause`: conversely, nothing is refused without a cause, the
error names a place where a constraint is broken, and the status is 400 for that and 500
for a body that cannot be read or decoded; a validation that drops the connection has
met a nil pointer to a struct with a Validate method. Both compare with `Sites`, all
the places of an object that a constraint is put on, and with `HasNilObject`, which
are defined over types and values and share with the walk only how a place is named.
`TypeOK`: whatever the records are, the object decoded is a value of its type.

`CHECK_DEADLOCK FALSE` stands where the system may really stop: a caller that never
closes its channel, a handler that hangs, senders on a channel whose reader has gone.

### Fairness

The library's goroutines and net/http run (weak fairness). Go's select chooses at
random among ready cases, so in the forwarder, whose select has three that compete,
each case is strongly fair; so are senders waiting for one channel, which Go serves
in order. A handler need not read or return in StreamingCall (`FailureIsVisible` and
`CallEnds` assume the one and the other in their own statements); in ResponseStream and
ServerEndpoint it returns, which the endpoint asks of it, as g.Wait would wait for ever otherwise, or panics. net/http cancels the
context of a request whose ServeHTTP has ended. A consumer receives until its
channel is closed: respCh.Send does not watch the context. A producer may stop at any
time, and a connection need not fail.

## 4. What is proved

RequestStreamProofs, for every set of values, window and bound (assumptions:
`UnmarshalableAssumption`, `BoundsAssumption`, `DataAssumption`, which only say what
the constants are):

- `Invariance`: Spec => []IndInv
- `TypeCorrectness`, `CleanEnd`, `PumpOutlivesChannel`: the run's safety properties
- `Refinement`: Spec => ImplementsMessageStream

(The invariant is named IndInv in most modules; where no run checks it as a property
it was checked by TLC on the run's instance before it was proved.) CleanEndIsComplete is not inductive: that the clean end of the body arrives says
nothing unless the end was written after the last value, and that nothing was lost
between. IndInv adds: `PumpState`, which ties the goroutine's position, its result and
the channel (err is "EOF" exactly if the channel was seen closed; it is "nil" exactly
in the loop); `EndState`, that a clean end, as message or as end of body, exists only
after that, and that the EOF frame is last; and `InFlight`, the heart: the data frames
on the wire can be numbered with consecutive positions of `sent`, from the last value
received up to the last sent, less the one in the goroutine's Write. A failed stream
may have lost a tail, never a middle. FrameLemmas proves how such a numbering changes
when a frame is appended or taken. Refinement maps "error" and "stopped" to the
abstract "failed" and shows each step to be Send, Close, Deliver, Complete, Fail or a
stutter.

`NoDeadlock` and `NoLivelock` are about progress. The first says that while a sender is
blocked, or the channel is closed and the goroutine still runs, one of the goroutine, the
transport and the handler can go on; it needs that the transport reads the pipe only while
the body is open (`OpenWhileReading`). The second gives a rank that every step then
lowers: what is left to write, to carry, to read, and how many keep-alives (that is why
`MaxKeepAlives` is part of it: on a real clock they go on while the peer reads them).
`WaitingGetsShorter`, `ReleaseComesNearer` and `ReturnComesNearer` add fairness; what
they assume, and what they leave, is below under "Liveness".

ResponseStreamProofs, for every set of values, serializers that refuse any of them on
either side, every window and bound (`ValuesAssumption`, `BoundsAssumption`,
`DataAssumption`):

- `Invariance`: Spec => []IndInv
- `TypeCorrectness`, `CleanResult`, `SuccessIsAnswered`, `StatsAreTrue`: the run's
  safety properties
- `Refinement`: Spec => ImplementsMessageStream

StatsMatchHead is inductive once `WriterState` is there, which ties the writer's flag
to the head it guards. CleanResultIsComplete is not: nil is returned when an EOF frame
is read, so IndInv has to say of each chunk under way, on the wire or in the buffer,
which value it is. A handler may write anything behind the end of its stream or between
its values, so that can be said only of the chunks before the first that is not a value.
`StreamState` and `StreamWire` do: what the consumer has and what is in respCh.Send are a
prefix of `written`, and under way is the rest of it in order (`Carries`), up to the first
EOF frame, behind which nothing belongs to the stream, or the first chunk that is no
message, which makes the client's reading `garbled`; while the handler serves, and only
values are under way, they are all there is (`IsUpToDate`). `UnaryWire` says that what is
under way of a unary body begins with its value until Do has read it, `UnaryState` what Do
makes of it; `EndState` what the end of the body means for the handler and the head;
`ClientState` where Do and its goroutine are for each head that has been sent.

Here too `NoDeadlock` and `NoLivelock`: Do waits for the response head and for nothing
else, its goroutine for a frame, and the handler, when the buffer cannot be flushed into a
full window, for that goroutine, which never waits for the handler then. `DoAlwaysReturns` is liveness: if the
handler returns or panics, which is its hypothesis, DoReturns follows. `EndComesNearer` is
the step from rank to rank for PumpFinishes.

StreamingCallProofs, for the same constants and any interleaving of the two halves, the
exchange and the group (`ValuesAssumption`, `BoundsAssumption` of StreamingCall):

- `RequestRefinement`, `ResponseRefinement`, `EndsAreTrue`, `DeliveredInOrder`: what is
  proved of the halves holds of the call, without proving it again, since by construction
  each step of the call is a step of a half or leaves it alone (the lemma
  `CallHasHalves`). What is delivered is in order up to what a WriteOutput has garbled.
- `Invariance`, `BreaksForCauseOrByGroup`, `HalfCloseIsHarmless`,
  `CutRequestsAreReported`: what the halves do not know of each other. The last two are
  safety properties of `streaming_call`; the first says the same of a call whose context
  is the group's: it breaks for a cause, or because its request goroutine has returned
  first, the group's error being that goroutine's, if only the io.EOF of a closed channel.

`CutForCause` says that a response is cut for a cause that can still be seen, by the group
(`CutByGroup`), or after its goroutine has returned; that a cause stays to be seen needs
the invariants of the halves (a head, once sent, is final; a unary response that cannot be
decoded is not taken from the wire; an error of the request goroutine is final).
`RequestErrors` excludes that a pipe closed by the transport breaks the exchange a second
time. `GroupState` says whose error the group has: that of a goroutine which has returned,
so that a request goroutine that failed either gave the group its error or came after one
of the response goroutine's. `BrokenForCause` follows the cut to Do and to the response
goroutine.

`NoDeadlock` of the call is more than that of its halves: the handler reads and writes in
turn, so the request goroutine may wait for it while it waits for a consumer. The theorem
says who can go on then; that the client closes a response it has given up, and the
transport a request whose response is complete, is part of the argument
(`HandlerEndState`: the handler's part in both halves ends in one step, and a unary Do has
its result only afterwards). `NoLivelock` adds up the halves' ranks. `FailureEndsResponse`
is liveness: a request goroutine that fails closes its pipe with the error, the transport
finds it and cuts the exchange, so the response ends even if the handler serves for ever
(`FailureState`: a pipe closed otherwise than in order, seen by its reader, means that the
response has ended). The transport reads the pipe only with room in its window, so the
theorem takes as a hypothesis that the handler reads: nothing comes into a full window
any more (`WindowStep`), and there is something in it to read (`FullIsToRead`, from
`ReadingState`: a handler has not seen an end of a request whose pipe failed). With a
handler that neither reads nor returns, the response need not end. `EndComesNearer` and `FailureIsVisibleIfEndIsSeen` carry that on to
the client and to FailureIsVisible.

ReadWatchdogProofs, for every period, patience and number of messages
(`PeriodAssumption`, `BoundsAssumption`; silence is measured to a bound beyond the
period and the patience, as the run's is):

- `Invariance`: Spec => []IndInv
- `TypeCorrectness`, `DeadPeerIsNoticed`, `LivingPeerIsLeftAlone`,
  `EverythingHandedOn`: the safety properties of `read_watchdog`

None of them is inductive: that cancel comes in time, and not too early, is a matter
of the ticker, which runs beside the silence. IndInv relates the two: in the select
the silence is at most the running period and the send before it (`SilenceState`),
and a tick waiting there has just come after a period of silence (`TickState`),
because the goroutine does nothing between a Reset and the tick but wait. Time passes
only when nobody in the goroutine can go on; both rest on that.

`EndsWhenClosed` is liveness: the goroutine ends when its input is closed. When its context
is done the input may go on, and the select choose it every time; `NoLivelock` measures by
how many messages it can be put off, `EndComesNearer` that it comes nearer.

ServerEndpointProofs, for every set of calls, clients, prefixes and paths, of names of
any length, and any number of goroutines (`KeysAssumption`, `StringsAssumption`, which
say what the constants are, and `NamesAssumption`: an API's name has no slash, as
parseCallKey cuts at the first one, and the path of a server's URL is empty or starts
with a slash, as net/url has it, and is not `//`, of which cleanUrl would keep a slash
too many):

- `Invariance`: Spec => []IndInv; `TypeCorrectness`
- `HandlerIsGuarded`, `RefusalsAreAnswered`, `NothingIsLeft`,
  `CallsReachTheirHandler`: the safety properties of `endpoint`

That the handler runs only for an admissible request has to be carried through the
checks: `AdmissionState` says what a request that got so far has passed, and keeps it
for as long as the handler's results are about; `HookState` ties the stage to the hook
(a goroutine of the group exists only if the hook was called, and stage "wait" only
behind it), so that nothing runs when a check ends the request; `ReplyState` says that
nothing is written before, so that the first refusal is the answer. The fourth theorem
rests on what Routing's operators return. The module's first part proves that the path
a client sends is the endpoint's prefix, a slash, and the two names (`PathSent`: the
URL is put together from five parts, and cleanUrl's slashes match), and that
parseCallKey takes such a path apart again (`KeyIsFound`: the first slash behind the
prefix is the one that ends the API's name); `RoutingState` carries the key from there
to the handler. TLC checks these on strings of a few characters.

`NothingIsLeft` and with it the invariant except the goroutines that a panic of the hook
leaves. `NothingIsTakenBack` is an action property: no check, goroutine or hook replaces a
status that was written, revives what has ended, or starts anything behind the end of
ServeHTTP; once it has returned, panics apart, nothing runs. Of liveness:
`WaitIsReached` (ServeHTTP ends or comes to its wait), `WorkerEnds` (so does each goroutine
of a group whose context is done), `ServeReturnsIfWorkersEnd` (then ServeHTTP returns).

ZipkinForwarderProofs, for every set of spans, sampled or not, and every size of channel,
batch and number of attempts (`SpansAssumption`, `BoundsAssumption`):

- `TypeCorrectness`, `NothingLostSilently`: the safety properties of `forwarder`
- `OnlyOldestDropped`: Spec => TrimsOldestOfFull, an action property

TypeOK bounds the channel and the batch; with it NoSilentLoss is inductive: each step
moves spans from one of the places it names to another, and the step that ends the
goroutine moves what is left to `abandoned`. The lemmas say what remains of a
batch when one is appended and the oldest trimmed.

- `SpansKeepTheirOrder`: batch and channel are one queue; a step puts a span whose
  SubmitSpan returns at its end, drops its first, hands over its front, or leaves it. That
  the span trimmed is gone rests on nobody being in the queue twice (`QueuedOnce`), which
  this in turn preserves.
- `AnsweredIsNotSentAgain`: Spec => []AnsweredOnce, from the order of the queue: an answer
  takes the whole batch out of it, and nothing brings a span back.
- `RetriesRunOut`: an action property; nothing gives a submission more attempts
- `AttemptsEndComesNearer`, `SubmitReturnsIfAttemptsEnd`, `BatchArrivesIfAttemptsEnd`,
  `ChannelAdvancesIfAttemptsEnd`: liveness, see below. `AttemptsEnd` is that a submission
  of a batch ends; the first counts it down, the others derive from it SubmitReturns, and
  the two parts of SpansArrive.

TracingProofs, for any finite number of calls, whatever spans their callers are in,
whatever headers they pass on, and whatever headers other clients send (`SpansAssumption`: those spans are not among the
identifiers made here):

- `TypeCorrectness`, and `IdentifiersAreNotMixedUp`, `ServerSpansArePlaced`: the
  safety properties of `tracing`

IndInv counts: `IdsCounted` says that two identifiers have been taken for each client
span and each server span, so a new one is new (`IdsApart`) and MaxId is never passed.
`ClientSpans` and `ServerSpans` say where each was taken from. A server span that joins
its client's has that one's identifier; one of another client's trusted request has
whatever identifier the headers name (`Repeats`), which is the property's exception.

`OnlyServerSpansAreSubmitted` says what the forwarder is given: the server span of each call
answered, and nothing else (the client's, a copy made too early, is the deviation of
`apirt/client.go:109` below). `SpansKeepTheirPlace` is an action property: no handler and no
other call changes a span's identifiers, or headers sent.

Liveness. Three things are out of the prover's reach, and each theorem says what it takes
in their place:

- ENABLED. Each theorem has the hypothesis []ActionsEnabled, defined beside it: the
  actions that FairSpec is fair to are enabled when their guards say so. This restates the
  guards and no more. TLC, which can evaluate ENABLED, finds it invariant on the instances
  of the runs `request_stream`, `response_stream`, `streaming_call`, `read_watchdog`,
  `endpoint` and `forwarder` (a module that extends the proof module and has the MC
  module's definitions, with the run's cfg and ActionsEnabled as its invariant).
- Induction. Where the number of steps left is not fixed, a theorem `...ComesNearer` shows
  for every n that from rank n the goal or a smaller rank is reached. That a natural number
  cannot fall for ever, the last step, is not proved; the liveness property itself is
  checked by TLC.
- A conjunction over a set. The fairness of one goroutine of the group, or of one
  SubmitSpan, cannot be taken out of FairSpec's conjunction for all of them; it is a
  hypothesis of its own there (`WorkerEnds`, `SubmitReturnsIfAttemptsEnd`). Nor can the
  ends of the goroutines be put together: `ServeReturnsIfWorkersEnd` assumes the whole.

Proved whole in this sense (fairness, []ActionsEnabled and the hypothesis on the handler
each states): `DoAlwaysReturns`, `EndsWhenClosed`, `WaitIsReached`, `FailureEndsResponse`.
Only model-checked: the last step of the other liveness properties (ReleasedIfBuilt,
PumpReturns, PumpFinishes, EndsWithInput, FailureIsVisible, ServeReturns, SubmitReturns,
SpansArrive), LeftoversEnd, CallEnds, of which the absence
of deadlock and of livelock in the call is what is proved, and UnaryInput's safety. BlockIO,
Validation and UnaryInput compute over types and values of any depth,
with recursive operators; what these return for every input would be proved by
induction over data, which none of the provers does. The runs that show a deviation are
counterexamples and have no theorem; that TLC's counterexample for the group's context
(`streaming_call_group_context`) needs that context is what `HalfCloseIsHarmless` proves,
and `BreaksForCauseOrByGroup` that it is the only way a call breaks without a cause.

## 5. What is not modelled

- Bytes: a frame arrives whole; one cut short gives the transport's error, as its
  boundary does. Unknown message types and empty messages are left out; so is the panic
  of a client whose response goroutine takes a body garbled by WriteOutput for a message
  of an unknown type, which would take its process with it. Otherwise what is made of a
  garbled body is any outcome there is.
- Two goroutines using one ResponseWriter: `headersWritten` is loaded and stored in
  two steps, but net/http's writer below it, and the recorded status beside it, have no
  lock at all, so such a handler is already a data race, whose outcomes no model of the
  two steps would be faithful to. The model's handler writes from one goroutine.
- Annotations of a span, appended by three goroutines without a lock; tags,
  endpoints and the response writer's wrapper in the tracing middleware.
- BindCall and AddHook: done before the endpoint serves.
- Escaping in URLs.
- The bytes of block-io records: how lengths and numbers are written, and a body cut
  inside a record, which ReadAll's error refuses like one cut between two. Pointers to
  pointers or to slices, interfaces, unexported fields, two fields of one name.
- Floats in constraint sets, which are compared as integers are; the wording of errors.
- The JSON serializer is encoding/json, with conversions of byte strings, durations and
  times; the registry of serializers is a linear search.
- Tokens, statistics, HTTP helpers: a cipher, and thin calls of other libraries.
- The client's keep-alive ticker and the watchdog are not composed: startReadWatchdog
  has no caller but its test.

## 6. Deviations found

With a run that shows it (PROJECT.json "findings"):

1. `apirt/client.go:231`: if the request cannot be built, its goroutine is already
   running; nobody reads the pipe, the channel is never drained.
2. `apirt/client.go:188`: the io.EOF that ends a request in order goes to the group; if
   the call uses the group's context, half-closing breaks the response.
3. `apitrace/zipkin_forwarder.go:154`: `>= 200 || <= 299` holds of every status.
4. `apitrace/middleware.go:161`: the last handler of the chain does not call the next.

Without a run of their own; the passing runs contain them:

- `apirt/watchdog.go:37`: while the consumer is slow, silence is not noticed, though
  the comment of line 12 says every period (`CancelIfSilentForLong` allows for it).
- `apirt/response_writer.go:48`: WriteOutput does not look whether a response has begun.
  In a stream, or a second time, it writes a second body into the first, and records a
  status of its own (the exceptions in `CleanResultIsComplete` and `StatsMatchHead`).
- `apirt/response_writer.go:72`, `105`: nothing remembers that the EOF message was written;
  what a handler writes behind it is sent, and the client does not read it.
- `apirt/server_endpoint.go:205-211`: a hook that panics unwinds ServeHTTP past its g.Wait;
  the goroutines of the group go on, with the body closed, until net/http's cancelling of
  the context ends them (the exception in `NothingOutlivesRequest`, and `LeftoversEnd`).
- `apirt/client.go:162`: CloseWithError reaches a transport that reads the pipe. Under flow
  control, because the handler does not read, it does not, and the failure of the request
  shows nowhere on the client (the hypothesis of `FailureIsVisible`).
- `apitrace/zipkin_forwarder.go:51-52`: when its context ends the goroutine returns with
  spans in its batch and in the channel, and without a word; later ones are sent into the
  channel until it is full, and then block (`abandoned` in `NoSilentLoss`).
- `apitrace/middleware.go:89`: the span headers of any client the server trusts are taken
  over, repeated identifiers included (`Repeats` in `SharedIdsAreHalves`).
- `apirt/client.go:359`: an oversized message ends the response with nil (the
  exception in `CleanResultIsComplete`).
- `apirt/server_endpoint.go:216`: a handler that writes nothing is answered 200 (the
  exception in `SuccessMeansAnswered`).
- `apirt/server_endpoint.go:224`: io.EOF is not worth logging as a group's error, yet it
  can also be that of a response cut short (`result = "EOF"` in
  `CutRequestIsReported`).
- `apirt/server_endpoint.go:227`: validateInput has no caller.
- `apirt/server_endpoint.go:236`: a path equal to the prefix is sliced out of range
  (the stage "panicked" of ServerEndpoint).
- `apirt/server_endpoint.go:236`: the character behind the prefix is skipped
  whatever it is, so that `/abx/y` is served as `x/y` below `/a`
  (`HookOnlyIfAdmissible` speaks of the names behind it only).
- `apirt/client.go:73`: with the URL prefix "/" the URL starts with two slashes, and
  the API's name is parsed as a host (the exception in `Agree`).
- `apirt/client.go:109`: the span submitted by the client is a copy made at the start,
  whose Sampled is nil, so the forwarder drops it.
- `apirt/response_writer.go:44`: Header calls itself for ever; nothing in `src/` calls
  it.
- `apirt/internal/blockio/blockio_serializer.go:95`: a nil element of a list of pointers
  is written as a nil under the list's name, and sets the whole list to nil: what
  precedes it is lost without an error (`Kept`), although `testSerializer`
  (`apirt/biased_serializer_test.go`) expects the object it sent.
- `blockio_serializer.go:117`, `124`: a number with no room loses its high bits
  (`HasType(u, v) =>` in `Agrees`); one for a field of another kind panics, as the TODOs
  there say, and so do byte strings at line 132 (the stage "dropped").
- `apirt/internal/blockio/encoder.go:139-141`: pointers to numbers and structs, and lists
  of anything but structs, are encoded but cannot be decoded (`Handled` has what can).
- `apirt/request.go:46`: an input that cannot be decoded is the client's fault, but is
  answered 500 if the handler passes the error on (`RefusedOnlyForCause`).
- `apivalidation/apivalidation.go:28`: the Validate method of a nil pointer is called,
  before line 46 looks whether it is nil, so that an optional struct left out drops the
  connection (`HasNilObject` in `RefusedOnlyForCause`); by line 62 a struct held by value
  whose method has a pointer receiver is walked without its constraints (`inForce` in
  `ValidatedIsValid`); and a constraint on a pointer to a string or a number, or on a value of a named type
  of either, is not looked at (`ValidateValue`).
- `apivalidation/constraint_set.go:17-23`: SetMin after SetMax removes the upper bound,
  and the other way round; a set that was never given a range allows 0 only; a bound of
  -1 cannot be said, and a negative one is large for unsigned values.
- `apivalidation/constraint_set.go:231`: a regex that does not compile gives an error that
  is no `*Error`, which the comment of line 68 excludes; the caller wraps it, with the
  place of the struct instead of the field.

## 7. Plan

Order of work, the most important behaviour first. Done: Frames, MessageStream,
RequestStream, ResponseStream, StreamingCall, ReadWatchdog, Routing, ServerEndpoint,
ZipkinForwarder, Tracing, each with its proofs, and BlockIO, Validation, UnaryInput,
which recurse over data and stay with TLC. What is left to model is in section 5, with
the reasons.
The invariants the liveness properties rest on are proved, and their last steps are out of
the prover's reach (section 4). Composing the client's keep-alive ticker with the watchdog
would be the next module, were the watchdog called from anywhere but its test.
