------------------------------ MODULE Tracing ------------------------------
(***************************************************************************)
(* The spans of a call: the client's, made by Client.Do                    *)
(* (apirt/client.go) and sent in the X-B3 headers (zipkin/headers.go), and *)
(* the server's, made by the tracing middleware (apitrace/middleware.go).  *)
(* Many calls are under way at once.                                       *)
(*                                                                         *)
(* The middleware is three handlers, each wrapped around the next; the     *)
(* endpoint is behind the third.  A random identifier is one that was      *)
(* never used before.  Debug is treated as Sampled is, and left out.       *)
(***************************************************************************)
EXTENDS Naturals, FiniteSets

CONSTANTS
  Calls,     \* the calls that arrive at the server
  Contexts,  \* the spans a caller of Do may have in its context
  Inherited  \* tracing headers that a caller may put in ClientRequest.Header

\* Identifiers are numbers; 0 is "" or nil, the identifier that is not there.
Absent == 0
MaxId == 4 * Cardinality(Calls)   \* two identifiers for each span

Flag == {"nil", "true", "false"}   \* a *bool
SpanHeaders == [trace : Nat, id : Nat, parent : Nat, sampled : Flag]
NoSpan == [trace |-> Absent, id |-> Absent, parent |-> Absent, sampled |-> "nil"]

\* Those spans were made elsewhere: their identifiers are not ours.
ASSUME SpansAssumption ==
  /\ IsFiniteSet(Calls)
  /\ \A s \in Contexts : s \in SpanHeaders /\ s.trace > MaxId /\ s.id > MaxId
  /\ NoSpan \in Inherited /\ Inherited \subseteq SpanHeaders

VARIABLES
  stage,       \* each call: "idle", "sent", "answered" or "done"
  depth,       \* the handler its request has got to: 1 to 3, 4 the endpoint
  context,     \* the span in its caller's context, or NoSpan
  client,      \* its client span, or NoSpan
  header,      \* the X-B3 headers of its request
  authorized,  \* does the server trust them?
  server,      \* its server span, or NoSpan
  submitted,   \* spans the forwarder accepted: <<call, "client" or "server">>
  lastId       \* the last identifier made

vars == <<stage, depth, context, client, header, authorized, server, submitted, lastId>>

\* Every variable keeps its type; a call takes no more identifiers than its
\* two spans need.
TypeOK ==
  /\ stage \in [Calls -> {"idle", "sent", "answered", "done"}]
  /\ depth \in [Calls -> 0..4]
  /\ context \in [Calls -> Contexts \cup {NoSpan}]
  /\ client \in [Calls -> SpanHeaders]
  /\ header \in [Calls -> SpanHeaders]
  /\ authorized \in [Calls -> BOOLEAN]
  /\ server \in [Calls -> SpanHeaders]
  /\ submitted \subseteq Calls \X {"client", "server"}
  /\ lastId \in 0..MaxId

Init ==
  /\ stage = [c \in Calls |-> "idle"]
  /\ depth = [c \in Calls |-> 0]
  /\ context \in [Calls -> Contexts \cup {NoSpan}]
  /\ client = [c \in Calls |-> NoSpan]
  /\ header = [c \in Calls |-> NoSpan]
  /\ authorized \in [Calls -> BOOLEAN]
  /\ server = [c \in Calls |-> NoSpan]
  /\ submitted = {}
  /\ lastId = 0
-----------------------------------------------------------------------------
(***************************************************************************)
(* Spans and their headers.                                                *)
(***************************************************************************)

\* A span of its own, or a child of parent.  Nobody has decided yet whether it
\* is sampled: the decision made for the parent is not taken over.
NewSpan(parent) ==
  [trace |-> IF parent = NoSpan THEN lastId + 2 ELSE parent.trace,
   id |-> lastId + 1, parent |-> parent.id, sampled |-> "nil"]

\* A parent that is nil leaves the header that is there.
SetHeaders_NoDel(s, h) ==
  [trace |-> s.trace, id |-> s.id,
   parent |-> IF s.parent = Absent THEN h.parent ELSE s.parent,
   sampled |-> IF s.sampled = "nil" THEN h.sampled ELSE s.sampled]

\* The headers h once the span's are set: a parent that is nil deletes its
\* header, a flag that is nil leaves what is there.
SetHeaders(s, h) ==
  [trace |-> s.trace, id |-> s.id, parent |-> s.parent,
   sampled |-> IF s.sampled = "nil" THEN h.sampled ELSE s.sampled]

IsSampled(s) == s.sampled = "true"

\* SubmitSpan: the forwarder takes sampled spans only.
Submit(c, kind, s) ==
  submitted' = IF IsSampled(s) THEN submitted \cup {<<c, kind>>} ELSE submitted
-----------------------------------------------------------------------------
(***************************************************************************)
(* The client.                                                             *)
(***************************************************************************)

\* Do makes the span, and sends it in the request's headers, which are at
\* first the ones the caller gave.
DoSends(c) ==
  /\ stage[c] = "idle"
  /\ client' = [client EXCEPT ![c] = NewSpan(context[c])]
  /\ \E h \in Inherited : header' = [header EXCEPT ![c] = SetHeaders(client'[c], h)]
  /\ lastId' = lastId + 2
  /\ stage' = [stage EXCEPT ![c] = "sent"]
  /\ UNCHANGED <<depth, context, authorized, server, submitted>>

\* A request of another client, with headers of its own making, with none, or
\* with those of a request it has seen.
OtherClientSends(c) ==
  /\ stage[c] = "idle"
  /\ \E h \in Inherited \cup {header[d] : d \in Calls} : header' = [header EXCEPT ![c] = h]
  /\ stage' = [stage EXCEPT ![c] = "sent"]
  /\ UNCHANGED <<depth, context, client, authorized, server, submitted, lastId>>

\* Do returns.  The span it submits is a copy of the one it started with.
DoReturns(c) ==
  /\ stage[c] = "answered"
  /\ Submit(c, "client", client[c])
  /\ stage' = [stage EXCEPT ![c] = "done"]
  /\ UNCHANGED <<depth, context, client, header, authorized, server, lastId>>
-----------------------------------------------------------------------------
(***************************************************************************)
(* The middleware.                                                         *)
(***************************************************************************)
Enter(c, i) == /\ stage[c] = "sent"
               /\ depth[c] = i - 1
               /\ depth' = [depth EXCEPT ![c] = i]

\* The headers are believed whoever sent them.
CreateSpan_TrustsAnyone(c) ==
  /\ Enter(c, 1)
  /\ server' = [server EXCEPT ![c] = IF header[c].trace # Absent
                                     THEN header[c] ELSE NewSpan(NoSpan)]
  /\ lastId' = lastId + 2
  /\ UNCHANGED <<stage, context, client, header, authorized, submitted>>

\* The first handler: a new span, made over into the client's if the request
\* is trusted and has one.
CreateSpan(c) ==
  /\ Enter(c, 1)
  /\ server' = [server EXCEPT ![c] = IF authorized[c] /\ header[c].trace # Absent
                                     THEN header[c] ELSE NewSpan(NoSpan)]
  /\ lastId' = lastId + 2
  /\ UNCHANGED <<stage, context, client, header, authorized, submitted>>

\* The second: the span's name, tags and endpoints.
TagSpan(c) ==
  /\ Enter(c, 2)
  /\ UNCHANGED <<stage, context, client, header, authorized, server, submitted, lastId>>

\* The third: every span is sampled, whatever its headers said.  It does not
\* call the handler it wraps.
SampleSpan(c) ==
  /\ Enter(c, 3)
  /\ server' = [server EXCEPT ![c].sampled = "true"]
  /\ UNCHANGED <<stage, context, client, header, authorized, submitted, lastId>>

\* TracingController.Submit: true from the start, and no handler clears it.
TcSubmit == TRUE

\* They return, and the first submits the span.
SubmitServerSpan(c) ==
  /\ stage[c] = "sent"
  /\ depth[c] = 3
  /\ IF TcSubmit THEN Submit(c, "server", server[c]) ELSE UNCHANGED submitted
  /\ stage' = [stage EXCEPT ![c] = "answered"]
  /\ UNCHANGED <<depth, context, client, header, authorized, server, lastId>>

Terminated == (\A c \in Calls : stage[c] = "done") /\ UNCHANGED vars
-----------------------------------------------------------------------------
Middleware(c) == CreateSpan(c) \/ TagSpan(c) \/ SampleSpan(c) \/ SubmitServerSpan(c)

Next == \/ \E c \in Calls : \/ DoSends(c) \/ OtherClientSends(c) \/ DoReturns(c)
                            \/ Middleware(c)
        \/ Terminated

Spec == Init /\ [][Next]_vars
-----------------------------------------------------------------------------
AllSpans == {<<c, "client", client[c]>> : c \in Calls}
              \cup {<<c, "server", server[c]>> : c \in Calls}
MadeSpans == {x \in AllSpans : x[3] # NoSpan}

\* The server takes over the headers of a trusted request whoever made them up:
\* another client's may name any span, one of these among them.
Repeats(c) == authorized[c] /\ client[c] = NoSpan /\ header[c].trace # Absent

\* Two spans made here have an identifier in common only if they are the halves
\* of one call that the server trusts, or if one of them is the server span of
\* another client's trusted request that repeats an identifier; never because
\* of what a caller of Do passes on, and never for a request not trusted.
SharedIdsAreHalves ==
  \A x, y \in MadeSpans :
     x # y /\ x[3].id = y[3].id =>
        (x[1] = y[1] /\ authorized[x[1]]) \/ Repeats(x[1]) \/ Repeats(y[1])

\* A trusted server span hangs where the client's does: in the trace of the
\* caller, below the caller's own span, or at the root of a trace of its own,
\* and never below a span named in headers the caller passed on.
ServerSpanHasItsPlace ==
  \A c \in Calls :
     depth[c] > 0 /\ authorized[c] /\ client[c] # NoSpan =>
        /\ server[c].id = client[c].id
        /\ server[c].parent = context[c].id
        /\ server[c].trace = IF context[c] = NoSpan THEN client[c].trace ELSE context[c].trace

\* What the middleware says it does, "execute next handler and submit span":
\* a request that is answered has been to the endpoint behind it.
AnsweredByEndpoint == \A c \in Calls : stage[c] \in {"answered", "done"} => depth[c] = 4
=============================================================================
