--------------------------- MODULE ServerEndpoint ---------------------------
(***************************************************************************)
(* ServerEndpoint.ServeHTTP (apirt/server_endpoint.go), one request: the   *)
(* checks a request must pass, the errgroup made for the operation, the    *)
(* hook (the bound handler) and the goroutines it starts in the group, and *)
(* the wait for all of them.                                               *)
(*                                                                         *)
(* The request is one of a client of this package, for some call, or one   *)
(* with any other path.  The hook and its goroutines are the               *)
(* application's: they may fail, and they may block until the group's      *)
(* context is done.  A hook may panic, which net/http recovers; a          *)
(* goroutine that panics ends the process, and is not modelled.            *)
(***************************************************************************)
EXTENDS Routing

CONSTANTS
  Workers,     \* goroutines a hook can start in the group
  Characters,  \* what names and paths are made of
  Prefixes,    \* prefixes an endpoint is made with
  Clients,     \* clients: [base, urlPrefix], the paths they are made with
  Keys,        \* the calls they make
  Bound,       \* those among them that are bound: the keys of ep.calls
  Paths        \* paths of other requests

Strings == Seq(Characters)

ASSUME KeysAssumption == Bound \subseteq Keys
ASSUME StringsAssumption ==
  /\ "/" \in Characters
  /\ Prefixes \subseteq Strings /\ Paths \subseteq Strings
  /\ Clients \subseteq [base : Strings, urlPrefix : Strings]
  /\ Keys \subseteq [api : Strings, op : Strings]

\* The name of an API has no slash; the path of a server's URL, if there is one,
\* starts with a slash, and is not just two of them.
ASSUME NamesAssumption ==
  /\ \A k \in Keys : Slashes(k.api) = {}
  /\ \A c \in Clients : \/ c.base = <<>>
                        \/ HasPrefix(c.base, <<"/">>) /\ c.base # <<"/", "/">>

NoClient == [base |-> <<>>, urlPrefix |-> <<"none">>]
NoKey == Key(<<>>, <<>>)

\* Where a request is from, the call it is for, and its path.
Routes ==
  {[client |-> c, call |-> k, path |-> RequestPath(c, k)] : c \in Clients, k \in Keys}
    \cup {[client |-> NoClient, call |-> NoKey, path |-> p] : p \in Paths}

Requests == [route    : Routes,
             post     : BOOLEAN,                          \* is the method POST?
             mime     : {"absent", "known", "unknown"},   \* Content-Type
             http2    : BOOLEAN,
             bidi     : BOOLEAN,   \* does the call stream in both directions?
             deadline : BOOLEAN]   \* is there a client deadline?

VARIABLES
  prefix,   \* the endpoint's prefix
  req,      \* the request
  stage,    \* where ServeHTTP is
  key,      \* the call key found in its path, or NoKey
  reply,    \* the status written, or NoReply
  ctxDone,  \* is the request's context done?
  gctxDone, \* is the group's context done?
  hook,     \* the bound handler: "none", "running", "ok", "err" or "panicked"
  worker,   \* each goroutine: "none", "running", "blocked", "ok" or "err"
  bodyOpen  \* is the request body open?

vars == <<prefix, req, stage, key, reply, ctxDone, gctxDone, hook, worker, bodyOpen>>

NoReply == 0
Statuses == {200, 400, 405, 415, 500}

\* Every variable keeps its type, and ServeHTTP is in one of its stages.
TypeOK ==
  /\ prefix \in Prefixes
  /\ req \in Requests
  /\ stage \in {"prefix", "method", "serializer", "key", "lookup", "protocol",
                "hook", "wait", "returned", "panicked"}
  /\ key \in [api : Strings, op : Strings]
  /\ reply \in {NoReply} \cup Statuses
  /\ ctxDone \in BOOLEAN
  /\ gctxDone \in BOOLEAN
  /\ hook \in {"none", "running", "ok", "err", "panicked"}
  /\ worker \in [Workers -> {"none", "running", "blocked", "ok", "err"}]
  /\ bodyOpen \in BOOLEAN

Init ==
  /\ prefix \in Prefixes
  /\ req \in Requests
  /\ stage = "prefix"
  /\ key = NoKey
  /\ reply = NoReply
  /\ ctxDone = FALSE
  /\ gctxDone = FALSE
  /\ hook = "none"
  /\ worker = [w \in Workers |-> "none"]
  /\ bodyOpen = TRUE
-----------------------------------------------------------------------------
(***************************************************************************)
(* The checks.  Each refuses the request, with a status of its own, or     *)
(* lets it go on to the next.                                              *)
(***************************************************************************)
WriteError(s) == reply' = IF reply = NoReply THEN s ELSE reply

\* ServeHTTP returns or is unwound: its deferred calls close the body and cancel
\* the context made for a client's deadline, and with it the group's.
Ended == stage \in {"returned", "panicked"}
Leave(how) ==
  /\ stage' = how
  /\ bodyOpen' = FALSE
  /\ ctxDone' = (ctxDone \/ req.deadline)
  /\ gctxDone' = (gctxDone \/ ctxDone')

Check(at, passes, status, next) ==
  /\ stage = at
  /\ \/ passes /\ stage' = next /\ UNCHANGED <<reply, ctxDone, gctxDone, bodyOpen>>
     \/ ~passes /\ WriteError(status) /\ Leave("returned")
  /\ UNCHANGED <<prefix, req, key, hook, worker>>

CheckPrefix == Check("prefix", HasPrefix(req.route.path, prefix), 400, "method")
CheckMethod == Check("method", req.post, 405, "serializer")
CheckSerializer == Check("serializer", req.mime # "unknown", 415, "key")

\* parseCallKey slices the path behind the prefix and its slash: a path that
\* ends with the prefix has nothing there, and the slice is out of range.
ParseCallKey ==
  /\ stage = "key"
  /\ LET path == req.route.path IN
       \/ /\ OutOfRange(path, prefix)
          /\ Leave("panicked")
          /\ UNCHANGED <<key, reply>>
       \/ /\ ~OutOfRange(path, prefix) /\ HasKey(path, prefix)
          /\ key' = CallKey(path, prefix)
          /\ stage' = "lookup"
          /\ UNCHANGED <<reply, ctxDone, gctxDone, bodyOpen>>
       \/ /\ ~OutOfRange(path, prefix) /\ ~HasKey(path, prefix)
          /\ WriteError(400) /\ Leave("returned")
          /\ UNCHANGED key
  /\ UNCHANGED <<prefix, req, hook, worker>>

\* A call nobody bound is not answered.
Lookup_Silent ==
  /\ stage = "lookup"
  /\ \/ key \in Bound /\ stage' = "protocol" /\ UNCHANGED <<ctxDone, gctxDone, bodyOpen>>
     \/ key \notin Bound /\ Leave("returned")
  /\ UNCHANGED <<prefix, req, key, reply, hook, worker>>

Lookup == Check("lookup", key \in Bound, 400, "protocol")

\* The refusal is written, but ServeHTTP goes on.
CheckProtocol_NoReturn ==
  /\ stage = "protocol"
  /\ IF req.bidi /\ ~req.http2 THEN WriteError(400) ELSE UNCHANGED reply
  /\ stage' = "hook"
  /\ UNCHANGED <<prefix, req, key, ctxDone, gctxDone, hook, worker, bodyOpen>>

\* A call that streams both ways needs HTTP/2.
CheckProtocol == Check("protocol", ~req.bidi \/ req.http2, 400, "hook")
-----------------------------------------------------------------------------
(***************************************************************************)
(* The operation.                                                          *)
(***************************************************************************)

\* invokeOperationWithHooks: there are no hooks but the bound handler.  The
\* input is handed to it as it is.
InvokeHook ==
  /\ stage = "hook"
  /\ hook = "none"
  /\ hook' = "running"
  /\ UNCHANGED <<prefix, req, key, stage, reply, ctxDone, gctxDone, worker, bodyOpen>>

HookStartsWorker(w) ==
  /\ hook = "running"
  /\ worker[w] = "none"
  /\ worker' = [worker EXCEPT ![w] = "running"]
  /\ UNCHANGED <<prefix, req, key, stage, reply, ctxDone, gctxDone, hook, bodyOpen>>

\* The hook or one of its goroutines writes the response.
Active == hook = "running" \/ \E w \in Workers : worker[w] = "running"

WriteResponse ==
  /\ Active
  /\ stage # "panicked"    \* behind a panic net/http drops what is written
  /\ reply = NoReply
  /\ \E s \in {200, 500} : reply' = s
  /\ UNCHANGED <<prefix, req, key, stage, ctxDone, gctxDone, hook, worker, bodyOpen>>

\* A hook that fails ends the request at once.
HookReturns_WithoutWait ==
  /\ hook = "running"
  /\ \/ hook' = "ok" /\ stage' = "wait" /\ UNCHANGED <<ctxDone, gctxDone, bodyOpen>>
     \/ hook' = "err" /\ Leave("returned")
  /\ UNCHANGED <<prefix, req, key, reply, worker>>

\* The hook's error is logged; the group does not learn of it.
HookReturns ==
  /\ hook = "running"
  /\ hook' \in {"ok", "err"}
  /\ stage' = "wait"
  /\ UNCHANGED <<prefix, req, key, reply, ctxDone, gctxDone, worker, bodyOpen>>

\* The hook panics, as WriteMessage does with a value that it cannot marshal.
\* ServeHTTP is unwound past g.Wait, and leaves the goroutines to themselves.
HookPanics ==
  /\ hook = "running"
  /\ hook' = "panicked"
  /\ Leave("panicked")
  /\ UNCHANGED <<prefix, req, key, reply, worker>>

WorkerBlocks(w) ==
  /\ worker[w] = "running"
  /\ worker' = [worker EXCEPT ![w] = "blocked"]
  /\ UNCHANGED <<prefix, req, key, stage, reply, ctxDone, gctxDone, hook, bodyOpen>>

\* A goroutine returns of itself, or because the group's context is done.  The
\* first error cancels the group's context.
WorkerReturns(w) ==
  /\ worker[w] = "running" \/ (worker[w] = "blocked" /\ gctxDone)
  /\ \/ worker' = [worker EXCEPT ![w] = "ok"] /\ UNCHANGED gctxDone
     \/ worker' = [worker EXCEPT ![w] = "err"] /\ gctxDone' = TRUE
  /\ UNCHANGED <<prefix, req, key, stage, reply, ctxDone, hook, bodyOpen>>

\* g.Wait returns when all the goroutines have, and cancels the context.
Finished(w) == worker[w] \in {"none", "ok", "err"}

Wait ==
  /\ stage = "wait"
  /\ \A w \in Workers : Finished(w)
  /\ gctxDone' = TRUE
  /\ stage' = "returned" /\ bodyOpen' = FALSE /\ ctxDone' = (ctxDone \/ req.deadline)
  /\ UNCHANGED <<prefix, req, key, reply, hook, worker>>

\* The group made with a context of its own, context.Background.
ContextEnds_Detached ==
  /\ ~ctxDone
  /\ ctxDone' = TRUE
  /\ UNCHANGED <<prefix, req, key, stage, reply, gctxDone, hook, worker, bodyOpen>>

\* The client goes away, its deadline passes, or net/http cancels the context of
\* a request whose ServeHTTP has ended; the group's context, once there is one,
\* is done with the request's.
ContextEnds ==
  /\ ~ctxDone
  /\ ctxDone' = TRUE
  /\ gctxDone' = TRUE
  /\ UNCHANGED <<prefix, req, key, stage, reply, hook, worker, bodyOpen>>

\* net/http answers 200 for a handler that wrote nothing.
ServerCompletes ==
  /\ stage = "returned"
  /\ reply = NoReply
  /\ reply' = 200
  /\ UNCHANGED <<prefix, req, key, stage, ctxDone, gctxDone, hook, worker, bodyOpen>>

Terminated ==
  /\ Ended
  /\ UNCHANGED vars
-----------------------------------------------------------------------------
WorkerStep(w) == HookStartsWorker(w) \/ WorkerBlocks(w) \/ WorkerReturns(w)

Serve == \/ CheckPrefix \/ CheckMethod \/ CheckSerializer \/ ParseCallKey
         \/ Lookup \/ CheckProtocol \/ InvokeHook \/ Wait

Next == \/ Serve \/ HookReturns \/ HookPanics \/ WriteResponse
        \/ \E w \in Workers : WorkerStep(w)
        \/ ContextEnds \/ ServerCompletes \/ Terminated

Spec == Init /\ [][Next]_vars

(***************************************************************************)
(* ServeHTTP runs.  A hook returns, and a goroutine of the group returns   *)
(* when it is not blocked, or once the group's context is done: what the   *)
(* endpoint asks of the application.  A client's deadline passes, and      *)
(* net/http cancels the context behind ServeHTTP.                          *)
(***************************************************************************)
FairSpec ==
  /\ Spec
  /\ WF_vars(Serve)
  /\ WF_vars(HookReturns \/ HookPanics)
  /\ \A w \in Workers : WF_vars(WorkerReturns(w))
  /\ WF_vars((req.deadline \/ Ended) /\ ContextEnds)
-----------------------------------------------------------------------------
\* The bound handler runs only for a request that passed every check, and whose
\* path is the names of the handler's call behind the prefix.
Accepted == req.post /\ req.mime # "unknown" /\ (~req.bidi \/ req.http2)
HookOnlyIfAdmissible ==
  hook # "none" =>
    /\ Accepted /\ key \in Bound /\ HasPrefix(req.route.path, prefix)
    /\ Names(req.route.path, prefix) = key.api \o <<"/">> \o key.op

\* A request that the handler never saw is answered with an error status, and
\* with the one of the first check it failed.
RefusalIsAnswered ==
  stage = "returned" /\ hook = "none" =>
    reply = IF ~HasPrefix(req.route.path, prefix) THEN 400
            ELSE IF ~req.post THEN 405
            ELSE IF req.mime = "unknown" THEN 415
            ELSE 400

\* Slashes at the ends of a prefix do not matter, but that a prefix such as "/"
\* makes the client's URL start with two of them, which makes a host of the API.
Normal(p) == LET q == TrimPrefix(TrimSuffix(p)) IN IF q = <<>> THEN <<>> ELSE <<"/">> \o q
Agree(route) ==
  /\ route.client # NoClient
  /\ ~HasPrefix(BuildRequestUrl(route.client.urlPrefix, route.call), <<"/", "/">>)
  /\ prefix = Normal(route.client.base) \o Normal(route.client.urlPrefix)

\* A call reaches the handler bound for it, and no other, if client and endpoint
\* agree on the prefix: the key that parseCallKey finds is the one that the
\* client put into the URL, and the request is refused for no reason of routing.
CallReachesItsHandler ==
  Agree(req.route) =>
    /\ key \in {NoKey, req.route.call}
    /\ stage \in {"returned", "panicked"} /\ Accepted /\ req.route.call \in Bound => hook # "none"

\* When ServeHTTP has ended the body is closed and the hook has too; and so have
\* the goroutines of the group, unless it was a panic of the hook that ended it.
NothingOutlivesRequest ==
  Ended => ~bodyOpen /\ hook # "running" /\ (hook = "panicked" \/ \A w \in Workers : Finished(w))

\* ServeHTTP returns once the request's context is done, whatever its
\* goroutines are blocked on, or once one of them fails.
ServeReturns == (ctxDone \/ \E w \in Workers : worker[w] = "err") ~> Ended

\* The goroutines that a panic of the hook leaves behind end too: their context
\* is done with the request's, which net/http cancels.
LeftoversEnd == Ended ~> \A w \in Workers : Finished(w)
=============================================================================
