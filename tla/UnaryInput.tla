----------------------------- MODULE UnaryInput -----------------------------
(***************************************************************************)
(* The input of a unary call, from the client's object to the handler's:   *)
(* marshalled by Client.Do (apirt/client.go), carried as one body, read    *)
(* and unmarshalled by Request.UnmarshalBody (apirt/request.go), validated *)
(* (apivalidation) if the handler does so, and refused with the status of  *)
(* CoerceErrorToException (apirt/exception.go) if anything is wrong.       *)
(*                                                                         *)
(* The two sides are programs of their own, built from descriptions of the *)
(* call that may be different versions: the client's type of the input and *)
(* the server's need not be the same.  The handler is the application's.   *)
(***************************************************************************)
EXTENDS BlockIO, Validation

CONSTANTS
  Versions,        \* <<sender, receiver>>: struct types of one input
  ValuesOf(_),     \* values of a type that clients send
  HandlerErrors    \* errors a handler may return

VARIABLES
  sender,     \* the client's type
  receiver,   \* the server's
  value,      \* the client's object
  validates,  \* does the handler validate its input?
  stage,      \* "marshal", "sent", "decode", "validate", "run", or how it ended:
              \* "answered", "dropped" (the handler panicked), "aborted" (Do did)
  body,       \* the records not decoded yet
  cut,        \* was the body cut short on its way?
  obj,        \* the object decoded so far
  failure,    \* what failed, or "none"
  place,      \* the path in a validation error
  reply       \* the status of the answer, or NoReply

vars == <<sender, receiver, value, validates, stage, body, cut, obj, failure, place, reply>>
given == <<sender, receiver, value, validates>>

NoReply == 0

Init ==
  /\ \E version \in Versions : sender = version[1] /\ receiver = version[2]
  /\ value \in ValuesOf(sender)
  /\ validates \in BOOLEAN
  /\ stage = "marshal"
  /\ body = <<>>
  /\ cut = FALSE
  /\ obj = Zero(receiver)
  /\ failure = "none"
  /\ place = <<>>
  /\ reply = NoReply
-----------------------------------------------------------------------------
(***************************************************************************)
(* Errors: the exceptions an error wraps, outermost first, by their        *)
(* status, where 0 is one without; is it or does it wrap a passed          *)
(* deadline, a validation error?                                           *)
(***************************************************************************)
PlainError == [exceptions |-> <<>>, deadline |-> FALSE, validation |-> FALSE]
ValidationError == [PlainError EXCEPT !.validation = TRUE]

\* Validation errors are nothing special.
CoerceErrorToException_Plain(e) ==
  CASE e.exceptions # <<>> -> e.exceptions[1] [] e.deadline -> 429 [] OTHER -> 500

CoerceErrorToException(e) ==
  CASE e.exceptions # <<>>                   -> e.exceptions[1]
    [] e.exceptions = <<>> /\ e.deadline     -> 429
    [] e.exceptions = <<>> /\ ~e.deadline /\ e.validation -> 400
    [] OTHER                                 -> 500

EffectiveStatus(status) == IF status = 0 THEN 500 ELSE status

\* WriteError, the first thing written.
Refuse(e) == reply' = EffectiveStatus(CoerceErrorToException(e)) /\ stage' = "answered"

\* net/http recovers the panic and drops the connection.
Drop == stage' = "dropped" /\ UNCHANGED reply
-----------------------------------------------------------------------------
(***************************************************************************)
(* Client and transport.                                                   *)
(***************************************************************************)
MarshalInput ==
  /\ stage = "marshal"
  /\ \/ Panics(sender, value) /\ stage' = "aborted" /\ UNCHANGED body
     \/ ~Panics(sender, value) /\ stage' = "sent" /\ body' = Marshal(sender, value)
  /\ UNCHANGED <<given, cut, obj, failure, place, reply>>

\* The connection breaks: the server gets less than Content-Length says.
BodyIsCut ==
  /\ stage = "sent"
  /\ ~cut
  /\ \E n \in 0..(Len(body) - 1) : body' = SubSeq(body, 1, n)
  /\ cut' = TRUE
  /\ UNCHANGED <<given, stage, obj, failure, place, reply>>
-----------------------------------------------------------------------------
(***************************************************************************)
(* Request.UnmarshalBody.                                                  *)
(***************************************************************************)

\* What has arrived is taken for the body, whatever the error of ReadAll.
ReadBody_IgnoresError ==
  /\ stage = "sent"
  /\ stage' = "decode"
  /\ UNCHANGED <<given, body, cut, obj, failure, place, reply>>

\* io.ReadAll, before anything is decoded.
ReadBody ==
  /\ stage = "sent"
  /\ \/ ~cut /\ stage' = "decode" /\ UNCHANGED <<failure, reply>>
     \/ cut /\ failure' = "read" /\ Refuse(PlainError)
  /\ UNCHANGED <<given, body, cut, obj, place>>

Decode ==
  /\ stage = "decode"
  /\ ~Eof(body)
  /\ LET r == DecodeField(receiver, obj, Read(body)) IN
       /\ obj' = r.val
       /\ \/ r.out = "ok" /\ body' = Tail(body) /\ UNCHANGED <<stage, failure, reply>>
          \/ r.out = "error" /\ failure' = "decode" /\ Refuse(PlainError) /\ UNCHANGED body
          \/ r.out = "panic" /\ failure' = "decode" /\ Drop /\ UNCHANGED body
  /\ UNCHANGED <<given, cut, place>>

DecodeEnds ==
  /\ stage = "decode"
  /\ Eof(body)
  /\ stage' = IF validates THEN "validate" ELSE "run"
  /\ UNCHANGED <<given, body, cut, obj, failure, place, reply>>
-----------------------------------------------------------------------------
(***************************************************************************)
(* The handler.                                                            *)
(***************************************************************************)
ValidateInput ==
  /\ stage = "validate"
  /\ LET e == ValidateObject(receiver, obj) IN
       \/ e.out = "ok" /\ stage' = "run" /\ UNCHANGED <<failure, place, reply>>
       \/ /\ e.out = "error" /\ e.placed
          /\ failure' = "validation" /\ place' = e.path /\ Refuse(ValidationError)
       \/ e.out = "panic" /\ failure' = "validation" /\ Drop /\ UNCHANGED place
  /\ UNCHANGED <<given, body, cut, obj>>

HandlerAnswers ==
  /\ stage = "run"
  /\ stage' = "answered"
  /\ reply' = 200
  /\ UNCHANGED <<given, body, cut, obj, failure, place>>

HandlerFails ==
  /\ stage = "run"
  /\ \E e \in HandlerErrors : Refuse(e)
  /\ failure' = "handler"
  /\ UNCHANGED <<given, body, cut, obj, place>>

Ended == stage \in {"answered", "dropped", "aborted"}
Terminated == Ended /\ UNCHANGED vars

Next == \/ MarshalInput \/ BodyIsCut
        \/ ReadBody \/ Decode \/ DecodeEnds
        \/ ValidateInput \/ HandlerAnswers \/ HandlerFails
        \/ Terminated

Spec == Init /\ [][Next]_vars
-----------------------------------------------------------------------------
RECURSIVE HasType(_, _), Agrees(_, _, _, _), Handled(_)

HasType(t, v) ==
  CASE t.kind \in {"string", "bytes"} -> v \in DOMAIN StringLength
    [] t.kind = "int"    -> v \in -(2^(t.width - 1))..(2^(t.width - 1) - 1)
    [] t.kind = "uint"   -> v \in 0..(2^t.width - 1)
    [] t.kind = "ptr"    -> Len(v) <= 1 /\ \A i \in DOMAIN v : HasType(t.elem, v[i])
    [] t.kind = "slice"  -> \A i \in DOMAIN v : HasType(t.elem, v[i])
    [] t.kind = "struct" -> /\ DOMAIN v = DOMAIN t.fields
                            /\ \A i \in DOMAIN v : HasType(t.fields[i].type, v[i])
    [] OTHER -> v \in BOOLEAN

\* Whatever the records say, the object decoded is a value of the server's type,
\* its numbers in the range of theirs; the call is in one of its stages.
TypeOK ==
  /\ HasType(sender, value) /\ HasType(receiver, obj)
  /\ stage \in {"marshal", "sent", "decode", "validate", "run", "answered", "dropped", "aborted"}
  /\ failure \in {"none", "read", "decode", "validation", "handler"}
  /\ validates \in BOOLEAN /\ cut \in BOOLEAN
  /\ reply \in {NoReply, 200, 400, 429, 500} \cup UNION {Range(e.exceptions) : e \in HandlerErrors}

\* What is left of a list of pointers: nothing up to its last nil element.  A nil
\* is a record like any other, and sets the whole list to its zero value.
Kept(t, v) ==
  IF t.elem.kind # "ptr" THEN v
  ELSE SubSeq(v, Max({0} \cup {i \in DOMAIN v : v[i] = <<>>}) + 1, Len(v))

\* w, of type u, is v, of type t, but for what one of the types cannot say.
Agrees(t, v, u, w) ==
  CASE t.kind = "ptr" -> IF v = <<>> THEN w = Zero(u) ELSE Agrees(t.elem, v[1], u, w)
    [] t.kind # "ptr" /\ u.kind = "ptr" -> w # <<>> /\ Agrees(t, v, u.elem, w[1])
    [] t.kind = "slice" /\ u.kind = "slice" ->
         /\ Len(w) = Len(Kept(t, v))
         /\ \A i \in DOMAIN w : Agrees(t.elem, Kept(t, v)[i], u.elem, w[i])
    [] t.kind = "struct" /\ u.kind = "struct" ->
         /\ \A j \in DOMAIN w : LET same == {i \in DOMAIN v : t.fields[i].name = u.fields[j].name} IN
              IF same = {} THEN w[j] = Zero(u.fields[j].type)
              ELSE \A i \in same : Agrees(t.fields[i].type, v[i], u.fields[j].type, w[j])
         /\ \A i \in DOMAIN v : \/ \E j \in DOMAIN w : t.fields[i].name = u.fields[j].name
                                \/ t.fields[i].type.kind = "slice" /\ v[i] = <<>>
    [] t.kind = "int" /\ u.kind = "int" -> HasType(u, v) => w = v
    [] OTHER -> t.kind = u.kind /\ w = v

\* A handler gets the object that its client sent, or none: never a part of one
\* that was cut short, nor fields under other names or of other kinds.  A field
\* that one version has and the other has not is zero, or refused.  The
\* exceptions are a number with no room, and what precedes a nil in a list.
InputIsWhatWasSent ==
  stage \in {"validate", "run"} \/ reply = 200 => ~cut /\ Agrees(sender, value, receiver, obj)

\* The values that the comment in Marshal says it is to handle.
Handled(t) ==
  CASE t.kind = "struct" -> \A i \in DOMAIN t.fields : Handled(t.fields[i].type)
    [] t.kind = "slice"  -> IsList(t) /\ Handled(Scalar(t))
    [] t.kind = "ptr"    -> t.elem.kind = "string"
    [] OTHER             -> t.kind # "other"

InputSites == Sites([kind |-> "ptr", elem |-> receiver], <<obj>>, <<"$">>)

\* An input that a handler validates reaches it only if every constraint on it is
\* kept: in every element of every list, behind every pointer, however the walk
\* gets there.  A negative bound on an unsigned number is a large one.  The
\* exception is a struct held by value, in a field or a list, whose Validate
\* method has a pointer receiver: the walk takes the value out of its place, and
\* what it holds has no such method, so that its constraints go unnoticed.
ValidatedIsValid ==
  validates /\ (stage = "run" \/ reply = 200 \/ failure = "handler") =>
    \A site \in InputSites : site.kept \/ ~site.inForce

\* A call fails before its handler runs only for a reason, and the status tells
\* which: a body cut short, types that differ, a type that the codec does not
\* handle, or a constraint that is not kept at the place the error names.  A
\* validation that drops the connection has met a nil pointer to a struct with a
\* Validate method, absent though it may be in order: the method is called before
\* the walk looks whether there is anything to call it on.
RefusedOnlyForCause ==
  /\ stage = "aborted" => ~Handled(sender)
  /\ failure = "read" => cut /\ reply = 500
  /\ failure = "decode" => (sender # receiver \/ ~Handled(sender)) /\ reply \in {NoReply, 500}
  /\ failure = "validation" =>
       \/ /\ stage = "answered" /\ reply = 400
          /\ \E site \in InputSites : site.inForce /\ ~site.kept /\ place = site.path
       \/ stage = "dropped" /\ HasNilObject(receiver, obj)
  /\ stage = "dropped" => failure \in {"decode", "validation"}
=============================================================================
