--------------------------- MODULE MessageStream ---------------------------
(***************************************************************************)
(* What one direction of a streaming RPC promises to its two ends, with    *)
(* goroutines, pipes, frames and HTTP left out: the receiver gets, in      *)
(* order and each once, the values the sender gave, and it is told that    *)
(* the stream is complete only when the sender closed it and nothing is    *)
(* missing.  A stream may fail at any moment before that.                  *)
(*                                                                         *)
(* The interfaces SendMessageStream and RecvMessageStream of               *)
(* apirt/message_stream.go are the two ends.  RequestStream and            *)
(* ResponseStream are the two implementations.                             *)
(***************************************************************************)
EXTENDS Sequences, Naturals

CONSTANT Data   \* the values that can be sent

VARIABLES
  sent,         \* the values the sender has given, in order
  closed,       \* has the sender closed its end?
  delivered,    \* the values the receiver has obtained, in order
  outcome       \* what the receiver knows: "open", "complete" or "failed"

vars == <<sent, closed, delivered, outcome>>

Init ==
  /\ sent = <<>>
  /\ closed = FALSE
  /\ delivered = <<>>
  /\ outcome = "open"

\* The sender does not learn at once that the stream has failed, so it may
\* go on sending; it cannot send on a stream it has closed.
Send(v) ==
  /\ ~closed
  /\ sent' = Append(sent, v)
  /\ UNCHANGED <<closed, delivered, outcome>>

Close ==
  /\ ~closed
  /\ closed' = TRUE
  /\ UNCHANGED <<sent, delivered, outcome>>

Deliver ==
  /\ outcome = "open"
  /\ Len(delivered) < Len(sent)
  /\ delivered' = Append(delivered, sent[Len(delivered) + 1])
  /\ UNCHANGED <<sent, closed, outcome>>

Complete ==
  /\ outcome = "open"
  /\ closed
  /\ delivered = sent
  /\ outcome' = "complete"
  /\ UNCHANGED <<sent, closed, delivered>>

Fail ==
  /\ outcome = "open"
  /\ outcome' = "failed"
  /\ UNCHANGED <<sent, closed, delivered>>

Next ==
  \/ \E v \in Data : Send(v)
  \/ Close
  \/ Deliver
  \/ Complete
  \/ Fail

Spec == Init /\ [][Next]_vars
=============================================================================
