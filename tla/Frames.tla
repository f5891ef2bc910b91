------------------------------- MODULE Frames -------------------------------
(***************************************************************************)
(* The messages of a streaming body (apirt/message.go), as both halves of  *)
(* a call exchange them.  A frame is a message with its length prefix.     *)
(***************************************************************************)
EXTENDS Sequences, Naturals

CONSTANTS
  Data,   \* the values a stream can carry
  None    \* no value

ASSUME DataAssumption == None \notin Data

DataFrame(v)   == [type |-> "data", payload |-> v]
EofFrame       == [type |-> "eof", payload |-> None]
KeepAliveFrame == [type |-> "keepAlive", payload |-> None]

Frame == [type : {"data"}, payload : Data] \cup {EofFrame, KeepAliveFrame}

\* Only data messages carry a value.
Weight(f) == IF f.type = "data" THEN 1 ELSE 0

\* pos numbers the frames of w by the values of s that have been passed once
\* a frame is read, starting from r: the data frames carry the values of s
\* that follow the r-th, in order and without a gap.
Numbers(pos, w, s, r) ==
  /\ pos \in [0..Len(w) -> 0..Len(s)]
  /\ pos[0] = r
  /\ \A i \in 1..Len(w) :
        /\ pos[i] = pos[i - 1] + Weight(w[i])
        /\ w[i].type = "data" => w[i].payload = s[pos[i]]
=============================================================================
