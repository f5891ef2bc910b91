-------------------------- MODULE MCStreamingCall --------------------------
(* StreamingCall for TLC: one good value and one that no serializer takes.  *)
EXTENDS StreamingCall, TLC

CONSTANTS v1, bad

MCData == {v1, bad}
MCBad == {bad}
Nothing == {}
=============================================================================
