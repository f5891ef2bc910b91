-------------------------- MODULE MCRequestStream --------------------------
(* RequestStream for TLC: symmetric good values, one the serializer refuses. *)
EXTENDS RequestStream, TLC

CONSTANTS v1, v2, bad

MCData == {v1, v2, bad}
MCUnmarshalable == {bad}
=============================================================================
