-------------------------- MODULE MCResponseStream --------------------------
(* ResponseStream for TLC: two good values, one the server cannot encode,    *)
(* one the client cannot decode, one that is too long.                       *)
EXTENDS ResponseStream, TLC

CONSTANTS v1, v2, bad, odd, big

MCData == {v1, v2, bad, odd, big}
MCUnmarshalable == {bad}
MCUndecodable == {odd}
MCOversize == {big}
=============================================================================
