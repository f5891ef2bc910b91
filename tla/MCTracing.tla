----------------------------- MODULE MCTracing -----------------------------
(* Tracing for TLC: two calls, a caller with a sampled span or with none,  *)
(* and headers that name a parent of another trace and ask not to sample.  *)
EXTENDS Tracing, TLC

CONSTANTS c1, c2

MCCalls == {c1, c2}
MCContexts == {[trace |-> 20, id |-> 21, parent |-> 0, sampled |-> "true"]}
MCInherited == {NoSpan, [trace |-> 30, id |-> 31, parent |-> 32, sampled |-> "false"]}
Alike == Permutations(MCCalls)
=============================================================================
