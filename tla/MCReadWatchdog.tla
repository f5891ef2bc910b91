--------------------------- MODULE MCReadWatchdog ---------------------------
(* ReadWatchdog for TLC: a period of three units, up to five messages.       *)
EXTENDS ReadWatchdog
=============================================================================
