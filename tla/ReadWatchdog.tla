---------------------------- MODULE ReadWatchdog ----------------------------
(***************************************************************************)
(* startReadWatchdog (apirt/watchdog.go): a goroutine that forwards the    *)
(* messages of inCh to outCh and calls cancel when inCh has been silent    *)
(* for a period.  Both channels are unbuffered.                            *)
(*                                                                         *)
(* Time passes in units, and only when the goroutine has nothing to do: it *)
(* reacts within the unit.  It is Go's ticker that decides when a period   *)
(* is over, not the silence itself, and the two need not agree: the ticker *)
(* is reset only after a message has been handed on, and it keeps ticking  *)
(* while the goroutine is blocked doing so.                                *)
(***************************************************************************)
EXTENDS Sequences, Naturals

CONSTANTS
  Period,      \* the period, in units of time
  Patience,    \* longest time a consumer keeps the goroutine waiting
  MaxSilence,  \* bound: silence is measured up to this
  MaxMsgs      \* bound: messages put in inCh

ASSUME PeriodAssumption == Period \in Nat \ {0}
ASSUME BoundsAssumption ==
  Patience \in Nat /\ MaxSilence \in Nat /\ MaxSilence > Period + Patience /\ MaxMsgs \in Nat

Types == {"data", "eof", "keepAlive"}

VARIABLES
  offer,      \* the message a sender blocked on inCh holds: a type, or "none"
  inClosed,   \* is inCh closed?
  msgs,       \* number of messages offered so far (bounds the model)
  ctxDone,    \* is ctx done?
  pc,         \* "select", "send" (blocked on outCh) or "done" (outCh closed)
  elapsed,    \* the ticker: time since the last tick or Reset
  tickReady,  \* is a tick waiting in t.C?
  waited,     \* time spent in the current send
  cancelled,  \* has cancel been called?
  silence,    \* history: time since a message was received from inCh
  falsely,    \* history: was cancel ever called before a period of silence?
  taken,      \* history: number of data messages received from inCh
  given       \* history: number of data messages the consumer received

inputVars  == <<offer, inClosed, msgs, ctxDone>>
tickerVars == <<elapsed, tickReady>>
vars == <<inputVars, pc, tickerVars, waited, cancelled, silence, falsely, taken, given>>

\* Every variable keeps its type; the consumer's patience bounds every send.
TypeOK ==
  /\ offer \in Types \cup {"none"}
  /\ inClosed \in BOOLEAN
  /\ msgs \in 0..MaxMsgs
  /\ ctxDone \in BOOLEAN
  /\ pc \in {"select", "send", "done"}
  /\ elapsed \in 0..(Period - 1)
  /\ tickReady \in BOOLEAN
  /\ waited \in 0..Patience
  /\ cancelled \in BOOLEAN
  /\ silence \in 0..MaxSilence
  /\ falsely \in BOOLEAN
  /\ taken \in 0..MaxMsgs
  /\ given \in 0..MaxMsgs

Init ==
  /\ offer = "none"
  /\ inClosed = FALSE
  /\ msgs = 0
  /\ ctxDone = FALSE
  /\ pc = "select"
  /\ elapsed = 0
  /\ tickReady = FALSE
  /\ waited = 0
  /\ cancelled = FALSE
  /\ silence = 0
  /\ falsely = FALSE
  /\ taken = 0
  /\ given = 0
-----------------------------------------------------------------------------
(***************************************************************************)
(* The other ends of the channels, and the context.                        *)
(***************************************************************************)
Offer(t) ==
  /\ offer = "none"
  /\ ~inClosed
  /\ msgs < MaxMsgs
  /\ offer' = t
  /\ msgs' = msgs + 1
  /\ UNCHANGED <<inClosed, ctxDone, pc, tickerVars, waited, cancelled, silence,
                 falsely, taken, given>>

CloseInput ==
  /\ offer = "none"
  /\ ~inClosed
  /\ inClosed' = TRUE
  /\ UNCHANGED <<offer, msgs, ctxDone, pc, tickerVars, waited, cancelled, silence,
                 falsely, taken, given>>

ContextEnds ==
  /\ ~ctxDone
  /\ ctxDone' = TRUE
  /\ UNCHANGED <<offer, inClosed, msgs, pc, tickerVars, waited, cancelled, silence,
                 falsely, taken, given>>
-----------------------------------------------------------------------------
(***************************************************************************)
(* The goroutine.  Its select chooses at random among the ready cases.     *)
(***************************************************************************)

\* Go before 1.23: a tick that is already waiting survives the Reset.
Reset_KeepsTick == elapsed' = 0 /\ UNCHANGED tickReady

\* t.Reset starts a new period and discards a tick nobody has received.
Reset == elapsed' = 0 /\ tickReady' = FALSE

SeesContext ==
  /\ pc = "select"
  /\ ctxDone
  /\ pc' = "done"
  /\ UNCHANGED <<inputVars, tickerVars, waited, cancelled, silence, falsely, taken, given>>

\* The timeout is only logged.
SeesTick_NoCancel ==
  /\ pc = "select"
  /\ tickReady
  /\ tickReady' = FALSE
  /\ UNCHANGED <<inputVars, pc, elapsed, waited, cancelled, falsely, silence, taken, given>>

SeesTick ==
  /\ pc = "select"
  /\ tickReady
  /\ tickReady' = FALSE
  /\ cancelled' = TRUE
  /\ falsely' = (falsely \/ silence < Period)
  /\ UNCHANGED <<inputVars, pc, elapsed, waited, silence, taken, given>>

\* A data message is received: the goroutine turns to outCh.
TakesData ==
  /\ pc = "select"
  /\ offer = "data"
  /\ offer' = "none"
  /\ pc' = "send"
  /\ waited' = 0
  /\ silence' = 0
  /\ taken' = taken + 1
  /\ UNCHANGED <<inClosed, msgs, ctxDone, tickerVars, cancelled, falsely, given>>

\* The send is given up when the context ends.
HandsOn_OrContext ==
  /\ pc = "send"
  /\ \/ given' = given + 1 /\ pc' = "select" /\ Reset
     \/ ctxDone /\ pc' = "done" /\ UNCHANGED <<given, tickerVars>>
  /\ UNCHANGED <<inputVars, waited, cancelled, silence, falsely, taken>>

\* The consumer receives it; only now is the ticker reset.
HandsOn ==
  /\ pc = "send"
  /\ given' = given + 1
  /\ pc' = "select"
  /\ Reset
  /\ UNCHANGED <<inputVars, waited, cancelled, silence, falsely, taken>>

\* A keep-alive message is a sign of life, and nothing else.
TakesKeepAlive ==
  /\ pc = "select"
  /\ offer = "keepAlive"
  /\ offer' = "none"
  /\ silence' = 0
  /\ Reset
  /\ UNCHANGED <<inClosed, msgs, ctxDone, pc, waited, cancelled, falsely, taken, given>>

\* The EOF message, or the end of the input, ends the goroutine.
TakesEof ==
  /\ pc = "select"
  /\ offer = "eof"
  /\ offer' = "none"
  /\ silence' = 0
  /\ pc' = "done"
  /\ UNCHANGED <<inClosed, msgs, ctxDone, tickerVars, waited, cancelled, falsely,
                 taken, given>>

\* A closed channel is received from again and again.
SeesClose_Loops ==
  /\ pc = "select"
  /\ inClosed
  /\ UNCHANGED vars

SeesClose ==
  /\ pc = "select"
  /\ inClosed
  /\ pc' = "done"
  /\ UNCHANGED <<inputVars, tickerVars, waited, cancelled, silence, falsely, taken, given>>

Loop == SeesContext \/ SeesTick \/ TakesData \/ TakesKeepAlive \/ TakesEof \/ SeesClose
-----------------------------------------------------------------------------
(***************************************************************************)
(* Time.                                                                   *)
(***************************************************************************)
Ready == pc = "select" /\ (ctxDone \/ tickReady \/ offer # "none" \/ inClosed)

TimePasses ==
  /\ pc # "done"
  /\ ~Ready
  /\ pc = "send" => waited < Patience
  /\ waited' = IF pc = "send" THEN waited + 1 ELSE waited
  /\ silence' = IF silence < MaxSilence THEN silence + 1 ELSE silence
  /\ elapsed' = IF elapsed + 1 = Period THEN 0 ELSE elapsed + 1
  /\ tickReady' = (tickReady \/ elapsed + 1 = Period)
  /\ UNCHANGED <<inputVars, pc, cancelled, falsely, taken, given>>

Terminated == pc = "done" /\ UNCHANGED vars

Next == \/ \E t \in Types : Offer(t)
        \/ CloseInput \/ ContextEnds
        \/ Loop \/ HandsOn \/ TimePasses \/ Terminated

Spec == Init /\ [][Next]_vars

\* The goroutine runs when it can, time goes on, and the consumer receives.
FairSpec == Spec /\ WF_vars(Loop) /\ WF_vars(HandsOn) /\ WF_vars(TimePasses)
-----------------------------------------------------------------------------
\* A dead peer does not go unnoticed: when inCh has been silent for more than
\* a period, and the time the consumer may have kept the goroutine waiting,
\* cancel has been called, unless the goroutine has already ended.
CancelIfSilentForLong == silence > Period + Patience /\ pc # "done" => cancelled

\* cancel is called only when nothing was received for a whole period: a peer
\* that sends, if only keep-alive messages, within every period is left alone.
CancelOnlyIfSilent == ~falsely

\* No message is lost on the way, not even when the context ends: when outCh is
\* closed, every data message received from inCh has been received from outCh.
NothingDropped == pc = "done" => given = taken

\* The goroutine ends, and closes outCh, once its context or its input ends.
EndsWithInput == (ctxDone \/ inClosed) ~> (pc = "done")
-----------------------------------------------------------------------------
(***************************************************************************)
(* The inductive invariant behind the safety properties.                   *)
(***************************************************************************)

\* The ticker and the silence: a tick that is waiting when the goroutine looks
\* has just come, at the end of a period of silence, and until then the
\* silence is that of the running period and of the send before it.
TickState ==
  pc = "select" =>
    /\ tickReady => elapsed = 0 /\ Period <= silence
    /\ ~tickReady => elapsed <= silence

SilenceState ==
  /\ pc = "send" => silence <= waited
  /\ pc = "select" /\ ~cancelled =>
       /\ tickReady => silence <= waited + Period
       /\ ~tickReady => silence <= waited + elapsed

\* No message is taken that was not offered, and between the two channels there
\* is at most the one being handed on.
CountState ==
  /\ taken + (IF offer = "none" THEN 0 ELSE 1) <= msgs
  /\ taken = given + (IF pc = "send" THEN 1 ELSE 0)

\* What makes the safety properties inductive.
IndInv ==
  /\ TypeOK
  /\ TickState
  /\ SilenceState
  /\ CountState
  /\ ~falsely
=============================================================================
