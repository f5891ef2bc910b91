------------------------- MODULE ReadWatchdogProofs -------------------------
(***************************************************************************)
(* Proofs about the read watchdog, for every period, every patience of its *)
(* consumer and any number of messages: IndInv is an invariant, and with   *)
(* it the safety properties of ReadWatchdog.                               *)
(***************************************************************************)
EXTENDS ReadWatchdog, TLAPS

USE PeriodAssumption, BoundsAssumption DEF PeriodAssumption, BoundsAssumption

\* Initially nothing has happened.
LEMMA InitIndInv == Init => IndInv
<1> SUFFICES ASSUME Init PROVE IndInv
  OBVIOUS
<1>1. ~tickReady /\ ~falsely
  BY Zenon DEF Init
<1>2. TypeOK
  <2>1. inClosed \in BOOLEAN /\ ctxDone \in BOOLEAN /\ tickReady \in BOOLEAN
        /\ cancelled \in BOOLEAN /\ falsely \in BOOLEAN
    BY Zenon DEF Init
  <2>2. elapsed \in 0..(Period - 1) /\ waited \in 0..Patience /\ silence \in 0..MaxSilence
        /\ msgs \in 0..MaxMsgs /\ taken \in 0..MaxMsgs /\ given \in 0..MaxMsgs
    BY DEF Init
  <2> QED
    BY <2>1, <2>2, Zenon DEF Init, TypeOK
<1>3. TickState /\ SilenceState /\ CountState
  BY <1>1 DEF Init, TickState, SilenceState, CountState
<1> QED
  BY <1>1, <1>2, <1>3 DEF IndInv

\* The other ends of the channels change nothing that the invariant is about.
LEMMA StepInput ==
  ASSUME IndInv, (\E t \in Types : Offer(t)) \/ CloseInput \/ ContextEnds
  PROVE  IndInv'
<1>1. CASE \E t \in Types : Offer(t)
  <2> PICK t \in Types : Offer(t)
    BY <1>1
  <2> QED
    BY DEF IndInv, TypeOK, TickState, SilenceState, CountState, Offer, tickerVars, Types
<1>2. CASE CloseInput \/ ContextEnds
  <2>1. TypeOK'
    BY <1>2 DEF IndInv, TypeOK, CloseInput, ContextEnds, tickerVars
  <2>2. UNCHANGED <<pc, tickReady, cancelled, falsely>>
    BY <1>2 DEF CloseInput, ContextEnds, tickerVars
  <2>3. UNCHANGED <<elapsed, silence, waited, offer, msgs, taken, given>>
    BY <1>2 DEF CloseInput, ContextEnds, tickerVars
  <2> QED
    BY <2>1, <2>2, <2>3 DEF IndInv, TickState, SilenceState, CountState
<1> QED
  BY <1>1, <1>2

\* A tick that is seen has come after a period of silence.
LEMMA StepTick ==
  ASSUME IndInv, SeesTick
  PROVE  IndInv'
<1>1. ~tickReady' /\ cancelled'
  BY Zenon DEF SeesTick
<1>2. ~(silence < Period)
  BY DEF IndInv, TypeOK, TickState, SeesTick
<1>3. ~falsely'
  BY <1>2, Zenon DEF IndInv, SeesTick
<1>4. TypeOK'
  BY DEF IndInv, TypeOK, SeesTick, inputVars
<1>5. TickState' /\ SilenceState' /\ CountState'
  BY <1>1 DEF IndInv, TypeOK, TickState, SilenceState, CountState, SeesTick, inputVars
<1> QED
  BY <1>3, <1>4, <1>5 DEF IndInv

\* A message received ends the silence, and a period if it is a keep-alive.
LEMMA StepTakes ==
  ASSUME IndInv, TakesData \/ TakesKeepAlive \/ TakesEof
  PROVE  IndInv'
<1>1. CASE TakesData
  BY <1>1 DEF IndInv, TypeOK, TickState, SilenceState, CountState, TakesData, tickerVars, Types
<1>2. CASE TakesKeepAlive
  <2>1. ~tickReady'
    BY <1>2, Zenon DEF TakesKeepAlive, Reset
  <2>2. TypeOK'
    <3>1. elapsed' \in 0..(Period - 1) /\ silence' \in 0..MaxSilence
      BY <1>2 DEF TakesKeepAlive, Reset
    <3>2. tickReady' \in BOOLEAN
      BY <2>1, <1>2, Zenon DEF TakesKeepAlive, Reset
    <3> QED
      BY <1>2, <3>1, <3>2 DEF IndInv, TypeOK, TakesKeepAlive
  <2>3. TickState' /\ SilenceState' /\ CountState' /\ ~falsely'
    BY <1>2, <2>1 DEF IndInv, TypeOK, TickState, SilenceState, CountState, TakesKeepAlive,
                      Reset
  <2> QED
    BY <2>2, <2>3 DEF IndInv
<1>3. CASE TakesEof
  BY <1>3 DEF IndInv, TypeOK, TickState, SilenceState, CountState, TakesEof, tickerVars, Types
<1> QED
  BY <1>1, <1>2, <1>3

\* A message handed on begins a period.
LEMMA StepHandsOn ==
  ASSUME IndInv, HandsOn
  PROVE  IndInv'
<1>1. ~tickReady'
  BY Zenon DEF HandsOn, Reset
<1>2. TypeOK'
  <2>1. elapsed' \in 0..(Period - 1)
    BY DEF HandsOn, Reset
  <2>2. tickReady' \in BOOLEAN
    BY Zenon DEF HandsOn, Reset
  <2>3. given' \in 0..MaxMsgs
    BY DEF IndInv, TypeOK, CountState, HandsOn
  <2> QED
    BY <2>1, <2>2, <2>3 DEF IndInv, TypeOK, HandsOn, inputVars
<1>3. TickState' /\ SilenceState' /\ CountState' /\ ~falsely'
  BY <1>1 DEF IndInv, TypeOK, TickState, SilenceState, CountState, HandsOn, Reset, inputVars
<1> QED
  BY <1>2, <1>3 DEF IndInv

\* Silence, ticker and the wait for the consumer grow together.
LEMMA StepTime ==
  ASSUME IndInv, TimePasses
  PROVE  IndInv'
<1>1. TypeOK'
  BY DEF IndInv, TypeOK, TimePasses, inputVars
<1>2. UNCHANGED <<pc, cancelled, offer, msgs, taken, given, falsely>>
  BY DEF TimePasses, inputVars
<1>3. CountState' /\ ~falsely'
  BY <1>2 DEF IndInv, CountState
<1>4. pc = "send" => silence' <= waited'
  BY DEF IndInv, TypeOK, SilenceState, TimePasses
<1>5. ASSUME pc = "select"
      PROVE  TickState' /\ SilenceState'
  <2>1. ~tickReady
    BY <1>5, Zenon DEF TimePasses, Ready
  <2> DEFINE Bounded == silence <= waited + elapsed
  <2>2. ~cancelled => Bounded
    BY <1>5, <2>1, Zenon DEF IndInv, SilenceState
  <2>3. silence \in Nat /\ waited \in Nat /\ elapsed \in Nat /\ silence' \in Nat
    BY <1>1 DEF IndInv, TypeOK
  <2>4. CASE elapsed + 1 = Period
    <3>1. tickReady'
      BY <2>4, Zenon DEF TimePasses
    <3>2. elapsed' = 0 /\ waited' = waited
      BY <1>5, <2>4 DEF TimePasses
    <3>3. Period <= silence' /\ silence' <= silence + 1
      BY <1>5, <2>1, <2>4 DEF IndInv, TypeOK, TickState, TimePasses
    <3>4. Bounded => silence' <= waited' + Period
      BY <2>3, <2>4, <3>2, <3>3
    <3> QED
      BY <1>2, <1>5, <3>1, <3>2, <2>2, <3>3, <3>4 DEF TickState, SilenceState
  <2>5. CASE elapsed + 1 # Period
    <3>1. ~tickReady'
      BY <2>1, <2>5, Zenon DEF TimePasses
    <3>2. elapsed' = elapsed + 1 /\ waited' = waited
      BY <1>5, <2>5 DEF TimePasses
    <3>3. elapsed' <= silence' /\ silence' <= silence + 1
      BY <1>5, <2>1, <3>2 DEF IndInv, TypeOK, TickState, TimePasses
    <3>4. Bounded => silence' <= waited' + elapsed'
      BY <2>3, <3>2, <3>3
    <3> QED
      BY <1>1, <1>2, <1>5, <3>1, <3>2, <2>2, <3>3, <3>4 DEF TickState, SilenceState, TypeOK
  <2> QED
    BY <2>4, <2>5
<1> QED
  BY <1>1, <1>2, <1>3, <1>4, <1>5 DEF IndInv, TickState, SilenceState

\* Every step keeps the invariant.
LEMMA StepIndInv == IndInv /\ [Next]_vars => IndInv'
<1> SUFFICES ASSUME IndInv, [Next]_vars PROVE IndInv'
  OBVIOUS
<1>1. CASE SeesContext
  BY <1>1 DEF IndInv, TypeOK, TickState, SilenceState, CountState, SeesContext,
              inputVars, tickerVars
<1>2. CASE SeesClose
  BY <1>2 DEF IndInv, TypeOK, TickState, SilenceState, CountState, SeesClose,
              inputVars, tickerVars
<1>3. CASE UNCHANGED vars
  BY <1>3 DEF IndInv, TypeOK, TickState, SilenceState, CountState, vars, inputVars, tickerVars
<1> QED
  BY <1>1, <1>2, <1>3, StepInput, StepTick, StepTakes, StepHandsOn, StepTime
     DEF Next, Loop, Terminated

\* The invariant holds in every reachable state: silence, ticker, the wait for
\* the consumer and the goroutine's position are in agreement.
THEOREM Invariance == Spec => []IndInv
  BY InitIndInv, StepIndInv, PTL DEF Spec

\* Every variable of the watchdog keeps its type.
THEOREM TypeCorrectness == Spec => []TypeOK
<1>1. IndInv => TypeOK
  BY DEF IndInv
<1> QED
  BY <1>1, Invariance, PTL

\* startReadWatchdog calls cancel when inCh has been silent for longer than a
\* period and the time the consumer kept it waiting.
THEOREM DeadPeerIsNoticed == Spec => []CancelIfSilentForLong
<1>1. IndInv => CancelIfSilentForLong
  BY DEF IndInv, TypeOK, TickState, SilenceState, CancelIfSilentForLong
<1> QED
  BY <1>1, Invariance, PTL

\* It calls cancel only after a whole period of silence.
THEOREM LivingPeerIsLeftAlone == Spec => []CancelOnlyIfSilent
<1>1. IndInv => CancelOnlyIfSilent
  BY DEF IndInv, CancelOnlyIfSilent
<1> QED
  BY <1>1, Invariance, PTL

\* When it closes outCh, every data message it took from inCh has been received
\* from outCh.
THEOREM EverythingHandedOn == Spec => []NothingDropped
<1>1. IndInv => NothingDropped
  BY DEF IndInv, TypeOK, CountState, NothingDropped
<1> QED
  BY <1>1, Invariance, PTL
-----------------------------------------------------------------------------
(***************************************************************************)
(* Liveness: why EndsWithInput holds, from the fairness of FairSpec and    *)
(* from the fact that the actions it is fair to are enabled when their     *)
(* guards say so.                                                          *)
(***************************************************************************)
ActionsEnabled ==
  /\ Ready => ENABLED <<Loop>>_vars
  /\ pc = "send" => ENABLED <<HandsOn>>_vars

\* Nobody is blocked sending on a channel that has been closed.
ClosedMeansEmpty == inClosed => offer = "none"

\* Every step keeps it so.
LEMMA StepClosedMeansEmpty == ClosedMeansEmpty /\ [Next]_vars => ClosedMeansEmpty'
BY DEF ClosedMeansEmpty, Next, vars, inputVars, tickerVars, Offer, CloseInput, ContextEnds,
       Loop, SeesContext, SeesTick, TakesData, TakesKeepAlive, TakesEof, SeesClose, HandsOn,
       TimePasses, Terminated

\* A closed input stays closed, and a context that is done stays done.
LEMMA InputStaysClosed == [Next]_vars => (inClosed => inClosed') /\ (ctxDone => ctxDone')
BY DEF Next, vars, inputVars, tickerVars, Offer, CloseInput, ContextEnds, Loop, SeesContext,
       SeesTick, TakesData, TakesKeepAlive, TakesEof, SeesClose, HandsOn, TimePasses, Terminated

\* With the input closed, the goroutine hands on the message it has, takes the
\* tick that may be waiting, and ends.
Sending  == inClosed /\ pc = "send"
WithTick == inClosed /\ pc = "select" /\ tickReady
Ending   == inClosed /\ pc = "select" /\ ~tickReady

\* From the send the goroutine comes back to its select, or stays.
LEMMA SendingStep ==
  Sending /\ [Next]_vars => Sending' \/ WithTick' \/ Ending'
BY DEF Sending, WithTick, Ending, Next, vars, inputVars, tickerVars, Offer, CloseInput,
       ContextEnds, Loop, SeesContext, SeesTick, TakesData, TakesKeepAlive, TakesEof,
       SeesClose, HandsOn, TimePasses, Terminated, Reset

\* In the select it stays, takes the tick, or ends.
LEMMA WithTickStep ==
  ClosedMeansEmpty /\ WithTick /\ [Next]_vars => WithTick' \/ Ending' \/ (pc = "done")'
BY DEF ClosedMeansEmpty, WithTick, Ending, Next, vars, inputVars, tickerVars, Offer, CloseInput,
       ContextEnds, Loop, SeesContext, SeesTick, TakesData, TakesKeepAlive, TakesEof,
       SeesClose, HandsOn, TimePasses, Terminated, Ready

\* Without a tick it stays in the select or ends.
LEMMA EndingStep ==
  ClosedMeansEmpty /\ Ending /\ [Next]_vars => Ending' \/ (pc = "done")'
<1> SUFFICES ASSUME ClosedMeansEmpty, Ending, [Next]_vars PROVE Ending' \/ (pc = "done")'
  OBVIOUS
<1> USE DEF inputVars, tickerVars
<1>1. inClosed /\ pc = "select" /\ ~tickReady /\ offer = "none" /\ inClosed'
  BY InputStaysClosed DEF ClosedMeansEmpty, Ending
<1>2. ~SeesTick /\ ~TakesData /\ ~TakesKeepAlive /\ ~TakesEof /\ ~HandsOn /\ ~TimePasses
  BY <1>1 DEF SeesTick, TakesData, TakesKeepAlive, TakesEof, HandsOn, TimePasses, Ready
<1>3. CASE SeesContext \/ SeesClose
  BY <1>3 DEF SeesContext, SeesClose
<1>4. CASE (\E t \in Types : Offer(t)) \/ CloseInput \/ ContextEnds
  <2>1. UNCHANGED <<pc, tickReady>>
    BY <1>4 DEF Offer, CloseInput, ContextEnds
  <2> QED
    BY <1>1, <2>1, Zenon DEF Ending
<1>5. CASE Terminated \/ UNCHANGED vars
  <2>1. UNCHANGED <<pc, tickReady>>
    BY <1>5 DEF Terminated, vars
  <2> QED
    BY <1>1, <2>1, Zenon DEF Ending
<1> QED
  BY <1>2, <1>3, <1>4, <1>5 DEF Next, Loop

\* The first half of EndsWithInput: once inCh is closed the goroutine ends and
\* closes outCh, whatever its ticker and its context do, for any period and
\* any patience of the consumer.
THEOREM EndsWhenClosed == FairSpec /\ []ActionsEnabled => (inClosed ~> (pc = "done"))
<1>1. Init => ClosedMeansEmpty
  BY DEF Init, ClosedMeansEmpty
<1>2. ClosedMeansEmpty /\ [Next]_vars => ClosedMeansEmpty'
  BY StepClosedMeansEmpty
<1>3. Sending /\ [Next]_vars => Sending' \/ WithTick' \/ Ending'
  BY SendingStep
<1>4. Sending /\ <<HandsOn>>_vars => WithTick' \/ Ending'
  BY DEF Sending, WithTick, Ending, HandsOn, inputVars, Reset
<1>5. ClosedMeansEmpty /\ WithTick /\ [Next]_vars => WithTick' \/ Ending' \/ (pc = "done")'
  BY WithTickStep
<1>6. ClosedMeansEmpty /\ WithTick /\ <<Loop>>_vars => Ending' \/ (pc = "done")'
  BY DEF ClosedMeansEmpty, WithTick, Ending, inputVars, tickerVars, Loop, SeesContext,
         SeesTick, TakesData, TakesKeepAlive, TakesEof, SeesClose
<1>7. ClosedMeansEmpty /\ Ending /\ [Next]_vars => Ending' \/ (pc = "done")'
  BY EndingStep
<1>8. ClosedMeansEmpty /\ Ending /\ <<Loop>>_vars => (pc = "done")'
  BY DEF ClosedMeansEmpty, Ending, Loop, SeesContext, SeesTick, TakesData, TakesKeepAlive,
         TakesEof, SeesClose
<1>9. IndInv /\ inClosed => Sending \/ WithTick \/ Ending \/ pc = "done"
  BY DEF IndInv, TypeOK, Sending, WithTick, Ending
<1>10. ActionsEnabled => /\ Sending => ENABLED <<HandsOn>>_vars
                         /\ WithTick => ENABLED <<Loop>>_vars
                         /\ Ending => ENABLED <<Loop>>_vars
  BY DEF ActionsEnabled, Sending, WithTick, Ending, Ready
<1> QED
  BY <1>1, <1>2, <1>3, <1>4, <1>5, <1>6, <1>7, <1>8, <1>9, <1>10, Invariance, PTL
     DEF FairSpec, Spec
-----------------------------------------------------------------------------
(***************************************************************************)
(* When the context ends the input may go on, and the select may choose    *)
(* it: what is left to do is measured by a rank.                           *)
(***************************************************************************)
Waiting == (ctxDone \/ inClosed) /\ pc # "done"

MsgRank   == 8 * (MaxMsgs - msgs)
OfferRank == IF offer = "none" THEN 0 ELSE 6
PcRank    == CASE pc = "send" -> 3 [] pc = "select" -> 1 [] OTHER -> 0
TickRank  == IF pc = "select" /\ tickReady THEN 1 ELSE 0
Rank == MsgRank + OfferRank + PcRank + TickRank

\* While the goroutine's end is due, every step brings it nearer, but for the
\* end of the context, the end of the input, and time, which passes only while
\* the goroutine is blocked handing a message on.
RankFalls ==
  Waiting /\ Waiting' =>
    \/ Rank' < Rank
    \/ /\ Rank' = Rank /\ pc' = pc
       /\ ContextEnds \/ CloseInput \/ (TimePasses /\ pc = "send")

\* The rank is a natural number.
LEMMA RankType == TypeOK => Rank \in Nat /\ MsgRank \in Nat
<1> SUFFICES ASSUME TypeOK PROVE Rank \in Nat /\ MsgRank \in Nat
  OBVIOUS
<1>1. MsgRank \in Nat
  BY DEF TypeOK, MsgRank
<1>2. OfferRank \in Nat /\ PcRank \in Nat /\ TickRank \in Nat
  BY DEF OfferRank, PcRank, TickRank
<1> QED
  BY <1>1, <1>2 DEF Rank

\* What one more message takes from its part of the rank.
LEMMA MsgLess ==
  ASSUME NEW k \in Nat, NEW l \in Nat PROVE 8 * (l - (k + 1)) = 8 * (l - k) - 8
  OBVIOUS

\* Every step lowers the rank, or is one of the three that need not.
LEMMA StepRank == TypeOK /\ [Next]_vars => [RankFalls]_vars
<1> SUFFICES ASSUME TypeOK, Next, vars' # vars, Waiting, Waiting'
             PROVE  \/ Rank' < Rank
                    \/ /\ Rank' = Rank /\ pc' = pc
                       /\ ContextEnds \/ CloseInput \/ (TimePasses /\ pc = "send")
  BY DEF RankFalls
<1>0. MsgRank \in Nat
  BY RankType
<1> USE DEF inputVars, tickerVars
<1>1. ASSUME NEW t \in Types, Offer(t) PROVE Rank' < Rank
  <2>1. MsgRank' = MsgRank - 8
    <3>1. msgs' = msgs + 1 /\ msgs \in Nat /\ MaxMsgs \in Nat
      BY <1>1 DEF Offer, TypeOK
    <3> QED
      BY <3>1, MsgLess DEF MsgRank
  <2>2. OfferRank = 0 /\ OfferRank' = 6
    BY <1>1 DEF Offer, OfferRank, Types
  <2>3. /\ PcRank \in {0, 1, 3} /\ PcRank' = PcRank
        /\ TickRank \in {0, 1} /\ TickRank' = TickRank
    BY <1>1 DEF Offer, PcRank, TickRank
  <2> QED
    BY <1>0, <2>1, <2>2, <2>3 DEF Rank
<1>2. CASE ContextEnds \/ CloseInput \/ (TimePasses /\ pc = "send")
  <2>1. UNCHANGED <<offer, msgs, pc>> /\ (tickReady' = tickReady \/ pc = "send")
    BY <1>2 DEF ContextEnds, CloseInput, TimePasses
  <2>2. /\ MsgRank' = MsgRank /\ OfferRank' = OfferRank /\ PcRank' = PcRank
        /\ TickRank' = TickRank
    BY <2>1 DEF MsgRank, OfferRank, PcRank, TickRank
  <2> QED
    BY <1>2, <2>1, <2>2 DEF Rank
<1>3. CASE Loop \/ HandsOn
  <2>1. MsgRank' = MsgRank
    BY <1>3 DEF Loop, SeesContext, SeesTick, TakesData, TakesKeepAlive, TakesEof, SeesClose,
                HandsOn, MsgRank
  <2>2. CASE SeesTick
    <3>1. /\ OfferRank \in {0, 6} /\ OfferRank' = OfferRank /\ PcRank = 1 /\ PcRank' = 1
          /\ TickRank = 1 /\ TickRank' = 0
      BY <2>2 DEF SeesTick, OfferRank, PcRank, TickRank
    <3> QED
      BY <1>0, <2>1, <3>1 DEF Rank
  <2>3. CASE TakesData
    <3>1. /\ OfferRank = 6 /\ OfferRank' = 0 /\ PcRank = 1 /\ PcRank' = 3
          /\ TickRank \in {0, 1} /\ TickRank' = 0
      BY <2>3 DEF TakesData, OfferRank, PcRank, TickRank
    <3> QED
      BY <1>0, <2>1, <3>1 DEF Rank
  <2>4. CASE TakesKeepAlive
    <3>1. /\ OfferRank = 6 /\ OfferRank' = 0 /\ PcRank = 1 /\ PcRank' = 1
          /\ TickRank \in {0, 1} /\ TickRank' = 0
      BY <2>4 DEF TakesKeepAlive, Reset, OfferRank, PcRank, TickRank
    <3> QED
      BY <1>0, <2>1, <3>1 DEF Rank
  <2>5. CASE HandsOn
    <3>1. /\ OfferRank \in {0, 6} /\ OfferRank' = OfferRank /\ PcRank = 3 /\ PcRank' = 1
          /\ TickRank = 0 /\ TickRank' = 0
      BY <2>5 DEF HandsOn, Reset, OfferRank, PcRank, TickRank
    <3> QED
      BY <1>0, <2>1, <3>1 DEF Rank
  <2>6. ~SeesContext /\ ~TakesEof /\ ~SeesClose
    BY DEF Waiting, SeesContext, TakesEof, SeesClose
  <2> QED
    BY <1>3, <2>2, <2>3, <2>4, <2>5, <2>6 DEF Loop
<1>4. CASE TimePasses /\ pc # "send"
  BY <1>4 DEF TimePasses, Ready, Waiting, TypeOK
<1>5. ~Terminated
  BY DEF Terminated
<1> QED
  BY <1>1, <1>2, <1>3, <1>4, <1>5 DEF Next

\* No livelock: once its context or its input has ended, the goroutine takes
\* at most Rank further steps, those of the senders on inCh included.
THEOREM NoLivelock == Spec => [][RankFalls]_vars
<1>1. TypeOK /\ [Next]_vars => [RankFalls]_vars
  BY StepRank
<1> QED
  BY <1>1, TypeCorrectness, PTL DEF Spec

\* What EndsWithInput rests on when the input does not end: from any rank n,
\* once the context is done, the goroutine ends or the rank falls.
THEOREM EndComesNearer ==
  ASSUME NEW n \in Nat
  PROVE  FairSpec /\ []ActionsEnabled =>
           (((ctxDone \/ inClosed) /\ Rank = n) ~> (pc = "done" \/ Rank < n))
<1> DEFINE P == Waiting /\ Rank = n
           Q == pc = "done" \/ Rank < n
<1>1. IndInv /\ P /\ [Next]_vars => (P' /\ pc' = pc) \/ Q'
  <2> SUFFICES ASSUME IndInv, P, [Next]_vars, ~Q' PROVE P' /\ pc' = pc
    OBVIOUS
  <2>1. Waiting'
    BY InputStaysClosed DEF Waiting
  <2>2. CASE UNCHANGED vars
    BY <2>1, <2>2 DEF vars, inputVars, tickerVars, Rank, MsgRank, OfferRank, PcRank, TickRank
  <2>3. CASE vars' # vars
    <3>1. RankFalls
      BY <2>3, StepRank DEF IndInv
    <3>2. \/ Rank' < Rank
          \/ Rank' = Rank /\ pc' = pc
      BY <2>1, <3>1 DEF RankFalls
    <3>3. Rank = n /\ ~(Rank' < n)
      OBVIOUS
    <3>4. Rank' = Rank /\ pc' = pc
      BY <3>2, <3>3
    <3> QED
      BY <2>1, <3>3, <3>4
  <2> QED
    BY <2>2, <2>3
<1>2. IndInv /\ P /\ <<Loop>>_vars => Q'
  <2> SUFFICES ASSUME IndInv, P, Loop, vars' # vars, pc' # "done" PROVE Rank' < n
    OBVIOUS
  <2>1. Waiting'
    BY InputStaysClosed DEF Waiting, Next
  <2>2. RankFalls
    BY StepRank DEF IndInv, Next
  <2>3. ~ContextEnds /\ ~CloseInput /\ pc # "send"
    BY DEF Loop, SeesContext, SeesTick, TakesData, TakesKeepAlive, TakesEof, SeesClose,
           ContextEnds, CloseInput, inputVars
  <2>4. Rank' < Rank
    BY <2>1, <2>2, <2>3 DEF RankFalls
  <2>5. Rank = n
    OBVIOUS
  <2> QED
    BY <2>4, <2>5
<1>3. IndInv /\ P /\ <<HandsOn>>_vars => Q'
  <2> SUFFICES ASSUME IndInv, P, HandsOn, vars' # vars PROVE Rank' < n
    OBVIOUS
  <2>1. Waiting'
    BY DEF HandsOn, Waiting, inputVars
  <2>2. RankFalls
    BY StepRank DEF IndInv, Next
  <2>3. pc' # pc
    BY DEF HandsOn
  <2>4. Rank' < Rank
    BY <2>1, <2>2, <2>3 DEF RankFalls
  <2>5. Rank = n
    OBVIOUS
  <2> QED
    BY <2>4, <2>5
<1>4. P /\ IndInv => pc = "select" \/ pc = "send"
  BY DEF IndInv, TypeOK, Waiting
<1>5. ActionsEnabled => /\ P /\ pc = "select" => ENABLED <<Loop>>_vars
                        /\ P /\ pc = "send" => ENABLED <<HandsOn>>_vars
  BY DEF ActionsEnabled, Waiting, Ready
<1>6. (ctxDone \/ inClosed) /\ Rank = n => P \/ Q
  BY DEF Waiting
<1>7. pc' = pc => /\ pc = "select" => (pc = "select")'
                  /\ pc = "send" => (pc = "send")'
  OBVIOUS
<1> HIDE DEF P, Q
<1>8. FairSpec /\ []ActionsEnabled => (((ctxDone \/ inClosed) /\ Rank = n) ~> Q)
  BY <1>1, <1>2, <1>3, <1>4, <1>5, <1>6, <1>7, Invariance, PTL DEF FairSpec, Spec
<1> QED
  BY <1>8 DEF Q
=============================================================================
