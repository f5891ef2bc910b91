------------------------ MODULE RequestStreamProofs ------------------------
(***************************************************************************)
(* RequestStream for every set of values, every window, any number of      *)
(* messages: the inductive invariant is inductive, the safety properties   *)
(* follow from it, and every step is a step of MessageStream or stutters.  *)
(***************************************************************************)
EXTENDS RequestStream, FrameLemmas

(***************************************************************************)
(* TypeOK.                                                                 *)
(***************************************************************************)

\* The initial values have their types.
LEMMA InitType == Init => TypeOK
<1>1. <<>> \in Seq(Frame) /\ <<>> \in Seq(Data) /\ Len(<<>>) = 0
  OBVIOUS
<1>2. 0 \in 0..MaxKeepAlives /\ 0 <= WireCap
  BY BoundsAssumption
<1> SUFFICES ASSUME Init PROVE TypeOK
  OBVIOUS
<1>3. frame \in Frame
  BY FrameTypes DEF Init, NoFrame
<1>4. /\ sent \in Seq(Data) /\ received \in Seq(Data)
      /\ wire \in Seq(Frame) /\ Len(wire) <= WireCap
  BY <1>1, <1>2 DEF Init
<1> QED
  BY <1>2, <1>3, <1>4 DEF Init, TypeOK

\* A step of the caller keeps the types.
LEMMA ProducerType == TypeOK /\ Producer => TypeOK'
<1> SUFFICES ASSUME TypeOK, Producer PROVE TypeOK'
  OBVIOUS
<1> USE DEF pumpVars, transportVars, handlerVars
<1>1. CASE \E v \in Data : Offer(v)
  BY <1>1 DEF TypeOK, Offer
<1>2. CASE CloseChannel
  BY <1>2 DEF TypeOK, CloseChannel
<1> QED
  BY <1>1, <1>2 DEF Producer

\* A step of the goroutine keeps the types.
LEMMA PumpType == TypeOK /\ Pump => TypeOK'
<1> SUFFICES ASSUME TypeOK, Pump PROVE TypeOK'
  OBVIOUS
<1> USE DEF TypeOK, producerVars, transportVars, handlerVars
<1>1. CASE PumpReceive
  <2>1. offer \in Data
    BY <1>1 DEF PumpReceive
  <2>2. sent' \in Seq(Data)
    BY <1>1, <2>1 DEF PumpReceive
  <2>3. frame' \in Frame
    BY <1>1, <2>1, FrameTypes DEF PumpReceive
  <2> QED
    BY <1>1, <2>2, <2>3 DEF PumpReceive
<1>2. CASE PumpSeesClose
  BY <1>2 DEF PumpSeesClose
<1>3. CASE PumpKeepAlive
  BY <1>3, FrameTypes, BoundsAssumption DEF PumpKeepAlive
<1>4. CASE PumpWriteFails
  BY <1>4, FrameTypes DEF PumpWriteFails, NoFrame
<1>5. CASE PumpExit
  BY <1>5, FrameTypes DEF PumpExit
<1>6. CASE PumpEofFails
  BY <1>6, FrameTypes DEF PumpEofFails, NoFrame
<1>7. CASE DrainDiscards
  <2>1. offer \in Data
    BY <1>7 DEF DrainDiscards
  <2> QED
    BY <1>7, <2>1 DEF DrainDiscards, pumpVars
<1>8. CASE DrainEnds
  BY <1>8 DEF DrainEnds
<1> QED
  BY <1>1, <1>2, <1>3, <1>4, <1>5, <1>6, <1>7, <1>8 DEF Pump

\* A step of the transport keeps the types; it takes a frame only if its
\* window has room.
LEMMA TransportType == TypeOK /\ Transport => TypeOK'
<1> SUFFICES ASSUME TypeOK, Transport PROVE TypeOK'
  OBVIOUS
<1> USE DEF TypeOK, producerVars, pumpVars, handlerVars
<1>1. CASE StartRequest
  BY <1>1 DEF StartRequest
<1>2. CASE BuildFails
  BY <1>2 DEF BuildFails
<1>3. CASE TransportTakesFrame
  <2>1. wire' \in Seq(Frame) /\ Len(wire') <= WireCap
    BY <1>3, AppendElements, BoundsAssumption DEF TransportTakesFrame
  <2> QED
    BY <1>3, <2>1, FrameTypes DEF TransportTakesFrame, NoFrame
<1>4. CASE TransportSeesWriteEnd
  BY <1>4 DEF TransportSeesWriteEnd
<1>5. CASE TransportAborts
  BY <1>5 DEF TransportAborts
<1> QED
  BY <1>1, <1>2, <1>3, <1>4, <1>5 DEF Transport

\* A step of the handler keeps the types.
LEMMA ServerType == TypeOK /\ Server => TypeOK'
<1> SUFFICES ASSUME TypeOK, Server PROVE TypeOK'
  OBVIOUS
<1> USE DEF TypeOK, producerVars, pumpVars, transportVars
<1>1. CASE ServerReadsFrame
  <2>1. /\ Tail(wire) \in Seq(Frame) /\ Len(Tail(wire)) <= WireCap
        /\ Head(wire) \in Frame
    BY <1>1, TailElements, BoundsAssumption DEF ServerReadsFrame
  <2>2. received' \in Seq(Data)
    BY <1>1, <2>1, AppendElements DEF ServerReadsFrame, Frame, EofFrame, KeepAliveFrame
  <2> QED
    BY <1>1, <2>1, <2>2 DEF ServerReadsFrame
<1>2. CASE ServerReadsEnd
  BY <1>2 DEF ServerReadsEnd
<1>3. CASE ServerStops
  BY <1>3 DEF ServerStops
<1> QED
  BY <1>1, <1>2, <1>3 DEF Server

\* Every step does.
LEMMA StepType == TypeOK /\ [Next]_vars => TypeOK'
<1>1. TypeOK /\ UNCHANGED vars => TypeOK'
  BY DEF TypeOK, vars, producerVars, pumpVars, transportVars, handlerVars
<1> QED
  BY <1>1, ProducerType, PumpType, TransportType, ServerType DEF Next, Terminated
-----------------------------------------------------------------------------
(***************************************************************************)
(* The control part of the invariant: PumpState and EndState.              *)
(***************************************************************************)

\* Every step keeps the goroutine's position, its result and the channel in
\* agreement.
LEMMA StepPumpState == TypeOK /\ PumpState /\ [Next]_vars => PumpState'
<1> SUFFICES ASSUME TypeOK, PumpState, [Next]_vars PROVE PumpState'
  OBVIOUS
<1> USE DEF PumpState, producerVars, pumpVars, transportVars, handlerVars
<1>1. CASE Producer
  BY <1>1 DEF Producer, Offer, CloseChannel
<1>2. CASE PumpReceive
  BY <1>2, DataAssumption DEF PumpReceive, DataFrame, TypeOK
<1>3. CASE PumpSeesClose
  BY <1>3 DEF PumpSeesClose
<1>4. CASE PumpKeepAlive
  BY <1>4 DEF PumpKeepAlive, KeepAliveFrame
<1>5. CASE PumpWriteFails
  BY <1>5 DEF PumpWriteFails
<1>6. CASE PumpExit
  BY <1>6 DEF PumpExit
<1>7. CASE PumpEofFails
  BY <1>7 DEF PumpEofFails
<1>8. CASE DrainDiscards
  BY <1>8 DEF DrainDiscards
<1>9. CASE DrainEnds
  BY <1>9 DEF DrainEnds
<1>10. CASE Transport
  BY <1>10 DEF Transport, StartRequest, BuildFails, TransportTakesFrame,
                TransportSeesWriteEnd, TransportAborts
<1>11. CASE Server
  BY <1>11 DEF Server, ServerReadsFrame, ServerReadsEnd, ServerStops
<1>12. CASE UNCHANGED vars
  BY <1>12 DEF vars
<1> QED
  BY <1>1, <1>2, <1>3, <1>4, <1>5, <1>6, <1>7, <1>8, <1>9, <1>10, <1>11, <1>12
     DEF Next, Pump, Terminated

\* Every step keeps a clean end of the stream behind the close of the channel,
\* and the EOF frame last.
LEMMA StepEndState ==
  TypeOK /\ PumpState /\ EndState /\ [Next]_vars => EndState'
<1> SUFFICES ASSUME TypeOK, PumpState, EndState, [Next]_vars PROVE EndState'
  OBVIOUS
<1> USE DEF EndState, producerVars, pumpVars, transportVars, handlerVars
<1>1. CASE Producer
  BY <1>1 DEF Producer, Offer, CloseChannel
<1>2. CASE PumpReceive
  BY <1>2 DEF PumpReceive, PumpState
<1>3. CASE PumpSeesClose
  BY <1>3 DEF PumpSeesClose, PumpState
<1>4. CASE PumpKeepAlive
  BY <1>4 DEF PumpKeepAlive
<1>5. CASE PumpWriteFails
  BY <1>5 DEF PumpWriteFails, PumpState
<1>6. CASE PumpExit
  BY <1>6 DEF PumpExit, PumpState
<1>7. CASE PumpEofFails
  BY <1>7 DEF PumpEofFails, PumpState
<1>8. CASE DrainDiscards
  BY <1>8 DEF DrainDiscards
<1>9. CASE DrainEnds
  BY <1>9 DEF DrainEnds
<1>10. CASE TransportTakesFrame
  <2>1. \A i \in 1..Len(wire) : wire[i].type # "eof"
    BY <1>10 DEF TransportTakesFrame
  <2>2. /\ Len(wire') = Len(wire) + 1 /\ Len(wire) \in Nat
        /\ \A i \in 1..Len(wire) : wire'[i] = wire[i]
        /\ wire'[Len(wire) + 1] = frame
    BY <1>10, AppendElements DEF TransportTakesFrame, TypeOK
  <2>3. ASSUME NEW i \in 1..Len(wire'), wire'[i].type = "eof"
        PROVE  i = Len(wire') /\ pc' \in {"drain", "done"} /\ err' = "EOF"
    BY <1>10, <2>1, <2>2, <2>3 DEF TransportTakesFrame, PumpState
  <2> QED
    BY <1>10, <2>3 DEF TransportTakesFrame, PumpState
<1>11. CASE StartRequest \/ BuildFails \/ TransportSeesWriteEnd \/ TransportAborts
  BY <1>11 DEF StartRequest, BuildFails, TransportSeesWriteEnd, TransportAborts, TypeOK
<1>12. CASE ServerReadsFrame
  <2>1. /\ Len(wire') = Len(wire) - 1 /\ Len(wire) \in Nat
        /\ \A i \in 1..Len(wire') : wire'[i] = wire[i + 1]
    BY <1>12, TailElements DEF ServerReadsFrame, TypeOK
  <2>2. reader # "unused"
    BY <1>12 DEF ServerReadsFrame
  <2>3. ASSUME NEW i \in 1..Len(wire'), wire'[i].type = "eof"
        PROVE  i = Len(wire') /\ pc \in {"drain", "done"} /\ err = "EOF"
    <3>1. i + 1 \in 1..Len(wire) /\ wire[i + 1].type = "eof"
      BY <2>1, <2>3
    <3> QED
      BY <2>1, <3>1
  <2> QED
    BY <1>12, <2>2, <2>3 DEF ServerReadsFrame
<1>13. CASE ServerReadsEnd \/ ServerStops
  BY <1>13 DEF ServerReadsEnd, ServerStops, BodyExhausted
<1>14. CASE UNCHANGED vars
  BY <1>14 DEF vars
<1> QED
  BY <1>1, <1>2, <1>3, <1>4, <1>5, <1>6, <1>7, <1>8, <1>9, <1>10, <1>11, <1>12,
     <1>13, <1>14 DEF Next, Pump, Transport, Server, Terminated
-----------------------------------------------------------------------------
(***************************************************************************)
(* The data part: InFlight and ReceivedIsPrefix.                           *)
(***************************************************************************)

\* Lengths are numbers.
LEMMA LocalLengths ==
  TypeOK => /\ Len(wire) \in Nat /\ Len(sent) \in Nat /\ Len(received) \in Nat
  BY DEF TypeOK

\* Nothing that is numbered changes, and the pump's hands stay as they are or
\* are emptied while the stream breaks.
LEMMA InFlightUnchanged ==
  ASSUME TypeOK, InFlight, UNCHANGED <<wire, sent, received>>,
         \/ UNCHANGED <<pc, frame, err>>
         \/ Pending' = 0 /\ Pending = 0 /\ (err' \in {"nil", "EOF"} => err \in {"nil", "EOF"})
         \/ Pending' = 0 /\ err' \notin {"nil", "EOF"}
  PROVE  InFlight'
<1>1. PICK pos : /\ Numbers(pos, wire, sent, Len(received))
                 /\ err \in {"nil", "EOF"} => pos[Len(wire)] + Pending = Len(sent)
                 /\ Pending = 1 => frame.payload = sent[Len(sent)]
  BY DEF InFlight
<1>2. CASE UNCHANGED <<pc, frame, err>>
  BY <1>2 DEF InFlight, Pending
<1>3. CASE Pending' = 0 /\ (err' \in {"nil", "EOF"} => Pending = 0 /\ err \in {"nil", "EOF"})
  <2>1. Numbers(pos, wire', sent', Len(received'))
    BY <1>1
  <2>2. err' \in {"nil", "EOF"} => pos[Len(wire')] + Pending' = Len(sent')
    BY <1>1, <1>3
  <2>3. Pending' # 1
    BY <1>3
  <2>4. pos \in [0..Len(wire') -> 0..Len(sent')]
    BY <2>1 DEF Numbers
  <2> QED
    BY <2>1, <2>2, <2>3, <2>4 DEF InFlight
<1> QED
  BY <1>2, <1>3

\* Every step keeps the frames on the wire numbered without a gap.
LEMMA StepInFlight ==
  TypeOK /\ PumpState /\ InFlight /\ [Next]_vars => InFlight'
<1> SUFFICES ASSUME TypeOK, PumpState, InFlight, [Next]_vars PROVE InFlight'
  OBVIOUS
<1>0. PICK pos : /\ Numbers(pos, wire, sent, Len(received))
                 /\ err \in {"nil", "EOF"} => pos[Len(wire)] + Pending = Len(sent)
                 /\ Pending = 1 => frame.payload = sent[Len(sent)]
  BY DEF InFlight
<1> USE DEF producerVars, pumpVars, transportVars, handlerVars
<1>1. CASE Producer
  BY <1>1, InFlightUnchanged DEF Producer, Offer, CloseChannel
<1>2. CASE PumpReceive
  <2>1. offer \in Data /\ sent' = Append(sent, offer)
    BY <1>2 DEF PumpReceive, TypeOK
  <2>2. Numbers(pos, wire', sent', Len(received'))
    BY <1>0, <1>2, <2>1, NumbersAfterSend DEF PumpReceive, TypeOK
  <2>3. Len(sent') = Len(sent) + 1 /\ sent'[Len(sent')] = offer
    BY <2>1, AppendElements DEF TypeOK
  <2>4. err = "nil" /\ Pending = 0 /\ pos[Len(wire)] = Len(sent)
    BY <1>0, <1>2, LocalLengths DEF PumpReceive, PumpState, Pending, Numbers
  <2>5. \/ err' = "marshal" /\ Pending' = 0
        \/ err' = "nil" /\ Pending' = 1 /\ frame'.payload = offer
    BY <1>2, <2>4 DEF PumpReceive, Pending, DataFrame
  <2>6. err' \in {"nil", "EOF"} => pos[Len(wire')] + Pending' = Len(sent')
    BY <1>2, <2>3, <2>4, <2>5 DEF PumpReceive
  <2>7. Pending' = 1 => frame'.payload = sent'[Len(sent')]
    BY <2>3, <2>5
  <2> QED
    BY <2>2, <2>6, <2>7 DEF InFlight, Numbers
<1>3. CASE PumpSeesClose
  BY <1>3, InFlightUnchanged DEF PumpSeesClose, PumpState, Pending
<1>4. CASE PumpKeepAlive
  BY <1>4, InFlightUnchanged DEF PumpKeepAlive, Pending, KeepAliveFrame
<1>5. CASE PumpWriteFails
  BY <1>5, InFlightUnchanged DEF PumpWriteFails, Pending
<1>6. CASE PumpExit
  BY <1>6, InFlightUnchanged DEF PumpExit, Pending
<1>7. CASE PumpEofFails
  BY <1>7, InFlightUnchanged DEF PumpEofFails, Pending
<1>8. CASE DrainDiscards
  <2>1. offer \in Data /\ sent' = Append(sent, offer)
    BY <1>8 DEF DrainDiscards, TypeOK
  <2>2. Numbers(pos, wire', sent', Len(received'))
    BY <1>0, <1>8, <2>1, NumbersAfterSend DEF DrainDiscards, TypeOK
  <2>3. err' \notin {"nil", "EOF"} /\ Pending' = 0
    BY <1>8 DEF DrainDiscards, PumpState, Pending
  <2> QED
    BY <2>2, <2>3 DEF InFlight, Numbers
<1>9. CASE DrainEnds
  BY <1>9, InFlightUnchanged DEF DrainEnds, Pending
<1>10. CASE TransportTakesFrame
  <2>1. /\ frame.type = "data" => Pending = 1 /\ err = "nil"
        /\ Weight(frame) = Pending /\ Pending' = 0
    BY <1>10 DEF TransportTakesFrame, PumpState, Pending, Weight, EofFrame
  <2>2. frame.type = "data" => /\ pos[Len(wire)] + 1 = Len(sent)
                               /\ frame.payload = sent[Len(sent)]
    BY <1>0, <2>1
  <2>3. PICK new : /\ Numbers(new, Append(wire, frame), sent, Len(received))
                   /\ new[Len(wire) + 1] = pos[Len(wire)] + Weight(frame)
    BY <1>0, <2>2, NumbersAfterTake DEF TypeOK
  <2>4. Numbers(new, wire', sent', Len(received')) /\ Len(wire') = Len(wire) + 1
    BY <1>10, <2>3, AppendElements DEF TransportTakesFrame, TypeOK
  <2>5. new[Len(wire')] \in 0..Len(sent) /\ Len(sent) \in Nat
    BY <1>10, <2>4, LocalLengths DEF Numbers, TransportTakesFrame
  <2>6. err' \in {"nil", "EOF"} => new[Len(wire')] + Pending' = Len(sent')
    BY <1>0, <1>10, <2>1, <2>3, <2>4, <2>5 DEF TransportTakesFrame
  <2>7. Pending' # 1
    BY <2>1
  <2>8. new \in [0..Len(wire') -> 0..Len(sent')]
    BY <2>4 DEF Numbers
  <2> QED
    BY <2>4, <2>6, <2>7, <2>8 DEF InFlight
<1>11. CASE StartRequest \/ BuildFails \/ TransportSeesWriteEnd \/ TransportAborts
  BY <1>11, InFlightUnchanged
     DEF StartRequest, BuildFails, TransportSeesWriteEnd, TransportAborts
<1>12. CASE ServerReadsFrame
  <2>1. /\ wire # <<>> /\ Len(wire) \in Nat \ {0} /\ Head(wire) = wire[1]
        /\ Head(wire) \in Frame
    BY <1>12, TailElements DEF ServerReadsFrame, TypeOK
  <2>2. PICK new : /\ Numbers(new, Tail(wire), sent, pos[1])
                   /\ new[Len(wire) - 1] = pos[Len(wire)]
    BY <1>0, <2>1, NumbersAfterRead DEF TypeOK
  <2>3. pos[1] = Len(received) + Weight(Head(wire))
    BY <1>0, <2>1 DEF Numbers
  <2>4. Len(received') = Len(received) + Weight(Head(wire))
    BY <1>12, <2>1, AppendElements, LocalLengths
       DEF ServerReadsFrame, TypeOK, Weight, Frame, EofFrame, KeepAliveFrame
  <2>5. Numbers(new, wire', sent', Len(received')) /\ Len(wire') = Len(wire) - 1
    BY <1>12, <2>1, <2>2, <2>3, <2>4, TailElements DEF ServerReadsFrame, TypeOK
  <2>6. Pending' = Pending /\ UNCHANGED <<sent, err, frame>>
    BY <1>12 DEF ServerReadsFrame, Pending
  <2> QED
    BY <1>0, <2>2, <2>5, <2>6 DEF InFlight, Numbers
<1>13. CASE ServerReadsEnd \/ ServerStops
  BY <1>13, InFlightUnchanged DEF ServerReadsEnd, ServerStops
<1>14. CASE UNCHANGED vars
  BY <1>14, InFlightUnchanged DEF vars
<1> QED
  BY <1>1, <1>2, <1>3, <1>4, <1>5, <1>6, <1>7, <1>8, <1>9, <1>10, <1>11, <1>12,
     <1>13, <1>14 DEF Next, Pump, Transport, Server, Terminated

\* The value of a data frame at the head of the wire is the next one sent.
LEMMA HeadIsNext ==
  ASSUME TypeOK, InFlight, wire # <<>>
  PROVE  /\ Head(wire).type = "data" =>
              /\ Len(received) + 1 \in 1..Len(sent)
              /\ Head(wire).payload = sent[Len(received) + 1]
         /\ (/\ Len(wire) = 1 /\ Head(wire).type # "data"
             /\ Pending = 0 /\ err \in {"nil", "EOF"}) => Len(received) = Len(sent)
<1>0. PICK pos : /\ Numbers(pos, wire, sent, Len(received))
                 /\ err \in {"nil", "EOF"} => pos[Len(wire)] + Pending = Len(sent)
  BY DEF InFlight
<1>1. Len(wire) \in Nat \ {0} /\ Head(wire) = wire[1] /\ Len(received) \in Nat
  BY TailElements, LocalLengths DEF TypeOK
<1>2. /\ pos[1] = Len(received) + Weight(Head(wire))
      /\ Head(wire).type = "data" => Head(wire).payload = sent[pos[1]]
      /\ pos[1] \in 0..Len(sent)
  BY <1>0, <1>1 DEF Numbers
<1>3. ASSUME Head(wire).type = "data"
      PROVE  /\ Len(received) + 1 \in 1..Len(sent)
             /\ Head(wire).payload = sent[Len(received) + 1]
  <2>1. pos[1] = Len(received) + 1
    BY <1>2, <1>3 DEF Weight
  <2> QED
    BY <1>1, <1>2, <1>3, <2>1, LocalLengths
<1>4. ASSUME Len(wire) = 1, Head(wire).type # "data", Pending = 0, err \in {"nil", "EOF"}
      PROVE  Len(received) = Len(sent)
  <2>1. pos[1] = Len(received)
    BY <1>1, <1>2, <1>4 DEF Weight
  <2> QED
    BY <1>0, <1>2, <1>4, <2>1, LocalLengths
<1> QED
  BY <1>3, <1>4

\* What is received stays a prefix of what was sent.
LEMMA StepReceivedIsPrefix ==
  TypeOK /\ InFlight /\ ReceivedIsPrefix /\ [Next]_vars => ReceivedIsPrefix'
<1> SUFFICES ASSUME TypeOK, InFlight, ReceivedIsPrefix, [Next]_vars
             PROVE  ReceivedIsPrefix'
  OBVIOUS
<1> USE DEF producerVars, pumpVars, transportVars, handlerVars
<1>1. CASE PumpReceive \/ DrainDiscards
  <2>1. offer \in Data /\ sent' = Append(sent, offer) /\ received' = received
    BY <1>1 DEF PumpReceive, DrainDiscards, TypeOK
  <2> QED
    BY <2>1, AppendElements, LocalLengths DEF ReceivedIsPrefix, TypeOK
<1>2. CASE ServerReadsFrame
  <2>1. CASE Head(wire).type = "data"
    <3>1. /\ Len(received) + 1 \in 1..Len(sent)
          /\ Head(wire).payload = sent[Len(received) + 1]
      BY <1>2, <2>1, HeadIsNext DEF ServerReadsFrame
    <3>2. Head(wire).payload \in Data
      BY <3>1 DEF TypeOK
    <3>3. received' = Append(received, Head(wire).payload) /\ sent' = sent
      BY <1>2, <2>1 DEF ServerReadsFrame
    <3> QED
      BY <3>1, <3>2, <3>3, AppendElements, LocalLengths DEF ReceivedIsPrefix, TypeOK
  <2>2. CASE Head(wire).type # "data"
    BY <1>2, <2>2 DEF ServerReadsFrame, ReceivedIsPrefix
  <2> QED
    BY <2>1, <2>2
<1>3. CASE UNCHANGED <<sent, received>>
  BY <1>3 DEF ReceivedIsPrefix
<1> QED
  BY <1>1, <1>2, <1>3
     DEF Next, vars, Terminated, Producer, Offer, CloseChannel,
         Pump, PumpSeesClose, PumpKeepAlive, PumpWriteFails, PumpExit, PumpEofFails,
         DrainEnds, Transport, StartRequest, BuildFails, TransportTakesFrame,
         TransportSeesWriteEnd, TransportAborts, Server, ServerReadsEnd, ServerStops

\* When ReadMessage returns io.EOF nothing is on its way any more.
LEMMA StepCleanEndIsComplete ==
  IndInv /\ [Next]_vars => CleanEndIsComplete'
<1> SUFFICES ASSUME IndInv, [Next]_vars, outcome' = "eof"
             PROVE  chanClosed' /\ received' = sent'
  BY DEF CleanEndIsComplete
<1> USE DEF producerVars, pumpVars, transportVars, handlerVars
\* The stream had ended already: nobody can send on a closed channel.
<1>1. CASE outcome = "eof"
  <2>1. chanClosed /\ received = sent /\ offer = None
    BY <1>1 DEF IndInv, CleanEndIsComplete, PumpState
  <2>2. UNCHANGED <<chanClosed, sent, received>>
    BY <1>1, <2>1
       DEF Next, vars, Terminated, Producer, Offer, CloseChannel, Pump, PumpReceive,
           PumpSeesClose, PumpKeepAlive, PumpWriteFails, PumpExit, PumpEofFails,
           DrainDiscards, DrainEnds, Transport, StartRequest, BuildFails,
           TransportTakesFrame, TransportSeesWriteEnd, TransportAborts, Server,
           ServerReadsFrame, ServerReadsEnd, ServerStops
  <2> QED
    BY <2>1, <2>2
\* The EOF frame is read: it is the last one, and all values are before it.
<1>2. CASE outcome # "eof" /\ ServerReadsFrame
  <2>1. /\ wire # <<>> /\ Head(wire).type = "eof" /\ Head(wire) = wire[1]
        /\ Len(wire) \in Nat \ {0} /\ UNCHANGED <<chanClosed, sent, received>>
    BY <1>2, TailElements DEF ServerReadsFrame, IndInv, TypeOK
  <2>2. Len(wire) = 1 /\ err = "EOF" /\ pc \in {"drain", "done"}
    <3>1. 1 \in 1..Len(wire) /\ wire[1].type = "eof"
      BY <2>1
    <3> QED
      BY <3>1 DEF IndInv, EndState
  <2>3. Len(received) = Len(sent)
    BY <2>1, <2>2, HeadIsNext DEF IndInv, Pending
  <2> QED
    BY <2>1, <2>2, <2>3, FullPrefix DEF IndInv, PumpState, ReceivedIsPrefix, TypeOK
\* The body ends in order, with no frame left on it.
<1>3. CASE outcome # "eof" /\ ServerReadsEnd
  <2>1. /\ wireEnd = "clean" /\ wire = <<>>
        /\ UNCHANGED <<chanClosed, sent, received>>
    BY <1>3 DEF ServerReadsEnd, BodyExhausted
  <2>2. err = "EOF" /\ Pending = 0 /\ chanClosed
    BY <2>1 DEF IndInv, EndState, PumpState, Pending
  <2>3. Len(received) = Len(sent)
    <3>1. PICK pos : /\ Numbers(pos, wire, sent, Len(received))
                     /\ pos[Len(wire)] + Pending = Len(sent)
      BY <2>2 DEF IndInv, InFlight
    <3>2. Len(wire) = 0 /\ pos[0] = Len(received) /\ Len(received) \in Nat
      BY <2>1, <3>1, LocalLengths DEF IndInv, Numbers
    <3> QED
      BY <2>2, <3>1, <3>2
  <2> QED
    BY <2>1, <2>2, <2>3, FullPrefix DEF IndInv, ReceivedIsPrefix, TypeOK
<1>4. CASE UNCHANGED outcome
  BY <1>1, <1>4
<1> QED
  BY <1>1, <1>2, <1>3, <1>4
     DEF Next, vars, Terminated, Producer, Offer, CloseChannel, Pump, PumpReceive,
         PumpSeesClose, PumpKeepAlive, PumpWriteFails, PumpExit, PumpEofFails,
         DrainDiscards, DrainEnds, Transport, StartRequest, BuildFails,
         TransportTakesFrame, TransportSeesWriteEnd, TransportAborts, Server, ServerStops
-----------------------------------------------------------------------------

\* The invariant holds initially ...
LEMMA InitIndInv == Init => IndInv
<1> SUFFICES ASSUME Init PROVE IndInv
  OBVIOUS
<1>1. TypeOK
  BY InitType
<1>2. PumpState /\ EndState /\ ReceivedIsPrefix /\ CleanEndIsComplete
  BY DEF Init, PumpState, EndState, ReceivedIsPrefix, CleanEndIsComplete
<1>3. InFlight
  <2> DEFINE pos == [i \in 0..0 |-> 0]
  <2>1. Len(wire) = 0 /\ Len(sent) = 0 /\ Len(received) = 0 /\ Pending = 0
    BY DEF Init, Pending
  <2>2. Numbers(pos, wire, sent, Len(received)) /\ pos[Len(wire)] = 0
    BY <2>1 DEF Numbers
  <2> HIDE DEF pos
  <2>3. pos \in [0..Len(wire) -> 0..Len(sent)]
    BY <2>2 DEF Numbers
  <2> QED
    BY <2>1, <2>2, <2>3 DEF InFlight
<1> QED
  BY <1>1, <1>2, <1>3 DEF IndInv

\* ... and every step keeps it.
LEMMA StepIndInv == IndInv /\ [Next]_vars => IndInv'
  BY StepType, StepPumpState, StepEndState, StepInFlight, StepReceivedIsPrefix,
     StepCleanEndIsComplete DEF IndInv

\* In every state the bookkeeping of the request stream is consistent: the
\* pump's state, the ends of the pipe and of the body, and the values in
\* flight (client.go's pump and request.go's ReadMessage together).
THEOREM Invariance == Spec => []IndInv
<1>1. Init => IndInv
  BY InitIndInv
<1>2. IndInv /\ [Next]_vars => IndInv'
  BY StepIndInv
<1> QED
  BY <1>1, <1>2, PTL DEF Spec

\* Every variable of the request stream keeps its type; in particular the
\* transport never holds more frames than its window.
THEOREM TypeCorrectness == Spec => []TypeOK
<1>1. IndInv => TypeOK
  BY DEF IndInv
<1> QED
  BY <1>1, Invariance, PTL

\* ReadMessage returns io.EOF to the handler only when it has returned every
\* value the caller sent and the caller closed its channel.
THEOREM CleanEnd == Spec => []CleanEndIsComplete
<1>1. IndInv => CleanEndIsComplete
  BY DEF IndInv
<1> QED
  BY <1>1, Invariance, PTL

\* The pump goroutine of Client.Do returns only once the caller has closed
\* the channel and nobody is blocked sending on it.
THEOREM PumpOutlivesChannel == Spec => []ReturnedMeansChannelClosed
<1>1. IndInv => ReturnedMeansChannelClosed
  BY DEF IndInv, PumpState, ReturnedMeansChannelClosed
<1> QED
  BY <1>1, Invariance, PTL
-----------------------------------------------------------------------------
(***************************************************************************)
(* Refinement: what the two ends observe is a MessageStream.               *)
(***************************************************************************)

\* Initial states are initial states of MessageStream.
LEMMA InitRefines == Init => Abstract!Init
  BY DEF Init, Abstract!Init, AbstractOutcome

\* Every step is a step of MessageStream, or changes nothing there.
LEMMA StepRefines == IndInv /\ IndInv' /\ [Next]_vars => [Abstract!Next]_(Abstract!vars)
<1> SUFFICES ASSUME IndInv, IndInv', [Next]_vars
             PROVE  Abstract!Next \/ UNCHANGED Abstract!vars
  OBVIOUS
<1> USE DEF producerVars, pumpVars, transportVars, handlerVars, Abstract!vars
<1>1. CASE PumpReceive \/ DrainDiscards
  <2>1. /\ offer \in Data /\ ~chanClosed /\ sent' = Append(sent, offer)
        /\ UNCHANGED <<chanClosed, received, outcome>>
    BY <1>1, DataAssumption DEF PumpReceive, DrainDiscards, IndInv, TypeOK, PumpState
  <2>2. Abstract!Send(offer)
    BY <2>1 DEF Abstract!Send, AbstractOutcome
  <2> QED
    BY <2>1, <2>2 DEF Abstract!Next
<1>2. CASE CloseChannel
  BY <1>2 DEF CloseChannel, Abstract!Next, Abstract!Close, AbstractOutcome
<1>3. CASE ServerReadsFrame
  <2>1. Head(wire) \in Frame /\ outcome = "open" /\ wire # <<>>
    BY <1>3, TailElements DEF ServerReadsFrame, IndInv, TypeOK
  <2>2. CASE Head(wire).type = "data"
    <3>1. /\ Len(received) < Len(sent)
          /\ Head(wire).payload = sent[Len(received) + 1]
      BY <2>1, <2>2, HeadIsNext, LocalLengths DEF IndInv
    <3>2. /\ received' = Append(received, sent[Len(received) + 1])
          /\ UNCHANGED <<chanClosed, sent, outcome>>
      BY <1>3, <2>2, <3>1 DEF ServerReadsFrame
    <3> QED
      BY <2>1, <3>1, <3>2 DEF Abstract!Next, Abstract!Deliver, AbstractOutcome
  <2>3. CASE Head(wire).type = "eof"
    <3>1. outcome' = "eof" /\ UNCHANGED <<chanClosed, sent, received>>
      BY <1>3, <2>3 DEF ServerReadsFrame
    <3>2. chanClosed /\ received = sent
      BY <3>1 DEF IndInv, CleanEndIsComplete
    <3> QED
      BY <2>1, <3>1, <3>2 DEF Abstract!Next, Abstract!Complete, AbstractOutcome
  <2>4. CASE Head(wire).type = "keepAlive"
    BY <1>3, <2>4 DEF ServerReadsFrame, AbstractOutcome
  <2> QED
    BY <2>1, <2>2, <2>3, <2>4 DEF Frame, EofFrame, KeepAliveFrame
<1>4. CASE ServerReadsEnd
  <2>1. outcome = "open" /\ UNCHANGED <<chanClosed, sent, received>>
    BY <1>4 DEF ServerReadsEnd
  <2>2. CASE outcome' = "eof"
    <3>1. chanClosed /\ received = sent
      BY <2>1, <2>2 DEF IndInv, CleanEndIsComplete
    <3> QED
      BY <2>1, <2>2, <3>1 DEF Abstract!Next, Abstract!Complete, AbstractOutcome
  <2>3. CASE outcome' = "error"
    BY <2>1, <2>3 DEF Abstract!Next, Abstract!Fail, AbstractOutcome
  <2> QED
    BY <1>4, <2>2, <2>3 DEF ServerReadsEnd
<1>5. CASE ServerStops \/ BuildFails
  <2>1. /\ outcome = "open" /\ outcome' = "stopped"
        /\ UNCHANGED <<chanClosed, sent, received>>
    BY <1>5 DEF ServerStops, BuildFails, IndInv, EndState
  <2> QED
    BY <2>1 DEF Abstract!Next, Abstract!Fail, AbstractOutcome
<1>6. CASE UNCHANGED <<chanClosed, sent, received, outcome>>
  BY <1>6 DEF AbstractOutcome
<1> QED
  BY <1>1, <1>2, <1>3, <1>4, <1>5, <1>6
     DEF Next, vars, Terminated, Producer, Offer, Pump, PumpSeesClose, PumpKeepAlive,
         PumpWriteFails, PumpExit, PumpEofFails, DrainEnds, Transport, StartRequest,
         TransportTakesFrame, TransportSeesWriteEnd, TransportAborts, Server

\* The caller's channel and the handler's ReadMessage are the two ends of a
\* MessageStream: values arrive in order, once, and a clean end means all.
THEOREM Refinement == Spec => ImplementsMessageStream
<1>1. Init => Abstract!Init
  BY InitRefines
<1>2. IndInv /\ IndInv' /\ [Next]_vars => [Abstract!Next]_(Abstract!vars)
  BY StepRefines
<1> QED
  BY <1>1, <1>2, Invariance, PTL DEF Spec, ImplementsMessageStream, Abstract!Spec
-----------------------------------------------------------------------------
(***************************************************************************)
(* Progress: why PumpReturns and ReleasedIfBuilt hold.  While somebody     *)
(* waits for the pump, every step brings its end nearer (Rank falls), and  *)
(* one of the actions that FairSpec is fair to can be taken.               *)
(***************************************************************************)

\* A sender is blocked on the channel, or the channel is closed and the pump
\* has not returned yet.
Waiting ==
  /\ offer # None \/ chanClosed
  /\ pc # "done"
  /\ reader # "abandoned"

\* What is at most left to do: keep-alive frames still to come, the rest of
\* the pump's way, frames for the handler to read, ends still open.
PumpRank == CASE pc = "write"    -> 12
              [] pc = "select"   -> 8
              [] pc = "exit"     -> 6
              [] pc = "writeEof" -> 4
              [] pc = "drain"    -> 1
              [] OTHER           -> 0
ReaderRank == CASE reader = "unused"  -> 2
                [] reader = "reading" -> 1
                [] OTHER              -> 0
OutcomeRank == IF outcome = "open" THEN 1 ELSE 0
EndRank == IF wireEnd = "aborted" THEN 0 ELSE 1
KeepAliveRank == 20 * (MaxKeepAlives - keepAlives)
WireRank == ReaderRank + OutcomeRank + EndRank + Len(wire)
Rank == KeepAliveRank + PumpRank + WireRank

\* The guards of the actions FairSpec is fair to, while somebody waits.
PumpCanGoOn == \/ pc \in {"select", "exit", "drain"}
               \/ pc \in {"write", "writeEof"} /\ reader = "closed"
RequestCanStart == reader = "unused"
FrameCanBeTaken ==
  pc \in {"write", "writeEof"} /\ reader = "reading" /\ Len(wire) < WireCap
HandlerCanRead == outcome = "open" /\ (wire # <<>> \/ BodyExhausted)
ExchangeCanEnd == outcome # "open" /\ reader = "reading"

\* Somebody can go on: nobody waits for everybody else.
NobodyStuck ==
  Waiting => \/ PumpCanGoOn \/ RequestCanStart \/ FrameCanBeTaken
             \/ HandlerCanRead \/ ExchangeCanEnd

\* While the transport reads the pipe the body has not ended.
OpenWhileReading == reader = "reading" => wireEnd = "open"

\* The initial state, and every step, agrees with OpenWhileReading.
LEMMA InitOpenWhileReading == Init => OpenWhileReading
  BY DEF Init, OpenWhileReading

\* Every step keeps it so: a handler that stops reading ends the exchange.
LEMMA StepOpenWhileReading ==
  IndInv /\ OpenWhileReading /\ [Next]_vars => OpenWhileReading'
<1> SUFFICES ASSUME IndInv, OpenWhileReading, [Next]_vars PROVE OpenWhileReading'
  OBVIOUS
<1> USE DEF OpenWhileReading, producerVars, pumpVars, transportVars, handlerVars
<1>1. CASE Producer
  BY <1>1 DEF Producer, Offer, CloseChannel
<1>2. CASE Pump
  BY <1>2 DEF Pump, PumpReceive, PumpSeesClose, PumpKeepAlive, PumpWriteFails,
              PumpExit, PumpEofFails, DrainDiscards, DrainEnds
<1>3. CASE Transport
  BY <1>3 DEF Transport, StartRequest, BuildFails, TransportTakesFrame,
              TransportSeesWriteEnd, TransportAborts, IndInv, EndState
<1>4. CASE Server
  BY <1>4 DEF Server, ServerReadsFrame, ServerReadsEnd, ServerStops
<1>5. CASE Terminated \/ UNCHANGED vars
  BY <1>5 DEF Terminated, vars
<1> QED
  BY <1>1, <1>2, <1>3, <1>4, <1>5 DEF Next

\* The rank is a natural number, and so are its parts.
RankTypeOK ==
  /\ KeepAliveRank \in Nat /\ PumpRank \in Nat /\ WireRank \in Nat
  /\ ReaderRank \in Nat /\ OutcomeRank \in Nat /\ EndRank \in Nat /\ Len(wire) \in Nat

\* The parts of the rank are natural numbers.
LEMMA RankParts == TypeOK => RankTypeOK
<1> SUFFICES ASSUME TypeOK PROVE RankTypeOK
  OBVIOUS
<1>1. /\ PumpRank \in Nat /\ ReaderRank \in Nat /\ OutcomeRank \in Nat /\ EndRank \in Nat
      /\ Len(wire) \in Nat
  BY DEF TypeOK, PumpRank, ReaderRank, OutcomeRank, EndRank
<1>2. KeepAliveRank \in Nat
  BY BoundsAssumption DEF TypeOK, KeepAliveRank
<1> QED
  BY <1>1, <1>2 DEF RankTypeOK, WireRank

\* The rank is a natural number.
LEMMA RankType == TypeOK => Rank \in Nat
  BY RankParts DEF Rank, RankTypeOK

\* A step starts and ends in a state with a rank.
LEMMA RankPartsOfStep == TypeOK /\ TypeOK' => RankTypeOK /\ RankTypeOK'
  BY RankParts, PTL

\* One keep-alive frame more is one less to come.
LEMMA KeepAliveLess ==
  ASSUME NEW k \in Nat, NEW l \in Nat
  PROVE  20 * (l - (k + 1)) = 20 * (l - k) - 20
  OBVIOUS

\* A sum falls when one part falls by more than another one rises.
LEMMA SumFalls ==
  ASSUME NEW a \in Nat, NEW b \in Nat, NEW c \in Nat,
         NEW x \in Nat, NEW y \in Nat, NEW z \in Nat,
         a = x,
         \/ b < y /\ c = z
         \/ b = y /\ c < z
         \/ b < y - 1 /\ c = z + 1
  PROVE  a + b + c < x + y + z
  OBVIOUS

\* A step of the pump lowers the rank.
LEMMA PumpRankFalls ==
  TypeOK /\ TypeOK' /\ Pump => DrainEnds \/ PumpReceive \/ DrainDiscards \/ Rank' < Rank
<1> SUFFICES ASSUME TypeOK, TypeOK', Pump, ~DrainEnds, ~PumpReceive, ~DrainDiscards
             PROVE  Rank' < Rank
  OBVIOUS
<1> USE DEF producerVars, transportVars, handlerVars
<1>1. PumpSeesClose \/ PumpKeepAlive \/ PumpWriteFails \/ PumpExit \/ PumpEofFails
  BY DEF Pump
<1>2. UNCHANGED <<reader, wire, wireEnd, outcome>>
  BY <1>1 DEF PumpSeesClose, PumpKeepAlive, PumpWriteFails, PumpExit, PumpEofFails
<1>3. WireRank' = WireRank
  BY <1>2 DEF WireRank, ReaderRank, OutcomeRank, EndRank
<1>4. RankTypeOK /\ RankTypeOK'
  BY RankPartsOfStep
<1>5. CASE PumpKeepAlive
  <2>1. PumpRank' = 12 /\ PumpRank = 8
    BY <1>5 DEF PumpKeepAlive, PumpRank
  <2>2. keepAlives' = keepAlives + 1 /\ keepAlives \in Nat /\ MaxKeepAlives \in Nat
    BY <1>5, BoundsAssumption DEF PumpKeepAlive, TypeOK
  <2>3. KeepAliveRank' = KeepAliveRank - 20
    BY <2>2, KeepAliveLess DEF KeepAliveRank
  <2> QED
    BY <1>3, <1>4, <2>1, <2>3 DEF Rank, RankTypeOK
<1>6. CASE PumpSeesClose \/ PumpWriteFails \/ PumpExit \/ PumpEofFails
  <2>1. PumpRank' < PumpRank /\ keepAlives' = keepAlives
    BY <1>6 DEF PumpSeesClose, PumpWriteFails, PumpExit, PumpEofFails, PumpRank
  <2>2. KeepAliveRank' = KeepAliveRank
    BY <2>1 DEF KeepAliveRank
  <2> QED
    BY <1>3, <1>4, <2>1, <2>2, SumFalls DEF Rank, RankTypeOK
<1> QED
  BY <1>1, <1>5, <1>6

\* A step of the transport lowers the rank.
LEMMA TransportRankFalls ==
  TypeOK /\ TypeOK' /\ OpenWhileReading /\ Transport => BuildFails \/ Rank' < Rank
<1> SUFFICES ASSUME TypeOK, TypeOK', OpenWhileReading, Transport, ~BuildFails
             PROVE  Rank' < Rank
  OBVIOUS
<1> USE DEF producerVars, pumpVars, transportVars, handlerVars
<1>1. RankTypeOK /\ RankTypeOK'
  BY RankPartsOfStep
<1>2. KeepAliveRank' = KeepAliveRank /\ OutcomeRank' = OutcomeRank
  BY DEF Transport, StartRequest, BuildFails, TransportTakesFrame,
         TransportSeesWriteEnd, TransportAborts, KeepAliveRank, OutcomeRank
<1>3. \/ PumpRank' = PumpRank /\ WireRank' < WireRank
      \/ PumpRank' < PumpRank - 1 /\ WireRank' = WireRank + 1
  <2>1. CASE StartRequest
    <3>1. /\ ReaderRank = 2 /\ ReaderRank' = 1 /\ PumpRank' = PumpRank
          /\ EndRank' = EndRank /\ wire' = wire
      BY <2>1 DEF StartRequest, ReaderRank, PumpRank, EndRank
    <3> QED
      BY <1>1, <1>2, <3>1 DEF RankTypeOK, WireRank
  <2>2. CASE TransportTakesFrame
    <3>1. Len(wire') = Len(wire) + 1
      BY <2>2 DEF TransportTakesFrame, TypeOK
    <3>2. PumpRank' < PumpRank - 1 /\ ReaderRank' = ReaderRank /\ EndRank' = EndRank
      BY <2>2 DEF TransportTakesFrame, ReaderRank, PumpRank, EndRank
    <3> QED
      BY <1>1, <1>2, <3>1, <3>2 DEF RankTypeOK, WireRank
  <2>3. CASE TransportSeesWriteEnd
    <3>1. /\ ReaderRank = 1 /\ ReaderRank' = 0 /\ PumpRank' = PumpRank
          /\ EndRank' <= EndRank /\ wire' = wire
      BY <2>3 DEF TransportSeesWriteEnd, OpenWhileReading, ReaderRank, PumpRank, EndRank
    <3> QED
      BY <1>1, <1>2, <3>1 DEF RankTypeOK, WireRank
  <2>4. CASE TransportAborts
    <3>1. /\ ReaderRank' <= ReaderRank /\ PumpRank' = PumpRank
          /\ EndRank = 1 /\ EndRank' = 0 /\ wire' = wire
      BY <2>4 DEF TransportAborts, ReaderRank, PumpRank, EndRank
    <3> QED
      BY <1>1, <1>2, <3>1 DEF RankTypeOK, WireRank
  <2> QED
    BY <2>1, <2>2, <2>3, <2>4 DEF Transport
<1> QED
  BY <1>1, <1>2, <1>3, SumFalls DEF Rank, RankTypeOK

\* A step of the handler lowers the rank.
LEMMA ServerRankFalls == TypeOK /\ TypeOK' /\ Server => Rank' < Rank
<1> SUFFICES ASSUME TypeOK, TypeOK', Server PROVE Rank' < Rank
  OBVIOUS
<1> USE DEF producerVars, pumpVars, transportVars, handlerVars
<1>1. RankTypeOK /\ RankTypeOK'
  BY RankPartsOfStep
<1>2. UNCHANGED <<keepAlives, pc, reader, wireEnd>> /\ outcome = "open"
  BY DEF Server, ServerReadsFrame, ServerReadsEnd, ServerStops
<1>3. /\ PumpRank' = PumpRank /\ ReaderRank' = ReaderRank /\ EndRank' = EndRank
      /\ KeepAliveRank' = KeepAliveRank
  BY <1>2 DEF PumpRank, ReaderRank, EndRank, KeepAliveRank
<1>4. OutcomeRank = 1 /\ OutcomeRank' <= 1
  BY <1>2 DEF OutcomeRank
<1>5. \/ Len(wire') = Len(wire) - 1
      \/ Len(wire') = Len(wire) /\ OutcomeRank' = 0
  BY DEF Server, ServerReadsFrame, ServerReadsEnd, ServerStops, TypeOK, OutcomeRank
<1>6. WireRank' < WireRank
  BY <1>1, <1>3, <1>4, <1>5 DEF RankTypeOK, WireRank
<1> QED
  BY <1>1, <1>3, <1>6, SumFalls DEF Rank, RankTypeOK

\* While somebody waits, whatever happens lowers the rank, unless it ends
\* the waiting.
RankFalls == Waiting /\ Waiting' => Rank' < Rank

\* Every step does so.
LEMMA StepRank == IndInv /\ OpenWhileReading /\ [Next]_vars => [RankFalls]_vars
<1> SUFFICES ASSUME IndInv, OpenWhileReading, Next, vars' # vars, Waiting, Waiting'
             PROVE  Rank' < Rank
  BY DEF RankFalls
<1>0. TypeOK /\ TypeOK'
  BY StepType DEF IndInv
<1>1. ~Producer
  BY DEF producerVars, Producer, Offer, CloseChannel, Waiting, IndInv, PumpState
<1>2. CASE Pump
  <2>1. ~PumpReceive /\ ~DrainDiscards
    BY DEF PumpReceive, DrainDiscards, IndInv, PumpState, Waiting, pumpVars
  <2>2. ~DrainEnds
    BY DEF DrainEnds, Waiting
  <2> QED
    BY <1>0, <1>2, <2>1, <2>2, PumpRankFalls
<1>3. CASE Transport
  <2>1. ~BuildFails
    BY DEF BuildFails, Waiting
  <2> QED
    BY <1>0, <1>3, <2>1, TransportRankFalls
<1>4. CASE Server
  BY <1>0, <1>4, ServerRankFalls
<1>5. ~Terminated
  BY DEF Terminated
<1> QED
  BY <1>1, <1>2, <1>3, <1>4, <1>5 DEF Next

\* While somebody waits somebody can go on.
LEMMA Progress == IndInv /\ OpenWhileReading => NobodyStuck
<1> SUFFICES ASSUME IndInv, OpenWhileReading, Waiting, ~PumpCanGoOn,
                    ~RequestCanStart, ~FrameCanBeTaken, ~ExchangeCanEnd
             PROVE  HandlerCanRead
  BY DEF NobodyStuck
<1>1. pc \in {"write", "writeEof"} /\ reader = "reading"
  BY DEF IndInv, TypeOK, Waiting, PumpCanGoOn, RequestCanStart
<1>2. outcome = "open" /\ Len(wire) > 0 /\ wire \in Seq(Frame)
  BY <1>1, BoundsAssumption DEF IndInv, TypeOK, FrameCanBeTaken, ExchangeCanEnd
<1> QED
  BY <1>2 DEF HandlerCanRead

\* What the progress of the request stream rests on holds in every state.
LEMMA ProgressInvariance == Spec => [](IndInv /\ OpenWhileReading)
<1>1. Init => IndInv /\ OpenWhileReading
  BY InitIndInv, InitOpenWhileReading
<1>2. IndInv /\ OpenWhileReading /\ [Next]_vars => (IndInv /\ OpenWhileReading)'
  BY StepIndInv, StepOpenWhileReading
<1> QED
  BY <1>1, <1>2, PTL DEF Spec

\* No deadlock: while a sender is blocked on the channel, or the pump still
\* has to return, it is never the case that the pump waits for the transport,
\* the transport for the handler, and the handler for the pump.
THEOREM NoDeadlock == Spec => []NobodyStuck
  BY Progress, ProgressInvariance, PTL

\* No livelock: only boundedly many steps of anybody (at most Rank of them)
\* are left until a blocked sender is released and, once the channel is
\* closed, the pump returns.  Nothing undoes what has been achieved.
THEOREM NoLivelock == Spec => [][RankFalls]_vars
  BY StepRank, ProgressInvariance, PTL DEF Spec

\* The actions FairSpec is fair to are enabled when their guards say so.
ActionsEnabled ==
  /\ Waiting /\ PumpCanGoOn => ENABLED <<Pump>>_vars
  /\ RequestCanStart => ENABLED <<StartRequest \/ BuildFails>>_vars
  /\ FrameCanBeTaken => ENABLED <<TransportTakesFrame>>_vars
  /\ HandlerCanRead => ENABLED <<ServerReadsFrame \/ ServerReadsEnd>>_vars
  /\ ExchangeCanEnd => ENABLED <<ExchangeEnds>>_vars

\* Unless the rank falls nothing happens, and who can go on still can.
LEMMA StepWaits ==
  ASSUME NEW n \in Nat
  PROVE  IndInv /\ OpenWhileReading /\ [Next]_vars /\ Waiting /\ Rank = n
           => \/ (~Waiting \/ Rank < n)'
              \/ UNCHANGED vars /\ (Waiting /\ Rank = n)'
<1> SUFFICES ASSUME IndInv, OpenWhileReading, [Next]_vars, Waiting, Rank = n
             PROVE  \/ (~Waiting \/ Rank < n)'
                    \/ UNCHANGED vars /\ (Waiting /\ Rank = n)'
  OBVIOUS
<1>1. CASE UNCHANGED vars
  BY <1>1 DEF vars, producerVars, pumpVars, transportVars, handlerVars, Waiting, Rank,
              KeepAliveRank, PumpRank, WireRank, ReaderRank, OutcomeRank, EndRank
<1>2. CASE vars' # vars
  BY <1>2, StepRank DEF RankFalls
<1> QED
  BY <1>1, <1>2

\* A step that changes nothing leaves enabled what was.
LEMMA StutterKeepsGuards ==
  UNCHANGED vars =>
    /\ PumpCanGoOn => PumpCanGoOn'
    /\ RequestCanStart => RequestCanStart'
    /\ FrameCanBeTaken => FrameCanBeTaken'
    /\ HandlerCanRead => HandlerCanRead'
    /\ ExchangeCanEnd => ExchangeCanEnd'
  BY DEF vars, producerVars, pumpVars, transportVars, handlerVars, PumpCanGoOn,
         RequestCanStart, FrameCanBeTaken, HandlerCanRead, ExchangeCanEnd, BodyExhausted

\* Whoever waits for the pump comes nearer to the end of the wait: from any
\* rank n the rank falls below n, or nobody waits any more.
THEOREM WaitingGetsShorter ==
  ASSUME NEW n \in Nat
  PROVE  FairSpec /\ []ActionsEnabled =>
           ((Waiting /\ Rank = n) ~> (~Waiting \/ Rank < n))
<1>1. IndInv /\ OpenWhileReading /\ [Next]_vars /\ Waiting /\ Rank = n
        => \/ (~Waiting \/ Rank < n)'
           \/ UNCHANGED vars /\ (Waiting /\ Rank = n)'
  BY StepWaits
<1>2. UNCHANGED vars =>
        /\ PumpCanGoOn => PumpCanGoOn'
        /\ RequestCanStart => RequestCanStart'
        /\ FrameCanBeTaken => FrameCanBeTaken'
        /\ HandlerCanRead => HandlerCanRead'
        /\ ExchangeCanEnd => ExchangeCanEnd'
  BY StutterKeepsGuards
<1>3. IndInv /\ OpenWhileReading => NobodyStuck
  BY Progress
<1>4. NobodyStuck /\ Waiting =>
        \/ PumpCanGoOn \/ RequestCanStart \/ FrameCanBeTaken
        \/ HandlerCanRead \/ ExchangeCanEnd
  BY DEF NobodyStuck
<1>5. ActionsEnabled =>
        /\ Waiting /\ PumpCanGoOn => ENABLED <<Pump>>_vars
        /\ RequestCanStart => ENABLED <<StartRequest \/ BuildFails>>_vars
        /\ FrameCanBeTaken => ENABLED <<TransportTakesFrame>>_vars
        /\ HandlerCanRead => ENABLED <<ServerReadsFrame \/ ServerReadsEnd>>_vars
        /\ ExchangeCanEnd => ENABLED <<ExchangeEnds>>_vars
  BY DEF ActionsEnabled
<1>6. /\ <<Pump>>_vars => ~UNCHANGED vars
      /\ <<StartRequest \/ BuildFails>>_vars => ~UNCHANGED vars
      /\ <<TransportTakesFrame>>_vars => ~UNCHANGED vars
      /\ <<ServerReadsFrame \/ ServerReadsEnd>>_vars => ~UNCHANGED vars
      /\ <<ExchangeEnds>>_vars => ~UNCHANGED vars
  OBVIOUS
<1> QED
  BY <1>1, <1>2, <1>3, <1>4, <1>5, <1>6, ProgressInvariance, PTL DEF FairSpec, Fairness, Spec

\* What ReleasedIfBuilt rests on: from any rank n, a sender that is blocked on
\* the channel is released (or the request is never made), or the rank falls.
THEOREM ReleaseComesNearer ==
  ASSUME NEW n \in Nat
  PROVE  FairSpec /\ []ActionsEnabled =>
           ((offer # None /\ Rank = n)
              ~> (offer = None \/ reader = "abandoned" \/ Rank < n))
<1>1. IndInv /\ offer # None => Waiting \/ reader = "abandoned"
  BY DEF IndInv, PumpState, Waiting
<1>2. IndInv /\ ~Waiting => offer = None \/ reader = "abandoned"
  BY DEF IndInv, PumpState, Waiting
<1> QED
  BY <1>1, <1>2, WaitingGetsShorter, Invariance, PTL DEF FairSpec

\* What PumpReturns rests on: from any rank n, once the channel is closed, the
\* pump returns (or the request is never made), or the rank falls.
THEOREM ReturnComesNearer ==
  ASSUME NEW n \in Nat
  PROVE  FairSpec /\ []ActionsEnabled =>
           ((chanClosed /\ Rank = n)
              ~> (pc = "done" \/ reader = "abandoned" \/ Rank < n))
<1>1. chanClosed => Waiting \/ pc = "done" \/ reader = "abandoned"
  BY DEF Waiting
<1>2. chanClosed /\ ~Waiting => pc = "done" \/ reader = "abandoned"
  BY DEF Waiting
<1>3. chanClosed /\ [Next]_vars => chanClosed'
  BY DEF Next, vars, producerVars, pumpVars, transportVars, handlerVars, Terminated,
         Producer, Offer, CloseChannel, Pump, PumpReceive, PumpSeesClose, PumpKeepAlive,
         PumpWriteFails, PumpExit, PumpEofFails, DrainDiscards, DrainEnds, Transport,
         StartRequest, BuildFails, TransportTakesFrame, TransportSeesWriteEnd,
         TransportAborts, Server, ServerReadsFrame, ServerReadsEnd, ServerStops
<1> QED
  BY <1>1, <1>2, <1>3, WaitingGetsShorter, PTL DEF FairSpec, Spec
=============================================================================
