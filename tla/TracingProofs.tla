--------------------------- MODULE TracingProofs ---------------------------
(***************************************************************************)
(* Tracing for any number of calls, whatever spans their callers have and  *)
(* whatever headers they pass on: identifiers are used for one span only,  *)
(* but where a trusted request of another client repeats one, and a        *)
(* trusted server span is the other half of its client's.                  *)
(***************************************************************************)
EXTENDS Tracing, FiniteSetTheorems, TLAPS
-----------------------------------------------------------------------------
(***************************************************************************)
(* The invariant.  Identifiers are counted, which is why none runs out and *)
(* why a new one is new; a span made of two halves is told from a span of  *)
(* the server's own, because only the latter takes an identifier that no   *)
(* other span may have.                                                    *)
(***************************************************************************)
Sent == {c \in Calls : client[c] # NoSpan}    \* calls with a client span
Entered == {c \in Calls : depth[c] > 0}       \* calls with a server span
Joins(c) == authorized[c] /\ client[c] # NoSpan
Fresh(c) == ~Joins(c) /\ ~Repeats(c)          \* the server makes an identifier of its own

\* Every span takes two identifiers.
IdsCounted == lastId = 2 * Cardinality(Sent) + 2 * Cardinality(Entered)

\* A call not yet sent has nothing, and one not yet received no server span.
Beginnings ==
  \A c \in Calls : /\ stage[c] = "idle" => client[c] = NoSpan /\ depth[c] = 0
                   /\ depth[c] = 0 => server[c] = NoSpan

\* A client span is a new one, below the caller's or the root of its trace,
\* and the headers of its request are its own but for the flag.
ClientSpans ==
  \A c \in Sent :
     /\ client[c].id \in 1..lastId
     /\ client[c].trace # Absent
     /\ client[c].parent = context[c].id
     /\ context[c] # NoSpan => client[c].trace = context[c].trace
     /\ header[c].trace = client[c].trace
     /\ header[c].id = client[c].id
     /\ header[c].parent = client[c].parent

\* A server span is the client's, a new one, or what another client's request says.
ServerSpans ==
  \A c \in Entered :
     /\ Fresh(c) => server[c].id \in 1..lastId
     /\ Joins(c) => /\ server[c].trace = client[c].trace
                    /\ server[c].id = client[c].id
                    /\ server[c].parent = client[c].parent

\* No identifier is taken twice.
IdsApart ==
  /\ \A c, d \in Sent : c # d => client[c].id # client[d].id
  /\ \A c \in Entered, d \in Sent : Fresh(c) => server[c].id # client[d].id
  /\ \A c, d \in Entered : c # d /\ Fresh(c) /\ Fresh(d) => server[c].id # server[d].id

IndInv == TypeOK /\ IdsCounted /\ Beginnings /\ ClientSpans /\ ServerSpans /\ IdsApart
-----------------------------------------------------------------------------
\* Identifiers are numbers, and so is their bound.
LEMMA Bounds ==
  /\ MaxId \in Nat /\ MaxId = 4 * Cardinality(Calls) /\ Cardinality(Calls) \in Nat
  /\ NoSpan \in SpanHeaders
  /\ \A s \in Contexts \cup {NoSpan} : s \in SpanHeaders /\ (s # NoSpan => s.trace # Absent)
  /\ \A h \in Inherited : h \in SpanHeaders
<1>1. Cardinality(Calls) \in Nat
  BY SpansAssumption, FS_CardinalityType
<1>2. MaxId \in Nat /\ MaxId = 4 * Cardinality(Calls)
  BY <1>1 DEF MaxId
<1>3. NoSpan \in SpanHeaders
  BY DEF NoSpan, SpanHeaders, Flag, Absent
<1>4. ASSUME NEW s \in Contexts PROVE s \in SpanHeaders /\ s.trace # Absent
  <2>1. s \in SpanHeaders /\ s.trace > MaxId
    BY SpansAssumption
  <2>2. s.trace \in Nat
    BY <2>1 DEF SpanHeaders
  <2> QED
    BY <1>2, <2>1, <2>2 DEF Absent
<1>5. \A h \in Inherited : h \in SpanHeaders
  BY SpansAssumption
<1> QED
  BY <1>1, <1>2, <1>3, <1>4, <1>5

\* A new span: an identifier never used, and the place the parent gives it.
LEMMA NewSpanIsNew ==
  ASSUME lastId \in Nat, NEW p \in Contexts \cup {NoSpan}
  PROVE  /\ NewSpan(p) \in SpanHeaders /\ NewSpan(p) # NoSpan
         /\ NewSpan(p).id = lastId + 1 /\ NewSpan(p).trace # Absent
         /\ NewSpan(p).parent = p.id
         /\ p # NoSpan => NewSpan(p).trace = p.trace
<1>1. p \in SpanHeaders /\ (p # NoSpan => p.trace # Absent)
  BY Bounds
<1>2. p.trace \in Nat /\ p.id \in Nat
  BY <1>1 DEF SpanHeaders
<1>3. lastId + 1 # Absent /\ lastId + 2 # Absent /\ lastId + 1 \in Nat /\ lastId + 2 \in Nat
  BY DEF Absent
<1>4. NewSpan(p).id = lastId + 1 /\ NewSpan(p).parent = p.id
  BY DEF NewSpan
<1>5. NewSpan(p).trace = (IF p = NoSpan THEN lastId + 2 ELSE p.trace)
  BY DEF NewSpan
<1>6. NewSpan(p) \in SpanHeaders
  BY <1>2, <1>3 DEF NewSpan, SpanHeaders, Flag
<1>7. NoSpan.id = Absent
  BY DEF NoSpan
<1> QED
  BY <1>1, <1>3, <1>4, <1>5, <1>6, <1>7

\* As long as a call has not got both its spans there are identifiers left.
LEMMA IdsLeft ==
  ASSUME IdsCounted, NEW c \in Calls, c \notin Sent \/ c \notin Entered
  PROVE  /\ lastId \in Nat /\ lastId + 2 \in 0..MaxId
         /\ c \notin Sent => Cardinality(Sent \cup {c}) = Cardinality(Sent) + 1
         /\ c \notin Entered => Cardinality(Entered \cup {c}) = Cardinality(Entered) + 1
         /\ Cardinality(Sent) \in Nat /\ Cardinality(Entered) \in Nat
<1>1. /\ Sent \in SUBSET Calls /\ Sent \cup {c} \in SUBSET Calls
      /\ Entered \in SUBSET Calls /\ Entered \cup {c} \in SUBSET Calls
  BY DEF Sent, Entered
<1>2. IsFiniteSet(Calls)
  BY SpansAssumption
<1>3. /\ IsFiniteSet(Sent) /\ Cardinality(Sent) <= Cardinality(Calls)
      /\ IsFiniteSet(Entered) /\ Cardinality(Entered) <= Cardinality(Calls)
      /\ Cardinality(Sent \cup {c}) <= Cardinality(Calls)
      /\ Cardinality(Entered \cup {c}) <= Cardinality(Calls)
  BY <1>1, <1>2, FS_Subset
<1>4. Cardinality(Sent) \in Nat /\ Cardinality(Entered) \in Nat
  BY <1>3, FS_CardinalityType
<1>5. /\ c \notin Sent => Cardinality(Sent \cup {c}) = Cardinality(Sent) + 1
      /\ c \notin Entered => Cardinality(Entered \cup {c}) = Cardinality(Entered) + 1
  BY <1>3, FS_AddElement
<1>6. Cardinality(Sent) + Cardinality(Entered) + 1 <= 2 * Cardinality(Calls)
  BY <1>3, <1>4, <1>5, Bounds
<1>7. lastId = 2 * Cardinality(Sent) + 2 * Cardinality(Entered)
  BY DEF IdsCounted
<1> QED
  BY <1>4, <1>5, <1>6, <1>7, Bounds
-----------------------------------------------------------------------------
\* Initially there is no span.
LEMMA InitIndInv == Init => IndInv
<1> SUFFICES ASSUME Init PROVE IndInv
  OBVIOUS
<1>1. Sent = {} /\ Entered = {}
  BY DEF Init, Sent, Entered
<1>2. IdsCounted
  <2>1. Cardinality({}) = 0
    BY FS_EmptySet
  <2>2. lastId = 0
    BY DEF Init
  <2> QED
    BY <1>1, <2>1, <2>2 DEF IdsCounted
<1>3. TypeOK
  BY Bounds DEF Init, TypeOK
<1>4. Beginnings
  BY DEF Init, Beginnings
<1>5. ClientSpans /\ ServerSpans /\ IdsApart
  BY <1>1 DEF ClientSpans, ServerSpans, IdsApart
<1> QED
  BY <1>2, <1>3, <1>4, <1>5 DEF IndInv

\* Do makes a client span whose identifier no other span has.
LEMMA StepDoSends ==
  ASSUME IndInv, NEW c \in Calls, DoSends(c)
  PROVE  IndInv'
<1> DEFINE n == NewSpan(context[c])
<1>1. TypeOK /\ IdsCounted /\ Beginnings /\ ClientSpans /\ ServerSpans /\ IdsApart
  BY DEF IndInv
<1>2. c \notin Sent /\ c \notin Entered /\ server[c] = NoSpan
  BY <1>1 DEF Beginnings, DoSends, Sent, Entered
<1>3. /\ lastId \in Nat /\ lastId + 2 \in 0..MaxId
      /\ Cardinality(Sent \cup {c}) = Cardinality(Sent) + 1
      /\ Cardinality(Sent) \in Nat /\ Cardinality(Entered) \in Nat
  BY <1>1, <1>2, IdsLeft
<1>4. context[c] \in Contexts \cup {NoSpan}
  BY <1>1 DEF TypeOK
<1>5. /\ n \in SpanHeaders /\ n # NoSpan /\ n.id = lastId + 1 /\ n.trace # Absent
      /\ n.parent = context[c].id
      /\ context[c] # NoSpan => n.trace = context[c].trace
  BY <1>3, <1>4, NewSpanIsNew
<1>6. /\ client' = [client EXCEPT ![c] = n] /\ lastId' = lastId + 2
      /\ stage' = [stage EXCEPT ![c] = "sent"]
      /\ UNCHANGED <<depth, context, authorized, server, submitted>>
  BY DEF DoSends
<1> HIDE DEF n
<1>7. client'[c] = n /\ \A d \in Calls : d # c => client'[d] = client[d]
  BY <1>1, <1>6 DEF TypeOK
<1>8. PICK h \in Inherited : header' = [header EXCEPT ![c] = SetHeaders(n, h)]
  BY <1>7 DEF DoSends
<1>9. /\ SetHeaders(n, h) \in SpanHeaders
      /\ SetHeaders(n, h).trace = n.trace /\ SetHeaders(n, h).id = n.id
      /\ SetHeaders(n, h).parent = n.parent
  BY <1>5, Bounds DEF SetHeaders, SpanHeaders
<1>10. header'[c] = SetHeaders(n, h) /\ \A d \in Calls : d # c => header'[d] = header[d]
  BY <1>1, <1>8 DEF TypeOK
<1>11. Sent' = Sent \cup {c} /\ Entered' = Entered
  BY <1>5, <1>6, <1>7 DEF Sent, Entered
<1>12. TypeOK'
  <2>1. client' \in [Calls -> SpanHeaders]
    BY <1>1, <1>5, <1>6 DEF TypeOK
  <2>2. header' \in [Calls -> SpanHeaders]
    BY <1>1, <1>8, <1>9 DEF TypeOK
  <2>3. lastId' \in 0..MaxId
    BY <1>3, <1>6
  <2>4. stage' \in [Calls -> {"idle", "sent", "answered", "done"}]
    BY <1>1, <1>6 DEF TypeOK
  <2> QED
    BY <1>1, <1>6, <2>1, <2>2, <2>3, <2>4, Bounds DEF TypeOK
<1>13. IdsCounted'
  BY <1>1, <1>3, <1>6, <1>11 DEF IdsCounted
<1>14. Beginnings'
  <2>1. stage'[c] # "idle" /\ \A d \in Calls : d # c => stage'[d] = stage[d]
    BY <1>1, <1>6 DEF TypeOK
  <2> QED
    BY <1>1, <1>2, <1>5, <1>6, <1>7, <1>10, <2>1 DEF Beginnings
<1>15. ClientSpans'
  <2> SUFFICES ASSUME NEW d \in Sent'
               PROVE  /\ client'[d].id \in 1..lastId'
                      /\ client'[d].trace # Absent
                      /\ client'[d].parent = context'[d].id
                      /\ context'[d] # NoSpan => client'[d].trace = context'[d].trace
                      /\ header'[d].trace = client'[d].trace
                      /\ header'[d].id = client'[d].id
                      /\ header'[d].parent = client'[d].parent
    BY DEF ClientSpans
  <2>1. CASE d = c
    <3>1. n.id \in 1..lastId'
      BY <1>3, <1>5, <1>6
    <3> QED
      BY <1>5, <1>6, <1>7, <1>9, <1>10, <2>1, <3>1
  <2>2. CASE d # c
    <3>1. d \in Sent /\ d \in Calls
      BY <1>11, <2>2 DEF Sent
    <3>2. client'[d] = client[d] /\ header'[d] = header[d] /\ context'[d] = context[d]
      BY <1>6, <1>7, <1>10, <2>2, <3>1
    <3>3. client[d].id \in 1..lastId'
      BY <1>1, <1>3, <1>6, <3>1 DEF ClientSpans
    <3> QED
      BY <1>1, <3>1, <3>2, <3>3 DEF ClientSpans
  <2> QED
    BY <2>1, <2>2
<1>16. \A d \in Entered : /\ d # c /\ d \in Calls /\ server'[d] = server[d]
                          /\ client'[d] = client[d]
                          /\ (Joins(d)' <=> Joins(d)) /\ (Fresh(d)' <=> Fresh(d))
  BY <1>2, <1>6, <1>7, <1>10 DEF Entered, Joins, Fresh, Repeats
<1>17. ServerSpans'
  <2> SUFFICES ASSUME NEW d \in Entered
               PROVE  /\ Fresh(d)' => server'[d].id \in 1..lastId'
                      /\ Joins(d)' => /\ server'[d].trace = client'[d].trace
                                      /\ server'[d].id = client'[d].id
                                      /\ server'[d].parent = client'[d].parent
    BY <1>11 DEF ServerSpans
  <2>1. Fresh(d) => server[d].id \in 1..lastId'
    BY <1>1, <1>3, <1>6 DEF ServerSpans
  <2> QED
    BY <1>1, <1>16, <2>1 DEF ServerSpans
<1>18. IdsApart'
  <2>1. \A d \in Sent : /\ d # c /\ d \in Calls /\ client'[d] = client[d]
                        /\ client[d].id # lastId + 1
    BY <1>1, <1>2, <1>3, <1>7 DEF ClientSpans, Sent
  <2>2. \A d \in Entered : Fresh(d) => server[d].id # lastId + 1
    BY <1>1, <1>3 DEF ServerSpans
  <2>3. client'[c].id = lastId + 1
    BY <1>5, <1>7
  <2>4. \A d, e \in Sent' : d # e => client'[d].id # client'[e].id
    BY <1>1, <1>11, <2>1, <2>3 DEF IdsApart
  <2>5. \A d \in Entered', e \in Sent' : Fresh(d)' => server'[d].id # client'[e].id
    BY <1>1, <1>11, <1>16, <2>1, <2>2, <2>3 DEF IdsApart
  <2>6. \A d, e \in Entered' :
           d # e /\ Fresh(d)' /\ Fresh(e)' => server'[d].id # server'[e].id
    BY <1>1, <1>11, <1>16 DEF IdsApart
  <2> QED
    BY <2>4, <2>5, <2>6 DEF IdsApart
<1> QED
  BY <1>12, <1>13, <1>14, <1>15, <1>17, <1>18 DEF IndInv

\* The first handler makes over its span into the client's if the request is
\* trusted, and otherwise keeps one whose identifier no other span has.
LEMMA StepCreateSpan ==
  ASSUME IndInv, NEW c \in Calls, CreateSpan(c)
  PROVE  IndInv'
<1> DEFINE n == NewSpan(NoSpan)
           s == IF authorized[c] /\ header[c].trace # Absent THEN header[c] ELSE n
<1>1. TypeOK /\ IdsCounted /\ Beginnings /\ ClientSpans /\ ServerSpans /\ IdsApart
  BY DEF IndInv
<1>2. stage[c] = "sent" /\ depth[c] = 0
  BY <1>1 DEF CreateSpan, Enter, TypeOK
<1>3. c \notin Entered
  BY <1>2 DEF Entered
<1>4. /\ lastId \in Nat /\ lastId + 2 \in 0..MaxId
      /\ Cardinality(Entered \cup {c}) = Cardinality(Entered) + 1
      /\ Cardinality(Sent) \in Nat /\ Cardinality(Entered) \in Nat
  BY <1>1, <1>3, IdsLeft
<1>5. n \in SpanHeaders /\ n.id = lastId + 1
  BY <1>4, NewSpanIsNew
<1>6. /\ server' = [server EXCEPT ![c] = s] /\ lastId' = lastId + 2
      /\ depth' = [depth EXCEPT ![c] = 1]
      /\ UNCHANGED <<stage, context, client, header, authorized, submitted>>
  BY DEF CreateSpan, Enter
<1> HIDE DEF n
<1>7. /\ Joins(c) => s = header[c] /\ c \in Sent
      /\ Fresh(c) => s = n
  <2>1. CASE c \in Sent
    <3>1. header[c].trace # Absent /\ client[c] # NoSpan
      BY <1>1, <2>1 DEF ClientSpans, Sent
    <3> QED
      BY <2>1, <3>1 DEF Joins, Fresh
  <2>2. CASE c \notin Sent
    <3>1. client[c] = NoSpan
      BY <2>2 DEF Sent
    <3> QED
      BY <3>1 DEF Joins, Fresh, Repeats
  <2> QED
    BY <2>1, <2>2
<1>8. s \in SpanHeaders
  BY <1>1, <1>5 DEF TypeOK
<1> HIDE DEF s
<1>9. /\ server'[c] = s /\ depth'[c] = 1
      /\ \A d \in Calls : d # c => server'[d] = server[d] /\ depth'[d] = depth[d]
  BY <1>1, <1>6 DEF TypeOK
<1>10. Sent' = Sent /\ Entered' = Entered \cup {c}
  BY <1>6, <1>9 DEF Sent, Entered
<1>11. \A d \in Calls : /\ client'[d] = client[d] /\ header'[d] = header[d]
                        /\ context'[d] = context[d]
                        /\ (Joins(d)' <=> Joins(d)) /\ (Fresh(d)' <=> Fresh(d))
  BY <1>6 DEF Joins, Fresh, Repeats
<1>12. TypeOK'
  <2>1. server' \in [Calls -> SpanHeaders]
    BY <1>1, <1>6, <1>8 DEF TypeOK
  <2>2. depth' \in [Calls -> 0..4]
    BY <1>1, <1>6 DEF TypeOK
  <2> QED
    BY <1>1, <1>4, <1>6, <2>1, <2>2 DEF TypeOK
<1>13. IdsCounted'
  BY <1>1, <1>4, <1>6, <1>10 DEF IdsCounted
<1>14. Beginnings'
  BY <1>1, <1>2, <1>6, <1>9 DEF Beginnings
<1>15. ClientSpans'
  <2>1. \A d \in Sent : d \in Calls /\ client[d].id \in 1..lastId'
    BY <1>1, <1>4, <1>6 DEF ClientSpans, Sent
  <2> QED
    BY <1>1, <1>10, <1>11, <2>1 DEF ClientSpans
<1>16. /\ Fresh(c) => s.id \in 1..lastId'
       /\ Joins(c) => /\ s.trace = client[c].trace /\ s.id = client[c].id
                      /\ s.parent = client[c].parent
       /\ Fresh(c) => s.id = lastId + 1
  <2>1. CASE Joins(c)
    <3>1. /\ s.trace = client[c].trace /\ s.id = client[c].id
          /\ s.parent = client[c].parent
      BY <1>1, <1>7, <2>1 DEF ClientSpans
    <3> QED
      BY <2>1, <3>1 DEF Fresh
  <2>2. CASE ~Joins(c)
    BY <1>4, <1>5, <1>6, <1>7, <2>2
  <2> QED
    BY <2>1, <2>2
<1>17. \A d \in Entered : d # c /\ d \in Calls /\ server'[d] = server[d]
  BY <1>3, <1>9 DEF Entered
<1>18. ServerSpans'
  <2>1. \A d \in Entered : Fresh(d) => server[d].id \in 1..lastId'
    BY <1>1, <1>4, <1>6 DEF ServerSpans
  <2> QED
    BY <1>1, <1>9, <1>10, <1>11, <1>16, <1>17, <2>1 DEF ServerSpans
<1>19. IdsApart'
  <2>1. \A d \in Sent : d \in Calls /\ client[d].id # lastId + 1
    BY <1>1, <1>4 DEF ClientSpans, Sent
  <2>2. \A d \in Entered : Fresh(d) => server[d].id # lastId + 1
    BY <1>1, <1>4 DEF ServerSpans
  <2>3. \A d, e \in Sent' : d # e => client'[d].id # client'[e].id
    BY <1>1, <1>10, <1>11, <2>1 DEF IdsApart
  <2>4. \A d \in Entered', e \in Sent' : Fresh(d)' => server'[d].id # client'[e].id
    BY <1>1, <1>9, <1>10, <1>11, <1>16, <1>17, <2>1 DEF IdsApart
  <2>5. \A d, e \in Entered' :
           d # e /\ Fresh(d)' /\ Fresh(e)' => server'[d].id # server'[e].id
    BY <1>1, <1>9, <1>10, <1>11, <1>16, <1>17, <2>2 DEF IdsApart
  <2> QED
    BY <2>3, <2>4, <2>5 DEF IdsApart
<1> QED
  BY <1>12, <1>13, <1>14, <1>15, <1>18, <1>19 DEF IndInv

\* The other handlers leave the spans' identifiers alone; so do a request of
\* another client and the end of a call.
LEMMA StepOther ==
  ASSUME IndInv, NEW c \in Calls,
         OtherClientSends(c) \/ DoReturns(c) \/ TagSpan(c) \/ SampleSpan(c)
           \/ SubmitServerSpan(c)
  PROVE  IndInv'
<1>1. TypeOK /\ IdsCounted /\ Beginnings /\ ClientSpans /\ ServerSpans /\ IdsApart
  BY DEF IndInv
<1>2. /\ UNCHANGED <<context, client, authorized, lastId>>
      /\ header' \in [Calls -> SpanHeaders]
      /\ \A d \in Calls : d \in Sent \/ d \in Entered => header'[d] = header[d]
  <2>1. UNCHANGED <<context, client, authorized, lastId>>
    BY DEF OtherClientSends, DoReturns, TagSpan, SampleSpan, SubmitServerSpan
  <2>2. CASE OtherClientSends(c)
    <3>1. PICK h \in Inherited \cup {header[d] : d \in Calls} : header' = [header EXCEPT ![c] = h]
      BY <2>2 DEF OtherClientSends
    <3>2. h \in SpanHeaders
      BY <1>1, Bounds DEF TypeOK
    <3>3. c \notin Sent /\ c \notin Entered
      BY <1>1, <2>2 DEF OtherClientSends, Beginnings, Sent, Entered
    <3> QED
      BY <1>1, <2>1, <3>1, <3>2, <3>3 DEF TypeOK
  <2>3. CASE ~OtherClientSends(c)
    <3>1. header' = header
      BY <2>3 DEF DoReturns, TagSpan, SampleSpan, SubmitServerSpan
    <3> QED
      BY <1>1, <2>1, <3>1 DEF TypeOK
  <2> QED
    BY <2>2, <2>3
<1>3. \/ server' = server
      \/ SampleSpan(c) /\ server' = [server EXCEPT ![c].sampled = "true"]
  BY DEF OtherClientSends, DoReturns, TagSpan, SampleSpan, SubmitServerSpan
<1>4. \A d \in Calls : /\ server'[d].trace = server[d].trace
                       /\ server'[d].id = server[d].id
                       /\ server'[d].parent = server[d].parent
  <2>1. server \in [Calls -> SpanHeaders]
    BY <1>1 DEF TypeOK
  <2>2. CASE server' = server
    BY <2>2
  <2>3. CASE server' = [server EXCEPT ![c].sampled = "true"]
    <3>1. server'[c] = [server[c] EXCEPT !.sampled = "true"]
      BY <2>1, <2>3
    <3>2. server[c] \in SpanHeaders
      BY <2>1
    <3>3. /\ server'[c].trace = server[c].trace
          /\ server'[c].id = server[c].id
          /\ server'[c].parent = server[c].parent
      BY <3>1, <3>2 DEF SpanHeaders
    <3>4. \A d \in Calls \ {c} : server'[d] = server[d]
      BY <2>1, <2>3
    <3> QED
      BY <3>3, <3>4
  <2> QED
    BY <1>3, <2>2, <2>3
<1>5. \/ depth' = depth
      \/ depth[c] > 0 /\ (\E i \in {2, 3} : depth' = [depth EXCEPT ![c] = i])
  BY <1>1 DEF OtherClientSends, DoReturns, TagSpan, SampleSpan, SubmitServerSpan,
              Enter, TypeOK
<1>6. depth' \in [Calls -> 0..4] /\ \A d \in Calls : depth'[d] > 0 <=> depth[d] > 0
  BY <1>1, <1>5 DEF TypeOK
<1>7. /\ Sent' = Sent /\ Entered' = Entered
      /\ \A d \in Calls : Joins(d)' <=> Joins(d)
      /\ \A d \in Entered : Fresh(d)' <=> Fresh(d)
  BY <1>2, <1>6 DEF Sent, Entered, Joins, Fresh, Repeats
<1>8. TypeOK'
  <2>1. server' \in [Calls -> SpanHeaders]
    <3>1. [server[c] EXCEPT !.sampled = "true"] \in SpanHeaders
      BY <1>1 DEF TypeOK, SpanHeaders, Flag
    <3> QED
      BY <1>1, <1>3, <3>1 DEF TypeOK
  <2>2. stage' \in [Calls -> {"idle", "sent", "answered", "done"}]
    <3>1. CASE OtherClientSends(c)
      BY <1>1, <3>1 DEF OtherClientSends, TypeOK
    <3>2. CASE DoReturns(c)
      BY <1>1, <3>2 DEF DoReturns, TypeOK
    <3>3. CASE TagSpan(c) \/ SampleSpan(c) \/ SubmitServerSpan(c)
      BY <1>1, <3>3 DEF TagSpan, SampleSpan, SubmitServerSpan, TypeOK
    <3> QED
      BY <3>1, <3>2, <3>3
  <2>3. submitted' \subseteq Calls \X {"client", "server"}
    <3>1. \E kind \in {"client", "server"} :
             submitted' \in {submitted, submitted \cup {<<c, kind>>}}
      BY DEF OtherClientSends, DoReturns, TagSpan, SampleSpan, SubmitServerSpan, Submit
    <3> QED
      BY <1>1, <3>1 DEF TypeOK
  <2> QED
    BY <1>1, <1>2, <1>6, <2>1, <2>2, <2>3 DEF TypeOK
<1>9. IdsCounted'
  BY <1>1, <1>2, <1>7 DEF IdsCounted
<1>10. Beginnings'
  <2>1. \A d \in Calls : stage'[d] = "idle" => stage[d] = "idle"
    BY <1>1 DEF TypeOK, OtherClientSends, DoReturns, TagSpan, SampleSpan,
                SubmitServerSpan, Enter
  <2>2. \A d \in Calls : depth[d] = 0 <=> depth'[d] = 0
    BY <1>1, <1>6 DEF TypeOK
  <2>3. \A d \in Calls : depth[d] = 0 => server'[d] = server[d]
    BY <1>1, <1>3 DEF TypeOK, SampleSpan, Enter
  <2> QED
    BY <1>1, <1>2, <2>1, <2>2, <2>3 DEF Beginnings
<1>11. ClientSpans'
  <2>1. \A d \in Sent : d \in Calls /\ header'[d] = header[d]
    BY <1>2 DEF Sent
  <2> QED
    BY <1>1, <1>2, <1>7, <2>1 DEF ClientSpans
<1>12. Sent \subseteq Calls /\ Entered \subseteq Calls
  BY DEF Sent, Entered
<1>13. ServerSpans'
  BY <1>1, <1>2, <1>4, <1>7, <1>12 DEF ServerSpans
<1>14. IdsApart'
  BY <1>1, <1>2, <1>4, <1>7, <1>12 DEF IdsApart
<1> QED
  BY <1>8, <1>9, <1>10, <1>11, <1>13, <1>14 DEF IndInv

\* IndInv is inductive.
LEMMA NextIndInv == IndInv /\ [Next]_vars => IndInv'
<1> SUFFICES ASSUME IndInv, [Next]_vars PROVE IndInv'
  OBVIOUS
<1>1. ASSUME NEW c \in Calls, DoSends(c) PROVE IndInv'
  BY <1>1, StepDoSends
<1>2. ASSUME NEW c \in Calls, CreateSpan(c) PROVE IndInv'
  BY <1>2, StepCreateSpan
<1>3. ASSUME NEW c \in Calls,
             OtherClientSends(c) \/ DoReturns(c) \/ TagSpan(c) \/ SampleSpan(c)
               \/ SubmitServerSpan(c)
      PROVE  IndInv'
  BY <1>3, StepOther
<1>4. CASE Terminated \/ UNCHANGED vars
  <2>1. UNCHANGED <<stage, depth, context, client, header, authorized, server,
                    submitted, lastId>>
    BY <1>4 DEF Terminated, vars
  <2>2. /\ UNCHANGED <<Sent, Entered>>
        /\ \A c \in Calls : (Joins(c)' <=> Joins(c)) /\ (Fresh(c)' <=> Fresh(c))
    BY <2>1 DEF Sent, Entered, Joins, Fresh, Repeats
  <2>3. TypeOK' /\ IdsCounted' /\ Beginnings'
    BY <2>1, <2>2 DEF IndInv, TypeOK, IdsCounted, Beginnings
  <2>4. ClientSpans'
    BY <2>1, <2>2 DEF IndInv, ClientSpans
  <2>5. Sent \subseteq Calls /\ Entered \subseteq Calls
    BY DEF Sent, Entered
  <2>6. ServerSpans' /\ IdsApart'
    BY <2>1, <2>2, <2>5 DEF IndInv, ServerSpans, IdsApart
  <2> QED
    BY <2>3, <2>4, <2>6 DEF IndInv
<1> QED
  BY <1>1, <1>2, <1>3, <1>4 DEF Next, Middleware
-----------------------------------------------------------------------------
\* What is known of a span made here: its call has it, and either it is the
\* client's, or the client's other half, or apart from all others, unless it
\* was made of another client's headers.
LEMMA IdsAreShared ==
  ASSUME IndInv,
         NEW c \in Calls, NEW d \in Calls, ~Repeats(c), ~Repeats(d)
  PROVE  /\ c \in Sent /\ d \in Sent /\ client[c].id = client[d].id => c = d
         /\ c \in Sent /\ d \in Entered /\ client[c].id = server[d].id
              => c = d /\ authorized[d]
         /\ c \in Entered /\ d \in Entered /\ server[c].id = server[d].id => c = d
<1>1. ServerSpans /\ IdsApart
  BY DEF IndInv
<1>2. \A e \in Calls : Joins(e) => e \in Sent /\ authorized[e]
  BY DEF Joins, Sent
<1>3. c \in Sent /\ d \in Sent /\ client[c].id = client[d].id => c = d
  BY <1>1 DEF IdsApart
<1>4. ASSUME NEW b \in Sent, NEW e \in Entered, ~Repeats(e), client[b].id = server[e].id
      PROVE  b = e /\ Joins(e)
  <2>1. Joins(e)
    BY <1>1, <1>4 DEF IdsApart, Fresh
  <2>2. server[e].id = client[e].id /\ e \in Sent
    BY <1>1, <1>2, <2>1 DEF ServerSpans, Entered
  <2> QED
    BY <1>1, <1>4, <2>1, <2>2 DEF IdsApart
<1>5. ASSUME c \in Entered, d \in Entered, server[c].id = server[d].id PROVE c = d
  <2>1. CASE Joins(c)
    <3>1. server[c].id = client[c].id /\ c \in Sent
      BY <1>1, <1>2, <1>5, <2>1 DEF ServerSpans
    <3> QED
      BY <1>4, <1>5, <3>1
  <2>2. CASE Joins(d)
    <3>1. server[d].id = client[d].id /\ d \in Sent
      BY <1>1, <1>2, <1>5, <2>2 DEF ServerSpans
    <3> QED
      BY <1>4, <1>5, <3>1
  <2>3. CASE ~Joins(c) /\ ~Joins(d)
    BY <1>1, <1>5, <2>3 DEF IdsApart, Fresh
  <2> QED
    BY <2>1, <2>2, <2>3
<1> QED
  BY <1>2, <1>3, <1>4, <1>5

\* The invariant implies that only the halves of one span share an identifier,
\* if neither is a repetition of another client's headers.
LEMMA InvSharedIdsAreHalves == IndInv => SharedIdsAreHalves
<1> SUFFICES ASSUME IndInv, NEW x \in MadeSpans, NEW y \in MadeSpans,
                    x # y, x[3].id = y[3].id, ~Repeats(x[1]), ~Repeats(y[1])
             PROVE  x[1] = y[1] /\ authorized[x[1]]
  BY DEF SharedIdsAreHalves
<1>1. Beginnings /\ TypeOK
  BY DEF IndInv
<1>2. ASSUME NEW z \in MadeSpans
      PROVE  \E c \in Calls : \/ z = <<c, "client", client[c]>> /\ c \in Sent
                              \/ z = <<c, "server", server[c]>> /\ c \in Entered
  <2>1. PICK c \in Calls : \/ z = <<c, "client", client[c]>>
                           \/ z = <<c, "server", server[c]>>
    BY DEF MadeSpans, AllSpans
  <2>2. z[3] # NoSpan
    BY DEF MadeSpans
  <2>3. CASE z = <<c, "client", client[c]>>
    BY <2>2, <2>3 DEF Sent
  <2>4. CASE z = <<c, "server", server[c]>>
    <3>1. depth[c] # 0
      BY <1>1, <2>2, <2>4 DEF Beginnings
    <3> QED
      BY <1>1, <2>4, <3>1 DEF Entered, TypeOK
  <2> QED
    BY <2>1, <2>3, <2>4
<1>3. PICK c \in Calls : \/ x = <<c, "client", client[c]>> /\ c \in Sent
                         \/ x = <<c, "server", server[c]>> /\ c \in Entered
  BY <1>2
<1>4. PICK d \in Calls : \/ y = <<d, "client", client[d]>> /\ d \in Sent
                         \/ y = <<d, "server", server[d]>> /\ d \in Entered
  BY <1>2
<1>5. x[1] = c /\ y[1] = d
  BY <1>3, <1>4
<1>6. CASE x = <<c, "client", client[c]>> /\ c \in Sent
  <2>1. CASE y = <<d, "client", client[d]>> /\ d \in Sent
    BY <1>6, <2>1, IdsAreShared
  <2>2. CASE y = <<d, "server", server[d]>> /\ d \in Entered
    BY <1>5, <1>6, <2>2, IdsAreShared
  <2> QED
    BY <1>4, <2>1, <2>2
<1>7. CASE x = <<c, "server", server[c]>> /\ c \in Entered
  <2>1. CASE y = <<d, "client", client[d]>> /\ d \in Sent
    BY <1>5, <1>7, <2>1, IdsAreShared
  <2>2. CASE y = <<d, "server", server[d]>> /\ d \in Entered
    BY <1>7, <2>2, IdsAreShared
  <2> QED
    BY <1>4, <2>1, <2>2
<1> QED
  BY <1>3, <1>6, <1>7

\* It implies that a trusted server span has its client's place.
LEMMA InvServerSpanHasItsPlace == IndInv => ServerSpanHasItsPlace
<1> SUFFICES ASSUME IndInv, NEW c \in Calls,
                    depth[c] > 0, authorized[c], client[c] # NoSpan
             PROVE  /\ server[c].id = client[c].id
                    /\ server[c].parent = context[c].id
                    /\ server[c].trace = IF context[c] = NoSpan THEN client[c].trace
                                                                ELSE context[c].trace
  BY DEF ServerSpanHasItsPlace
<1>1. c \in Sent /\ c \in Entered /\ Joins(c)
  BY DEF Sent, Entered, Joins
<1>2. /\ server[c].trace = client[c].trace /\ server[c].id = client[c].id
      /\ server[c].parent = client[c].parent
  BY <1>1 DEF IndInv, ServerSpans
<1>3. client[c].parent = context[c].id
  BY <1>1 DEF IndInv, ClientSpans
<1>4. context[c] # NoSpan => client[c].trace = context[c].trace
  BY <1>1 DEF IndInv, ClientSpans
<1> QED
  BY <1>2, <1>3, <1>4
-----------------------------------------------------------------------------
\* TypeOK holds: no call takes more identifiers than its two spans need.
THEOREM TypeCorrectness == Spec => []TypeOK
<1>1. IndInv => TypeOK
  BY DEF IndInv
<1> QED
  BY <1>1, InitIndInv, NextIndInv, PTL DEF Spec

\* SharedIdsAreHalves: two spans made by any two of these clients and servers
\* have an identifier in common only when they are the halves of one call that
\* the server trusts, or one of them repeats the headers of another client's
\* trusted request; whatever headers callers pass on or other clients send.
THEOREM IdentifiersAreNotMixedUp == Spec => []SharedIdsAreHalves
BY InitIndInv, NextIndInv, InvSharedIdsAreHalves, PTL DEF Spec

\* ServerSpanHasItsPlace: a trusted server span is in its caller's trace below
\* its caller's span, and never below a span that inherited headers name.
THEOREM ServerSpansArePlaced == Spec => []ServerSpanHasItsPlace
BY InitIndInv, NextIndInv, InvServerSpanHasItsPlace, PTL DEF Spec
-----------------------------------------------------------------------------
(***************************************************************************)
(* What reaches the forwarder.  The client's span is made with a flag that *)
(* nobody sets before its copy is submitted; the third handler sets the    *)
(* server's, whatever flag the request's headers had.                      *)
(***************************************************************************)
Answered == {c \in Calls : stage[c] \in {"answered", "done"}}

SubmissionState ==
  /\ \A c \in Calls : client[c].sampled = "nil"
  /\ \A c \in Calls : depth[c] = 3 => server[c].sampled = "true"
  /\ submitted = {<<c, "server">> : c \in Answered}

\* Only SubmitServerSpan makes a call answered, and it finds the span sampled.
LEMMA StepSubmissionState ==
  IndInv /\ SubmissionState /\ [Next]_vars => SubmissionState'
<1> SUFFICES ASSUME IndInv, SubmissionState, [Next]_vars PROVE SubmissionState'
  OBVIOUS
<1>0. /\ stage \in [Calls -> {"idle", "sent", "answered", "done"}]
      /\ depth \in [Calls -> 0..4]
      /\ client \in [Calls -> SpanHeaders] /\ server \in [Calls -> SpanHeaders]
  BY DEF IndInv, TypeOK
<1>1. ASSUME NEW c \in Calls, DoSends(c) PROVE SubmissionState'
  <2>1. client'[c].sampled = "nil" /\ \A d \in Calls \ {c} : client'[d] = client[d]
    BY <1>0, <1>1 DEF DoSends, NewSpan
  <2>2. UNCHANGED <<depth, server, submitted>>
    BY <1>1 DEF DoSends
  <2>3. Answered' = Answered
    BY <1>0, <1>1 DEF DoSends, Answered
  <2> QED
    BY <2>1, <2>2, <2>3 DEF SubmissionState
<1>2. ASSUME NEW c \in Calls, OtherClientSends(c) PROVE SubmissionState'
  <2>1. UNCHANGED <<depth, client, server, submitted>>
    BY <1>2, Zenon DEF OtherClientSends
  <2>2. Answered' = Answered
    BY <1>0, <1>2 DEF OtherClientSends, Answered
  <2> QED
    BY <2>1, <2>2 DEF SubmissionState
<1>3. ASSUME NEW c \in Calls, DoReturns(c) PROVE SubmissionState'
  <2>1. UNCHANGED <<depth, client, server>>
    BY <1>3 DEF DoReturns
  <2>2. submitted' = submitted
    BY <1>3 DEF DoReturns, Submit, IsSampled, SubmissionState
  <2>3. Answered' = Answered
    BY <1>0, <1>3 DEF DoReturns, Answered
  <2> QED
    BY <2>1, <2>2, <2>3 DEF SubmissionState
<1>4. ASSUME NEW c \in Calls, CreateSpan(c) PROVE SubmissionState'
  <2>1. depth'[c] = 1 /\ \A d \in Calls \ {c} : depth'[d] = depth[d] /\ server'[d] = server[d]
    BY <1>0, <1>4 DEF CreateSpan, Enter
  <2>2. UNCHANGED <<stage, client, submitted>>
    BY <1>4 DEF CreateSpan
  <2> QED
    BY <2>1, <2>2 DEF SubmissionState, Answered
<1>5. ASSUME NEW c \in Calls, TagSpan(c) PROVE SubmissionState'
  <2>1. depth'[c] = 2 /\ \A d \in Calls \ {c} : depth'[d] = depth[d]
    BY <1>0, <1>5 DEF TagSpan, Enter
  <2>2. UNCHANGED <<stage, client, server, submitted>>
    BY <1>5 DEF TagSpan
  <2> QED
    BY <2>1, <2>2 DEF SubmissionState, Answered
<1>6. ASSUME NEW c \in Calls, SampleSpan(c) PROVE SubmissionState'
  <2>1. server'[c].sampled = "true"
    BY <1>0, <1>6 DEF SampleSpan, SpanHeaders
  <2>2. \A d \in Calls \ {c} : depth'[d] = depth[d] /\ server'[d] = server[d]
    BY <1>0, <1>6 DEF SampleSpan, Enter
  <2>3. UNCHANGED <<stage, client, submitted>>
    BY <1>6 DEF SampleSpan
  <2> QED
    BY <2>1, <2>2, <2>3 DEF SubmissionState, Answered
<1>7. ASSUME NEW c \in Calls, SubmitServerSpan(c) PROVE SubmissionState'
  <2>1. UNCHANGED <<depth, client, server>>
    BY <1>7 DEF SubmitServerSpan
  <2>2. submitted' = submitted \cup {<<c, "server">>}
    BY <1>7 DEF SubmitServerSpan, TcSubmit, Submit, IsSampled, SubmissionState
  <2>3. Answered' = Answered \cup {c}
    BY <1>0, <1>7 DEF SubmitServerSpan, Answered
  <2> QED
    BY <2>1, <2>2, <2>3 DEF SubmissionState
<1>8. CASE Terminated \/ UNCHANGED vars
  <2>1. UNCHANGED <<stage, depth, client, server, submitted>>
    BY <1>8 DEF Terminated, vars
  <2> QED
    BY <2>1 DEF SubmissionState, Answered
<1> QED
  BY <1>1, <1>2, <1>3, <1>4, <1>5, <1>6, <1>7, <1>8 DEF Next, Middleware

\* The forwarder gets the server span of every call that was answered, with
\* whatever flag its request came, and never the span of a client.
THEOREM OnlyServerSpansAreSubmitted ==
  Spec => [](submitted = {<<c, "server">> : c \in Answered})
<1>1. Init => SubmissionState
  BY DEF Init, SubmissionState, Answered, NoSpan
<1>2. SubmissionState => submitted = {<<c, "server">> : c \in Answered}
  BY DEF SubmissionState
<1> QED
  BY <1>1, <1>2, InitIndInv, NextIndInv, StepSubmissionState, PTL DEF Spec
-----------------------------------------------------------------------------
\* What a span says of its place in a trace.
Place(s) == <<s.trace, s.id, s.parent>>

\* A client span that is made, and headers that are sent, stay; a server
\* span keeps the place it was made with; what is submitted stays submitted.
SpansStay ==
  /\ \A c \in Calls : client[c] # NoSpan => client'[c] = client[c]
  /\ \A c \in Calls : stage[c] # "idle" => header'[c] = header[c]
  /\ \A c \in Calls : depth[c] > 0 => Place(server'[c]) = Place(server[c])
  /\ submitted \subseteq submitted'

\* No handler, and no other call under way, changes the place of a span made.
THEOREM SpansKeepTheirPlace == Spec => [][SpansStay]_vars
<1>1. IndInv /\ [Next]_vars => [SpansStay]_vars
  <2> SUFFICES ASSUME IndInv, Next PROVE SpansStay
    OBVIOUS
  <2>0. /\ depth \in [Calls -> 0..4]
        /\ client \in [Calls -> SpanHeaders] /\ server \in [Calls -> SpanHeaders]
        /\ header \in [Calls -> SpanHeaders]
        /\ Beginnings
    BY DEF IndInv, TypeOK
  <2>1. ASSUME NEW c \in Calls, DoSends(c) PROVE SpansStay
    <3>1. client[c] = NoSpan /\ stage[c] = "idle"
      BY <2>0, <2>1 DEF Beginnings, DoSends
    <3>2. /\ UNCHANGED <<depth, server, submitted>>
          /\ \A d \in Calls \ {c} : client'[d] = client[d] /\ header'[d] = header[d]
      BY <2>0, <2>1 DEF DoSends
    <3> QED
      BY <3>1, <3>2 DEF SpansStay
  <2>2. ASSUME NEW c \in Calls, CreateSpan(c) PROVE SpansStay
    <3>1. depth[c] = 0
      BY <2>0, <2>2 DEF CreateSpan, Enter
    <3>2. /\ UNCHANGED <<client, header, submitted>>
          /\ \A d \in Calls \ {c} : server'[d] = server[d]
      BY <2>0, <2>2 DEF CreateSpan
    <3> QED
      BY <3>1, <3>2 DEF SpansStay
  <2>3. ASSUME NEW c \in Calls, SampleSpan(c) PROVE SpansStay
    <3>1. server' = [server EXCEPT ![c] = [server[c] EXCEPT !.sampled = "true"]]
      BY <2>0, <2>3 DEF SampleSpan
    <3>2. Place(server'[c]) = Place(server[c])
      BY <2>0, <3>1 DEF Place, SpanHeaders
    <3>3. /\ UNCHANGED <<client, header, submitted>>
          /\ \A d \in Calls \ {c} : server'[d] = server[d]
      BY <2>0, <2>3 DEF SampleSpan
    <3> QED
      BY <3>2, <3>3 DEF SpansStay
  <2>4. ASSUME NEW c \in Calls,
               OtherClientSends(c) \/ DoReturns(c) \/ TagSpan(c) \/ SubmitServerSpan(c)
        PROVE  SpansStay
    <3>1. UNCHANGED <<client, server>> /\ submitted \subseteq submitted'
      BY <2>4 DEF OtherClientSends, DoReturns, TagSpan, SubmitServerSpan, Submit
    <3>2. \A d \in Calls : stage[d] # "idle" => header'[d] = header[d]
      BY <2>0, <2>4 DEF OtherClientSends, DoReturns, TagSpan, SubmitServerSpan
    <3> QED
      BY <3>1, <3>2 DEF SpansStay
  <2>5. CASE Terminated
    BY <2>5 DEF Terminated, vars, SpansStay
  <2> QED
    BY <2>1, <2>2, <2>3, <2>4, <2>5 DEF Next, Middleware
<1> QED
  BY <1>1, InitIndInv, NextIndInv, PTL DEF Spec
=============================================================================
