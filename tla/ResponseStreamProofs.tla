------------------------ MODULE ResponseStreamProofs ------------------------
(***************************************************************************)
(* ResponseStream for every set of values, every window, any number of     *)
(* writes, any serializers: the inductive invariant is inductive, the      *)
(* safety properties follow from it, and every step is a step of           *)
(* MessageStream or stutters.                                              *)
(***************************************************************************)
EXTENDS ResponseStream, FrameLemmas
-----------------------------------------------------------------------------
(***************************************************************************)
(* The invariant.  Control first: the writer's flag, the two heads, the    *)
(* end of the body, and where Do and its goroutine are.  Then the data: of *)
(* a streaming response, what is under way begins with the frames of the   *)
(* values the goroutine has not got yet, and the first frame that is none  *)
(* of those is the first EOF frame; of a unary one, what is under way      *)
(* begins with its value until Do has read it.  Neither says anything of   *)
(* what the client does after it has read what is garbled.                 *)
(***************************************************************************)
WriterState ==
  /\ headersWritten <=> head \notin {"none", "empty"}
  /\ head = "empty" => handler = "returned"
  /\ sentHead # "none" => sentHead = head
  /\ head \notin {"stream", "unary"} => written = <<>> /\ ~finished
  /\ head = "unary" => Len(written) = 1 /\ (finished => handler = "returned")
  /\ head = "none" => buffered = <<>>
  /\ handler # "serving" => buffered = <<>>

EndState ==
  /\ wireEnd = "clean" => handler = "returned" /\ sentHead # "none"
  /\ handler # "serving" => wireEnd # "open"
  /\ sentHead \in {"none", "empty"} => wire = <<>>
  /\ sentHead = "unary" /\ wireEnd = "clean" => finished

ClientState ==
  /\ sentHead = "none" => do \in {"waiting", "failed"}
  /\ do = "decoded" \/ (do = "ok" /\ sentHead # "stream") =>
        /\ call = "unary"
        /\ \/ sentHead = "unary" /\ finished
           \/ sentHead = "empty" /\ EmptyDecodes
  /\ do = "ok" /\ sentHead = "stream" => call = "stream" /\ pump # "none"
  /\ pump # "none" => do = "ok" /\ sentHead = "stream"
  /\ pump = "send" => hand \in Data
  /\ hand # None => pump = "send" \/ (sentHead = "unary" /\ do \in {"waiting", "failed"})
  /\ garbled => sentHead = "unary" \/ pump # "none"
  /\ result = "none" <=> pump # "done"

\* The values the goroutine has got: delivered, or being sent to the consumer.
Got == Len(delivered) + (IF pump = "send" THEN 1 ELSE 0)

StreamState ==
  head # "unary" /\ ~garbled =>
    /\ Got <= Len(written)
    /\ \A i \in 1..Len(delivered) : delivered[i] = written[i]
    /\ pump = "send" => hand = written[Got]

\* What is under way to the client.
UnderWay == wire \o buffered

\* Where w has only values before it, each of its chunks is the value of s that
\* comes next, counted from the r-th, or the end, or no message.
ValuesUntil(w, i) == \A j \in 1..i - 1 : w[j].type = "data"
Carries(w, s, r, end) ==
  \A i \in 1..Len(w) : ValuesUntil(w, i) =>
    /\ w[i].type = "data" => r + i <= Len(s) /\ w[i].payload = s[r + i]
    /\ w[i].type = "eof" => end /\ r + i - 1 = Len(s)
    /\ w[i].type # "keepAlive"

\* As long as there are only values there are all values, and no end.
IsUpToDate(w, s, r, end) ==
  ValuesUntil(w, Len(w) + 1) => r + Len(w) = Len(s) /\ ~end

StreamWire ==
  head \in {"none", "stream"} /\ ~garbled /\ pump # "done" =>
    /\ Carries(UnderWay, written, Got, finished)
    /\ handler = "serving" => IsUpToDate(UnderWay, written, Got, finished)

UnaryWire ==
  head = "unary" /\ do = "waiting" /\ ~garbled /\ hand = None =>
    /\ handler = "serving" \/ wireEnd = "clean" => UnderWay # <<>>
    /\ UnderWay # <<>> => UnderWay[1] = RawChunk(written[1])

UnaryState ==
  head = "unary" =>
    /\ hand # None => hand = written[1]
    /\ delivered = IF do \in {"decoded", "ok"} /\ ~garbled THEN written ELSE <<>>

IndInv == /\ TypeOK /\ WriterState /\ EndState /\ StatsMatchHead /\ ClientState
          /\ StreamState /\ StreamWire /\ UnaryWire /\ UnaryState /\ CleanResultIsComplete
-----------------------------------------------------------------------------
(***************************************************************************)
(* Sequences: what is under way when a chunk is written, flushed, read.    *)
(***************************************************************************)

\* What is buffered follows what is on the wire.
LEMMA ConcatElements ==
  ASSUME NEW S, NEW w \in Seq(S), NEW b \in Seq(S)
  PROVE  /\ w \o b \in Seq(S)
         /\ Len(w) \in Nat /\ Len(b) \in Nat /\ Len(w \o b) = Len(w) + Len(b)
         /\ \A i \in 1..Len(w) : (w \o b)[i] = w[i]
         /\ \A i \in 1..Len(b) : (w \o b)[Len(w) + i] = b[i]
  OBVIOUS

\* A chunk written behind what is buffered, flushed or not, is the last one.
LEMMA ConcatAppend ==
  ASSUME NEW S, NEW w \in Seq(S), NEW b \in Seq(S), NEW x \in S
  PROVE  w \o Append(b, x) = Append(w \o b, x)
<1>1. /\ Append(b, x) \in Seq(S) /\ Len(Append(b, x)) = Len(b) + 1
      /\ \A i \in 1..Len(b) : Append(b, x)[i] = b[i]
      /\ Append(b, x)[Len(b) + 1] = x
  BY AppendElements
<1>2. /\ w \o b \in Seq(S)
      /\ Len(w) \in Nat /\ Len(b) \in Nat /\ Len(w \o b) = Len(w) + Len(b)
      /\ \A i \in 1..Len(w) : (w \o b)[i] = w[i]
      /\ \A i \in 1..Len(b) : (w \o b)[Len(w) + i] = b[i]
  BY ConcatElements
<1>3. /\ w \o Append(b, x) \in Seq(S)
      /\ Len(w \o Append(b, x)) = Len(w) + Len(b) + 1
      /\ \A i \in 1..Len(w) : (w \o Append(b, x))[i] = w[i]
      /\ \A i \in 1..Len(b) + 1 : (w \o Append(b, x))[Len(w) + i] = Append(b, x)[i]
  BY <1>1, <1>2, ConcatElements
<1>4. /\ Append(w \o b, x) \in Seq(S)
      /\ Len(Append(w \o b, x)) = Len(w) + Len(b) + 1
      /\ \A i \in 1..Len(w) + Len(b) : Append(w \o b, x)[i] = (w \o b)[i]
      /\ Append(w \o b, x)[Len(w) + Len(b) + 1] = x
  BY <1>2, AppendElements
<1>5. ASSUME NEW i \in 1..Len(w) + Len(b) + 1
      PROVE  (w \o Append(b, x))[i] = Append(w \o b, x)[i]
  <2>1. CASE i \in 1..Len(w)
    BY <1>2, <1>3, <1>4, <2>1
  <2>2. CASE i \notin 1..Len(w)
    <3> DEFINE j == i - Len(w)
    <3>1. j \in 1..Len(b) + 1 /\ i = Len(w) + j
      BY <1>2, <2>2
    <3>2. CASE j = Len(b) + 1
      BY <1>1, <1>2, <1>3, <1>4, <3>1, <3>2
    <3>3. CASE j \in 1..Len(b)
      <4>1. (w \o Append(b, x))[Len(w) + j] = b[j]
        BY <1>1, <1>3, <3>1, <3>3
      <4>2. Append(w \o b, x)[Len(w) + j] = b[j]
        BY <1>2, <1>4, <3>3
      <4> QED
        BY <3>1, <4>1, <4>2
    <3> QED
      BY <1>2, <3>1, <3>2, <3>3
  <2> QED
    BY <2>1, <2>2
<1> QED
  BY <1>3, <1>4, <1>5, FullPrefix

\* Nothing is buffered, or nothing is on the wire.
LEMMA ConcatEmpty ==
  ASSUME NEW S, NEW w \in Seq(S)
  PROVE  w \o <<>> = w /\ <<>> \o w = w /\ <<>> \in Seq(S) /\ Len(<<>>) = 0
  OBVIOUS

\* The chunk at the head of the wire is the first under way.
LEMMA ConcatTail ==
  ASSUME NEW S, NEW w \in Seq(S), NEW b \in Seq(S), w # <<>>
  PROVE  Head(w) = (w \o b)[1] /\ w \o b # <<>> /\ Tail(w) \o b = Tail(w \o b)
<1>1. /\ w \o b \in Seq(S)
      /\ Len(w) \in Nat /\ Len(b) \in Nat /\ Len(w \o b) = Len(w) + Len(b)
      /\ \A i \in 1..Len(w) : (w \o b)[i] = w[i]
      /\ \A i \in 1..Len(b) : (w \o b)[Len(w) + i] = b[i]
  BY ConcatElements
<1>2. /\ Head(w) = w[1] /\ Tail(w) \in Seq(S)
      /\ Len(w) \in Nat \ {0} /\ Len(Tail(w)) = Len(w) - 1
      /\ \A i \in 1..Len(Tail(w)) : Tail(w)[i] = w[i + 1]
  BY TailElements
<1>3. w \o b # <<>>
  <2>1. Len(w \o b) # Len(<<>>)
    BY <1>1, <1>2
  <2> QED
    BY <2>1
<1>4. /\ Tail(w \o b) \in Seq(S) /\ Len(Tail(w \o b)) = Len(w) + Len(b) - 1
      /\ \A i \in 1..Len(w) + Len(b) - 1 : Tail(w \o b)[i] = (w \o b)[i + 1]
  BY <1>1, <1>3, TailElements
<1>5. /\ Tail(w) \o b \in Seq(S) /\ Len(Tail(w) \o b) = Len(w) - 1 + Len(b)
      /\ \A i \in 1..Len(w) - 1 : (Tail(w) \o b)[i] = Tail(w)[i]
      /\ \A i \in 1..Len(b) : (Tail(w) \o b)[Len(w) - 1 + i] = b[i]
  BY <1>2, ConcatElements
<1>6. ASSUME NEW i \in 1..Len(w) + Len(b) - 1
      PROVE  (Tail(w) \o b)[i] = Tail(w \o b)[i]
  <2>1. CASE i \in 1..Len(w) - 1
    <3>1. (Tail(w) \o b)[i] = w[i + 1]
      BY <1>2, <1>5, <2>1
    <3>2. (w \o b)[i + 1] = w[i + 1]
      BY <1>1, <1>2, <2>1
    <3> QED
      BY <1>4, <3>1, <3>2
  <2>2. CASE i \notin 1..Len(w) - 1
    <3> DEFINE j == i - (Len(w) - 1)
    <3>1. j \in 1..Len(b) /\ i = Len(w) - 1 + j /\ i + 1 = Len(w) + j
      BY <1>1, <1>2, <2>2
    <3>2. (Tail(w) \o b)[Len(w) - 1 + j] = b[j] /\ (w \o b)[Len(w) + j] = b[j]
      BY <1>1, <1>5, <3>1
    <3> QED
      BY <1>4, <3>1, <3>2
  <2> QED
    BY <2>1, <2>2
<1>7. Tail(w) \o b = Tail(w \o b)
  <2>1. Len(Tail(w) \o b) = Len(Tail(w \o b)) /\ Len(Tail(w) \o b) = Len(w) + Len(b) - 1
    BY <1>1, <1>2, <1>4, <1>5
  <2> QED
    BY <1>4, <1>5, <1>6, <2>1, FullPrefix
<1>8. 1 \in 1..Len(w)
  BY <1>2
<1> QED
  BY <1>1, <1>2, <1>3, <1>7, <1>8
-----------------------------------------------------------------------------
(***************************************************************************)
(* The chunks of a body.                                                   *)
(***************************************************************************)

\* What writers write are chunks, and what a chunk is.
LEMMA ChunkTypes ==
  /\ EofFrame \in Chunk /\ EofFrame.type = "eof"
  /\ \A v \in Data : /\ DataFrame(v) \in Chunk
                     /\ DataFrame(v).type = "data" /\ DataFrame(v).payload = v
  /\ \A v \in Data \cup {None} : /\ RawChunk(v) \in Chunk
                                 /\ RawChunk(v).type = "raw" /\ RawChunk(v).payload = v
  /\ \A c \in Chunk : /\ c.type \in {"data", "eof", "keepAlive", "raw"}
                      /\ c.type = "data" => c.payload \in Data
  BY DEF Chunk, Frame, EofFrame, KeepAliveFrame, DataFrame, RawChunk

\* Values are written, the end is written: what has been under way still carries them.
LEMMA CarriesOn ==
  ASSUME NEW w \in Seq(Chunk), NEW s \in Seq(Data), NEW t \in Seq(Data), NEW r \in Nat,
         NEW end, NEW newEnd, Carries(w, s, r, end),
         Len(t) >= Len(s), \A i \in 1..Len(s) : t[i] = s[i],
         end => newEnd /\ t = s
  PROVE  Carries(w, t, r, newEnd)
<1> SUFFICES ASSUME NEW i \in 1..Len(w), ValuesUntil(w, i)
             PROVE  /\ w[i].type = "data" => r + i <= Len(t) /\ w[i].payload = t[r + i]
                    /\ w[i].type = "eof" => newEnd /\ r + i - 1 = Len(t)
                    /\ w[i].type # "keepAlive"
  BY DEF Carries
<1>1. /\ w[i].type = "data" => r + i <= Len(s) /\ w[i].payload = s[r + i]
      /\ w[i].type = "eof" => end /\ r + i - 1 = Len(s)
      /\ w[i].type # "keepAlive"
  BY DEF Carries
<1>2. Len(s) \in Nat /\ Len(t) \in Nat /\ i \in Nat /\ i >= 1
  OBVIOUS
<1>3. w[i].type = "data" => r + i \in 1..Len(s)
  BY <1>1, <1>2
<1> QED
  BY <1>1, <1>2, <1>3

\* A chunk is written behind the others: if they are all values it is the next
\* value, or the end, or no message.
LEMMA CarriesAppended ==
  ASSUME NEW w \in Seq(Chunk), NEW c \in Chunk, NEW s \in Seq(Data), NEW r \in Nat,
         NEW end, Carries(w, s, r, end),
         ValuesUntil(w, Len(w) + 1) =>
            /\ c.type = "data" => r + Len(w) + 1 = Len(s) /\ c.payload = s[Len(s)]
            /\ c.type = "eof" => end /\ r + Len(w) = Len(s)
            /\ c.type # "keepAlive"
  PROVE  Carries(Append(w, c), s, r, end)
<1> DEFINE x == Append(w, c)
<1>1. /\ Len(x) = Len(w) + 1 /\ Len(w) \in Nat /\ Len(s) \in Nat
      /\ \A i \in 1..Len(w) : x[i] = w[i]
      /\ x[Len(w) + 1] = c
  BY AppendElements
<1> HIDE DEF x
<1> SUFFICES ASSUME NEW i \in 1..Len(x), ValuesUntil(x, i)
             PROVE  /\ x[i].type = "data" => r + i <= Len(s) /\ x[i].payload = s[r + i]
                    /\ x[i].type = "eof" => end /\ r + i - 1 = Len(s)
                    /\ x[i].type # "keepAlive"
  BY DEF Carries, x
<1>2. ValuesUntil(w, i)
  BY <1>1 DEF ValuesUntil
<1>3. CASE i \in 1..Len(w)
  BY <1>1, <1>2, <1>3 DEF Carries
<1>4. CASE i = Len(w) + 1
  <2>1. x[i] = c /\ ValuesUntil(w, Len(w) + 1)
    BY <1>1, <1>2, <1>4
  <2>2. /\ c.type = "data" => r + i = Len(s) /\ c.payload = s[Len(s)]
        /\ c.type = "eof" => end /\ r + i - 1 = Len(s)
        /\ c.type # "keepAlive"
    BY <1>1, <1>4, <2>1
  <2> QED
    BY <1>1, <2>1, <2>2
<1> QED
  BY <1>1, <1>3, <1>4

\* What was not flushed is given up.
LEMMA CarriesFlushed ==
  ASSUME NEW w \in Seq(Chunk), NEW b \in Seq(Chunk), NEW s \in Seq(Data), NEW r \in Nat,
         NEW end, Carries(w \o b, s, r, end)
  PROVE  Carries(w, s, r, end)
<1> DEFINE x == w \o b
<1>1. /\ Len(w) \in Nat /\ Len(b) \in Nat /\ Len(x) = Len(w) + Len(b)
      /\ \A i \in 1..Len(w) : x[i] = w[i]
  BY ConcatElements
<1>2. Carries(x, s, r, end)
  OBVIOUS
<1> HIDE DEF x
<1> SUFFICES ASSUME NEW i \in 1..Len(w), ValuesUntil(w, i)
             PROVE  /\ w[i].type = "data" => r + i <= Len(s) /\ w[i].payload = s[r + i]
                    /\ w[i].type = "eof" => end /\ r + i - 1 = Len(s)
                    /\ w[i].type # "keepAlive"
  BY DEF Carries
<1>3. ValuesUntil(x, i) /\ i \in 1..Len(x) /\ x[i] = w[i]
  BY <1>1 DEF ValuesUntil
<1> QED
  BY <1>2, <1>3 DEF Carries

\* The value at the head is read.
LEMMA CarriesTail ==
  ASSUME NEW w \in Seq(Chunk), w # <<>>, w[1].type = "data", NEW s \in Seq(Data),
         NEW r \in Nat, NEW end
  PROVE  /\ Carries(w, s, r, end) => Carries(Tail(w), s, r + 1, end)
         /\ IsUpToDate(w, s, r, end) => IsUpToDate(Tail(w), s, r + 1, end)
<1> DEFINE x == Tail(w)
<1>1. /\ Len(w) \in Nat \ {0} /\ Len(x) = Len(w) - 1 /\ Len(s) \in Nat
      /\ \A i \in 1..Len(x) : x[i] = w[i + 1]
  BY TailElements
<1> HIDE DEF x
<1>2. ASSUME NEW i \in 1..Len(x) + 1, ValuesUntil(x, i)
      PROVE  ValuesUntil(w, i + 1)
  <2> SUFFICES ASSUME NEW j \in 1..i PROVE w[j].type = "data"
    BY DEF ValuesUntil
  <2>1. CASE j = 1
    BY <2>1
  <2>2. CASE j # 1
    <3>1. j - 1 \in 1..i - 1 /\ j - 1 \in 1..Len(x) /\ (j - 1) + 1 = j
      BY <1>1, <2>2
    <3>2. x[j - 1] = w[j]
      BY <1>1, <3>1
    <3> QED
      BY <1>2, <3>1, <3>2 DEF ValuesUntil
  <2> QED
    BY <2>1, <2>2
<1>3. ASSUME Carries(w, s, r, end), NEW i \in 1..Len(x), ValuesUntil(x, i)
      PROVE  /\ x[i].type = "data" => r + 1 + i <= Len(s) /\ x[i].payload = s[r + 1 + i]
             /\ x[i].type = "eof" => end /\ r + 1 + i - 1 = Len(s)
             /\ x[i].type # "keepAlive"
  <2>1. i + 1 \in 1..Len(w) /\ ValuesUntil(w, i + 1) /\ x[i] = w[i + 1]
    BY <1>1, <1>2, <1>3
  <2>2. /\ x[i].type = "data" => r + (i + 1) <= Len(s) /\ x[i].payload = s[r + (i + 1)]
        /\ x[i].type = "eof" => end /\ r + (i + 1) - 1 = Len(s)
        /\ x[i].type # "keepAlive"
    BY <1>3, <2>1 DEF Carries
  <2>3. r + (i + 1) = r + 1 + i
    OBVIOUS
  <2> QED
    BY <2>2, <2>3
<1>4. ASSUME IsUpToDate(w, s, r, end), ValuesUntil(x, Len(x) + 1)
      PROVE  r + 1 + Len(x) = Len(s) /\ ~end
  <2>1. Len(x) + 1 = Len(w) /\ Len(x) + 1 \in 1..Len(x) + 1
    BY <1>1
  <2>2. ValuesUntil(w, Len(w) + 1)
    BY <1>2, <1>4, <2>1
  <2>3. r + Len(w) = Len(s)
    BY <1>4, <2>2 DEF IsUpToDate
  <2>4. r + 1 + Len(x) = Len(s)
    BY <2>1, <2>3
  <2>5. ~end
    BY <1>4, <2>2, Zenon DEF IsUpToDate
  <2> QED
    BY <2>4, <2>5
<1> QED
  BY <1>3, <1>4 DEF Carries, IsUpToDate, x
-----------------------------------------------------------------------------
(***************************************************************************)
(* Control.                                                                *)
(***************************************************************************)

\* Lengths are numbers, and Got counts values.
LEMMA Lengths ==
  TypeOK => /\ Len(written) \in Nat /\ Len(wire) \in Nat /\ Len(buffered) \in Nat
            /\ Len(delivered) \in Nat
            /\ Got \in Nat
            /\ pump = "send" => Got = Len(delivered) + 1
            /\ pump # "send" => Got = Len(delivered)
            /\ UnderWay \in Seq(Chunk) /\ Len(UnderWay) = Len(wire) + Len(buffered)
<1> SUFFICES ASSUME TypeOK
             PROVE  /\ Len(written) \in Nat /\ Len(wire) \in Nat /\ Len(buffered) \in Nat
                    /\ Len(delivered) \in Nat
                    /\ Got \in Nat
                    /\ pump = "send" => Got = Len(delivered) + 1
                    /\ pump # "send" => Got = Len(delivered)
                    /\ UnderWay \in Seq(Chunk) /\ Len(UnderWay) = Len(wire) + Len(buffered)
  OBVIOUS
<1>1. /\ Len(written) \in Nat /\ Len(wire) \in Nat /\ Len(buffered) \in Nat
      /\ Len(delivered) \in Nat
  BY DEF TypeOK
<1>2. wire \in Seq(Chunk) /\ buffered \in Seq(Chunk)
  BY DEF TypeOK
<1>3. UnderWay \in Seq(Chunk) /\ Len(UnderWay) = Len(wire) + Len(buffered)
  BY <1>2, ConcatElements DEF UnderWay
<1> QED
  BY <1>1, <1>3 DEF Got

\* What the handler's steps put under way.
LEMMA Puts ==
  ASSUME TypeOK
  PROVE  /\ \A v \in Data : WriteMessage(v) => UnderWay' = Append(UnderWay, DataFrame(v))
         /\ WriteEofMessage => UnderWay' = Append(UnderWay, EofFrame)
         /\ \A v \in Data : WriteOutput(v) =>
              \/ v \in Unmarshalable /\ UnderWay' = UnderWay
              \/ /\ v \in Unmarshalable /\ headersWritten
                 /\ UnderWay' = Append(UnderWay, RawChunk(None))
              \/ v \notin Unmarshalable /\ UnderWay' = Append(UnderWay, RawChunk(v))
         /\ WriteMessageFails \/ WriteError => UnderWay' = UnderWay
         /\ WriteMessagePanics => UnderWay' = wire
         /\ HandlerReturns => UnderWay' = IF wireEnd = "aborted" THEN wire ELSE UnderWay
<1> USE DEF wireVars
<1>1. wire \in Seq(Chunk) /\ buffered \in Seq(Chunk)
  BY DEF TypeOK
<1>2. \A c \in Chunk : wire \o Append(buffered, c) = Append(UnderWay, c)
  BY <1>1, ConcatAppend DEF UnderWay
<1>3. wire \o <<>> = wire
  BY <1>1, ConcatEmpty
<1>4. ASSUME NEW v \in Data, WriteMessage(v) PROVE UnderWay' = Append(UnderWay, DataFrame(v))
  <2>1. wire' = wire \o Append(buffered, DataFrame(v)) /\ buffered' = <<>>
    BY <1>4 DEF WriteMessage
  <2>2. wire' = Append(UnderWay, DataFrame(v)) /\ wire' \in Seq(Chunk)
    <3>1. DataFrame(v) \in Chunk /\ UnderWay \in Seq(Chunk)
      BY ChunkTypes, Lengths
    <3>2. Append(UnderWay, DataFrame(v)) \in Seq(Chunk)
      BY <3>1, AppendElements
    <3> QED
      BY <1>2, <2>1, <3>1, <3>2
  <2>3. wire' \o <<>> = wire'
    BY <2>2, ConcatEmpty
  <2> QED
    BY <2>1, <2>2, <2>3 DEF UnderWay
<1>5. ASSUME WriteEofMessage PROVE UnderWay' = Append(UnderWay, EofFrame)
  BY <1>2, <1>5, ChunkTypes DEF WriteEofMessage, UnderWay
<1>6. ASSUME NEW v \in Data, WriteOutput(v)
      PROVE  \/ v \in Unmarshalable /\ UnderWay' = UnderWay
             \/ /\ v \in Unmarshalable /\ headersWritten
                /\ UnderWay' = Append(UnderWay, RawChunk(None))
             \/ v \notin Unmarshalable /\ UnderWay' = Append(UnderWay, RawChunk(v))
  <2>1. /\ wire' = wire
        /\ \/ v \in Unmarshalable /\ buffered' = buffered
           \/ /\ v \in Unmarshalable /\ headersWritten
              /\ buffered' = Append(buffered, RawChunk(None))
           \/ v \notin Unmarshalable /\ buffered' = Append(buffered, RawChunk(v))
    BY <1>6 DEF WriteOutput
  <2> QED
    BY <1>2, <2>1, ChunkTypes DEF UnderWay
<1>7. ASSUME WriteMessageFails \/ WriteError PROVE UnderWay' = UnderWay
  BY <1>7 DEF WriteMessageFails, WriteError, UnderWay
<1>8. ASSUME WriteMessagePanics PROVE UnderWay' = wire
  BY <1>3, <1>8 DEF WriteMessagePanics, UnderWay
<1>9. ASSUME HandlerReturns
      PROVE  UnderWay' = IF wireEnd = "aborted" THEN wire ELSE UnderWay
  <2>1. buffered' = <<>> /\ wire' = IF wireEnd = "aborted" THEN wire ELSE UnderWay
    BY <1>9 DEF HandlerReturns, UnderWay
  <2>2. wire' \in Seq(Chunk)
    BY <1>1, <2>1, Lengths
  <2>3. wire' \o <<>> = wire'
    BY <2>2, ConcatEmpty
  <2> QED
    BY <2>1, <2>3 DEF UnderWay
<1> QED
  BY <1>4, <1>5, <1>6, <1>7, <1>8, <1>9

\* The client's steps and those of the connection touch nothing of the writer.
LEMMA ClientLeavesWriter ==
  ASSUME TransportAborts \/ Do \/ Pump \/ ConsumerTakes \/ UNCHANGED vars
  PROVE  UNCHANGED <<call, handler, headersWritten, status, head, sentHead, written,
                     finished, writes, late, buffered>>
  BY DEF vars, serverVars, writerVars, wireVars, clientVars, TransportAborts, Do,
         DoStartsStream, DoReads, DoReadsBody, DoReturnsBody, DoFails, Pump, PumpReads,
         PumpReadsEnd, ConsumerTakes

\* The handler's steps touch nothing of the client.
LEMMA HandlerLeavesClient ==
  ASSUME Handler
  PROVE  UNCHANGED <<call, do, pump, hand, garbled, result, delivered>>
  BY DEF Handler, WriteMessage, WriteOutput, WriteMessageFails, WriteMessagePanics,
         WriteEofMessage, WriteError, HandlerReturns, clientVars

\* What the writer's operations do to the two heads, the flag and the status.
LEMMA HeadSteps ==
  ASSUME TypeOK, WriterState, Handler
  PROVE  /\ handler = "serving" /\ head # "empty"
         /\ late => late'
         /\ \/ /\ head = "none" /\ ~headersWritten /\ headersWritten' = TRUE
               /\ handler' # "returned" /\ late' = late
               /\ \/ head' = "stream" /\ status' = "ok"
                  \/ head' = "unary" /\ status' = "ok" /\ \E v \in Data : WriteOutput(v)
                  \/ head' = "error" /\ status' = "error"
            \/ /\ head # "none" /\ head' = head /\ headersWritten' = TRUE
               /\ status' = status \/ late'
            \/ head = "none" /\ HandlerReturns
         /\ sentHead' \in {sentHead, head'}
<1> USE DEF wireVars
<1>0. /\ headersWritten \in BOOLEAN /\ late \in BOOLEAN
      /\ head \in {"none", "stream", "unary", "error", "empty"}
  BY DEF TypeOK
<1>1. ASSUME StreamHeaders, handler = "serving"
      PROVE  /\ head # "empty" /\ headersWritten' = TRUE
             /\ head' = IF head = "none" THEN "stream" ELSE head
             /\ status' = IF head = "none" THEN "ok" ELSE status
             /\ head = "none" <=> ~headersWritten
  BY <1>0, <1>1 DEF StreamHeaders, WriteHeader, WriterState
<1>2. ASSUME NEW v \in Data, WriteMessage(v) PROVE StreamHeaders /\ handler = "serving"
                      /\ handler' = handler /\ late' = late /\ sentHead' = head'
  BY <1>2 DEF WriteMessage
<1>3. ASSUME WriteMessageFails \/ WriteMessagePanics \/ WriteEofMessage
      PROVE  StreamHeaders /\ handler = "serving" /\ handler' # "returned" /\ late' = late
             /\ sentHead' = sentHead
  BY <1>3 DEF WriteMessageFails, WriteMessagePanics, WriteEofMessage
<1>4. ASSUME NEW v \in Data, WriteOutput(v)
      PROVE  /\ handler = "serving" /\ handler' = handler /\ sentHead' = sentHead
             /\ headersWritten' = TRUE
             /\ \/ head' = (IF head = "none" THEN "error" ELSE head) /\ status' = "error"
                \/ head' = (IF head = "none" THEN "unary" ELSE head) /\ status' = "ok"
  BY <1>4 DEF WriteOutput, ErrorHeaders, WriteHeader
<1>5. ASSUME NEW v \in Data, WriteOutput(v)
      PROVE  /\ head # "empty"
             /\ late => late'
             /\ \/ head = "none" /\ ~headersWritten /\ late' = late
                \/ head # "none" /\ headersWritten /\ late'
  <2>1. CASE headersWritten
    <3>1. late' = TRUE
      BY <1>5, <2>1, Zenon DEF WriteOutput
    <3> QED
      BY <1>4, <1>5, <2>1, <3>1 DEF WriterState
  <2>2. CASE ~headersWritten
    <3>1. late' = late
      BY <1>0, <1>5, <2>2 DEF WriteOutput
    <3> QED
      BY <1>4, <1>5, <2>2, <3>1 DEF WriterState
  <2> QED
    BY <2>1, <2>2
<1>6. ASSUME WriteError
      PROVE  /\ handler = "serving" /\ handler' = handler /\ sentHead' = sentHead /\ late' = late
             /\ head # "empty"
             /\ \/ /\ head = "none" /\ ~headersWritten /\ head' = "error"
                   /\ headersWritten' = TRUE /\ status' = "error"
                \/ head # "none" /\ head' = head /\ headersWritten' = TRUE /\ status' = status
  BY <1>0, <1>6 DEF WriteError, ErrorHeaders, WriteHeader, writerVars, WriterState
<1>7. ASSUME HandlerReturns
      PROVE  /\ handler = "serving" /\ sentHead' \in {sentHead, head'} /\ late' = late
             /\ head # "empty"
             /\ head # "none" => head' = head /\ status' = status /\ headersWritten' = TRUE
  BY <1>0, <1>7 DEF HandlerReturns, WriterState
<1>8. CASE (\E v \in Data : WriteMessage(v)) \/ WriteMessageFails \/ WriteMessagePanics
           \/ WriteEofMessage
  BY <1>0, <1>1, <1>2, <1>3, <1>8
<1>9. CASE \E v \in Data : WriteOutput(v)
  <2>1. PICK v \in Data : WriteOutput(v)
    BY <1>9
  <2>2. /\ handler = "serving" /\ handler' = handler /\ sentHead' = sentHead
        /\ headersWritten' = TRUE
        /\ \/ head' = (IF head = "none" THEN "error" ELSE head) /\ status' = "error"
           \/ head' = (IF head = "none" THEN "unary" ELSE head) /\ status' = "ok"
    BY <1>4, <2>1
  <2>3. CASE head = "none"
    <3>1. late' = late /\ ~headersWritten
      BY <1>5, <2>1, <2>3
    <3> QED
      BY <1>9, <2>2, <2>3, <3>1
  <2>4. CASE head # "none"
    <3>1. late' /\ head # "empty"
      BY <1>5, <2>1, <2>4
    <3> QED
      BY <2>2, <2>4, <3>1
  <2> QED
    BY <2>3, <2>4
<1>10. CASE WriteError
  BY <1>0, <1>6, <1>10
<1>11. CASE HandlerReturns
  BY <1>0, <1>7, <1>11
<1> QED
  BY <1>8, <1>9, <1>10, <1>11 DEF Handler

\* The handler's steps keep the types.
LEMMA HandlerType == TypeOK /\ WriterState /\ Handler => TypeOK'
<1> SUFFICES ASSUME TypeOK, WriterState, Handler PROVE TypeOK'
  OBVIOUS
<1> USE DEF wireVars, writerVars, serverVars
<1>1. /\ call' \in {"unary", "stream"} /\ headersWritten' \in BOOLEAN
      /\ status' \in {"unset", "ok", "error"}
      /\ head' \in {"none", "stream", "unary", "error", "empty"}
      /\ sentHead' \in {"none", "stream", "unary", "error", "empty"}
      /\ do' \in {"waiting", "decoded", "ok", "failed"}
      /\ pump' \in {"none", "read", "send", "done"}
      /\ hand' \in Data \cup {None} /\ garbled' \in BOOLEAN
      /\ result' \in {"none", "nil", "EOF", "unmarshal", "transport"}
      /\ delivered' \in Seq(Data)
  <2>1. UNCHANGED <<call, do, pump, hand, garbled, result, delivered>>
    BY HandlerLeavesClient
  <2>2. /\ headersWritten' \in BOOLEAN
        /\ head' \in {"none", "stream", "unary", "error", "empty"}
        /\ status' \in {"unset", "ok", "error"}
    BY DEF TypeOK, Handler, WriteMessage, WriteOutput, WriteMessageFails,
           WriteMessagePanics, WriteEofMessage, WriteError, HandlerReturns, StreamHeaders,
           ErrorHeaders, WriteHeader
  <2>3. sentHead' \in {sentHead, head'}
    BY HeadSteps
  <2> QED
    BY <2>1, <2>2, <2>3 DEF TypeOK
<1>2. /\ handler' \in {"serving", "returned", "panicked"}
      /\ wireEnd' \in {"open", "clean", "aborted"}
  BY DEF TypeOK, Handler, WriteMessage, WriteOutput, WriteMessageFails,
         WriteMessagePanics, WriteEofMessage, WriteError, HandlerReturns
<1>3. writes' \in 0..MaxMsgs
  <2>1. writes' = writes \/ (writes < MaxMsgs /\ writes' = writes + 1)
    BY DEF Handler, WriteMessage, WriteOutput, WriteMessageFails,
           WriteMessagePanics, WriteEofMessage, WriteError, HandlerReturns, Writes
  <2> QED
    BY <2>1, BoundsAssumption DEF TypeOK
<1>4. late' \in BOOLEAN /\ finished' \in BOOLEAN
  BY DEF TypeOK, Handler, WriteMessage, WriteOutput, WriteMessageFails,
         WriteMessagePanics, WriteEofMessage, WriteError, HandlerReturns
<1>5. written' \in Seq(Data)
  <2>1. ASSUME NEW v \in Data PROVE Append(written, v) \in Seq(Data) /\ <<v>> \in Seq(Data)
    BY AppendElements DEF TypeOK
  <2>2. written' = written \/ \E v \in Data : written' = Append(written, v) \/ written' = <<v>>
    BY DEF Handler, WriteMessage, WriteOutput, WriteMessageFails,
           WriteMessagePanics, WriteEofMessage, WriteError, HandlerReturns
  <2> QED
    BY <2>1, <2>2 DEF TypeOK
<1>6. /\ buffered' \in Seq(Chunk) /\ Len(buffered') <= MaxBuffered
      /\ wire' \in Seq(Chunk) /\ Len(wire') <= WireCap
  <2>1. /\ buffered \in Seq(Chunk) /\ Len(buffered) \in Nat /\ Len(buffered) <= MaxBuffered
        /\ wire \in Seq(Chunk) /\ Len(wire) \in Nat /\ Len(wire) <= WireCap
    BY DEF TypeOK
  <2>2. WireCap \in Nat /\ MaxBuffered \in Nat
    BY BoundsAssumption
  <2>3. <<>> \in Seq(Chunk) /\ Len(<<>>) <= MaxBuffered
    BY <2>2, ConcatEmpty
  <2>4. ASSUME NEW c \in Chunk
        PROVE  Append(buffered, c) \in Seq(Chunk) /\ Len(Append(buffered, c)) = Len(buffered) + 1
    BY <2>1, AppendElements
  <2>5. ASSUME NEW v \in Data, WriteMessage(v)
        PROVE  /\ buffered' = <<>> /\ wire' \in Seq(Chunk) /\ Len(wire') <= WireCap
    <3>1. /\ buffered' = <<>> /\ wire' = wire \o Append(buffered, DataFrame(v))
          /\ Len(wire) + Len(buffered) < WireCap
      BY <2>5 DEF WriteMessage
    <3>2. /\ wire' \in Seq(Chunk) /\ Len(wire') = Len(wire) + (Len(buffered) + 1)
      BY <2>1, <2>4, <3>1, ChunkTypes, ConcatElements
    <3> QED
      BY <2>1, <2>2, <3>1, <3>2
  <2>6. ASSUME WriteEofMessage \/ (\E v \in Data : WriteOutput(v))
        PROVE  /\ wire' = wire
               /\ buffered' \in Seq(Chunk) /\ Len(buffered') <= MaxBuffered
    <3>1. /\ wire' = wire /\ Len(buffered) < MaxBuffered
          /\ \/ buffered' = buffered
             \/ \E c \in Chunk : buffered' = Append(buffered, c)
      BY <2>6, ChunkTypes DEF WriteEofMessage, WriteOutput
    <3> QED
      BY <2>1, <2>2, <2>4, <3>1
  <2>7. ASSUME WriteMessageFails \/ WriteError \/ WriteMessagePanics
        PROVE  wire' = wire /\ (buffered' = buffered \/ buffered' = <<>>)
    BY <2>7 DEF WriteMessageFails, WriteError, WriteMessagePanics
  <2>8. ASSUME HandlerReturns
        PROVE  /\ buffered' = <<>> /\ wire' \in Seq(Chunk) /\ Len(wire') <= WireCap
    <3>1. /\ buffered' = <<>>
          /\ \/ wire' = wire
             \/ wire' = UnderWay /\ Len(wire) + Len(buffered) <= WireCap
      BY <2>8 DEF HandlerReturns, UnderWay
    <3> QED
      BY <2>1, <3>1, Lengths
  <2> QED
    BY <2>1, <2>3, <2>5, <2>6, <2>7, <2>8 DEF Handler
<1> QED
  BY <1>1, <1>2, <1>3, <1>4, <1>5, <1>6 DEF TypeOK

\* The value of a unary response is a value.
LEMMA UnaryValue ==
  ASSUME TypeOK, WriterState, sentHead = "unary"
  PROVE  head = "unary" /\ written \in Seq(Data) /\ Len(written) = 1 /\ written[1] \in Data
<1>1. head = "unary" /\ written \in Seq(Data) /\ Len(written) = 1
  BY DEF TypeOK, WriterState
<1> QED
  BY <1>1

\* Reading a unary body gives its value, or shows that it is more than that.
LEMMA UnaryRead ==
  ASSUME TypeOK, WriterState, UnaryWire, DoReads
  PROVE  \/ hand' = written[1] /\ hand' \in Data /\ ~garbled /\ garbled' = FALSE
         \/ hand' = None /\ garbled' = TRUE
<1>1. /\ do = "waiting" /\ sentHead = "unary" /\ wire # <<>>
      /\ \/ hand = None /\ ~garbled /\ hand' = wire[1].payload /\ garbled' = garbled
         \/ hand' = None /\ garbled' = TRUE
  BY DEF DoReads
<1>2. head = "unary" /\ written[1] \in Data
  BY <1>1, UnaryValue
<1>3. CASE hand = None /\ ~garbled /\ hand' = wire[1].payload /\ garbled' = garbled
  <2>1. wire \in Seq(Chunk) /\ buffered \in Seq(Chunk) /\ garbled \in BOOLEAN
    BY DEF TypeOK
  <2>2. Head(wire) = wire[1]
    BY <1>1, <2>1, TailElements
  <2>3. UnderWay # <<>> /\ UnderWay[1] = wire[1]
    BY <1>1, <2>1, <2>2, ConcatTail DEF UnderWay
  <2>4. wire[1] = RawChunk(written[1])
    BY <1>1, <1>2, <1>3, <2>3 DEF UnaryWire
  <2>5. wire[1].payload = written[1]
    BY <1>2, <2>4, ChunkTypes
  <2> QED
    BY <1>2, <1>3, <2>1, <2>5
<1> QED
  BY <1>1, <1>3

\* A unary body that has been read to its end and is not garbled is its value.
LEMMA UnaryBody ==
  ASSUME TypeOK, WriterState, EndState, UnaryWire, UnaryState,
         do = "waiting", sentHead = "unary", BodyRead, ~garbled
  PROVE  hand = written[1] /\ hand \in Data /\ finished
<1>1. head = "unary" /\ written[1] \in Data
  BY UnaryValue
<1>2. wire = <<>> /\ wireEnd = "clean" /\ buffered = <<>> /\ finished
  BY DEF BodyRead, EndState, WriterState
<1>3. <<>> \o <<>> = <<>>
  OBVIOUS
<1>4. UnderWay = <<>>
  BY <1>2, <1>3 DEF UnderWay
<1>5. hand # None
  BY <1>1, <1>2, <1>4 DEF UnaryWire
<1> QED
  BY <1>1, <1>2, <1>5 DEF UnaryState

\* What the goroutine does with what it reads keeps the types.
LEMMA PumpTypes ==
  ASSUME TypeOK, PumpReads
  PROVE  /\ wire \in Seq(Chunk) /\ wire # <<>> /\ Head(wire) \in Chunk
         /\ wire' = Tail(wire) /\ wire' \in Seq(Chunk) /\ Len(wire') = Len(wire) - 1
         /\ pump = "read" /\ pump' \in {"read", "send", "done"}
         /\ hand' \in Data \cup {None} /\ garbled' \in BOOLEAN
         /\ garbled => garbled'
         /\ result' \in {"none", "nil", "EOF", "unmarshal", "transport"}
         /\ pump' = "send" => hand' \in Data
         /\ pump' # "send" => hand' = hand
         /\ pump' = "done" => result' # "none"
         /\ pump' # "done" => result' = result
<1>1. wire \in Seq(Chunk) /\ wire # <<>> /\ wire' = Tail(wire) /\ pump = "read"
  BY DEF PumpReads, TypeOK
<1>2. Head(wire) \in Chunk /\ wire' \in Seq(Chunk) /\ Len(wire') = Len(wire) - 1
  BY <1>1, TailElements
<1>3. Head(wire).type = "data" => Head(wire).payload \in Data
  BY <1>2, ChunkTypes
<1>4. garbled \in BOOLEAN /\ hand \in Data \cup {None}
      /\ result \in {"none", "nil", "EOF", "unmarshal", "transport"}
  BY DEF TypeOK
<1>5. CASE ~garbled /\ garbled' = garbled /\ PumpReadsFrame(Head(wire))
  BY <1>1, <1>2, <1>3, <1>4, <1>5 DEF PumpReadsFrame, PumpReturns
<1>6. CASE PumpMisreads
  <2>1. garbled' = TRUE
    BY <1>6 DEF PumpMisreads
  <2> QED
    BY <1>1, <1>2, <1>4, <1>6, <2>1 DEF PumpMisreads, PumpReturns
<1> QED
  BY <1>5, <1>6 DEF PumpReads, PumpReadsFrame

\* The other steps keep the types.
LEMMA ClientType ==
  ASSUME TypeOK, WriterState, EndState, ClientState, UnaryWire, UnaryState,
         TransportAborts \/ Do \/ Pump \/ ConsumerTakes
  PROVE  TypeOK'
<1> USE DEF serverVars, wireVars, clientVars, writerVars
<1>0. <<>> \in Seq(Chunk) /\ Len(<<>>) = 0 /\ WireCap \in Nat
  BY BoundsAssumption
<1>1. CASE TransportAborts
  BY <1>1 DEF TypeOK, TransportAborts
<1>2. CASE DoStartsStream \/ DoReturnsBody \/ DoFails
  BY <1>2 DEF TypeOK, DoStartsStream, DoReturnsBody, DoFails
<1>3. CASE DoReads
  <2>1. /\ UNCHANGED <<serverVars, sentHead, wireEnd, do, pump, result, delivered>>
        /\ wire' = <<>>
    BY <1>3 DEF DoReads
  <2>2. hand' \in Data \cup {None} /\ garbled' \in BOOLEAN
    BY <1>3, UnaryRead
  <2> QED
    BY <1>0, <2>1, <2>2 DEF TypeOK
<1>4. CASE DoReadsBody
  <2>1. /\ UNCHANGED <<serverVars, wireVars, pump, garbled, result>>
        /\ do' = "decoded" /\ hand' = None
    BY <1>4 DEF DoReadsBody
  <2>2. delivered' \in Seq(Data)
    <3>1. CASE sentHead = "unary" /\ ~garbled
      <4>1. delivered' = <<hand>> /\ hand \in Data
        BY <1>4, <3>1, UnaryBody DEF DoReadsBody
      <4> QED
        BY <4>1
    <3>2. CASE ~(sentHead = "unary" /\ ~garbled)
      BY <1>4, <3>2 DEF DoReadsBody, TypeOK
    <3> QED
      BY <3>1, <3>2
  <2> QED
    BY <2>1, <2>2 DEF TypeOK
<1>5. CASE PumpReads
  <2>1. UNCHANGED <<serverVars, sentHead, wireEnd, do, delivered>>
    BY <1>5 DEF PumpReads
  <2>2. Len(wire') <= WireCap
    BY <1>0, <1>5, PumpTypes DEF TypeOK
  <2> QED
    BY <1>5, <2>1, <2>2, PumpTypes DEF TypeOK
<1>6. CASE PumpReadsEnd
  BY <1>6 DEF TypeOK, PumpReadsEnd, PumpReturns
<1>7. CASE ConsumerTakes
  <2>1. hand \in Data /\ delivered \in Seq(Data)
    BY <1>7 DEF ClientState, ConsumerTakes, TypeOK
  <2>2. delivered' \in Seq(Data)
    BY <1>7, <2>1, AppendElements DEF ConsumerTakes
  <2> QED
    BY <1>7, <2>2 DEF ConsumerTakes, TypeOK
<1> QED
  BY <1>1, <1>2, <1>3, <1>4, <1>5, <1>6, <1>7 DEF Do, Pump

\* Every step keeps the types.
LEMMA StepType ==
  /\ TypeOK /\ WriterState /\ EndState /\ ClientState /\ UnaryWire /\ UnaryState
  /\ [Next]_vars
  => TypeOK'
<1>1. TypeOK /\ UNCHANGED vars => TypeOK'
  BY DEF TypeOK, vars, serverVars, writerVars, wireVars, clientVars
<1> QED
  BY <1>1, HandlerType, ClientType DEF Next, Terminated

\* What the handler has written, and whether it has ended it, goes with the head.
LEMMA StepWriterState ==
  TypeOK /\ WriterState /\ EndState /\ [Next]_vars => WriterState'
<1> SUFFICES ASSUME TypeOK, WriterState, EndState, [Next]_vars PROVE WriterState'
  OBVIOUS
<1>1. CASE Handler
  <2>1. /\ handler = "serving" /\ head # "empty"
        /\ sentHead' \in {sentHead, head'}
        /\ head # "none" => head' = head /\ headersWritten' = TRUE
        /\ head = "none" => \/ head' \in {"stream", "unary", "error"} /\ headersWritten' = TRUE
                            \/ HandlerReturns
    BY <1>1, HeadSteps
  <2>2. /\ headersWritten' <=> head' \notin {"none", "empty"}
        /\ head' = "empty" => handler' = "returned"
    <3>1. CASE HandlerReturns
      BY <3>1 DEF HandlerReturns, WriterState
    <3>2. CASE ~HandlerReturns
      BY <2>1, <3>2
    <3> QED
      BY <3>1, <3>2
  <2>3. sentHead' # "none" => sentHead' = head'
    BY <2>1 DEF WriterState
  <2>4. head' \notin {"stream", "unary"} => written' = <<>> /\ ~finished'
    <3> SUFFICES ASSUME head' \notin {"stream", "unary"} PROVE written' = <<>> /\ ~finished'
      OBVIOUS
    <3>1. head \notin {"stream", "unary"}
      BY <2>1
    <3>2. written = <<>> /\ ~finished
      BY <3>1 DEF WriterState
    <3>3. ASSUME NEW v \in Data, WriteMessage(v) PROVE written' = written /\ finished' = finished
      BY <3>3 DEF WriteMessage
    <3>4. ASSUME NEW v \in Data, WriteOutput(v) PROVE written' = written /\ finished' = finished
      BY <3>1, <3>4 DEF WriteOutput, WriteHeader, WriterState, TypeOK
    <3>5. WriteMessageFails \/ WriteMessagePanics \/ WriteError
            => written' = written /\ finished' = finished
      BY DEF WriteMessageFails, WriteMessagePanics, WriteError
    <3>6. WriteEofMessage \/ HandlerReturns => written' = written /\ ~finished'
      BY <3>1, <3>2 DEF WriteEofMessage, HandlerReturns
    <3> QED
      BY <1>1, <3>2, <3>3, <3>4, <3>5, <3>6 DEF Handler
  <2>5. head' = "unary" => Len(written') = 1 /\ (finished' => handler' = "returned")
    <3> SUFFICES ASSUME head' = "unary"
                 PROVE  Len(written') = 1 /\ (finished' => handler' = "returned")
      OBVIOUS
    <3>1. CASE head = "none"
      <4>1. PICK v \in Data : WriteOutput(v)
        BY <1>1, <3>1, HeadSteps DEF HandlerReturns
      <4>2. written' = <<v>> /\ finished' = finished
        BY <3>1, <4>1 DEF WriteOutput, WriteHeader, ErrorHeaders, WriterState
      <4> QED
        BY <3>1, <4>2 DEF WriterState
    <3>2. CASE head # "none"
      <4>1. head = "unary" /\ Len(written) = 1 /\ ~finished
        BY <2>1, <3>2 DEF WriterState
      <4>2. ASSUME NEW v \in Data, WriteMessage(v) \/ WriteOutput(v)
            PROVE  written' = written /\ finished' = finished
        BY <4>1, <4>2 DEF WriteMessage, WriteOutput, WriterState
      <4>3. WriteMessageFails \/ WriteMessagePanics \/ WriteError
              => written' = written /\ finished' = finished
        BY DEF WriteMessageFails, WriteMessagePanics, WriteError
      <4>4. WriteEofMessage => written' = written /\ ~finished'
        BY <4>1 DEF WriteEofMessage
      <4>5. HandlerReturns => written' = written /\ handler' = "returned"
        BY DEF HandlerReturns
      <4> QED
        BY <1>1, <4>1, <4>2, <4>3, <4>4, <4>5 DEF Handler
    <3> QED
      BY <3>1, <3>2
  <2>6. /\ head' = "none" => buffered' = <<>>
        /\ handler' # "serving" => buffered' = <<>>
    <3>1. CASE HandlerReturns \/ WriteMessagePanics
      BY <3>1 DEF HandlerReturns, WriteMessagePanics
    <3>2. CASE ~(HandlerReturns \/ WriteMessagePanics)
      <4>1. handler' = handler
        BY <1>1, <3>2 DEF Handler, WriteMessage, WriteOutput, WriteMessageFails,
                          WriteEofMessage, WriteError
      <4>2. head' # "none"
        BY <2>1, <3>2
      <4> QED
        BY <2>1, <4>1, <4>2
    <3> QED
      BY <3>1, <3>2
  <2> QED
    BY <2>2, <2>3, <2>4, <2>5, <2>6 DEF WriterState
<1>2. CASE TransportAborts \/ Do \/ Pump \/ ConsumerTakes \/ UNCHANGED vars
  BY <1>2, ClientLeavesWriter DEF WriterState
<1> QED
  BY <1>1, <1>2 DEF Next, Terminated

\* The end of a body is written by the handler's return, and by nothing else.
LEMMA StepEndState ==
  TypeOK /\ WriterState /\ EndState /\ ClientState /\ [Next]_vars => EndState'
<1> SUFFICES ASSUME TypeOK, WriterState, EndState, ClientState, [Next]_vars PROVE EndState'
  OBVIOUS
<1> USE DEF serverVars, wireVars, clientVars, writerVars
<1>1. ASSUME NEW v \in Data, WriteMessage(v) PROVE EndState'
  <2>1. /\ sentHead' = head' /\ wireEnd = "open" /\ handler = "serving"
        /\ UNCHANGED <<handler, wireEnd>>
    BY <1>1 DEF WriteMessage
  <2>2. head' \notin {"none", "empty"}
    BY <1>1, HeadSteps DEF Handler, WriteMessage, HandlerReturns
  <2> QED
    BY <2>1, <2>2 DEF EndState
<1>2. CASE (\E v \in Data : WriteOutput(v)) \/ WriteMessageFails \/ WriteEofMessage
           \/ WriteError
  <2>1. UNCHANGED <<handler, wireEnd, sentHead, wire>> /\ handler = "serving"
    BY <1>2 DEF WriteOutput, WriteMessageFails, WriteEofMessage, WriteError
  <2> QED
    BY <2>1 DEF EndState
<1>3. CASE WriteMessagePanics
  BY <1>3 DEF WriteMessagePanics, EndState
<1>4. CASE HandlerReturns
  <2>1. /\ handler' = "returned" /\ finished' = (finished \/ head = "unary")
        /\ head' = (IF head = "none" THEN "empty" ELSE head)
        /\ \/ wireEnd = "aborted" /\ UNCHANGED wireVars
           \/ sentHead' = head' /\ wire' = wire \o buffered /\ wireEnd' = "clean"
    BY <1>4 DEF HandlerReturns
  <2>2. CASE wireEnd = "aborted" /\ UNCHANGED wireVars
    BY <2>1, <2>2 DEF EndState
  <2>3. CASE sentHead' = head' /\ wire' = wire \o buffered /\ wireEnd' = "clean"
    <3>1. head # "empty"
      BY <1>4, HeadSteps DEF Handler
    <3>2. sentHead' = "empty" => wire' = <<>>
      <4>1. sentHead' = "empty" => head = "none" /\ wire = <<>> /\ buffered = <<>>
        BY <2>1, <2>3, <3>1 DEF WriterState, EndState, TypeOK
      <4>2. <<>> \o <<>> = <<>>
        OBVIOUS
      <4> QED
        BY <2>3, <4>1, <4>2
    <3>3. sentHead' = "unary" => finished'
      BY <2>1, <2>3
    <3> QED
      BY <2>1, <2>3, <3>1, <3>2, <3>3 DEF EndState
  <2> QED
    BY <2>1, <2>2, <2>3
<1>5. CASE TransportAborts
  BY <1>5 DEF TransportAborts, EndState
<1>6. CASE Do \/ Pump \/ ConsumerTakes
  <2>1. UNCHANGED <<handler, finished, wireEnd, sentHead>>
    BY <1>6 DEF Do, DoStartsStream, DoReads, DoReadsBody, DoReturnsBody, DoFails,
                Pump, PumpReads, PumpReadsEnd, ConsumerTakes
  <2>2. wire' = wire \/ sentHead \notin {"none", "empty"}
    BY <1>6 DEF Do, DoStartsStream, DoReads, DoReadsBody, DoReturnsBody, DoFails,
                Pump, PumpReads, PumpReadsEnd, ConsumerTakes, ClientState
  <2> QED
    BY <2>1, <2>2 DEF EndState
<1>7. CASE UNCHANGED vars
  BY <1>7 DEF vars, EndState
<1> QED
  BY <1>1, <1>2, <1>3, <1>4, <1>5, <1>6, <1>7 DEF Next, Handler, Terminated

\* Every step keeps the recorded status that of the response.
LEMMA StepStats ==
  TypeOK /\ WriterState /\ StatsMatchHead /\ [Next]_vars => StatsMatchHead'
<1> SUFFICES ASSUME TypeOK, WriterState, StatsMatchHead, [Next]_vars, ~late'
             PROVE  StatsMatchHead'
  BY DEF StatsMatchHead
<1>1. CASE Handler
  <2>1. ~late
    BY <1>1, HeadSteps
  <2>2. CASE HandlerReturns /\ head = "none"
    BY <2>1, <2>2 DEF HandlerReturns, StatsMatchHead
  <2>3. CASE ~(HandlerReturns /\ head = "none")
    BY <1>1, <2>1, <2>3, HeadSteps DEF StatsMatchHead
  <2> QED
    BY <2>2, <2>3
<1>2. CASE TransportAborts \/ Do \/ Pump \/ ConsumerTakes \/ UNCHANGED vars
  BY <1>2, ClientLeavesWriter DEF StatsMatchHead
<1> QED
  BY <1>1, <1>2 DEF Next, Terminated

\* Every step keeps Do, its goroutine and the response head in agreement.
LEMMA StepClientState ==
  /\ TypeOK /\ WriterState /\ EndState /\ ClientState /\ UnaryWire /\ UnaryState
  /\ [Next]_vars
  => ClientState'
<1> SUFFICES ASSUME TypeOK, WriterState, EndState, ClientState, UnaryWire, UnaryState,
                    [Next]_vars
             PROVE  ClientState'
  OBVIOUS
<1>1. CASE Handler
  <2>1. UNCHANGED <<call, do, pump, hand, garbled, result, delivered>>
    BY <1>1, HandlerLeavesClient
  <2>2. sentHead' = sentHead \/ sentHead = "none"
    <3>1. sentHead' \in {sentHead, head'} /\ (head # "none" => head' = head)
      BY <1>1, HeadSteps
    <3> QED
      BY <3>1 DEF WriterState
  <2>3. finished => finished'
    <3>1. ASSUME NEW v \in Data, WriteMessage(v) \/ WriteOutput(v) PROVE finished' = finished
      BY <3>1 DEF WriteMessage, WriteOutput
    <3>2. WriteMessageFails \/ WriteMessagePanics \/ WriteError => finished' = finished
      BY DEF WriteMessageFails, WriteMessagePanics, WriteError
    <3>3. CASE WriteEofMessage
      BY <3>3, Zenon DEF WriteEofMessage
    <3>4. CASE HandlerReturns
      BY <3>4, Zenon DEF HandlerReturns
    <3> QED
      BY <1>1, <3>1, <3>2, <3>3, <3>4 DEF Handler
  <2> QED
    BY <2>1, <2>2, <2>3 DEF ClientState
<1> USE DEF serverVars, wireVars, clientVars, writerVars
<1>2. CASE TransportAborts
  BY <1>2 DEF TransportAborts, ClientState
<1>3. CASE DoStartsStream
  BY <1>3 DEF DoStartsStream, ClientState
<1>4. CASE DoReads
  <2>1. /\ UNCHANGED <<call, sentHead, finished, do, pump, result>>
        /\ sentHead = "unary" /\ do = "waiting"
    BY <1>4 DEF DoReads
  <2>2. pump # "send"
    BY <2>1 DEF ClientState
  <2> QED
    BY <2>1, <2>2 DEF ClientState
<1>5. CASE DoReadsBody
  <2>1. /\ UNCHANGED <<call, sentHead, finished, pump, garbled, result>>
        /\ do = "waiting" /\ do' = "decoded" /\ call = "unary" /\ hand' = None
        /\ sentHead = "unary" \/ (sentHead = "empty" /\ EmptyDecodes)
        /\ wireEnd = "clean"
    BY <1>5 DEF DoReadsBody, BodyRead
  <2>2. sentHead = "unary" => finished
    BY <2>1 DEF EndState
  <2>3. pump = "none"
    BY <2>1 DEF ClientState
  <2> QED
    BY <2>1, <2>2, <2>3 DEF ClientState
<1>6. CASE DoReturnsBody
  <2>1. /\ UNCHANGED <<call, sentHead, finished, pump, hand, garbled, result>>
        /\ do = "decoded" /\ do' = "ok"
    BY <1>6 DEF DoReturnsBody
  <2>2. sentHead \in {"unary", "empty"} /\ hand = None
    BY <2>1 DEF ClientState
  <2> QED
    BY <2>1, <2>2 DEF ClientState
<1>7. CASE DoFails
  <2>1. /\ UNCHANGED <<call, sentHead, finished, pump, hand, garbled, result>>
        /\ do = "waiting" /\ do' = "failed"
    BY <1>7 DEF DoFails
  <2> QED
    BY <2>1 DEF ClientState
<1>8. CASE PumpReads
  <2>1. UNCHANGED <<call, sentHead, finished, do>>
    BY <1>8 DEF PumpReads
  <2>2. /\ pump = "read" /\ pump' \in {"read", "send", "done"}
        /\ pump' = "send" => hand' \in Data
        /\ pump' # "send" => hand' = hand
        /\ pump' = "done" => result' # "none"
        /\ pump' # "done" => result' = result
    BY <1>8, PumpTypes
  <2>3. /\ do = "ok" /\ sentHead = "stream" /\ call = "stream" /\ result = "none"
        /\ hand = None
    BY <2>2 DEF ClientState
  <2> QED
    BY <2>1, <2>2, <2>3 DEF ClientState
<1>9. CASE PumpReadsEnd
  BY <1>9 DEF PumpReadsEnd, PumpReturns, ClientState
<1>10. CASE ConsumerTakes
  BY <1>10 DEF ConsumerTakes, ClientState
<1>11. CASE UNCHANGED vars
  BY <1>11 DEF vars, ClientState
<1> QED
  BY <1>1, <1>2, <1>3, <1>4, <1>5, <1>6, <1>7, <1>8, <1>9, <1>10, <1>11
     DEF Next, Do, Pump, Terminated
-----------------------------------------------------------------------------
(***************************************************************************)
(* Data, of a streaming response.                                          *)
(***************************************************************************)

\* A response's values are written one behind the other, and none any more once
\* it has been ended; what has been ended, and what is garbled, stays so.
LEMMA WrittenGrows ==
  ASSUME TypeOK, WriterState, [Next]_vars
  PROVE  /\ finished => finished' /\ written' = written
         /\ written' \in Seq(Data) /\ Len(written') >= Len(written)
         /\ \A i \in 1..Len(written) : written'[i] = written[i]
         /\ written' # written => finished' = finished
<1>0. written \in Seq(Data) /\ Len(written) \in Nat
  BY DEF TypeOK
<1>1. ASSUME NEW v \in Data
      PROVE  /\ Append(written, v) \in Seq(Data) /\ Len(Append(written, v)) >= Len(written)
             /\ \A i \in 1..Len(written) : Append(written, v)[i] = written[i]
  BY <1>0, AppendElements
<1>2. ASSUME NEW v \in Data, WriteMessage(v)
      PROVE  finished' = finished /\ (written' = written \/ (~finished /\ written' = Append(written, v)))
  BY <1>2 DEF WriteMessage
<1>3. ASSUME NEW v \in Data, WriteOutput(v)
      PROVE  finished' = finished /\ (written' = written \/ (~finished /\ written' = Append(written, v)))
  <2>1. finished' = finished /\ (written' = written \/ (~headersWritten /\ written' = <<v>>))
    BY <1>3 DEF WriteOutput
  <2>2. ~headersWritten => written = <<>> /\ ~finished
    BY DEF WriterState
  <2>3. written = <<>> => Append(written, v) = <<v>>
    OBVIOUS
  <2> QED
    BY <2>1, <2>2, <2>3
<1>4. WriteMessageFails \/ WriteMessagePanics \/ WriteError
        => finished' = finished /\ written' = written
  BY DEF WriteMessageFails, WriteMessagePanics, WriteError
<1>5. WriteEofMessage => (finished => finished') /\ written' = written
  BY Zenon DEF WriteEofMessage
<1>6. HandlerReturns => (finished => finished') /\ written' = written
  BY Zenon DEF HandlerReturns
<1>7. ASSUME TransportAborts \/ Do \/ Pump \/ ConsumerTakes \/ UNCHANGED vars
      PROVE  finished' = finished /\ written' = written
  BY <1>7, ClientLeavesWriter
<1>8. \/ /\ finished' = finished
         /\ \/ written' = written
            \/ ~finished /\ \E v \in Data : written' = Append(written, v)
      \/ (finished => finished') /\ written' = written
  BY <1>2, <1>3, <1>4, <1>5, <1>6, <1>7 DEF Next, Handler, Terminated
<1> QED
  BY <1>0, <1>1, <1>8

\* What is garbled stays so, and so does the response head.
LEMMA Stays ==
  ASSUME TypeOK, WriterState, [Next]_vars
  PROVE  /\ garbled => garbled'
         /\ head # "none" => head' = head
<1>1. CASE Handler
  <2>1. garbled' = garbled
    BY <1>1, HandlerLeavesClient
  <2>2. head # "none" => head' = head
    BY <1>1, HeadSteps
  <2> QED
    BY <2>1, <2>2
<1>2. CASE TransportAborts \/ Do \/ Pump \/ ConsumerTakes \/ UNCHANGED vars
  <2>1. head' = head
    BY <1>2, ClientLeavesWriter
  <2>2. garbled => garbled'
    <3>1. CASE PumpReads
      BY <3>1, PumpTypes
    <3>2. CASE DoReads
      BY <3>2 DEF DoReads
    <3>3. CASE ~PumpReads /\ ~DoReads
      BY <1>2, <3>3 DEF TransportAborts, Do, DoStartsStream, DoReadsBody, DoReturnsBody,
         DoFails, Pump, PumpReadsEnd, ConsumerTakes, vars, clientVars
    <3> QED
      BY <3>1, <3>2, <3>3
  <2> QED
    BY <2>1, <2>2
<1> QED
  BY <1>1, <1>2 DEF Next, Terminated

\* What the goroutine reads, as long as it can make anything of it, is the next
\* value, or the end of the stream when there is no next value.
LEMMA HeadIsNext ==
  ASSUME TypeOK, WriterState, ClientState, StreamState, StreamWire, PumpReads, ~garbled'
  PROVE  /\ head = "stream" /\ ~garbled /\ PumpReadsFrame(Head(wire))
         /\ \/ /\ Head(wire).type = "data"
               /\ Len(delivered) + 1 \in 1..Len(written)
               /\ Head(wire).payload = written[Len(delivered) + 1]
               /\ written[Len(delivered) + 1] \in Data
            \/ /\ Head(wire).type = "eof"
               /\ Len(delivered) = Len(written) /\ finished
<1>1. /\ wire \in Seq(Chunk) /\ wire # <<>> /\ Head(wire) \in Chunk
      /\ pump = "read" /\ (garbled => garbled')
  BY PumpTypes
<1>2. /\ Head(wire).type # "raw" /\ ~garbled /\ PumpReadsFrame(Head(wire))
  BY <1>1 DEF PumpReads, PumpMisreads
<1>3. head = "stream"
  BY <1>1 DEF ClientState, WriterState
<1>4. buffered \in Seq(Chunk)
  BY DEF TypeOK
<1>5. UnderWay # <<>> /\ Head(wire) = UnderWay[1] /\ UnderWay \in Seq(Chunk)
  BY <1>1, <1>4, ConcatTail, Lengths DEF UnderWay
<1>6. 1 \in 1..Len(UnderWay)
  BY <1>5, TailElements
<1>7. ValuesUntil(UnderWay, 1)
  BY DEF ValuesUntil
<1>8. Carries(UnderWay, written, Got, finished) /\ Got = Len(delivered)
  BY <1>1, <1>2, <1>3, Lengths DEF StreamWire
<1>9. /\ Head(wire).type = "data" => /\ Got + 1 <= Len(written)
                                     /\ Head(wire).payload = written[Got + 1]
      /\ Head(wire).type = "eof" => finished /\ Got + 1 - 1 = Len(written)
      /\ Head(wire).type # "keepAlive"
  BY <1>5, <1>6, <1>7, <1>8 DEF Carries
<1>10. Head(wire).type \in {"data", "eof"}
  BY <1>1, <1>2, <1>9, ChunkTypes
<1>11. CASE Head(wire).type = "data"
  <2>1. Len(delivered) + 1 \in 1..Len(written)
    BY <1>8, <1>9, <1>11, Lengths
  <2>2. written[Len(delivered) + 1] \in Data
    BY <2>1 DEF TypeOK
  <2> QED
    BY <1>2, <1>3, <1>8, <1>9, <1>11, <2>1, <2>2
<1>12. CASE Head(wire).type = "eof"
  <2>1. Len(delivered) = Len(written)
    BY <1>8, <1>9, <1>12, Lengths
  <2> QED
    BY <1>2, <1>3, <1>9, <1>12, <2>1
<1> QED
  BY <1>10, <1>11, <1>12

\* Only reading a value changes what the goroutine has got.
LEMMA GotStep ==
  ASSUME TypeOK, ClientState, [Next]_vars, ~garbled', head' # "unary", WriterState
  PROVE  \/ PumpReads
         \/ Got' = Got /\ (pump' # "done" => pump # "done")
<1>1. CASE Handler \/ TransportAborts \/ DoReads \/ DoReturnsBody \/ DoFails \/ UNCHANGED vars
  <2>1. UNCHANGED <<pump, delivered>>
    BY <1>1, HandlerLeavesClient
       DEF TransportAborts, DoReads, DoReturnsBody, DoFails, vars, clientVars
  <2> QED
    BY <2>1 DEF Got
<1>2. CASE DoStartsStream
  <2>1. delivered' = delivered /\ pump' = "read" /\ pump = "none"
    BY <1>2 DEF DoStartsStream, ClientState
  <2> QED
    BY <2>1 DEF Got
<1>3. CASE DoReadsBody
  <2>1. head' = head /\ pump' = pump
    BY <1>3 DEF DoReadsBody, serverVars, writerVars
  <2>2. sentHead # "unary"
    BY <2>1 DEF WriterState
  <2>3. delivered' = delivered
    BY <1>3, <2>2 DEF DoReadsBody
  <2> QED
    BY <2>1, <2>3 DEF Got
<1>4. CASE PumpReadsEnd
  BY <1>4 DEF PumpReadsEnd, PumpReturns, Got
<1>5. CASE ConsumerTakes
  <2>1. ~garbled
    BY Stays
  <2>2. /\ pump = "send" /\ pump' = "read" /\ delivered' = Append(delivered, hand)
        /\ hand \in Data /\ delivered \in Seq(Data)
    BY <1>5, <2>1 DEF ConsumerTakes, ClientState, TypeOK
  <2>3. Len(delivered') = Len(delivered) + 1
    BY <2>2, AppendElements
  <2> QED
    BY <2>2, <2>3, Lengths DEF Got
<1> QED
  BY <1>1, <1>2, <1>3, <1>4, <1>5 DEF Next, Do, Pump, Terminated

\* What the consumer is given stays a prefix of what the handler wrote, and
\* what it is being given the value that comes next.
LEMMA StepStreamState ==
  /\ TypeOK /\ WriterState /\ ClientState /\ StreamState /\ StreamWire /\ [Next]_vars
  => StreamState'
<1> SUFFICES ASSUME TypeOK, WriterState, ClientState, StreamState, StreamWire, [Next]_vars,
                    head' # "unary", ~garbled'
             PROVE  /\ Got' <= Len(written')
                    /\ \A i \in 1..Len(delivered') : delivered'[i] = written'[i]
                    /\ pump' = "send" => hand' = written'[Got']
  BY DEF StreamState
<1>0. /\ Got <= Len(written)
      /\ \A i \in 1..Len(delivered) : delivered[i] = written[i]
      /\ pump = "send" => hand = written[Got]
      /\ ~garbled
  BY Stays DEF StreamState
<1>1. /\ Len(written') >= Len(written) /\ Len(written') \in Nat
      /\ \A i \in 1..Len(written) : written'[i] = written[i]
  BY WrittenGrows
<1>2. /\ Got \in Nat /\ Len(delivered) \in Nat /\ Len(written) \in Nat
      /\ Len(delivered) <= Len(written)
      /\ pump = "send" => Got = Len(delivered) + 1 /\ Got \in 1..Len(written)
  BY <1>0, Lengths
<1>3. CASE PumpReads
  <2>1. /\ UNCHANGED <<written, delivered>> /\ pump = "read"
        /\ pump' = "send" => /\ Head(wire).type = "data" /\ hand' = Head(wire).payload
    BY <1>3, HeadIsNext DEF PumpReads, PumpReadsFrame, PumpReturns, serverVars
  <2>2. CASE pump' = "send"
    <3>1. Len(delivered) + 1 \in 1..Len(written) /\ hand' = written[Len(delivered) + 1]
      BY <1>3, <2>1, <2>2, HeadIsNext
    <3>2. Got' = Len(delivered) + 1
      BY <2>1, <2>2 DEF Got
    <3> QED
      BY <1>0, <1>2, <2>1, <3>1, <3>2
  <2>3. CASE pump' # "send"
    <3>1. Got' = Len(delivered)
      BY <1>2, <2>1, <2>3 DEF Got
    <3> QED
      BY <1>0, <1>2, <2>1, <2>3, <3>1
  <2> QED
    BY <2>2, <2>3
<1>4. CASE ConsumerTakes
  <2>1. /\ pump = "send" /\ pump' = "read" /\ written' = written
        /\ delivered' = Append(delivered, hand)
        /\ hand \in Data /\ delivered \in Seq(Data)
    BY <1>0, <1>4 DEF ConsumerTakes, serverVars, ClientState, TypeOK
  <2>2. /\ Len(delivered') = Len(delivered) + 1
        /\ \A i \in 1..Len(delivered) : delivered'[i] = delivered[i]
        /\ delivered'[Len(delivered) + 1] = hand
    BY <2>1, AppendElements
  <2>3. Got' = Len(delivered) + 1
    BY <1>2, <2>1, <2>2 DEF Got
  <2>4. hand = written[Len(delivered) + 1] /\ Len(delivered) + 1 <= Len(written)
    BY <1>0, <1>2, <2>1
  <2>5. \A i \in 1..Len(delivered') : delivered'[i] = written'[i]
    BY <1>0, <1>2, <2>1, <2>2, <2>4
  <2> QED
    BY <2>1, <2>3, <2>4, <2>5
<1>5. CASE ~PumpReads /\ ~ConsumerTakes
  <2>1. Got' = Got
    BY <1>5, GotStep
  <2>2. /\ delivered' = delivered
        /\ pump' = "send" => pump = "send" /\ hand' = hand
    <3>1. CASE Handler
      BY <3>1, HandlerLeavesClient
    <3>2. CASE DoReadsBody
      <4>1. head' = head /\ pump' = pump /\ do = "waiting"
        BY <3>2 DEF DoReadsBody, serverVars, writerVars
      <4>2. sentHead # "unary" /\ pump = "none"
        BY <4>1 DEF WriterState, ClientState
      <4> QED
        BY <3>2, <4>1, <4>2 DEF DoReadsBody
    <3>3. CASE DoReads
      <4>1. delivered' = delivered /\ pump' = pump /\ do = "waiting"
        BY <3>3 DEF DoReads
      <4> QED
        BY <4>1 DEF ClientState
    <3>4. CASE TransportAborts \/ DoStartsStream \/ DoReturnsBody \/ DoFails \/ PumpReadsEnd
               \/ UNCHANGED vars
      BY <3>4 DEF TransportAborts, DoStartsStream, DoReturnsBody, DoFails, PumpReadsEnd,
                  PumpReturns, vars, clientVars
    <3> QED
      BY <1>5, <3>1, <3>2, <3>3, <3>4 DEF Next, Do, Pump, Terminated
  <2>3. \A i \in 1..Len(delivered') : delivered'[i] = written'[i]
    BY <1>0, <1>1, <1>2, <2>2
  <2>4. Got' <= Len(written')
    BY <1>0, <1>1, <1>2, <2>1
  <2>5. pump' = "send" => hand' = written'[Got']
    BY <1>0, <1>1, <1>2, <2>1, <2>2
  <2> QED
    BY <2>3, <2>4, <2>5
<1> QED
  BY <1>3, <1>4, <1>5

\* A chunk is written while there are only values under way.
LEMMA UpToDateAppended ==
  ASSUME NEW w \in Seq(Chunk), NEW c \in Chunk, NEW n \in Nat,
         ValuesUntil(Append(w, c), n), n > Len(w) + 1
  PROVE  ValuesUntil(w, Len(w) + 1) /\ c.type = "data"
<1>1. /\ Len(w) \in Nat
      /\ \A i \in 1..Len(w) : Append(w, c)[i] = w[i]
      /\ Append(w, c)[Len(w) + 1] = c
  BY AppendElements
<1>2. ASSUME NEW j \in 1..Len(w) PROVE w[j].type = "data"
  <2>1. j \in 1..n - 1 /\ Append(w, c)[j] = w[j]
    BY <1>1
  <2> QED
    BY <2>1 DEF ValuesUntil
<1>3. c.type = "data"
  <2>1. Len(w) + 1 \in 1..n - 1
    BY <1>1
  <2> QED
    BY <1>1, <2>1 DEF ValuesUntil
<1>4. 1..Len(w) + 1 - 1 = 1..Len(w)
  BY <1>1
<1> QED
  BY <1>2, <1>3, <1>4 DEF ValuesUntil

\* The handler's steps put what comes next behind what is under way.
LEMMA HandlerStreamWire ==
  ASSUME TypeOK, WriterState, StreamState, StreamWire, Handler,
         head' \in {"none", "stream"}, ~garbled', pump' # "done", Got' = Got
  PROVE  StreamWire'
<1>0. /\ ~garbled /\ pump # "done" /\ handler = "serving" /\ head \in {"none", "stream"}
      /\ head' = "stream"
  <2>1. garbled' = garbled /\ pump' = pump
    BY HandlerLeavesClient
  <2>2. /\ handler = "serving"
        /\ head # "none" => head' = head
        /\ head = "none" => head' \in {"stream", "unary", "error", "empty"}
    BY HeadSteps DEF HandlerReturns
  <2> QED
    BY <2>1, <2>2
<1>1. /\ Carries(UnderWay, written, Got, finished)
      /\ IsUpToDate(UnderWay, written, Got, finished)
  BY <1>0 DEF StreamWire
<1>2. /\ UnderWay \in Seq(Chunk) /\ written \in Seq(Data) /\ written' \in Seq(Data)
      /\ Got \in Nat /\ Len(UnderWay) \in Nat /\ Len(written) \in Nat
  BY Lengths, WrittenGrows DEF TypeOK, Next
<1>3. ASSUME NEW c \in Chunk, c.type # "data", UnderWay' = Append(UnderWay, c),
             written' = written, finished => finished',
             c.type = "eof" => finished', c.type # "keepAlive"
      PROVE  StreamWire'
  <2>1. Carries(UnderWay, written', Got, finished')
    BY <1>1, <1>2, <1>3, CarriesOn
  <2>2. ValuesUntil(UnderWay, Len(UnderWay) + 1) => Got + Len(UnderWay) = Len(written)
    BY <1>1 DEF IsUpToDate
  <2>3. Carries(Append(UnderWay, c), written', Got, finished')
    BY <1>2, <1>3, <2>1, <2>2, CarriesAppended
  <2>4. Len(Append(UnderWay, c)) = Len(UnderWay) + 1
    BY <1>2, AppendElements
  <2>5. ~ValuesUntil(Append(UnderWay, c), Len(Append(UnderWay, c)) + 1)
    <3>1. Len(UnderWay) + 1 + 1 \in Nat /\ Len(UnderWay) + 1 + 1 > Len(UnderWay) + 1
      BY <1>2
    <3>2. ~ValuesUntil(Append(UnderWay, c), Len(UnderWay) + 1 + 1)
      BY <1>2, <1>3, <3>1, UpToDateAppended
    <3> QED
      BY <2>4, <3>2
  <2> QED
    BY <1>3, <2>3, <2>5 DEF StreamWire, IsUpToDate
<1>4. ASSUME NEW v \in Data, WriteMessage(v) PROVE StreamWire'
  <2>1. /\ UnderWay' = Append(UnderWay, DataFrame(v)) /\ DataFrame(v) \in Chunk
        /\ DataFrame(v).type = "data" /\ DataFrame(v).payload = v
        /\ finished' = finished
        /\ written' = IF finished THEN written ELSE Append(written, v)
    BY <1>0, <1>4, Puts, ChunkTypes DEF WriteMessage
  <2>2. /\ Len(written') >= Len(written) /\ \A i \in 1..Len(written) : written'[i] = written[i]
        /\ finished => written' = written
        /\ ~finished => Len(written') = Len(written) + 1 /\ written'[Len(written')] = v
    BY <1>2, <2>1, AppendElements
  <2>3. Carries(UnderWay, written', Got, finished')
    BY <1>1, <1>2, <2>1, <2>2, CarriesOn
  <2>4. ValuesUntil(UnderWay, Len(UnderWay) + 1) =>
           /\ Got + Len(UnderWay) = Len(written) /\ ~finished
           /\ Got + Len(UnderWay) + 1 = Len(written') /\ v = written'[Len(written')]
    <3>1. ValuesUntil(UnderWay, Len(UnderWay) + 1) =>
            Got + Len(UnderWay) = Len(written) /\ ~finished
      BY <1>1 DEF IsUpToDate
    <3> QED
      BY <1>2, <2>2, <3>1
  <2>5. Carries(Append(UnderWay, DataFrame(v)), written', Got, finished')
    BY <1>2, <2>1, <2>3, <2>4, CarriesAppended
  <2>6. IsUpToDate(UnderWay', written', Got, finished')
    <3>1. Len(UnderWay') = Len(UnderWay) + 1
      BY <1>2, <2>1, AppendElements
    <3>2. ASSUME ValuesUntil(UnderWay', Len(UnderWay') + 1)
          PROVE  Got + Len(UnderWay') = Len(written') /\ ~finished'
      <4>1. Len(UnderWay') + 1 \in Nat /\ Len(UnderWay') + 1 > Len(UnderWay) + 1
        BY <1>2, <3>1
      <4>2. ValuesUntil(UnderWay, Len(UnderWay) + 1)
        BY <1>2, <2>1, <3>2, <4>1, UpToDateAppended
      <4>3. Got + Len(UnderWay') = Len(written')
        BY <1>2, <2>4, <3>1, <4>2
      <4> QED
        BY <2>1, <2>4, <4>2, <4>3
    <3> QED
      BY <3>2 DEF IsUpToDate
  <2> QED
    BY <2>1, <2>5, <2>6 DEF StreamWire
<1>5. ASSUME NEW v \in Data, WriteOutput(v) PROVE StreamWire'
  <2>1. /\ UNCHANGED <<handler, finished>>
        /\ headersWritten => written' = written
    BY <1>5 DEF WriteOutput
  <2>2. headersWritten
    BY <1>0, <1>5 DEF WriteOutput, ErrorHeaders, WriteHeader, WriterState
  <2>3. \/ UnderWay' = UnderWay
        \/ \E c \in Chunk : c.type = "raw" /\ UnderWay' = Append(UnderWay, c)
    BY <1>5, Puts, ChunkTypes
  <2>4. CASE UnderWay' = UnderWay
    BY <1>1, <2>1, <2>2, <2>4 DEF StreamWire
  <2>5. CASE UnderWay' # UnderWay
    <3>1. PICK c \in Chunk : c.type = "raw" /\ UnderWay' = Append(UnderWay, c)
      BY <2>3, <2>5
    <3> QED
      BY <1>3, <2>1, <2>2, <3>1
  <2> QED
    BY <2>4, <2>5
<1>6. CASE WriteMessageFails \/ WriteError
  <2>1. UNCHANGED <<written, finished>> /\ UnderWay' = UnderWay
    BY <1>6, Puts DEF WriteMessageFails, WriteError
  <2> QED
    BY <1>1, <2>1 DEF StreamWire
<1>7. CASE WriteEofMessage
  <2>1. /\ written' = written /\ UnderWay' = Append(UnderWay, EofFrame)
        /\ EofFrame \in Chunk /\ EofFrame.type = "eof"
    BY <1>7, Puts, ChunkTypes DEF WriteEofMessage
  <2>2. finished' = TRUE
    BY <1>0, <1>7, Zenon DEF WriteEofMessage
  <2> QED
    BY <1>3, <2>1, <2>2
<1>8. CASE WriteMessagePanics \/ HandlerReturns
  <2>1. /\ written' = written /\ handler' # "serving"
        /\ UnderWay' = wire \/ UnderWay' = UnderWay
    BY <1>8, Puts DEF WriteMessagePanics, HandlerReturns
  <2>2. finished => finished'
    BY WrittenGrows DEF Next
  <2>3. Carries(wire, written, Got, finished)
    <3>1. wire \in Seq(Chunk) /\ buffered \in Seq(Chunk)
      BY DEF TypeOK
    <3> QED
      BY <1>1, <1>2, <3>1, CarriesFlushed DEF UnderWay
  <2>4. wire \in Seq(Chunk)
    BY DEF TypeOK
  <2>5. \A x \in {wire, UnderWay} : Carries(x, written, Got, finished')
    <3> TAKE x \in {wire, UnderWay}
    <3>1. Carries(x, written, Got, finished) /\ x \in Seq(Chunk)
      BY <1>1, <1>2, <2>3, <2>4
    <3>2. \A i \in 1..Len(written) : written[i] = written[i]
      OBVIOUS
    <3>3. Len(written) >= Len(written)
      BY <1>2
    <3> QED
      BY <1>2, <2>2, <3>1, <3>2, <3>3, CarriesOn
  <2> QED
    BY <2>1, <2>5 DEF StreamWire
<1> QED
  BY <1>4, <1>5, <1>6, <1>7, <1>8, Handler DEF Handler

\* Every step keeps under way what the goroutine has not got yet.
LEMMA StepStreamWire ==
  /\ TypeOK /\ WriterState /\ ClientState /\ StreamState /\ StreamWire /\ [Next]_vars
  => StreamWire'
<1> SUFFICES ASSUME TypeOK, WriterState, ClientState, StreamState, StreamWire, [Next]_vars,
                    head' \in {"none", "stream"}, ~garbled', pump' # "done"
             PROVE  StreamWire'
  BY DEF StreamWire
<1>0. ~garbled /\ head \in {"none", "stream"}
  <2>1. ~garbled /\ (head # "none" => head' = head)
    BY Stays
  <2> QED
    BY <2>1
<1>1. CASE PumpReads
  <2>1. /\ head = "stream" /\ PumpReadsFrame(Head(wire)) /\ Head(wire).type \in {"data", "eof"}
    BY <1>1, HeadIsNext
  <2>2. Head(wire).type = "data" /\ pump' = "send"
    BY <2>1 DEF PumpReadsFrame, PumpReturns
  <2>3. /\ wire \in Seq(Chunk) /\ wire # <<>> /\ buffered \in Seq(Chunk)
        /\ wire' = Tail(wire) /\ UNCHANGED <<handler, buffered, written, finished, delivered>>
        /\ pump = "read"
    BY <1>1 DEF PumpReads, TypeOK, serverVars
  <2>4. /\ UnderWay' = Tail(UnderWay) /\ UnderWay[1].type = "data" /\ UnderWay # <<>>
        /\ UnderWay \in Seq(Chunk)
    BY <2>2, <2>3, ConcatTail, Lengths DEF UnderWay
  <2>5. Got' = Got + 1 /\ Got \in Nat /\ written \in Seq(Data)
    BY <2>2, <2>3, Lengths DEF Got, TypeOK
  <2>6. /\ Carries(UnderWay, written, Got, finished)
        /\ handler = "serving" => IsUpToDate(UnderWay, written, Got, finished)
    BY <1>0, <2>3 DEF StreamWire
  <2>7. /\ Carries(Tail(UnderWay), written, Got + 1, finished)
        /\ handler = "serving" => IsUpToDate(Tail(UnderWay), written, Got + 1, finished)
    BY <2>4, <2>5, <2>6, CarriesTail
  <2> QED
    BY <2>3, <2>4, <2>5, <2>7 DEF StreamWire
<1>2. CASE ~PumpReads
  <2>1. Got' = Got /\ pump # "done"
    BY <1>2, GotStep
  <2>2. CASE Handler
    BY <2>1, <2>2, HandlerStreamWire
  <2>3. CASE TransportAborts \/ Do \/ PumpReadsEnd \/ ConsumerTakes \/ UNCHANGED vars
    <3>1. UNCHANGED <<handler, head, sentHead, written, finished, buffered>>
      BY <2>3, ClientLeavesWriter DEF Pump
    <3>2. sentHead # "unary"
      BY <1>0 DEF WriterState
    <3>3. wire' = wire
      BY <2>3, <3>2 DEF TransportAborts, Do, DoStartsStream, DoReads, DoReadsBody,
         DoReturnsBody, DoFails, PumpReadsEnd, ConsumerTakes, vars, wireVars
    <3>4. UnderWay' = UnderWay
      BY <3>1, <3>3 DEF UnderWay
    <3> QED
      BY <1>0, <2>1, <3>1, <3>4 DEF StreamWire
  <2> QED
    BY <1>2, <2>2, <2>3 DEF Next, Pump, Terminated
<1> QED
  BY <1>1, <1>2
-----------------------------------------------------------------------------
(***************************************************************************)
(* Data, of a unary response.                                              *)
(***************************************************************************)

\* A response becomes unary by WriteOutput, while nothing is under way.
LEMMA UnaryBegins ==
  ASSUME TypeOK, WriterState, EndState, ClientState, StreamState, Handler,
         head # "unary", head' = "unary"
  PROVE  /\ UnderWay = <<>> /\ written = <<>> /\ delivered = <<>> /\ hand = None /\ ~garbled
         /\ do \in {"waiting", "failed"}
         /\ \E v \in Data : /\ written' = <<v>> /\ written'[1] = v
                            /\ UnderWay' = Append(UnderWay, RawChunk(v))
<1>1. head = "none"
  BY HeadSteps
<1>2. ~headersWritten /\ buffered = <<>> /\ sentHead = "none" /\ written = <<>>
  BY <1>1 DEF WriterState
<1>3. wire = <<>> /\ do \in {"waiting", "failed"} /\ pump = "none" /\ hand = None /\ ~garbled
  BY <1>1, <1>2 DEF EndState, ClientState, WriterState, TypeOK
<1>4. Len(<<>>) = 0 /\ <<>> \o <<>> = <<>>
  OBVIOUS
<1>5. Len(delivered) <= 0 /\ delivered \in Seq(Data)
  BY <1>1, <1>2, <1>3, <1>4 DEF StreamState, Got, TypeOK
<1>6. delivered = <<>>
  BY <1>5
<1>7. PICK v \in Data : WriteOutput(v)
  BY <1>1, HeadSteps DEF HandlerReturns
<1>8. v \notin Unmarshalable /\ written' = <<v>>
  BY <1>1, <1>2, <1>7 DEF WriteOutput, ErrorHeaders, WriteHeader
<1>9. UnderWay' = Append(UnderWay, RawChunk(v))
  BY <1>7, <1>8, Puts
<1>10. UnderWay = <<>>
  BY <1>2, <1>3, <1>4 DEF UnderWay
<1>11. <<v>>[1] = v
  OBVIOUS
<1> QED
  BY <1>2, <1>3, <1>6, <1>8, <1>9, <1>10, <1>11

\* A unary response's value is not written again.
LEMMA UnaryWritten ==
  ASSUME TypeOK, WriterState, head = "unary", Handler
  PROVE  written' = written /\ head' = "unary"
<1>1. headersWritten /\ head' = "unary"
  BY HeadSteps DEF WriterState
<1>2. ASSUME NEW v \in Data, WriteMessage(v) \/ WriteOutput(v) PROVE written' = written
  BY <1>1, <1>2 DEF WriteMessage, WriteOutput
<1>3. WriteMessageFails \/ WriteMessagePanics \/ WriteEofMessage \/ WriteError \/ HandlerReturns
        => written' = written
  BY DEF WriteMessageFails, WriteMessagePanics, WriteEofMessage, WriteError, HandlerReturns
<1> QED
  BY <1>1, <1>2, <1>3 DEF Handler

\* Only Do touches a unary response on the client.
LEMMA UnaryIsDos ==
  ASSUME WriterState, ClientState, head = "unary", DoStartsStream \/ Pump \/ ConsumerTakes
  PROVE  FALSE
<1>1. sentHead = "stream"
  BY DEF DoStartsStream, Pump, PumpReads, PumpReadsEnd, ConsumerTakes, ClientState
<1> QED
  BY <1>1 DEF WriterState

\* Every step keeps the value of a unary response first under way until Do has
\* read it.
LEMMA StepUnaryWire ==
  /\ TypeOK /\ WriterState /\ EndState /\ ClientState /\ StreamState /\ UnaryWire /\ UnaryState
  /\ [Next]_vars
  => UnaryWire'
<1> SUFFICES ASSUME TypeOK, WriterState, EndState, ClientState, StreamState, UnaryWire,
                    UnaryState, [Next]_vars,
                    head' = "unary", do' = "waiting", ~garbled', hand' = None
             PROVE  /\ handler' = "serving" \/ wireEnd' = "clean" => UnderWay' # <<>>
                    /\ UnderWay' # <<>> => UnderWay'[1] = RawChunk(written'[1])
  BY DEF UnaryWire
<1>0. UnderWay \in Seq(Chunk)
  BY Lengths
<1>1. ASSUME NEW c \in Chunk, UnderWay' = Append(UnderWay, c)
      PROVE  /\ UnderWay' # <<>>
             /\ UnderWay # <<>> => UnderWay'[1] = UnderWay[1]
             /\ UnderWay = <<>> => UnderWay'[1] = c
  <2>1. /\ Len(UnderWay') = Len(UnderWay) + 1 /\ Len(UnderWay) \in Nat /\ Len(<<>>) = 0
        /\ \A i \in 1..Len(UnderWay) : UnderWay'[i] = UnderWay[i]
        /\ UnderWay'[Len(UnderWay) + 1] = c
    BY <1>0, <1>1, AppendElements
  <2>2. UnderWay' # <<>>
    <3>1. Len(UnderWay') # Len(<<>>)
      BY <2>1
    <3> QED
      BY <3>1
  <2>3. UnderWay # <<>> => 1 \in 1..Len(UnderWay)
    BY <1>0, TailElements
  <2> QED
    BY <2>1, <2>2, <2>3
<1>2. CASE Handler
  <2>1. do = "waiting" /\ ~garbled /\ hand = None /\ handler = "serving"
    <3>1. UNCHANGED <<do, garbled, hand>>
      BY <1>2, HandlerLeavesClient
    <3>2. handler = "serving"
      BY <1>2, HeadSteps
    <3> QED
      BY <3>1, <3>2
  <2>2. CASE head # "unary"
    <3>1. UnderWay = <<>>
      BY <1>2, <2>2, UnaryBegins
    <3>2. PICK v \in Data : /\ written' = <<v>> /\ written'[1] = v
                            /\ UnderWay' = Append(UnderWay, RawChunk(v))
      BY <1>2, <2>2, UnaryBegins
    <3>3. RawChunk(v) \in Chunk
      BY ChunkTypes
    <3> QED
      BY <1>1, <3>1, <3>2, <3>3
  <2>3. CASE head = "unary"
    <3>1. written' = written /\ UnderWay # <<>> /\ UnderWay[1] = RawChunk(written[1])
      BY <1>2, <2>1, <2>3, UnaryWritten DEF UnaryWire
    <3>2. \/ UnderWay' = UnderWay
          \/ \E c \in Chunk : UnderWay' = Append(UnderWay, c)
          \/ UnderWay' = wire /\ handler' # "serving" /\ wireEnd' # "clean"
      <4>1. ASSUME HandlerReturns
            PROVE  \/ UnderWay' = UnderWay
                   \/ UnderWay' = wire /\ handler' # "serving" /\ wireEnd' # "clean"
        <5>1. CASE wireEnd = "aborted"
          BY <4>1, <5>1, Puts DEF HandlerReturns, wireVars
        <5>2. CASE wireEnd # "aborted"
          BY <4>1, <5>2, Puts
        <5> QED
          BY <5>1, <5>2
      <4>2. ASSUME WriteMessagePanics
            PROVE  UnderWay' = wire /\ handler' # "serving" /\ wireEnd' # "clean"
        BY <4>2, Puts DEF WriteMessagePanics
      <4>3. ASSUME NEW v \in Data, WriteMessage(v) \/ WriteOutput(v)
            PROVE  \/ UnderWay' = UnderWay
                   \/ \E c \in Chunk : UnderWay' = Append(UnderWay, c)
        BY <4>3, Puts, ChunkTypes
      <4>4. ASSUME WriteEofMessage PROVE \E c \in Chunk : UnderWay' = Append(UnderWay, c)
        BY <4>4, Puts, ChunkTypes
      <4>5. ASSUME WriteMessageFails \/ WriteError PROVE UnderWay' = UnderWay
        BY <4>5, Puts
      <4> QED
        BY <1>2, <4>1, <4>2, <4>3, <4>4, <4>5 DEF Handler
    <3>3. wire # <<>> => wire[1] = UnderWay[1]
      <4>1. wire \in Seq(Chunk) /\ buffered \in Seq(Chunk)
        BY DEF TypeOK
      <4> QED
        BY <4>1, ConcatTail, TailElements DEF UnderWay
    <3> QED
      BY <1>1, <3>1, <3>2, <3>3
  <2> QED
    BY <2>2, <2>3
<1>3. CASE DoReads
  <2>1. hand' \in Data \/ garbled'
    BY <1>3, UnaryRead
  <2> QED
    BY <2>1, DataAssumption
<1>4. CASE TransportAborts \/ UNCHANGED vars
  <2>1. UNCHANGED <<handler, head, written, buffered, wire, do, hand, garbled>>
    BY <1>4 DEF TransportAborts, vars, serverVars, writerVars, wireVars, clientVars
  <2>2. UnderWay' = UnderWay /\ (wireEnd' = "clean" => wireEnd = "clean")
    BY <1>4, <2>1 DEF UnderWay, TransportAborts, vars, wireVars
  <2> QED
    BY <2>1, <2>2 DEF UnaryWire
<1>5. CASE DoStartsStream \/ DoReadsBody \/ DoReturnsBody \/ DoFails
  BY <1>5 DEF DoStartsStream, DoReadsBody, DoReturnsBody, DoFails
<1>6. CASE Pump \/ ConsumerTakes
  <2>1. head = "unary"
    BY <1>6, ClientLeavesWriter
  <2> QED
    BY <1>6, <2>1, UnaryIsDos
<1> QED
  BY <1>2, <1>3, <1>4, <1>5, <1>6 DEF Next, Do, Terminated

\* Every step keeps the value of a unary response where it belongs: with Do, or
\* with the caller of Do.
LEMMA StepUnaryState ==
  /\ TypeOK /\ WriterState /\ EndState /\ ClientState /\ StreamState /\ UnaryWire /\ UnaryState
  /\ [Next]_vars
  => UnaryState'
<1> SUFFICES ASSUME TypeOK, WriterState, EndState, ClientState, StreamState, UnaryWire,
                    UnaryState, [Next]_vars, head' = "unary"
             PROVE  /\ hand' # None => hand' = written'[1]
                    /\ delivered' = IF do' \in {"decoded", "ok"} /\ ~garbled'
                                    THEN written' ELSE <<>>
  BY DEF UnaryState
<1>1. CASE Handler
  <2>1. UNCHANGED <<do, hand, garbled, delivered>>
    BY <1>1, HandlerLeavesClient
  <2>2. CASE head # "unary"
    <3>1. delivered = <<>> /\ hand = None /\ do \in {"waiting", "failed"}
      BY <1>1, <2>2, UnaryBegins
    <3> QED
      BY <2>1, <3>1
  <2>3. CASE head = "unary"
    BY <1>1, <2>1, <2>3, UnaryWritten DEF UnaryState
  <2> QED
    BY <2>2, <2>3
<1>2. CASE TransportAborts \/ Do \/ Pump \/ ConsumerTakes \/ UNCHANGED vars
  <2>1. head = "unary" /\ written' = written /\ sentHead' = sentHead
    BY <1>2, ClientLeavesWriter
  <2>2. /\ hand # None => hand = written[1]
        /\ delivered = IF do \in {"decoded", "ok"} /\ ~garbled THEN written ELSE <<>>
    BY <2>1 DEF UnaryState
  <2>3. CASE DoReads
    <3>1. do' = do /\ do = "waiting" /\ delivered' = delivered
      BY <2>3 DEF DoReads
    <3>2. hand' = None \/ hand' = written[1]
      BY <2>3, UnaryRead
    <3> QED
      BY <2>1, <2>2, <3>1, <3>2
  <2>4. CASE DoReadsBody
    <3>1. /\ do = "waiting" /\ do' = "decoded" /\ hand' = None /\ garbled' = garbled
          /\ sentHead = "unary" /\ BodyRead
      BY <2>1, <2>4 DEF DoReadsBody, WriterState
    <3>2. delivered = <<>>
      BY <2>2, <3>1
    <3>3. CASE garbled
      BY <2>4, <3>1, <3>2, <3>3 DEF DoReadsBody
    <3>4. CASE ~garbled
      <4>1. delivered' = <<hand>> /\ hand = written[1]
        BY <2>4, <3>1, <3>4, UnaryBody DEF DoReadsBody
      <4>2. written \in Seq(Data) /\ Len(written) = 1
        BY <3>1, UnaryValue
      <4>3. written = <<written[1]>>
        BY <4>2
      <4> QED
        BY <2>1, <3>1, <3>4, <4>1, <4>3
    <3> QED
      BY <3>3, <3>4
  <2>5. CASE DoReturnsBody \/ DoFails
    <3>1. /\ UNCHANGED <<hand, garbled, delivered>>
          /\ \/ do = "decoded" /\ do' = "ok"
             \/ do = "waiting" /\ do' = "failed"
      BY <2>5 DEF DoReturnsBody, DoFails
    <3> QED
      BY <2>1, <2>2, <3>1
  <2>6. CASE TransportAborts \/ UNCHANGED vars
    <3>1. UNCHANGED <<do, hand, garbled, delivered>>
      BY <2>6 DEF TransportAborts, vars, clientVars
    <3> QED
      BY <2>1, <2>2, <3>1
  <2>7. ~DoStartsStream /\ ~Pump /\ ~ConsumerTakes
    BY <2>1, UnaryIsDos
  <2> QED
    BY <1>2, <2>3, <2>4, <2>5, <2>6, <2>7 DEF Do
<1> QED
  BY <1>1, <1>2 DEF Next, Terminated
-----------------------------------------------------------------------------
(***************************************************************************)
(* The clean end of a stream.                                              *)
(***************************************************************************)

\* The goroutine and its result are those of a streaming response.
LEMMA ResultIsStream ==
  ASSUME WriterState, ClientState, result # "none" \/ pump # "none"
  PROVE  head = "stream" /\ sentHead = "stream" /\ do = "ok" /\ call = "stream"
  BY DEF WriterState, ClientState

\* A value that the client will not take stays in its way.
LEMMA CutShortStays ==
  ASSUME TypeOK, WriterState, [Next]_vars, CutShort, delivered' = delivered
  PROVE  CutShort'
<1>1. Len(delivered) + 1 \in 1..Len(written) /\ written[Len(delivered) + 1] \in Oversize
  BY Lengths DEF CutShort
<1>2. /\ Len(written') >= Len(written) /\ Len(written') \in Nat /\ Len(written) \in Nat
      /\ \A i \in 1..Len(written) : written'[i] = written[i]
  BY WrittenGrows, Lengths
<1> QED
  BY <1>1, <1>2, Lengths DEF CutShort

\* nil is returned at the EOF frame, which is behind all values, or at a value
\* that is too long; and what made it right stays.
LEMMA StepCleanResult ==
  /\ TypeOK /\ WriterState /\ ClientState /\ StreamState /\ StreamWire
  /\ CleanResultIsComplete /\ [Next]_vars
  => CleanResultIsComplete'
<1> SUFFICES ASSUME TypeOK, WriterState, ClientState, StreamState, StreamWire,
                    CleanResultIsComplete, [Next]_vars, result' = "nil", ~garbled'
             PROVE  (finished' /\ delivered' = written') \/ CutShort'
  BY DEF CleanResultIsComplete
<1>0. ~garbled
  BY Stays
\* It had returned before: no value is added to a finished stream.
<1>1. CASE result = "nil"
  <2>1. pump = "done" /\ do = "ok"
    BY <1>1, ResultIsStream DEF ClientState
  <2>2. delivered' = delivered
    BY <2>1, HandlerLeavesClient
       DEF Next, vars, clientVars, Terminated, TransportAborts, Do, DoStartsStream, DoReads,
           DoReadsBody, DoReturnsBody, DoFails, Pump, PumpReads, PumpReadsEnd, ConsumerTakes
  <2>3. CASE finished /\ delivered = written
    BY <2>2, <2>3, WrittenGrows
  <2>4. CASE CutShort
    BY <2>2, <2>4, CutShortStays
  <2> QED
    BY <1>0, <1>1, <2>3, <2>4 DEF CleanResultIsComplete
\* It returns now.
<1>2. CASE result # "nil" /\ PumpReads
  <2>1. UNCHANGED <<written, finished, delivered>>
    BY <1>2 DEF PumpReads, serverVars
  <2>2. PumpReadsFrame(Head(wire))
    BY <1>2, HeadIsNext
  <2>3. \/ Head(wire).type = "data" /\ Head(wire).payload \in Oversize
        \/ Head(wire).type = "eof"
    BY <1>2, <2>2 DEF PumpReadsFrame, PumpReturns
  <2>4. CASE Head(wire).type = "data" /\ Head(wire).payload \in Oversize
    <3>1. /\ Len(delivered) + 1 \in 1..Len(written)
          /\ written[Len(delivered) + 1] \in Oversize
      BY <1>2, <2>4, HeadIsNext
    <3>2. CutShort
      BY <3>1, Lengths DEF CutShort
    <3> QED
      BY <2>1, <3>2 DEF CutShort
  <2>5. CASE Head(wire).type = "eof"
    <3>1. Len(delivered) = Len(written) /\ finished /\ head = "stream"
      BY <1>2, <2>5, HeadIsNext
    <3>2. delivered \in Seq(Data) /\ written \in Seq(Data)
      BY DEF TypeOK
    <3>3. \A i \in 1..Len(delivered) : delivered[i] = written[i]
      BY <1>0, <3>1 DEF StreamState
    <3>4. delivered = written
      BY <3>1, <3>2, <3>3, FullPrefix
    <3> QED
      BY <2>1, <3>1, <3>4
  <2> QED
    BY <2>3, <2>4, <2>5
<1>3. CASE result # "nil" /\ ~PumpReads
  BY <1>3, HandlerLeavesClient
     DEF Next, vars, clientVars, Terminated, TransportAborts, Do, DoStartsStream, DoReads,
         DoReadsBody, DoReturnsBody, DoFails, Pump, PumpReadsEnd, PumpReturns, ConsumerTakes
<1> QED
  BY <1>1, <1>2, <1>3
-----------------------------------------------------------------------------
\* The invariant holds initially ...
LEMMA InitIndInv == Init => IndInv
<1> SUFFICES ASSUME Init PROVE IndInv
  OBVIOUS
<1>1. /\ written = <<>> /\ delivered = <<>> /\ buffered = <<>> /\ wire = <<>>
      /\ pump = "none" /\ do = "waiting" /\ result = "none" /\ hand = None
      /\ head = "none" /\ sentHead = "none" /\ status = "unset" /\ ~headersWritten
      /\ ~finished /\ handler = "serving" /\ wireEnd = "open" /\ call \in {"unary", "stream"}
      /\ ~garbled /\ ~late /\ writes = 0
  BY DEF Init
<1>2. /\ <<>> \in Seq(Data) /\ <<>> \in Seq(Chunk) /\ Len(<<>>) = 0 /\ <<>> \o <<>> = <<>>
  OBVIOUS
<1>3. TypeOK
  <2>1. 0 <= WireCap /\ 0 <= MaxBuffered /\ 0 \in 0..MaxMsgs
    BY BoundsAssumption
  <2>2. Len(wire) <= WireCap /\ Len(buffered) <= MaxBuffered /\ writes \in 0..MaxMsgs
    BY <1>1, <1>2, <2>1
  <2>3. /\ headersWritten \in BOOLEAN /\ finished \in BOOLEAN /\ late \in BOOLEAN
        /\ garbled \in BOOLEAN
    BY Zenon DEF Init
  <2> QED
    BY <1>1, <1>2, <2>2, <2>3 DEF TypeOK
<1>4. /\ WriterState /\ EndState /\ StatsMatchHead /\ ClientState /\ CleanResultIsComplete
      /\ UnaryWire /\ UnaryState
  BY <1>1 DEF WriterState, EndState, StatsMatchHead, ClientState, CleanResultIsComplete,
              UnaryWire, UnaryState
<1>5. Len(written) = 0 /\ Len(delivered) = 0 /\ Got = 0 /\ UnderWay = <<>> /\ Len(UnderWay) = 0
  BY <1>1, <1>2 DEF Got, UnderWay
<1>6. StreamState /\ StreamWire
  BY <1>1, <1>5 DEF StreamState, StreamWire, Carries, IsUpToDate
<1> QED
  BY <1>3, <1>4, <1>6 DEF IndInv

\* ... and every step keeps it.
LEMMA StepIndInv == IndInv /\ [Next]_vars => IndInv'
  BY StepType, StepWriterState, StepEndState, StepStats, StepClientState, StepStreamState,
     StepStreamWire, StepUnaryWire, StepUnaryState, StepCleanResult DEF IndInv

\* In every state of a response the writer's flag, the heads, what is under way,
\* Do and its goroutine are consistent with each other and with what the handler
\* wrote (response_writer.go and client.go together).
THEOREM Invariance == Spec => []IndInv
BY InitIndInv, StepIndInv, PTL DEF Spec

\* TypeOK: whatever the handler calls in whatever order, and whatever is on the
\* wire then, the transport never holds more than its window and what the client
\* hands on, and gives its caller, are values, for any window and any bounds.
THEOREM TypeCorrectness == Spec => []TypeOK
<1>1. IndInv => TypeOK
  BY DEF IndInv
<1> QED
  BY <1>1, Invariance, PTL

\* CleanResultIsComplete: the response goroutine of Client.Do returns nil only
\* if the handler finished the stream and every value it wrote before was
\* delivered, at a value that is too long, or in a body that WriteOutput was
\* called in.
THEOREM CleanResult == Spec => []CleanResultIsComplete
<1>1. IndInv => CleanResultIsComplete
  BY DEF IndInv
<1> QED
  BY <1>1, Invariance, PTL

\* SuccessMeansAnswered: Client.Do returns nil only for a response that the
\* handler gave, or for an empty body that the client's serializer decodes.
THEOREM SuccessIsAnswered == Spec => []SuccessMeansAnswered
<1>1. IndInv => SuccessMeansAnswered
  BY DEF IndInv, ClientState, SuccessMeansAnswered
<1> QED
  BY <1>1, Invariance, PTL

\* StatsMatchHead: the status in the server's stats is that of the response
\* head, whichever writer operations were called, in which order, as long as
\* WriteOutput is not called with a response begun.
THEOREM StatsAreTrue == Spec => []StatsMatchHead
<1>1. IndInv => StatsMatchHead
  BY DEF IndInv
<1> QED
  BY <1>1, Invariance, PTL
-----------------------------------------------------------------------------
(***************************************************************************)
(* Refinement: what the handler's writer and the client's consumer observe *)
(* is a MessageStream.                                                     *)
(***************************************************************************)

\* Initial states are initial states of MessageStream.
LEMMA InitRefines == Init => Abstract!Init
  BY DEF Init, Abstract!Init, AbstractOutcome

\* The handler's steps do not change what the client knows of the stream.
LEMMA HandlerKeepsOutcome ==
  ASSUME IndInv, IndInv', Handler
  PROVE  AbstractOutcome' = AbstractOutcome
<1>1. UNCHANGED <<call, do, pump, hand, garbled, result, delivered>>
  BY HandlerLeavesClient
<1>i. TypeOK /\ WriterState /\ ClientState /\ CleanResultIsComplete
  BY DEF IndInv
<1>2. head # "empty" /\ sentHead' \in {sentHead, head'} /\ (head # "none" => head' = head)
  <2>1. [Next]_vars
    BY DEF Next
  <2> QED
    BY <1>i, <2>1, HeadSteps, Stays
<1>3. sentHead # "none" => sentHead = head
  BY <1>i DEF WriterState
<1>4. sentHead = "none" => do \in {"waiting", "failed"}
  BY <1>i DEF ClientState
<1>5. sentHead # "empty" /\ (sentHead' = "empty" /\ do # "waiting" => do = "failed")
  BY <1>2, <1>3, <1>4
<1>6. result = "nil" /\ ~garbled => CutShort' = CutShort
  <2> SUFFICES ASSUME result = "nil", ~garbled PROVE CutShort' = CutShort
    OBVIOUS
  <2>0. CutShort' \in BOOLEAN /\ CutShort \in BOOLEAN /\ [Next]_vars
    BY DEF CutShort, Next
  <2>1. CASE CutShort
    <3>1. CutShort'
      BY <1>1, <1>i, <2>0, <2>1, CutShortStays
    <3> QED
      BY <2>0, <2>1, <3>1
  <2>2. CASE ~CutShort
    <3>1. finished
      BY <1>i, <2>2 DEF CleanResultIsComplete
    <3>2. written' = written
      BY <1>i, <2>0, <3>1, WrittenGrows
    <3> QED
      BY <1>1, <3>2 DEF CutShort
  <2> QED
    BY <2>1, <2>2
<1> QED
  BY <1>1, <1>5, <1>6 DEF AbstractOutcome

\* The handler's steps send a value, close the stream, or change nothing of it.
LEMMA HandlerRefines ==
  ASSUME IndInv, IndInv', Handler
  PROVE  Abstract!Next \/ UNCHANGED Abstract!vars
<1> USE DEF Abstract!vars
<1>1. delivered' = delivered /\ AbstractOutcome' = AbstractOutcome
  BY HandlerLeavesClient, HandlerKeepsOutcome
<1>2. ASSUME NEW v \in Data, ~finished, finished' = finished, written' = Append(written, v)
      PROVE  Abstract!Next
  BY <1>1, <1>2 DEF Abstract!Send, Abstract!Next
<1>3. ASSUME ~finished, finished' = TRUE, written' = written PROVE Abstract!Next
  BY <1>1, <1>3 DEF Abstract!Close, Abstract!Next
<1>4. ASSUME finished' = finished, written' = written PROVE UNCHANGED Abstract!vars
  BY <1>1, <1>4
<1>5. finished \in BOOLEAN /\ finished' \in BOOLEAN /\ WriterState
  BY DEF IndInv, TypeOK
<1>6. ASSUME NEW v \in Data, WriteMessage(v)
      PROVE  Abstract!Next \/ UNCHANGED Abstract!vars
  <2>1. /\ finished' = finished
        /\ written' = written \/ (~finished /\ written' = Append(written, v))
    BY <1>6 DEF WriteMessage
  <2> QED
    BY <1>2, <1>4, <2>1
<1>7. ASSUME NEW v \in Data, WriteOutput(v)
      PROVE  Abstract!Next \/ UNCHANGED Abstract!vars
  <2>1. finished' = finished /\ (written' = written \/ (~headersWritten /\ written' = <<v>>))
    BY <1>7 DEF WriteOutput
  <2>2. CASE written' = written
    BY <1>4, <2>1, <2>2
  <2>3. CASE ~headersWritten /\ written' = <<v>>
    <3>1. written = <<>> /\ ~finished
      BY <1>5, <2>3 DEF WriterState
    <3>2. written' = Append(written, v)
      BY <2>3, <3>1
    <3> QED
      BY <1>2, <2>1, <3>1, <3>2
  <2> QED
    BY <2>1, <2>2, <2>3
<1>8. CASE WriteMessageFails \/ WriteMessagePanics \/ WriteError
  <2>1. finished' = finished /\ written' = written
    BY <1>8 DEF WriteMessageFails, WriteMessagePanics, WriteError
  <2> QED
    BY <1>4, <2>1
<1>9. CASE WriteEofMessage \/ HandlerReturns
  <2>1. written' = written /\ (finished => finished')
    BY <1>9, Zenon DEF WriteEofMessage, HandlerReturns
  <2>2. finished' = finished \/ (~finished /\ finished' = TRUE)
    BY <1>5, <2>1
  <2> QED
    BY <1>3, <1>4, <2>1, <2>2
<1> QED
  BY <1>6, <1>7, <1>8, <1>9 DEF Handler

\* Do's steps deliver the value of a unary response, end the stream, or change
\* nothing of it.
LEMMA DoRefines ==
  ASSUME IndInv, IndInv', Do
  PROVE  Abstract!Next \/ UNCHANGED Abstract!vars
<1> USE DEF Abstract!vars
<1>0. UNCHANGED <<call, sentHead, written, finished>>
  BY ClientLeavesWriter
<1>1. TypeOK /\ WriterState /\ EndState /\ ClientState /\ UnaryWire /\ UnaryState
  BY DEF IndInv
<1>2. ASSUME AbstractOutcome = "open", AbstractOutcome' = "failed", delivered' = delivered
      PROVE  Abstract!Next
  BY <1>0, <1>2 DEF Abstract!Next, Abstract!Fail
<1>3. ASSUME AbstractOutcome' = AbstractOutcome, delivered' = delivered
      PROVE  UNCHANGED Abstract!vars
  BY <1>0, <1>3
<1>4. ASSUME do = "waiting"
      PROVE  result = "none" /\ (~garbled => AbstractOutcome = "open")
  <2>1. result = "none"
    BY <1>1, <1>4 DEF ClientState
  <2> QED
    BY <1>4, <2>1 DEF AbstractOutcome
<1>5. /\ garbled => AbstractOutcome = "failed"
      /\ garbled' => AbstractOutcome' = "failed"
  BY DEF AbstractOutcome
<1>6. CASE DoStartsStream
  <2>1. /\ UNCHANGED <<delivered, result, garbled>>
        /\ do = "waiting" /\ do' = "ok" /\ sentHead = "stream" /\ call = "stream"
    BY <1>6 DEF DoStartsStream
  <2>2. ~garbled => AbstractOutcome' = "open"
    BY <1>0, <1>4, <2>1 DEF AbstractOutcome
  <2> QED
    BY <1>3, <1>4, <1>5, <2>1, <2>2
<1>7. CASE DoReads
  <2>1. do = "waiting" /\ UNCHANGED <<do, result, delivered>>
    BY <1>7 DEF DoReads
  <2>2. \/ ~garbled /\ garbled' = FALSE
        \/ garbled' = TRUE
    BY <1>1, <1>7, UnaryRead
  <2>3. ~garbled' => AbstractOutcome' = "open"
    BY <1>4, <2>1 DEF AbstractOutcome
  <2>4. AbstractOutcome \in {"open", "failed"}
    BY <1>4, <1>5, <2>1
  <2> QED
    BY <1>2, <1>3, <1>4, <1>5, <2>1, <2>2, <2>3, <2>4
<1>8. CASE DoReadsBody
  <2>1. /\ do = "waiting" /\ do' = "decoded" /\ call = "unary" /\ BodyRead
        /\ UNCHANGED <<result, garbled>>
        /\ \/ sentHead = "unary" /\ ~garbled /\ delivered' = <<hand>>
           \/ sentHead = "unary" /\ garbled /\ delivered' = delivered
           \/ sentHead = "empty" /\ delivered' = delivered
    BY <1>8 DEF DoReadsBody
  <2>2. CASE sentHead = "unary" /\ ~garbled
    <3>1. AbstractOutcome = "open" /\ AbstractOutcome' = "open"
      BY <1>0, <1>4, <2>1, <2>2 DEF AbstractOutcome
    <3>2. hand = written[1]
      BY <1>1, <2>1, <2>2, UnaryBody
    <3>3. Len(written) = 1 /\ head = "unary"
      BY <1>1, <2>2, UnaryValue
    <3>4. delivered = <<>>
      BY <1>1, <2>1, <3>3 DEF UnaryState
    <3>5. Len(delivered) = 0 /\ delivered' = Append(delivered, written[Len(delivered) + 1])
      BY <2>1, <2>2, <3>2, <3>4
    <3>6. Len(delivered) < Len(written)
      BY <3>3, <3>5
    <3> QED
      BY <1>0, <3>1, <3>5, <3>6 DEF Abstract!Next, Abstract!Deliver
  <2>3. CASE garbled
    <3>1. delivered' = delivered
      BY <2>1, <2>3
    <3> QED
      BY <1>3, <1>5, <2>1, <2>3, <3>1
  <2>4. CASE sentHead = "empty" /\ ~garbled
    <3>1. AbstractOutcome' = "failed"
      BY <1>0, <2>1, <2>4 DEF AbstractOutcome
    <3> QED
      BY <1>2, <1>4, <2>1, <2>4, <3>1
  <2> QED
    BY <2>1, <2>2, <2>3, <2>4
<1>9. CASE DoReturnsBody
  <2>1. do = "decoded" /\ do' = "ok" /\ UNCHANGED <<result, delivered, garbled>>
    BY <1>9 DEF DoReturnsBody
  <2>2. /\ result = "none" /\ call = "unary"
        /\ \/ sentHead = "unary" /\ finished
           \/ sentHead = "empty"
    BY <1>1, <2>1 DEF ClientState
  <2>3. CASE sentHead = "unary" /\ ~garbled
    <3>1. AbstractOutcome = "open" /\ AbstractOutcome' = "complete"
      BY <1>0, <2>1, <2>2, <2>3 DEF AbstractOutcome
    <3>2. head = "unary"
      BY <1>1, <2>3, UnaryValue
    <3>3. finished /\ delivered = written
      BY <1>1, <2>1, <2>2, <2>3, <3>2 DEF UnaryState
    <3> QED
      BY <1>0, <2>1, <3>1, <3>3 DEF Abstract!Next, Abstract!Complete
  <2>4. CASE garbled
    BY <1>3, <1>5, <2>1, <2>4
  <2>5. CASE sentHead = "empty"
    <3>1. AbstractOutcome = "failed" /\ AbstractOutcome' = "failed"
      BY <1>0, <2>1, <2>2, <2>5 DEF AbstractOutcome
    <3> QED
      BY <1>3, <2>1, <3>1
  <2> QED
    BY <2>2, <2>3, <2>4, <2>5
<1>10. CASE DoFails
  <2>1. do = "waiting" /\ do' = "failed" /\ UNCHANGED <<result, delivered, garbled>>
    BY <1>10 DEF DoFails
  <2>2. AbstractOutcome' = "failed"
    BY <2>1 DEF AbstractOutcome
  <2> QED
    BY <1>2, <1>3, <1>4, <1>5, <2>1, <2>2
<1> QED
  BY <1>6, <1>7, <1>8, <1>9, <1>10 DEF Do

\* The goroutine's steps end the stream or change nothing of it; the
\* consumer's delivers the next value.
LEMMA PumpRefines ==
  ASSUME IndInv, IndInv', Pump \/ ConsumerTakes
  PROVE  Abstract!Next \/ UNCHANGED Abstract!vars
<1> USE DEF Abstract!vars
<1>0. UNCHANGED <<call, sentHead, written, finished>>
  BY ClientLeavesWriter
<1>i. TypeOK /\ WriterState /\ ClientState /\ StreamState
  BY DEF IndInv
<1>1. /\ do' = do /\ pump \in {"read", "send"} /\ result = "none"
      /\ pump = "read" => ~ConsumerTakes
      /\ pump = "send" => ConsumerTakes
  BY <1>i DEF ClientState, Pump, PumpReads, PumpReadsEnd, ConsumerTakes
<1>2. do = "ok" /\ head = "stream" /\ sentHead = "stream" /\ call = "stream"
  BY <1>1, <1>i, ResultIsStream
<1>3. garbled => garbled'
  BY <1>i, Stays DEF Next
<1>4. /\ garbled => AbstractOutcome = "failed"
      /\ ~garbled => AbstractOutcome = "open"
      /\ garbled' => AbstractOutcome' = "failed"
  BY <1>1, <1>2 DEF AbstractOutcome
<1>5. ASSUME ~garbled, AbstractOutcome' = "failed", delivered' = delivered
      PROVE  Abstract!Next
  BY <1>0, <1>4, <1>5 DEF Abstract!Next, Abstract!Fail
<1>6. CASE garbled
  <2>1. delivered' = delivered
    BY <1>6 DEF Pump, PumpReads, PumpReadsEnd, ConsumerTakes
  <2> QED
    BY <1>0, <1>3, <1>4, <1>6, <2>1
<1>7. CASE ConsumerTakes /\ ~garbled
  <2>1. /\ result' = result /\ garbled' = garbled
        /\ delivered' = Append(delivered, hand) /\ pump = "send"
    BY <1>7 DEF ConsumerTakes
  <2>2. AbstractOutcome' = "open"
    BY <1>0, <1>1, <1>2, <1>7, <2>1 DEF AbstractOutcome
  <2>3. hand = written[Len(delivered) + 1] /\ Len(delivered) + 1 <= Len(written)
    BY <1>2, <1>7, <1>i, <2>1, Lengths DEF StreamState
  <2>4. Len(delivered) < Len(written)
    BY <1>i, <2>3, Lengths
  <2> QED
    BY <1>0, <1>4, <1>7, <2>1, <2>2, <2>3, <2>4 DEF Abstract!Next, Abstract!Deliver
<1>8. CASE Pump /\ ~garbled
  <2>1. delivered' = delivered
    BY <1>8 DEF Pump, PumpReads, PumpReadsEnd
  <2>2. CASE garbled' \/ result' \in {"EOF", "unmarshal", "transport"}
             \/ (result' = "nil" /\ CutShort')
    <3>1. AbstractOutcome' = "failed"
      BY <2>2 DEF AbstractOutcome
    <3> QED
      BY <1>5, <1>8, <2>1, <3>1
  <2>3. CASE ~garbled' /\ result' = "none"
    <3>1. AbstractOutcome' = "open"
      BY <1>0, <1>1, <1>2, <2>3 DEF AbstractOutcome
    <3> QED
      BY <1>0, <1>4, <1>8, <2>1, <3>1
  <2>4. CASE ~garbled' /\ result' = "nil" /\ ~CutShort'
    <3>1. AbstractOutcome' = "complete"
      BY <1>0, <1>1, <1>2, <2>4 DEF AbstractOutcome
    <3>2. finished /\ delivered = written
      BY <1>0, <2>1, <2>4 DEF IndInv, CleanResultIsComplete
    <3> QED
      BY <1>0, <1>4, <1>8, <2>1, <3>1, <3>2 DEF Abstract!Next, Abstract!Complete
  <2>5. result' \in {"none", "nil", "EOF", "unmarshal", "transport"}
    BY DEF IndInv, TypeOK
  <2> QED
    BY <2>2, <2>3, <2>4, <2>5
<1> QED
  BY <1>6, <1>7, <1>8

\* Every step is a step of MessageStream, or changes nothing there.
LEMMA StepRefines == IndInv /\ IndInv' /\ [Next]_vars => [Abstract!Next]_(Abstract!vars)
<1> SUFFICES ASSUME IndInv, IndInv', [Next]_vars
             PROVE  Abstract!Next \/ UNCHANGED Abstract!vars
  OBVIOUS
<1>1. CASE TransportAborts \/ UNCHANGED vars
  <2>1. UNCHANGED <<call, sentHead, written, finished>>
    BY <1>1, ClientLeavesWriter
  <2>2. UNCHANGED <<do, result, garbled, delivered>>
    BY <1>1 DEF TransportAborts, vars, clientVars
  <2> QED
    BY <2>1, <2>2 DEF AbstractOutcome, CutShort, Abstract!vars
<1> QED
  BY <1>1, HandlerRefines, DoRefines, PumpRefines DEF Next, Terminated

\* A response is a MessageStream between the handler's ResponseWriter and the
\* caller's channel, or its result if the operation is unary: values arrive
\* in order, once, and success means all of them.
THEOREM Refinement == Spec => ImplementsMessageStream
BY InitRefines, StepRefines, Invariance, PTL DEF Spec, ImplementsMessageStream, Abstract!Spec
-----------------------------------------------------------------------------
(***************************************************************************)
(* Progress: why DoReturns and PumpFinishes hold.  Nobody waits for        *)
(* everybody else.                                                         *)
(***************************************************************************)

\* The guards of the actions FairSpec is fair to.
HandlerCanReturn ==
  /\ handler = "serving"
  /\ Len(wire) + Len(buffered) <= WireCap \/ wireEnd = "aborted"
BodyCanBeRead ==
  /\ call = "unary"
  /\ BodyRead
  /\ \/ sentHead = "unary" /\ (garbled \/ hand \notin Undecodable)
     \/ sentHead = "empty" /\ EmptyDecodes
DoCanGoOn ==
  \/ /\ do = "waiting"
     /\ \/ call = "stream" /\ sentHead = "stream"
        \/ sentHead = "unary" /\ wire # <<>>
        \/ BodyCanBeRead
        \/ NoUsableResponse
  \/ do = "decoded"
PumpCanGoOn == pump = "read" /\ (wire # <<>> \/ BodyExhausted)
ConsumerCanTake == pump = "send"

\* While Do or its goroutine has not returned, one of the handler, Do, the
\* goroutine and the consumer can go on.
NobodyStuck ==
  ~ClientDone => HandlerCanReturn \/ DoCanGoOn \/ PumpCanGoOn \/ ConsumerCanTake

\* With an open body and nothing in it, the handler is serving and can return.
LEMMA OpenAndEmpty == IndInv /\ wireEnd = "open" /\ wire = <<>> => HandlerCanReturn
<1> SUFFICES ASSUME IndInv, wireEnd = "open", wire = <<>> PROVE HandlerCanReturn
  OBVIOUS
<1>1. handler = "serving"
  BY DEF IndInv, EndState
<1>2. Len(wire) = 0 /\ Len(buffered) \in Nat /\ Len(buffered) <= MaxBuffered
  BY DEF IndInv, TypeOK
<1> QED
  BY <1>1, <1>2, BoundsAssumption DEF HandlerCanReturn

\* Do waits for the response head, or for the body of a unary response, and for
\* nothing else; both come from the handler.
LEMMA DoWaitsForHandler ==
  IndInv /\ do = "waiting" => DoCanGoOn \/ (wireEnd = "open" /\ HandlerCanReturn)
<1> SUFFICES ASSUME IndInv, do = "waiting", ~DoCanGoOn
             PROVE  wireEnd = "open" /\ HandlerCanReturn
  OBVIOUS
<1>1. TypeOK /\ WriterState /\ EndState
  BY DEF IndInv
<1>2. /\ sentHead \in {"none", "unary", "empty"} /\ wireEnd \in {"open", "clean"}
      /\ call \in {"unary", "stream"}
  BY <1>1 DEF TypeOK, DoCanGoOn, NoUsableResponse
<1>3. CASE sentHead = "none"
  BY <1>1, <1>2, <1>3, OpenAndEmpty DEF EndState
<1>4. CASE sentHead = "empty"
  <2>1. call = "unary" /\ EmptyDecodes
    BY <1>2, <1>4, ValuesAssumption DEF DoCanGoOn, NoUsableResponse
  <2>2. handler = "returned"
    BY <1>1, <1>4 DEF WriterState
  <2>3. BodyRead
    BY <1>1, <1>2, <1>4, <2>2 DEF EndState, BodyRead
  <2> QED
    BY <1>4, <2>1, <2>3 DEF DoCanGoOn, BodyCanBeRead
<1>5. CASE sentHead = "unary"
  <2>1. wire = <<>>
    BY <1>5 DEF DoCanGoOn
  <2>2. wireEnd # "clean"
    BY <1>2, <1>5, <2>1 DEF DoCanGoOn, NoUsableResponse, BodyCanBeRead, BodyRead
  <2> QED
    BY <1>2, <2>1, <2>2, OpenAndEmpty
<1> QED
  BY <1>2, <1>3, <1>4, <1>5

\* In every state that the invariant allows somebody can go on.
LEMMA Progress == IndInv => NobodyStuck
<1> SUFFICES ASSUME IndInv, ~ClientDone, ~DoCanGoOn, ~PumpCanGoOn, ~ConsumerCanTake
             PROVE  HandlerCanReturn
  BY DEF NobodyStuck
<1>1. CASE do = "waiting"
  BY <1>1, DoWaitsForHandler
<1>2. CASE do # "waiting"
  <2>1. pump = "read" /\ wire = <<>> /\ wireEnd = "open"
    BY <1>2 DEF IndInv, TypeOK, ClientDone, DoCanGoOn, PumpCanGoOn, ConsumerCanTake,
                BodyExhausted, BodyRead
  <2> QED
    BY <2>1, OpenAndEmpty
<1> QED
  BY <1>1, <1>2

\* No deadlock: while Client.Do, or the goroutine it started, has not
\* returned, it is never the case that it waits for the handler or the
\* consumer, and they, through the transport's full window, for it.
THEOREM NoDeadlock == Spec => []NobodyStuck
  BY Progress, Invariance, PTL
-----------------------------------------------------------------------------
(***************************************************************************)
(* Every step counts: the rank says how much is at most left to do.        *)
(***************************************************************************)
WritesRank  == 4 * (MaxMsgs - writes)
HeadRank    == IF headersWritten THEN 0 ELSE 4
ServingRank == IF handler = "serving" THEN 3 ELSE 0
HandlerRank == WritesRank + HeadRank + ServingRank

EndRank  == IF wireEnd = "aborted" THEN 0 ELSE 1
WireRank == 2 * Len(buffered) + 2 * Len(wire) + EndRank

DoRank     == CASE do = "waiting" -> 3 [] do = "decoded" -> 1 [] OTHER -> 0
PumpRank   == CASE pump = "send" -> 2 [] pump = "read" -> 1 [] OTHER -> 0
ClientRank == DoRank + PumpRank

Rank == HandlerRank + WireRank + ClientRank

\* The rank is a natural number, and so are its parts.
RankTypeOK ==
  /\ WritesRank \in Nat /\ HeadRank \in Nat /\ ServingRank \in Nat
  /\ Len(buffered) \in Nat /\ Len(wire) \in Nat /\ EndRank \in Nat
  /\ DoRank \in Nat /\ PumpRank \in Nat
  /\ HandlerRank \in Nat /\ WireRank \in Nat /\ ClientRank \in Nat

\* The parts of the rank are natural numbers.
LEMMA RankParts == TypeOK => RankTypeOK
<1> SUFFICES ASSUME TypeOK PROVE RankTypeOK
  OBVIOUS
<1>1. WritesRank \in Nat
  BY BoundsAssumption DEF TypeOK, WritesRank
<1>2. /\ HeadRank \in Nat /\ ServingRank \in Nat /\ EndRank \in Nat
      /\ DoRank \in Nat /\ PumpRank \in Nat
  BY DEF HeadRank, ServingRank, EndRank, DoRank, PumpRank
<1>3. Len(buffered) \in Nat /\ Len(wire) \in Nat
  BY DEF TypeOK
<1> QED
  BY <1>1, <1>2, <1>3 DEF RankTypeOK, HandlerRank, WireRank, ClientRank

\* They are so before and after a step.
LEMMA RankPartsOfStep == TypeOK /\ TypeOK' => RankTypeOK /\ RankTypeOK'
  BY RankParts, PTL

\* A sum falls when one part falls by more than the others rise.
LEMMA SumFalls ==
  ASSUME NEW a \in Nat, NEW b \in Nat, NEW c \in Nat,
         NEW x \in Nat, NEW y \in Nat, NEW z \in Nat,
         \/ a <= x - 3 /\ b <= y + 2 /\ c = z
         \/ a = x /\ b < y /\ c = z
         \/ a = x /\ b <= y /\ c < z
         \/ a = x /\ b = y - 2 /\ c <= z + 1
  PROVE  a + b + c < x + y + z
  OBVIOUS

\* The same for the three parts that the handler lowers.
LEMMA HandlerSumFalls ==
  ASSUME NEW a \in Nat, NEW b \in Nat, NEW c \in Nat,
         NEW x \in Nat, NEW y \in Nat, NEW z \in Nat,
         a <= x, b <= y, c <= z,
         a = x - 4 \/ b = y - 4 \/ c = z - 3,
         NEW old \in Nat, NEW new \in Nat, old = x + y + z, new = a + b + c
  PROVE  new <= old - 3
  OBVIOUS

\* What the transport holds, in frames and in the rank.
LEMMA WireSum ==
  ASSUME NEW a \in Nat, NEW b \in Nat, NEW c \in Nat,
         NEW x \in Nat, NEW y \in Nat, NEW z \in Nat, c <= z
  PROVE  /\ a + b <= x + y + 1 => 2 * a + 2 * b + c <= 2 * x + 2 * y + z + 2
         /\ a = x /\ b = y /\ c < z => 2 * a + 2 * b + c < 2 * x + 2 * y + z
         /\ a + b <= x + y => 2 * a + 2 * b + c <= 2 * x + 2 * y + z
         /\ a = x /\ b = y - 1 /\ c = z => 2 * a + 2 * b + c = 2 * x + 2 * y + z - 2
  OBVIOUS

\* One chunk more, or none.
LEMMA OneMore ==
  ASSUME NEW a \in Nat, NEW b \in Nat, NEW x \in Nat, NEW y \in Nat,
         a = x \/ a = x + 1, b = y
  PROVE  a + b <= x + y + 1
  OBVIOUS

\* A write of the handler's, or its return, lowers the handler's part by three
\* or more and adds at most one chunk to what is under way.
LEMMA HandlerLowers ==
  ASSUME IndInv, RankTypeOK, RankTypeOK', Handler, vars' # vars
  PROVE  HandlerRank' <= HandlerRank - 3 /\ WireRank' <= WireRank + 2
<1> USE DEF serverVars, wireVars, clientVars, writerVars
<1>0. /\ TypeOK /\ WriterState
      /\ wire \in Seq(Chunk) /\ buffered \in Seq(Chunk) /\ writes \in Nat
  BY BoundsAssumption DEF IndInv, TypeOK
<1>w. ASSUME WritesRank' <= WritesRank, HeadRank' <= HeadRank, ServingRank' <= ServingRank,
             \/ WritesRank' = WritesRank - 4 \/ HeadRank' = HeadRank - 4
             \/ ServingRank' = ServingRank - 3
      PROVE  HandlerRank' <= HandlerRank - 3
  <2>1. /\ WritesRank \in Nat /\ HeadRank \in Nat /\ ServingRank \in Nat
        /\ WritesRank' \in Nat /\ HeadRank' \in Nat /\ ServingRank' \in Nat
        /\ HandlerRank \in Nat /\ HandlerRank' \in Nat
    BY DEF RankTypeOK
  <2>2. /\ HandlerRank = WritesRank + HeadRank + ServingRank
        /\ HandlerRank' = WritesRank' + HeadRank' + ServingRank'
    BY DEF HandlerRank
  <2> QED
    BY <1>w, <2>1, <2>2, HandlerSumFalls
<1>e. ASSUME EndRank' <= EndRank, Len(buffered') + Len(wire') <= Len(buffered) + Len(wire) + 1
      PROVE  WireRank' <= WireRank + 2
  <2>1. /\ Len(buffered) \in Nat /\ Len(wire) \in Nat /\ EndRank \in Nat
        /\ Len(buffered') \in Nat /\ Len(wire') \in Nat /\ EndRank' \in Nat
    BY DEF RankTypeOK
  <2>2. 2 * Len(buffered') + 2 * Len(wire') + EndRank'
          <= 2 * Len(buffered) + 2 * Len(wire) + EndRank + 2
    BY <1>e, <2>1, WireSum
  <2> QED
    BY <2>2 DEF WireRank
\* A write to the body, which adds one chunk to it, or none.
<1>1. ASSUME writes' = writes + 1, headersWritten', handler' = handler, wireEnd' = wireEnd,
             Len(buffered') + Len(wire') <= Len(buffered) + Len(wire) + 1
      PROVE  HandlerRank' <= HandlerRank - 3 /\ WireRank' <= WireRank + 2
  <2>1. WritesRank' = WritesRank - 4
    BY <1>0, <1>1, BoundsAssumption DEF WritesRank
  <2>2. HeadRank' <= HeadRank /\ ServingRank' = ServingRank /\ EndRank' = EndRank
    BY <1>1 DEF HeadRank, ServingRank, EndRank
  <2> QED
    BY <1>1, <2>1, <2>2, <1>w, <1>e DEF RankTypeOK
<1>2. ASSUME NEW c \in Chunk
      PROVE  /\ Len(Append(buffered, c)) = Len(buffered) + 1
             /\ Len(wire \o Append(buffered, c)) = Len(wire) + Len(buffered) + 1
  <2>1. Append(buffered, c) \in Seq(Chunk) /\ Len(Append(buffered, c)) = Len(buffered) + 1
    BY <1>0
  <2> QED
    BY <1>0, <2>1
<1>3. ASSUME NEW v \in Data, WriteMessage(v)
      PROVE  HandlerRank' <= HandlerRank - 3 /\ WireRank' <= WireRank + 2
  <2>1. /\ headersWritten' /\ UNCHANGED <<handler, wireEnd>> /\ writes' = writes + 1
        /\ wire' = wire \o Append(buffered, DataFrame(v)) /\ buffered' = <<>>
    BY <1>3 DEF WriteMessage, StreamHeaders, Writes
  <2>2. DataFrame(v) \in Chunk
    BY DEF DataFrame, Frame, Chunk
  <2>3. Len(wire') = Len(wire) + Len(buffered) + 1 /\ Len(buffered') = 0
    BY <1>2, <2>1, <2>2
  <2>4. Len(buffered') + Len(wire') <= Len(buffered) + Len(wire) + 1
    BY <2>3 DEF RankTypeOK
  <2> QED
    BY <1>1, <2>1, <2>4
<1>4. ASSUME NEW v \in Data, WriteOutput(v)
      PROVE  HandlerRank' <= HandlerRank - 3 /\ WireRank' <= WireRank + 2
  <2>1. /\ headersWritten' /\ UNCHANGED <<handler, wire, wireEnd>> /\ writes' = writes + 1
        /\ \/ buffered' = buffered
           \/ buffered' = Append(buffered, RawChunk(None))
           \/ buffered' = Append(buffered, RawChunk(v))
    BY <1>4 DEF WriteOutput, ErrorHeaders, Writes
  <2>2. RawChunk(v) \in Chunk /\ RawChunk(None) \in Chunk
    BY DEF RawChunk, Chunk
  <2>3. /\ Len(buffered') = Len(buffered) \/ Len(buffered') = Len(buffered) + 1
        /\ Len(wire') = Len(wire)
    BY <1>2, <2>1, <2>2
  <2>4. Len(buffered') + Len(wire') <= Len(buffered) + Len(wire) + 1
    BY <2>3, OneMore DEF RankTypeOK
  <2> QED
    BY <1>1, <2>1, <2>4
<1>5. CASE WriteEofMessage
  <2>1. /\ headersWritten' /\ UNCHANGED <<handler, wire, wireEnd>> /\ writes' = writes + 1
        /\ buffered' = Append(buffered, EofFrame)
    BY <1>5 DEF WriteEofMessage, StreamHeaders, Writes
  <2>2. EofFrame \in Chunk
    BY DEF EofFrame, Frame, Chunk
  <2>3. Len(buffered') = Len(buffered) + 1
    BY <1>2, <2>1, <2>2
  <2>4. Len(buffered') + Len(wire') <= Len(buffered) + Len(wire) + 1
    BY <2>1, <2>3 DEF RankTypeOK
  <2> QED
    BY <1>1, <2>1, <2>4
<1>6. CASE WriteMessageFails \/ WriteError
  <2>1. /\ UNCHANGED <<call, handler, written, writes, buffered, wireVars, clientVars>>
        /\ ~headersWritten /\ headersWritten'
    BY <1>0, <1>6
       DEF WriteMessageFails, WriteError, StreamHeaders, ErrorHeaders, WriteHeader, WriterState,
           vars, TypeOK
  <2>2. /\ HeadRank' = HeadRank - 4 /\ WritesRank' = WritesRank
        /\ ServingRank' = ServingRank /\ EndRank' = EndRank
    BY <2>1 DEF HeadRank, WritesRank, ServingRank, EndRank
  <2> QED
    BY <2>1, <2>2, <1>w, <1>e DEF RankTypeOK
<1>7. CASE WriteMessagePanics
  <2>1. /\ UNCHANGED <<writes, wire>> /\ buffered' = <<>>
        /\ headersWritten' /\ handler = "serving" /\ handler' = "panicked" /\ wireEnd' = "aborted"
    BY <1>7 DEF WriteMessagePanics, StreamHeaders
  <2>2. /\ HeadRank' <= HeadRank /\ WritesRank' = WritesRank
        /\ ServingRank' = ServingRank - 3 /\ EndRank' <= EndRank
    BY <2>1 DEF HeadRank, WritesRank, ServingRank, EndRank
  <2>3. Len(buffered') + Len(wire') <= Len(buffered) + Len(wire) + 1
    BY <2>1 DEF RankTypeOK
  <2> QED
    BY <2>1, <2>2, <2>3, <1>w, <1>e DEF RankTypeOK
<1>8. CASE HandlerReturns
  <2>1. /\ UNCHANGED <<writes, headersWritten>>
        /\ handler = "serving" /\ handler' = "returned" /\ buffered' = <<>>
        /\ wireEnd = "aborted" => wire' = wire /\ wireEnd' = wireEnd
        /\ wireEnd # "aborted" => wire' = wire \o buffered
    BY <1>8 DEF HandlerReturns
  <2>2. Len(buffered') + Len(wire') <= Len(buffered) + Len(wire)
    BY <1>0, <2>1
  <2>3. /\ HeadRank' = HeadRank /\ WritesRank' = WritesRank
        /\ ServingRank' = ServingRank - 3 /\ EndRank' <= EndRank
    BY <2>1 DEF HeadRank, WritesRank, ServingRank, EndRank
  <2>4. Len(buffered') + Len(wire') <= Len(buffered) + Len(wire) + 1
    BY <2>2 DEF RankTypeOK
  <2> QED
    BY <2>1, <2>4, <2>3, <1>w, <1>e DEF RankTypeOK
<1> QED
  BY <1>3, <1>4, <1>5, <1>6, <1>7, <1>8 DEF Handler

\* Do and its goroutine: one goes on, or Do starts the goroutine.
LEMMA ClientSum ==
  ASSUME NEW a \in Nat, NEW b \in Nat, NEW x \in Nat, NEW y \in Nat
  PROVE  /\ a = x /\ b < y => a + b < x + y
         /\ a < x /\ b = y => a + b < x + y
         /\ a = x /\ b <= y + 1 => a + b <= x + y + 1
  OBVIOUS

\* Every step lowers the rank.
LEMMA StepRank ==
  IndInv /\ TypeOK' /\ [Next]_vars => [Rank' < Rank]_vars
<1> SUFFICES ASSUME IndInv, TypeOK', Next, vars' # vars
             PROVE  Rank' < Rank
  OBVIOUS
<1> USE DEF serverVars, wireVars, clientVars, writerVars
<1>0. TypeOK /\ RankTypeOK /\ RankTypeOK'
  BY RankPartsOfStep DEF IndInv
<1>1. CASE Handler
  <2>1. ClientRank' = ClientRank
    BY <1>1, HandlerLeavesClient DEF ClientRank, DoRank, PumpRank
  <2> QED
    BY <1>0, <1>1, <2>1, HandlerLowers, SumFalls DEF Rank, RankTypeOK
<1>2. CASE ~Handler /\ ~Terminated
  <2>1. UNCHANGED <<headersWritten, writes, handler, buffered>>
    BY <1>2, ClientLeavesWriter DEF Next
  <2>2. HandlerRank' = HandlerRank
    BY <2>1 DEF HandlerRank, WritesRank, HeadRank, ServingRank
  <2>3. CASE TransportAborts
    <3>1. /\ EndRank' < EndRank /\ ClientRank' = ClientRank /\ wire' = wire
      BY <2>3 DEF TransportAborts, EndRank, ClientRank, DoRank, PumpRank
    <3>2. /\ Len(buffered') = Len(buffered) /\ Len(wire') = Len(wire)
          /\ Len(buffered) \in Nat /\ Len(wire) \in Nat /\ EndRank \in Nat /\ EndRank' \in Nat
      BY <1>0, <2>1, <3>1 DEF RankTypeOK
    <3>3. 2 * Len(buffered') + 2 * Len(wire') + EndRank' < 2 * Len(buffered) + 2 * Len(wire) + EndRank
      BY <3>1, <3>2
    <3>4. WireRank' < WireRank
      BY <3>3 DEF WireRank
    <3> QED
      BY <1>0, <2>2, <3>1, <3>4, SumFalls DEF Rank, RankTypeOK
  <2>4. CASE Do
    <3>1. /\ wireEnd' = wireEnd /\ EndRank' = EndRank
          /\ wire' = wire \/ wire' = <<>>
      BY <2>4 DEF Do, DoStartsStream, DoReads, DoReadsBody, DoReturnsBody, DoFails, EndRank
    <3>2. Len(wire') <= Len(wire)
      <4>1. Len(<<>>) = 0 /\ Len(wire) \in Nat
        BY <1>0 DEF RankTypeOK
      <4> QED
        BY <3>1, <4>1
    <3>3. WireRank' <= WireRank
      BY <1>0, <2>1, <3>1, <3>2, WireSum DEF RankTypeOK, WireRank
    <3>4. ~DoReads => ClientRank' < ClientRank
      <4>1. CASE DoStartsStream
        <5>1. pump = "none"
          BY <4>1 DEF DoStartsStream, IndInv, ClientState
        <5>2. DoRank = 3 /\ DoRank' = 0 /\ PumpRank = 0 /\ PumpRank' = 1
          BY <4>1, <5>1 DEF DoStartsStream, DoRank, PumpRank
        <5> QED
          BY <5>2 DEF ClientRank
      <4>2. CASE DoReadsBody \/ DoReturnsBody \/ DoFails
        <5>1. PumpRank' = PumpRank
          BY <4>2 DEF DoReadsBody, DoReturnsBody, DoFails, PumpRank
        <5>2. \/ DoRank = 3 /\ DoRank' = 1
              \/ DoRank = 1 /\ DoRank' = 0
              \/ DoRank = 3 /\ DoRank' = 0
          BY <4>2 DEF DoReadsBody, DoReturnsBody, DoFails, DoRank
        <5>3. DoRank' < DoRank
          BY <5>2
        <5> QED
          BY <1>0, <5>1, <5>3, ClientSum DEF ClientRank, RankTypeOK
      <4> QED
        BY <2>4, <4>1, <4>2 DEF Do
    <3>5. CASE DoReads
      <4>1. wire # <<>> /\ wire' = <<>> /\ UNCHANGED <<do, pump>> /\ wire \in Seq(Chunk)
        BY <1>0, <3>5 DEF DoReads, TypeOK
      <4>2. Len(wire') = 0 /\ Len(wire) > 0
        BY <4>1
      <4>3. ClientRank' = ClientRank
        BY <4>1 DEF ClientRank, DoRank, PumpRank
      <4>4. 2 * Len(buffered') + 2 * Len(wire') + EndRank' < 2 * Len(buffered) + 2 * Len(wire) + EndRank
        BY <1>0, <2>1, <3>1, <4>2 DEF RankTypeOK
      <4>5. WireRank' < WireRank
        BY <4>4 DEF WireRank
      <4> QED
        BY <1>0, <2>2, <4>3, <4>5, SumFalls DEF Rank, RankTypeOK
    <3>6. CASE ~DoReads
      BY <1>0, <2>2, <3>3, <3>4, <3>6, SumFalls DEF Rank, RankTypeOK
    <3> QED
      BY <3>5, <3>6
  <2>5. CASE Pump \/ ConsumerTakes
    <3>1. /\ UNCHANGED <<wireEnd, do>> /\ EndRank' = EndRank /\ DoRank' = DoRank
      BY <2>5 DEF Pump, PumpReads, PumpReadsEnd, ConsumerTakes, EndRank, DoRank
    <3>2. CASE PumpReads
      <4>1. wire # <<>> /\ wire' = Tail(wire)
        BY <3>2 DEF PumpReads
      <4>2. Len(wire') = Len(wire) - 1
        BY <1>0, <4>1 DEF TypeOK
      <4>3. WireRank' = WireRank - 2
        BY <1>0, <2>1, <3>1, <4>2, WireSum DEF RankTypeOK, WireRank
      <4>4. PumpRank = 1 /\ PumpRank' \in {0, 1, 2}
        BY <3>2 DEF PumpReads, PumpRank
      <4>5. ClientRank' <= ClientRank + 1
        <5>1. PumpRank' <= PumpRank + 1
          BY <4>4
        <5> QED
          BY <1>0, <3>1, <5>1, ClientSum DEF ClientRank, RankTypeOK
      <4> QED
        BY <1>0, <2>2, <4>3, <4>5, SumFalls DEF Rank, RankTypeOK
    <3>3. CASE PumpReadsEnd \/ ConsumerTakes
      <4>1. wire' = wire
        BY <3>3 DEF PumpReadsEnd, ConsumerTakes
      <4>2. WireRank' = WireRank
        BY <2>1, <3>1, <4>1 DEF WireRank
      <4>3. \/ PumpRank = 1 /\ PumpRank' = 0
            \/ PumpRank = 2 /\ PumpRank' = 1
        BY <3>3 DEF PumpReadsEnd, PumpReturns, ConsumerTakes, PumpRank
      <4>4. ClientRank' < ClientRank
        <5>1. PumpRank' < PumpRank
          BY <4>3
        <5> QED
          BY <1>0, <3>1, <5>1, ClientSum DEF ClientRank, RankTypeOK
      <4>5. WireRank' <= WireRank
        BY <1>0, <4>2 DEF RankTypeOK
      <4> QED
        BY <1>0, <2>2, <4>4, <4>5, SumFalls DEF Rank, RankTypeOK
    <3> QED
      BY <2>5, <3>2, <3>3 DEF Pump
  <2> QED
    BY <1>2, <2>3, <2>4, <2>5 DEF Next
<1>3. ~Terminated
  BY DEF Terminated
<1> QED
  BY <1>1, <1>2, <1>3

\* No livelock: nothing that the handler, the connection, Do, its goroutine or
\* the consumer does is undone or repeated.  Every step lowers the rank, so a
\* response is over after boundedly many steps, for any number of writes.
THEOREM NoLivelock == Spec => [][Rank' < Rank]_vars
<1>1. IndInv /\ IndInv' /\ [Next]_vars => [Rank' < Rank]_vars
  BY StepRank DEF IndInv
<1> QED
  BY <1>1, Invariance, PTL DEF Spec
-----------------------------------------------------------------------------
(***************************************************************************)
(* Liveness, from the fairness of FairSpec and from the fact that the      *)
(* actions it is fair to are enabled when their guards say so.             *)
(***************************************************************************)
ActionsEnabled ==
  /\ HandlerCanReturn => ENABLED <<HandlerReturns>>_vars
  /\ DoCanGoOn => ENABLED <<Do>>_vars
  /\ PumpCanGoOn => ENABLED <<Pump>>_vars
  /\ ConsumerCanTake => ENABLED <<ConsumerTakes>>_vars

\* Nothing more is written to what Do waits for.
Ended == do = "waiting" /\ handler # "serving"

\* A handler that has returned or panicked does nothing any more.
LEMMA HandlerEnds == handler # "serving" /\ [Next]_vars => handler' # "serving" /\ ~Handler
<1> SUFFICES ASSUME handler # "serving", [Next]_vars PROVE handler' # "serving" /\ ~Handler
  OBVIOUS
<1>1. ~Handler
  BY DEF Handler, WriteMessage, WriteOutput, WriteMessageFails, WriteMessagePanics,
         WriteEofMessage, WriteError, HandlerReturns
<1>2. TransportAborts \/ Do \/ Pump \/ ConsumerTakes \/ UNCHANGED vars
  BY <1>1 DEF Next, Terminated
<1> QED
  BY <1>1, <1>2, ClientLeavesWriter

\* Then only Do, which empties the wire or ends its wait, goes on.
LEMMA EndedStep ==
  IndInv /\ Ended /\ [Next]_vars =>
    \/ do' # "waiting"
    \/ /\ Ended'
       /\ wire = <<>> => wire' = <<>> /\ ~Do
       /\ Do => wire' = <<>>
       /\ wire' # <<>> => wire # <<>>
<1> SUFFICES ASSUME IndInv, Ended, [Next]_vars, do' = "waiting"
             PROVE  /\ Ended'
                    /\ wire = <<>> => wire' = <<>> /\ ~Do
                    /\ Do => wire' = <<>>
                    /\ wire' # <<>> => wire # <<>>
  OBVIOUS
<1>1. do = "waiting" /\ handler' # "serving" /\ ~Handler
  BY HandlerEnds DEF Ended
<1>2. ~Pump /\ ~ConsumerTakes
  BY <1>1 DEF Pump, PumpReads, PumpReadsEnd, ConsumerTakes, IndInv, ClientState
<1>3. Do => wire # <<>> /\ wire' = <<>>
  BY <1>1 DEF Do, DoStartsStream, DoReads, DoReadsBody, DoReturnsBody, DoFails
<1>4. ~Do => wire' = wire
  BY <1>1, <1>2 DEF Next, TransportAborts, Terminated, vars, wireVars
<1> QED
  BY <1>1, <1>3, <1>4 DEF Ended

\* Do returns what it decoded, and having returned it has no more steps.
LEMMA DoneStep ==
  [Next]_vars => /\ do = "decoded" => do' \in {"decoded", "ok"}
                 /\ do \in {"ok", "failed"} => do' = do
<1> SUFFICES ASSUME [Next]_vars
             PROVE  /\ do = "decoded" => do' \in {"decoded", "ok"}
                    /\ do \in {"ok", "failed"} => do' = do
  OBVIOUS
<1>1. CASE Handler
  BY <1>1, HandlerLeavesClient
<1>2. CASE ~Handler
  BY <1>2 DEF Next, TransportAborts, Do, DoStartsStream, DoReads, DoReadsBody, DoReturnsBody,
              DoFails, Pump, PumpReads, PumpReadsEnd, ConsumerTakes, Terminated, vars, clientVars
<1> QED
  BY <1>1, <1>2

\* Client.Do returns once the handler does, however it ends: whatever response
\* that leaves, Do makes a result or an error of it.
THEOREM DoAlwaysReturns ==
  FairSpec /\ []ActionsEnabled /\ <>(handler # "serving") => DoReturns
<1>1. IndInv /\ do = "waiting" /\ handler # "serving" => DoCanGoOn
  <2> SUFFICES ASSUME IndInv, do = "waiting", handler # "serving" PROVE DoCanGoOn
    OBVIOUS
  <2>1. wireEnd # "open"
    BY DEF IndInv, EndState
  <2> QED
    BY <2>1, DoWaitsForHandler
<1>2. handler # "serving" /\ [Next]_vars => (handler # "serving")'
  BY HandlerEnds
<1>3. IndInv /\ Ended /\ wire = <<>> /\ [Next]_vars =>
        (do # "waiting")' \/ (~Do /\ (Ended /\ wire = <<>>)')
  BY EndedStep
<1>4. IndInv /\ Ended /\ wire # <<>> /\ [Next]_vars =>
        \/ (do # "waiting")' \/ (Ended /\ wire = <<>>)'
        \/ (~Do /\ (Ended /\ wire # <<>>)')
  BY EndedStep
<1>5. Ended <=> do = "waiting" /\ handler # "serving"
  BY DEF Ended
<1>6. wire = <<>> <=> ~(wire # <<>>)
  OBVIOUS
<1>7. IndInv => do = "waiting" \/ do = "decoded" \/ do \in {"ok", "failed"}
  BY DEF IndInv, TypeOK
<1>8. do = "decoded" /\ [Next]_vars => (do = "decoded")' \/ (do \in {"ok", "failed"})'
  BY DoneStep
<1>9. do = "decoded" /\ <<Do>>_vars => (do \in {"ok", "failed"})'
  BY DEF Do, DoStartsStream, DoReads, DoReadsBody, DoReturnsBody, DoFails
<1>10. do = "decoded" => DoCanGoOn
  BY DEF DoCanGoOn
<1>11. ~(do = "waiting") <=> do # "waiting"
  OBVIOUS
<1>12. ActionsEnabled => (DoCanGoOn => ENABLED <<Do>>_vars)
  BY DEF ActionsEnabled
<1> QED
  BY <1>1, <1>2, <1>3, <1>4, <1>5, <1>6, <1>7, <1>8, <1>9, <1>10, <1>11, <1>12,
     Invariance, PTL DEF FairSpec, Fairness, Spec, DoReturns

\* What PumpFinishes rests on: from any rank n, while Do or the goroutine it
\* started has not returned, they come to an end, or the rank falls.
THEOREM EndComesNearer ==
  ASSUME NEW n \in Nat
  PROVE  FairSpec /\ []ActionsEnabled => ((~ClientDone /\ Rank = n) ~> (ClientDone \/ Rank < n))
<1>1. /\ IndInv /\ IndInv' /\ [Next]_vars /\ ~ClientDone /\ Rank = n
      => (Rank < n)' \/ (UNCHANGED vars /\ (~ClientDone /\ Rank = n)')
  <2> SUFFICES ASSUME IndInv, IndInv', [Next]_vars, ~ClientDone, Rank = n
               PROVE  (Rank < n)' \/ (UNCHANGED vars /\ (~ClientDone /\ Rank = n)')
    OBVIOUS
  <2>1. CASE UNCHANGED vars
    BY <2>1 DEF vars, serverVars, wireVars, clientVars, writerVars, ClientDone, Rank,
                HandlerRank, WritesRank, HeadRank, ServingRank, WireRank, EndRank,
                ClientRank, DoRank, PumpRank
  <2>2. CASE vars' # vars
    <3>1. TypeOK'
      BY DEF IndInv
    <3>2. [Rank' < Rank]_vars
      BY <3>1, StepRank
    <3>3. Rank' < Rank
      BY <2>2, <3>2 DEF vars
    <3>4. Rank' < n
      BY <3>3
    <3> QED
      BY <3>4
  <2> QED
    BY <2>1, <2>2
<1>2. UNCHANGED vars => /\ HandlerCanReturn => HandlerCanReturn'
                        /\ DoCanGoOn => DoCanGoOn'
                        /\ PumpCanGoOn => PumpCanGoOn'
                        /\ ConsumerCanTake => ConsumerCanTake'
  BY DEF vars, serverVars, wireVars, clientVars, writerVars, HandlerCanReturn, DoCanGoOn,
         BodyCanBeRead, BodyRead, NoUsableResponse, PumpCanGoOn, BodyExhausted,
         ConsumerCanTake
<1>3. IndInv => NobodyStuck
  BY Progress
<1>4. NobodyStuck /\ ~ClientDone =>
        HandlerCanReturn \/ DoCanGoOn \/ PumpCanGoOn \/ ConsumerCanTake
  BY DEF NobodyStuck
<1>5. ActionsEnabled =>
        /\ HandlerCanReturn => ENABLED <<HandlerReturns>>_vars
        /\ DoCanGoOn => ENABLED <<Do>>_vars
        /\ PumpCanGoOn => ENABLED <<Pump>>_vars
        /\ ConsumerCanTake => ENABLED <<ConsumerTakes>>_vars
  BY DEF ActionsEnabled
<1>6. /\ <<HandlerReturns>>_vars => ~UNCHANGED vars
      /\ <<Do>>_vars => ~UNCHANGED vars
      /\ <<Pump>>_vars => ~UNCHANGED vars
      /\ <<ConsumerTakes>>_vars => ~UNCHANGED vars
  OBVIOUS
<1> QED
  BY <1>1, <1>2, <1>3, <1>4, <1>5, <1>6, Invariance, PTL DEF FairSpec, Fairness, Spec
=============================================================================
