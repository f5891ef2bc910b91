---------------------------- MODULE FrameLemmas ----------------------------
(***************************************************************************)
(* Facts about sequences, element by element, and about the numbering of   *)
(* the frames on a wire when a value is sent, a frame is put on the wire   *)
(* and a frame is taken off it.                                            *)
(***************************************************************************)
EXTENDS Frames, TLAPS

\* Append keeps the elements in place and puts one more at the end.
LEMMA AppendElements ==
  ASSUME NEW S, NEW s \in Seq(S), NEW x \in S
  PROVE  /\ Append(s, x) \in Seq(S)
         /\ Len(Append(s, x)) = Len(s) + 1
         /\ \A i \in 1..Len(s) : Append(s, x)[i] = s[i]
         /\ Append(s, x)[Len(s) + 1] = x
  OBVIOUS

\* Tail moves every element but the first one place forward.
LEMMA TailElements ==
  ASSUME NEW S, NEW s \in Seq(S), s # <<>>
  PROVE  /\ Head(s) = s[1] /\ Head(s) \in S
         /\ Tail(s) \in Seq(S)
         /\ Len(s) \in Nat \ {0}
         /\ Len(Tail(s)) = Len(s) - 1
         /\ \A i \in 1..Len(Tail(s)) : Tail(s)[i] = s[i + 1]
  OBVIOUS

\* A sequence that is a prefix of another of the same length is that other.
LEMMA FullPrefix ==
  ASSUME NEW S, NEW s \in Seq(S), NEW t \in Seq(S), Len(s) = Len(t),
         \A i \in 1..Len(s) : s[i] = t[i]
  PROVE  s = t
  OBVIOUS
-----------------------------------------------------------------------------
\* Every message built by a constructor is a message.
LEMMA FrameTypes ==
  /\ EofFrame \in Frame /\ KeepAliveFrame \in Frame
  /\ \A v \in Data : DataFrame(v) \in Frame
  BY DEF EofFrame, KeepAliveFrame, DataFrame, Frame

\* One more value sent leaves the frames' numbers as they are.
LEMMA NumbersAfterSend ==
  ASSUME NEW s \in Seq(Data), NEW v \in Data, NEW w \in Seq(Frame), NEW r,
         NEW pos, Numbers(pos, w, s, r)
  PROVE  Numbers(pos, w, Append(s, v), r)
<1>1. /\ Len(Append(s, v)) = Len(s) + 1 /\ Len(s) \in Nat /\ Len(w) \in Nat
      /\ \A i \in 1..Len(s) : Append(s, v)[i] = s[i]
  BY AppendElements
<1>2. pos \in [0..Len(w) -> 0..Len(Append(s, v))]
  BY <1>1 DEF Numbers
<1>3. ASSUME NEW i \in 1..Len(w), w[i].type = "data"
      PROVE  w[i].payload = Append(s, v)[pos[i]]
  <2>1. i - 1 \in 0..Len(w) /\ i \in 0..Len(w)
    BY <1>1
  <2>2. pos[i] = pos[i - 1] + 1 /\ pos[i - 1] \in Nat /\ pos[i] \in 0..Len(s)
    BY <1>3, <2>1 DEF Numbers, Weight
  <2> QED
    BY <1>1, <1>3, <2>2 DEF Numbers
<1> QED
  BY <1>1, <1>2, <1>3 DEF Numbers

\* A frame put on the wire takes the next number.
LEMMA NumbersAfterTake ==
  ASSUME NEW s \in Seq(Data), NEW w \in Seq(Frame), NEW f \in Frame, NEW r,
         NEW pos, Numbers(pos, w, s, r),
         f.type = "data" => /\ pos[Len(w)] + 1 = Len(s)
                            /\ f.payload = s[Len(s)]
  PROVE  \E new : /\ Numbers(new, Append(w, f), s, r)
                  /\ new[Len(w) + 1] = pos[Len(w)] + Weight(f)
<1> DEFINE last == pos[Len(w)] + Weight(f)
           new  == [i \in 0..Len(w) + 1 |-> IF i = Len(w) + 1 THEN last ELSE pos[i]]
<1>1. /\ Len(Append(w, f)) = Len(w) + 1 /\ Len(w) \in Nat /\ Len(s) \in Nat
      /\ \A i \in 1..Len(w) : Append(w, f)[i] = w[i]
      /\ Append(w, f)[Len(w) + 1] = f
  BY AppendElements
<1>2. pos[Len(w)] \in 0..Len(s) /\ last \in 0..Len(s)
  BY <1>1 DEF Numbers, Weight
<1>3. new \in [0..Len(Append(w, f)) -> 0..Len(s)] /\ new[0] = r
  BY <1>1, <1>2 DEF Numbers
<1>4. ASSUME NEW i \in 1..Len(w) + 1
      PROVE  /\ new[i] = new[i - 1] + Weight(Append(w, f)[i])
             /\ Append(w, f)[i].type = "data" => Append(w, f)[i].payload = s[new[i]]
  <2>1. CASE i \in 1..Len(w)
    <3>1. new[i] = pos[i] /\ new[i - 1] = pos[i - 1]
      BY <1>1, <2>1
    <3> QED
      BY <1>1, <2>1, <3>1 DEF Numbers
  <2>2. CASE i = Len(w) + 1
    <3>1. new[i] = last /\ new[i - 1] = pos[Len(w)]
      BY <1>1, <2>2
    <3> QED
      BY <1>1, <1>2, <2>2, <3>1 DEF Weight
  <2> QED
    BY <1>1, <2>1, <2>2
<1>5. new[Len(w) + 1] = last
  BY <1>1
<1> QED
  BY <1>1, <1>3, <1>4, <1>5 DEF Numbers

\* A frame taken off the wire gives its number to the receiver's count.
LEMMA NumbersAfterRead ==
  ASSUME NEW s \in Seq(Data), NEW w \in Seq(Frame), w # <<>>, NEW r,
         NEW pos, Numbers(pos, w, s, r)
  PROVE  \E new : /\ Numbers(new, Tail(w), s, pos[1])
                  /\ new[Len(w) - 1] = pos[Len(w)]
<1> DEFINE new == [i \in 0..Len(w) - 1 |-> pos[i + 1]]
<1>1. /\ Len(Tail(w)) = Len(w) - 1 /\ Len(w) \in Nat \ {0}
      /\ \A i \in 1..Len(Tail(w)) : Tail(w)[i] = w[i + 1]
  BY TailElements
<1>2. new \in [0..Len(Tail(w)) -> 0..Len(s)] /\ new[0] = pos[1]
  BY <1>1 DEF Numbers
<1>3. ASSUME NEW i \in 1..Len(Tail(w))
      PROVE  /\ new[i] = new[i - 1] + Weight(Tail(w)[i])
             /\ Tail(w)[i].type = "data" => Tail(w)[i].payload = s[new[i]]
  <2>1. new[i] = pos[i + 1] /\ new[i - 1] = pos[i] /\ i + 1 \in 1..Len(w)
    BY <1>1
  <2> QED
    BY <1>1, <2>1 DEF Numbers
<1>4. new[Len(w) - 1] = pos[Len(w)]
  BY <1>1
<1> QED
  BY <1>2, <1>3, <1>4 DEF Numbers
=============================================================================
