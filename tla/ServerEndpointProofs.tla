------------------------ MODULE ServerEndpointProofs ------------------------
(***************************************************************************)
(* Proofs about ServeHTTP, for every set of calls, clients, prefixes and   *)
(* paths, and any number of goroutines: what it takes to reach a handler,  *)
(* how a refused request is answered, and that nothing is left behind.     *)
(***************************************************************************)
EXTENDS ServerEndpoint, SequenceTheorems, WellFoundedInduction, TLAPS
-----------------------------------------------------------------------------
(***************************************************************************)
(* What the operators of Routing return: strings again, and of a path with *)
(* a key in it the two names that it was made of.                          *)
(***************************************************************************)

\* First: the least of a set of numbers, which well-foundedness gives.
Less == {ss \in Nat \X Nat : ss[1] < ss[2]}

\* There is no infinite descent in the numbers.
LEMMA LessWF == IsWellFoundedOn(Less, Nat)
  BY NatLessThanWellFounded DEF OpToRel, Less

\* First returns an element of the set, and none is less.
LEMMA FirstIsLeast ==
  ASSUME NEW S, S \subseteq Nat, S # {}
  PROVE  First(S) \in S /\ \A j \in S : First(S) <= j
<1>1. PICK i \in S : \A j \in S : ~(<<j, i>> \in Less)
  BY LessWF, WFMin, Zenon
<1>2. \A j \in S : i <= j
  <2> SUFFICES ASSUME NEW j \in S PROVE i <= j
    OBVIOUS
  <2>1. i \in Nat /\ j \in Nat
    OBVIOUS
  <2>2. ~(<<j, i>> \in Less)
    BY <1>1
  <2>3. ~(j < i)
    BY <2>1, <2>2 DEF Less
  <2> QED
    BY <2>1, <2>3
<1>3. \E k \in S : \A j \in S : k <= j
  BY <1>2
<1> QED
  BY <1>3, Zenon DEF First

\* A part of a string is a string, as long as asked for, with its characters.
LEMMA SubSeqStrings ==
  ASSUME NEW s \in Strings, NEW m \in Nat \ {0}, NEW n \in 0..Len(s)
  PROVE  /\ SubSeq(s, m, n) \in Strings
         /\ Len(SubSeq(s, m, n)) = IF m <= n THEN n - m + 1 ELSE 0
         /\ \A i \in 1..(n - m + 1) : SubSeq(s, m, n)[i] = s[m + i - 1]
<1>1. \A i \in m..n : s[i] \in Characters
  BY ElementOfSeq DEF Strings
<1>2. Len(s) \in Nat
  BY LenProperties DEF Strings
<1> QED
  BY <1>1, <1>2, SubSeqProperties DEF Strings

\* strings.TrimSuffix and strings.TrimPrefix return strings.
LEMMA TrimStrings ==
  ASSUME NEW s \in Strings
  PROVE  TrimSuffix(s) \in Strings /\ TrimPrefix(s) \in Strings
<1>1. Len(s) \in Nat /\ (s # <<>> => Len(s) > 0)
  BY EmptySeq, LenProperties DEF Strings
<1>2. s # <<>> => SubSeq(s, 1, Len(s) - 1) \in Strings
  BY <1>1, SubSeqStrings
<1>3. s # <<>> => Tail(s) \in Strings
  BY HeadTailProperties DEF Strings
<1> QED
  BY <1>2, <1>3 DEF TrimSuffix, TrimPrefix

\* Two strings make a string.
LEMMA ConcatStrings ==
  ASSUME NEW s \in Strings, NEW t \in Strings
  PROVE  s \o t \in Strings
  BY ConcatProperties DEF Strings

\* A slash is a string, and so is nothing.
LEMMA Slash == <<"/">> \in Strings /\ Len(<<"/">>) = 1 /\ <<"/">>[1] = "/" /\ <<>> \in Strings
  BY StringsAssumption, EmptySeq DEF StringsAssumption, Strings

\* The path that a client makes for a call is a string.
LEMMA RequestPathString ==
  ASSUME NEW c \in Clients, NEW k \in Keys
  PROVE  RequestPath(c, k) \in Strings
<1>1. /\ c.base \in Strings /\ c.urlPrefix \in Strings
      /\ k.api \in Strings /\ k.op \in Strings
  BY StringsAssumption DEF StringsAssumption, Strings
<1>2. <<"/">> \in Strings /\ <<>> \in Strings
  BY Slash
<1> DEFINE url == BuildRequestUrl(c.urlPrefix, k)
<1>3. url \in Strings
  <2>1. <<"/">> \o TrimPrefix(TrimSuffix(c.urlPrefix)) \in Strings
    BY <1>1, <1>2, TrimStrings, ConcatStrings
  <2>2. (IF c.urlPrefix = <<>> THEN <<>> ELSE <<"/">> \o TrimPrefix(TrimSuffix(c.urlPrefix)))
          \in Strings
    BY <1>2, <2>1
  <2> QED
    BY <1>1, <1>2, <2>2, ConcatStrings DEF BuildRequestUrl
<1>4. UrlPath(url) \in Strings
  <2> DEFINE after == {i \in Slashes(url) : i > 2}
  <2>1. Len(url) \in Nat
    BY <1>3, LenProperties DEF Strings
  <2>2. after # {} => First(after) \in 1..Len(url)
    <3>1. after \subseteq 1..Len(url)
      BY DEF Slashes
    <3>2. after \subseteq Nat
      BY <2>1, <3>1
    <3> HIDE DEF after
    <3> QED
      BY <3>1, <3>2, FirstIsLeast
  <2>3. after # {} => SubSeq(url, First(after), Len(url)) \in Strings
    BY <1>3, <2>1, <2>2, SubSeqStrings
  <2> QED
    BY <1>2, <1>3, <2>3 DEF UrlPath
<1> QED
  BY <1>1, <1>2, <1>4, TrimStrings, ConcatStrings DEF RequestPath, CleanUrl

\* parseCallKey cuts the rest of a path into two names and the slash between them.
LEMMA CutAtSlash ==
  ASSUME NEW path \in Strings, NEW pre \in Strings,
         ~OutOfRange(path, pre), HasKey(path, pre)
  PROVE  LET k == CallKey(path, pre)
         IN  /\ k \in [api : Strings, op : Strings]
             /\ Names(path, pre) = k.api \o <<"/">> \o k.op
<1> DEFINE names == Names(path, pre)
           cut == First(Slashes(names))
           api == SubSeq(names, 1, cut - 1)
           op == SubSeq(names, cut + 1, Len(names))
<1>1. Len(path) \in Nat /\ Len(pre) \in Nat
  BY LenProperties DEF Strings
<1>2. names \in Strings
  BY <1>1, SubSeqStrings DEF Names
<1>3. Len(names) \in Nat
  BY <1>2, LenProperties DEF Strings
<1>4. cut \in 1..Len(names) /\ names[cut] = "/"
  <2>1. Slashes(names) \subseteq Nat /\ Slashes(names) # {}
    BY <1>3 DEF Slashes, HasKey
  <2>2. cut \in Slashes(names)
    BY <2>1, FirstIsLeast
  <2> QED
    BY <2>2 DEF Slashes
<1> HIDE DEF names, cut
<1>5. /\ api \in Strings /\ Len(api) = cut - 1
      /\ \A i \in 1..(cut - 1) : api[i] = names[i]
  BY <1>2, <1>3, <1>4, SubSeqStrings
<1>6. /\ op \in Strings /\ Len(op) = Len(names) - cut
      /\ \A i \in 1..(Len(names) - cut) : op[i] = names[cut + i]
  BY <1>2, <1>3, <1>4, SubSeqStrings
<1>7. names = api \o <<"/">> \o op
  <2> HIDE DEF api, op
  <2>1. <<"/">> \in Strings /\ Len(<<"/">>) = 1 /\ <<"/">>[1] = "/"
    BY Slash
  <2> DEFINE left == api \o <<"/">>
  <2>2. /\ left \in Strings /\ Len(left) = cut
        /\ \A i \in 1..cut : left[i] = IF i <= cut - 1 THEN api[i] ELSE <<"/">>[i - (cut - 1)]
    BY <1>3, <1>4, <1>5, <2>1, ConcatProperties DEF Strings
  <2>3. \A i \in 1..cut : left[i] = names[i]
    BY <1>3, <1>4, <1>5, <2>1, <2>2
  <2> HIDE DEF left
  <2>4. /\ left \o op \in Strings /\ Len(left \o op) = Len(names)
        /\ \A i \in 1..Len(names) : (left \o op)[i] = IF i <= cut THEN left[i] ELSE op[i - cut]
    <3>1. /\ left \o op \in Strings /\ Len(left \o op) = Len(left) + Len(op)
          /\ \A i \in 1..(Len(left) + Len(op)) :
                (left \o op)[i] = IF i <= Len(left) THEN left[i] ELSE op[i - Len(left)]
      <4>1. left \in Seq(Characters) /\ op \in Seq(Characters)
        BY <1>6, <2>2 DEF Strings
      <4> HIDE DEF op
      <4> QED
        BY <4>1, ConcatProperties DEF Strings
    <3>2. Len(left) = cut /\ Len(left) + Len(op) = Len(names)
      BY <1>3, <1>4, <1>6, <2>2
    <3> QED
      BY <3>1, <3>2
  <2>5. \A i \in 1..Len(names) : (left \o op)[i] = names[i]
    BY <1>3, <1>4, <1>6, <2>3, <2>4
  <2>6. names = left \o op
    BY <1>2, <2>4, <2>5, SeqEqual DEF Strings
  <2> QED
    BY <2>6 DEF left
<1>8. CallKey(path, pre) = Key(api, op)
  BY DEF CallKey, names, cut
<1> HIDE DEF api, op
<1>9. Key(api, op) \in [api : Strings, op : Strings] /\ Key(api, op).api = api /\ Key(api, op).op = op
  BY <1>5, <1>6 DEF Key
<1> QED
  BY <1>7, <1>8, <1>9 DEF names
-----------------------------------------------------------------------------
\* What comes first is a prefix.
LEMMA StartsWith ==
  ASSUME NEW s \in Strings, NEW r \in Strings
  PROVE  HasPrefix(s \o r, s)
<1>1. Len(s) \in Nat /\ Len(r) \in Nat
  BY LenProperties DEF Strings
<1> DEFINE t == s \o r
<1>2. /\ t \in Strings /\ Len(t) = Len(s) + Len(r)
      /\ \A i \in 1..(Len(s) + Len(r)) : t[i] = IF i <= Len(s) THEN s[i] ELSE r[i - Len(s)]
  BY ConcatProperties DEF Strings
<1> HIDE DEF t
<1>3. /\ SubSeq(t, 1, Len(s)) \in Strings /\ Len(SubSeq(t, 1, Len(s))) = Len(s)
      /\ \A i \in 1..Len(s) : SubSeq(t, 1, Len(s))[i] = t[i]
  BY <1>1, <1>2, SubSeqStrings
<1>4. \A i \in 1..Len(s) : t[i] = s[i]
  BY <1>1, <1>2
<1>5. SubSeq(t, 1, Len(s)) = s
  BY <1>3, <1>4, SeqEqual DEF Strings
<1>6. HasPrefix(t, s)
  BY <1>1, <1>2, <1>5 DEF HasPrefix
<1> QED
  BY <1>6 DEF t

\* A prefix, a slash and the rest are taken apart again.
LEMMA CutBehindPrefix ==
  ASSUME NEW s \in Strings, NEW r \in Strings
  PROVE  LET path == s \o (<<"/">> \o r)
         IN  HasPrefix(path, s) /\ ~OutOfRange(path, s) /\ Names(path, s) = r
<1> DEFINE rest == <<"/">> \o r
           path == s \o rest
<1>1. Len(s) \in Nat /\ Len(r) \in Nat
  BY LenProperties DEF Strings
<1>2. /\ rest \in Strings /\ Len(rest) = Len(r) + 1
      /\ \A i \in 1..Len(r) : rest[i + 1] = r[i]
  <2>1. /\ rest \in Strings /\ Len(rest) = 1 + Len(r)
        /\ \A i \in 1..(1 + Len(r)) : rest[i] = IF i <= 1 THEN <<"/">>[i] ELSE r[i - 1]
    BY Slash, ConcatProperties DEF Strings
  <2> HIDE DEF rest
  <2> QED
    BY <1>1, <2>1
<1> HIDE DEF rest
<1>3. /\ path \in Strings /\ Len(path) = Len(s) + Len(r) + 1
      /\ \A i \in 1..Len(s) : path[i] = s[i]
      /\ \A i \in 1..Len(r) : path[i + Len(s) + 1] = r[i]
  <2>1. /\ path \in Strings /\ Len(path) = Len(s) + Len(rest)
        /\ \A i \in 1..(Len(s) + Len(rest)) : path[i] = IF i <= Len(s) THEN s[i] ELSE rest[i - Len(s)]
    BY <1>2, ConcatProperties DEF Strings
  <2> HIDE DEF path
  <2>2. \A i \in 1..Len(s) : path[i] = s[i]
    BY <1>1, <1>2, <2>1
  <2>3. \A i \in 1..Len(r) : path[i + Len(s) + 1] = r[i]
    <3> SUFFICES ASSUME NEW i \in 1..Len(r) PROVE path[i + Len(s) + 1] = r[i]
      OBVIOUS
    <3>1. path[i + Len(s) + 1] = rest[i + Len(s) + 1 - Len(s)]
      BY <1>1, <1>2, <2>1
    <3>2. i + Len(s) + 1 - Len(s) = i + 1
      BY <1>1
    <3> QED
      BY <1>2, <3>1, <3>2
  <2> QED
    BY <1>1, <1>2, <2>1, <2>2, <2>3
<1> HIDE DEF path
<1>4. HasPrefix(path, s)
  BY <1>2, StartsWith DEF path
<1>5. Names(path, s) = r
  <2>1. /\ Names(path, s) \in Strings /\ Len(Names(path, s)) = Len(r)
        /\ \A i \in 1..Len(r) : Names(path, s)[i] = path[Len(s) + 2 + i - 1]
    BY <1>1, <1>3, SubSeqStrings DEF Names
  <2>2. \A i \in 1..Len(r) : Names(path, s)[i] = r[i]
    <3> SUFFICES ASSUME NEW i \in 1..Len(r) PROVE Names(path, s)[i] = r[i]
      OBVIOUS
    <3>1. Len(s) + 2 + i - 1 = i + Len(s) + 1
      BY <1>1
    <3> QED
      BY <1>3, <2>1, <3>1
  <2> QED
    BY <2>1, <2>2, SeqEqual DEF Strings
<1>6. ~OutOfRange(path, s)
  BY <1>1, <1>3 DEF OutOfRange
<1> QED
  BY <1>4, <1>5, <1>6 DEF path, rest

\* The key that is cut out of a path is the one it was made of.
LEMMA KeyIsFound ==
  ASSUME NEW pre \in Strings, NEW k \in Keys
  PROVE  LET path == pre \o (<<"/">> \o (k.api \o (<<"/">> \o k.op)))
         IN  HasPrefix(path, pre) /\ ~OutOfRange(path, pre) /\ HasKey(path, pre) /\ CallKey(path, pre) = k
<1> DEFINE names == k.api \o (<<"/">> \o k.op)
           path == pre \o (<<"/">> \o names)
<1>1. k.api \in Strings /\ k.op \in Strings /\ Slashes(k.api) = {} /\ k = Key(k.api, k.op)
  BY StringsAssumption, NamesAssumption DEF StringsAssumption, NamesAssumption, Key
<1>2. names \in Strings
  BY <1>1, Slash, ConcatStrings
<1>3. HasPrefix(names, k.api) /\ ~OutOfRange(names, k.api) /\ Names(names, k.api) = k.op
  BY <1>1, CutBehindPrefix
<1>4. names[Len(k.api) + 1] = "/"
  <2>1. /\ (<<"/">> \o k.op) \in Strings /\ Len(<<"/">> \o k.op) = 1 + Len(k.op)
        /\ \A i \in 1..(1 + Len(k.op)) : (<<"/">> \o k.op)[i] = IF i <= 1 THEN <<"/">>[i] ELSE k.op[i - 1]
    BY <1>1, Slash, ConcatProperties DEF Strings
  <2> DEFINE rest == <<"/">> \o k.op
  <2>2. Len(k.op) \in Nat /\ Len(k.api) \in Nat
    BY <1>1, LenProperties DEF Strings
  <2>3. rest \in Strings /\ Len(rest) > 0 /\ rest[1] = "/"
    BY <2>1, <2>2, Slash
  <2> HIDE DEF rest
  <2>4. \A i \in 1..(Len(k.api) + Len(rest)) :
           (k.api \o rest)[i] = IF i <= Len(k.api) THEN k.api[i] ELSE rest[i - Len(k.api)]
    BY <1>1, <2>3, ConcatProperties DEF Strings
  <2>5. Len(rest) \in Nat /\ Len(k.api) + 1 - Len(k.api) = 1
    BY <2>2, <2>3, LenProperties DEF Strings
  <2>6. (k.api \o rest)[Len(k.api) + 1] = rest[1]
    BY <2>2, <2>3, <2>4, <2>5
  <2> QED
    BY <2>3, <2>6 DEF rest
<1> HIDE DEF names
<1>5. Len(k.api) \in Nat /\ Len(names) \in Nat /\ Len(names) >= Len(k.api) + 1
  BY <1>1, <1>2, <1>3, LenProperties DEF Strings, OutOfRange
<1>6. First(Slashes(names)) = Len(k.api) + 1
  <2>1. Len(k.api) + 1 \in Slashes(names)
    BY <1>4, <1>5 DEF Slashes
  <2>2. \A i \in 1..Len(k.api) : names[i] = k.api[i]
    <3>1. SubSeq(names, 1, Len(k.api)) = k.api
      BY <1>3 DEF HasPrefix
    <3>2. \A i \in 1..Len(k.api) : SubSeq(names, 1, Len(k.api))[i] = names[i]
      BY <1>2, <1>5, SubSeqStrings
    <3> QED
      BY <3>1, <3>2
  <2>3. \A i \in 1..Len(k.api) : names[i] # "/"
    BY <1>1, <2>2 DEF Slashes
  <2>4. \A i \in Slashes(names) : i \in Nat /\ i >= Len(k.api) + 1
    BY <1>5, <2>3 DEF Slashes
  <2>5. First(Slashes(names)) \in Slashes(names) /\ \A j \in Slashes(names) : First(Slashes(names)) <= j
    BY <2>1, <2>4, FirstIsLeast
  <2> QED
    BY <1>5, <2>1, <2>4, <2>5
<1>7. HasPrefix(path, pre) /\ ~OutOfRange(path, pre) /\ Names(path, pre) = names
  BY <1>2, CutBehindPrefix
<1>8. HasKey(path, pre)
  BY <1>4, <1>5, <1>7 DEF HasKey, Slashes
<1>9. CallKey(path, pre) = k
  <2>1. SubSeq(names, 1, Len(k.api) + 1 - 1) = k.api
    BY <1>3, <1>5 DEF HasPrefix
  <2>2. SubSeq(names, Len(k.api) + 1 + 1, Len(names)) = k.op
    <3>1. Len(k.api) + 1 + 1 = Len(k.api) + 2
      BY <1>5
    <3>2. SubSeq(names, Len(k.api) + 2, Len(names)) = k.op
      BY <1>3 DEF Names
    <3> QED
      BY <3>1, <3>2
  <2> HIDE DEF path
  <2>3. CallKey(path, pre) = Key(SubSeq(names, 1, Len(k.api) + 1 - 1),
                                 SubSeq(names, Len(k.api) + 1 + 1, Len(names)))
    BY <1>6, <1>7 DEF CallKey
  <2> QED
    BY <1>1, <2>1, <2>2, <2>3
<1> QED
  BY <1>7, <1>8, <1>9 DEF path, names

\* A string that starts with a slash.
LEMMA LeadingSlash ==
  ASSUME NEW s \in Strings, HasPrefix(s, <<"/">>)
  PROVE  s # <<>> /\ Len(s) >= 1 /\ s[1] = "/" /\ Tail(s) \in Strings /\ s = <<"/">> \o Tail(s)
<1>1. Len(s) \in Nat /\ Len(s) >= 1 /\ SubSeq(s, 1, 1) = <<"/">>
  BY Slash, LenProperties DEF Strings, HasPrefix
<1>2. s # <<>>
  BY <1>1, EmptySeq DEF Strings
<1>3. SubSeq(s, 1, 1)[1] = s[1]
  BY <1>1, SubSeqStrings
<1>4. s[1] = "/"
  BY <1>1, <1>3, Slash
<1>5. SubSeq(s, 1, Len(s)) = <<s[1]>> \o SubSeq(s, 2, Len(s))
  <2>1. 1 \in 1..Len(s) /\ Len(s) \in 1..Len(s) /\ 1 + 1 = 2
    BY <1>1
  <2> QED
    BY <2>1, SubSeqRecursiveFirst DEF Strings
<1>6. SubSeq(s, 1, Len(s)) = s /\ SubSeq(s, 2, Len(s)) = Tail(s) /\ Tail(s) \in Strings
  BY <1>2, SubSeqFull, TailIsSubSeq, HeadTailProperties DEF Strings
<1> QED
  BY <1>1, <1>2, <1>4, <1>5, <1>6

\* A slash and more start with a slash.
LEMMA SlashThenString ==
  ASSUME NEW s \in Strings
  PROVE  HasPrefix(<<"/">> \o s, <<"/">>)
  BY Slash, StartsWith

\* Concatenation of strings is associative.
LEMMA Associates ==
  ASSUME NEW s \in Strings, NEW t \in Strings, NEW u \in Strings
  PROVE  (s \o t) \o u = s \o (t \o u)
  BY ConcatAssociative DEF Strings

\* What a client appends to its prefix, a slash at a time, and the same from the
\* end of the path to its beginning.
Appended(first, slash, api, op) == (((first \o slash) \o api) \o slash) \o op
Below(first, slash, api, op) == first \o (slash \o (api \o (slash \o op)))

\* The two are the same.
LEMMA FiveParts ==
  ASSUME NEW slash, NEW first, NEW api, NEW op
  PROVE  slash \in Strings /\ first \in Strings /\ api \in Strings /\ op \in Strings
           => Appended(first, slash, api, op) = Below(first, slash, api, op)
<1>1. ASSUME slash \in Strings /\ first \in Strings /\ api \in Strings /\ op \in Strings
      PROVE  Appended(first, slash, api, op) = Below(first, slash, api, op)
  <2> DEFINE a == first \o slash
             b == a \o api
             c == slash \o op
             d == api \o c
  <2>1. slash \in Strings
    BY <1>1
  <2>2. op \in Strings
    BY <1>1
  <2>3. api \in Strings
    BY <1>1
  <2>4. first \in Strings
    BY <1>1
  <2>5. a \in Strings
    BY <2>1, <2>4, ConcatStrings
  <2>6. b \in Strings
    BY <2>3, <2>5, ConcatStrings
  <2>7. c \in Strings
    BY <2>1, <2>2, ConcatStrings
  <2>8. d \in Strings
    BY <2>3, <2>7, ConcatStrings
  <2> HIDE DEF a, b, c, d
  <2>9. (b \o slash) \o op = b \o (slash \o op)
    BY <2>1, <2>2, <2>6, Associates, Zenon
  <2>10. (a \o api) \o c = a \o (api \o c)
    BY <2>3, <2>5, <2>7, Associates, Zenon
  <2>11. (first \o slash) \o d = first \o (slash \o d)
    BY <2>1, <2>4, <2>8, Associates, Zenon
  <2>12. (b \o slash) \o op = first \o (slash \o d)
    BY <2>9, <2>10, <2>11, Zenon DEF a, b, c, d
  <2> QED
    BY <2>12, Zenon DEF a, b, c, d, Appended, Below
<1> QED
  BY <1>1

\* The empty string is neutral.
LEMMA EmptyIsNeutral ==
  ASSUME NEW s \in Strings
  PROVE  s \o <<>> = s /\ <<>> \o s = s
  BY ConcatEmptySeq DEF Strings

\* A slash and a slash are two.
LEMMA TwoSlashes == <<"/", "/">> \in Strings /\ <<"/">> \o <<"/">> = <<"/", "/">>
<1>1. "/" \in Characters
  BY StringsAssumption DEF StringsAssumption
<1>2. <<"/", "/">> \in Strings /\ Len(<<"/", "/">>) = 2
      /\ <<"/", "/">>[1] = "/" /\ <<"/", "/">>[2] = "/"
  BY <1>1 DEF Strings
<1> DEFINE sl == <<"/">>
           t == sl \o sl
<1>3. sl \in Strings /\ Len(sl) = 1 /\ sl[1] = "/"
  BY Slash
<1> HIDE DEF sl
<1>4. t \in Strings /\ Len(t) = Len(sl) + Len(sl)
      /\ \A i \in 1..(Len(sl) + Len(sl)) : t[i] = IF i <= Len(sl) THEN sl[i] ELSE sl[i - Len(sl)]
  BY <1>3, ConcatProperties DEF Strings
<1> HIDE DEF t
<1>5. Len(t) = 2 /\ t[1] = "/" /\ t[2] = "/"
  BY <1>3, <1>4
<1> DEFINE two == <<"/", "/">>
<1>6. two \in Strings /\ Len(two) = 2 /\ two[1] = "/" /\ two[2] = "/"
  BY <1>2
<1> HIDE DEF two
<1>7. \A i \in 1..Len(t) : t[i] = two[i]
  <2> SUFFICES ASSUME NEW i \in 1..Len(t) PROVE t[i] = two[i]
    OBVIOUS
  <2>1. i = 1 \/ i = 2
    BY <1>5
  <2> QED
    BY <1>5, <1>6, <2>1
<1>8. t = two
  BY <1>4, <1>5, <1>6, <1>7, SeqEqual DEF Strings
<1> QED
  BY <1>6, <1>8 DEF t, sl, two

\* A slash, nothing, and a slash: a string that starts with two slashes.
LEMMA StartsWithTwo ==
  ASSUME NEW s \in Strings
  PROVE  HasPrefix(<<"/">> \o (<<"/">> \o s), <<"/", "/">>)
<1>1. <<"/">> \o (<<"/">> \o s) = (<<"/">> \o <<"/">>) \o s
  BY Slash, Associates, Zenon
<1>2. HasPrefix(<<"/", "/">> \o s, <<"/", "/">>)
  BY TwoSlashes, StartsWith
<1> QED
  BY <1>1, <1>2, TwoSlashes

\* A prefix in its normal form: nothing, or a slash and the rest.
LEMMA NormalForm ==
  ASSUME NEW s \in Strings
  PROVE  /\ Normal(s) \in Strings
         /\ s = <<>> => Normal(s) = <<>>
         /\ TrimPrefix(TrimSuffix(s)) # <<>> => Normal(s) = <<"/">> \o TrimPrefix(TrimSuffix(s))
<1>1. TrimPrefix(TrimSuffix(s)) \in Strings
  BY TrimStrings
<1>2. Normal(s) \in Strings
  BY <1>1, Slash, ConcatStrings DEF Normal
<1>3. s = <<>> => Normal(s) = <<>>
  BY DEF Normal, TrimSuffix, TrimPrefix
<1> QED
  BY <1>2, <1>3 DEF Normal

\* The URL that a client builds for a call, unless it starts with two slashes.
LEMMA UrlBuilt ==
  ASSUME NEW up \in Strings, NEW k \in Keys,
         ~HasPrefix(BuildRequestUrl(up, k), <<"/", "/">>)
  PROVE  /\ BuildRequestUrl(up, k) = Normal(up) \o (<<"/">> \o (k.api \o (<<"/">> \o k.op)))
         /\ HasPrefix(BuildRequestUrl(up, k), <<"/">>)
<1> DEFINE below == <<"/">> \o (k.api \o (<<"/">> \o k.op))
           trimmed == TrimPrefix(TrimSuffix(up))
           first == IF up = <<>> THEN <<>> ELSE <<"/">> \o trimmed
           url == BuildRequestUrl(up, k)
<1>1. k.api \in Strings /\ k.op \in Strings
  BY StringsAssumption DEF StringsAssumption
<1>2. k.api \o (<<"/">> \o k.op) \in Strings /\ below \in Strings
  BY <1>1, Slash, ConcatStrings
<1>3. trimmed \in Strings
  BY TrimStrings
<1>4. first \in Strings
  BY <1>3, Slash, ConcatStrings
<1>5. url = first \o below
  <2>1. url = (((first \o <<"/">>) \o k.api) \o <<"/">>) \o k.op
    BY DEF BuildRequestUrl
  <2> HIDE DEF url, first
  <2> DEFINE slash == <<"/">>
             api == k.api
             op == k.op
  <2>2. /\ slash \in Strings /\ first \in Strings
        /\ api \in Strings /\ op \in Strings
    BY <1>1, <1>4, Slash
  <2> HIDE DEF trimmed, below, slash, api, op
  <2>3. Appended(first, slash, api, op) = Below(first, slash, api, op)
    BY <2>2, FiveParts
  <2> QED
    BY <2>1, <2>3, Zenon DEF slash, api, op, below, Appended, Below
<1>6. CASE up = <<>>
  <2>1. url = below /\ Normal(up) \o below = below
    BY <1>2, <1>5, <1>6, NormalForm, EmptyIsNeutral
  <2> QED
    BY <1>2, <2>1, SlashThenString
<1>7. CASE up # <<>>
  <2>1. url = <<"/">> \o (trimmed \o below)
    <3>1. url = (<<"/">> \o trimmed) \o below
      BY <1>5, <1>7
    <3> DEFINE slash == <<"/">>
    <3>2. slash \in Strings
      BY Slash
    <3> HIDE DEF url, trimmed, below, slash
    <3>3. (slash \o trimmed) \o below = slash \o (trimmed \o below)
      BY <1>2, <1>3, <3>2, Associates, Zenon
    <3> QED
      BY <3>1, <3>3 DEF slash
  <2>2. trimmed # <<>>
    <3> SUFFICES ASSUME trimmed = <<>> PROVE FALSE
      OBVIOUS
    <3>1. url = <<"/">> \o below
      BY <1>2, <2>1, EmptyIsNeutral
    <3>2. HasPrefix(url, <<"/", "/">>)
      BY <1>2, <3>1, StartsWithTwo
    <3> QED
      BY <3>2
  <2>3. Normal(up) = <<"/">> \o trimmed
    BY <2>2, NormalForm
  <2>4. trimmed \o below \in Strings
    BY <1>2, <1>3, ConcatStrings
  <2>5. url = Normal(up) \o below
    BY <1>5, <1>7, <2>3
  <2>6. HasPrefix(url, <<"/">>)
    BY <2>1, <2>4, SlashThenString
  <2> QED
    BY <2>5, <2>6
<1> QED
  BY <1>6, <1>7

\* The path of a server's URL is in its normal form but for a slash at its end.
LEMMA BaseIsNormal ==
  ASSUME NEW b \in Strings, HasPrefix(b, <<"/">>), b # <<"/">>, b # <<"/", "/">>
  PROVE  Normal(b) = TrimSuffix(b)
<1> DEFINE t == TrimSuffix(b)
<1>1. b # <<>> /\ Len(b) >= 1 /\ b[1] = "/" /\ b = <<"/">> \o Tail(b) /\ Tail(b) \in Strings
  BY LeadingSlash
<1>2. Len(b) \in Nat
  BY LenProperties DEF Strings
<1>3. Len(b) # 1
  <2> SUFFICES ASSUME Len(b) = 1 PROVE FALSE
    OBVIOUS
  <2>1. \A i \in 1..Len(b) : b[i] = <<"/">>[i]
    BY <1>1, Slash
  <2>2. b = <<"/">>
    BY <2>1, Slash, SeqEqual DEF Strings
  <2> QED
    BY <2>2
<1>4. ~(Len(b) = 2 /\ b[2] = "/")
  <2> SUFFICES ASSUME Len(b) = 2, b[2] = "/" PROVE FALSE
    OBVIOUS
  <2> DEFINE two == <<"/", "/">>
  <2>1. two \in Strings /\ Len(two) = 2 /\ two[1] = "/" /\ two[2] = "/" /\ b # two
    BY TwoSlashes
  <2> HIDE DEF two
  <2>2. \A i \in 1..Len(b) : b[i] = two[i]
    <3> SUFFICES ASSUME NEW i \in 1..Len(b) PROVE b[i] = two[i]
      OBVIOUS
    <3>1. i = 1 \/ i = 2
      OBVIOUS
    <3> QED
      BY <1>1, <2>1, <3>1
  <2> QED
    BY <2>1, <2>2, SeqEqual DEF Strings
<1>5. t \in Strings /\ Len(t) >= 1 /\ t[1] = "/" /\ (Len(t) = 1 => FALSE)
  <2>1. CASE b[Len(b)] = "/"
    <3>1. t = SubSeq(b, 1, Len(b) - 1)
      BY <1>1, <2>1 DEF TrimSuffix
    <3>2. Len(b) # 2
      BY <1>4, <2>1
    <3>3. 1 \in Nat \ {0} /\ Len(b) - 1 \in 0..Len(b) /\ Len(b) - 1 - 1 + 1 = Len(b) - 1
          /\ 1 <= Len(b) - 1 /\ 1 \in 1..(Len(b) - 1 - 1 + 1) /\ Len(b) - 1 > 1 /\ 1 + 1 - 1 = 1
      BY <1>1, <1>2, <1>3, <3>2
    <3>4. SubSeq(b, 1, Len(b) - 1) \in Strings /\ Len(SubSeq(b, 1, Len(b) - 1)) = Len(b) - 1
          /\ SubSeq(b, 1, Len(b) - 1)[1] = b[1]
      BY <3>3, SubSeqStrings
    <3> QED
      BY <1>1, <3>1, <3>3, <3>4
  <2>2. CASE b[Len(b)] # "/"
    <3>1. t = b
      BY <2>2 DEF TrimSuffix
    <3> QED
      BY <1>1, <1>3, <3>1
  <2> QED
    BY <2>1, <2>2
<1> HIDE DEF t
<1>6. Len(t) \in Nat /\ t # <<>>
  BY <1>5, LenProperties, EmptySeq DEF Strings
<1>7. TrimPrefix(t) = Tail(t) /\ Tail(t) \in Strings /\ Len(Tail(t)) = Len(t) - 1
  BY <1>5, <1>6, HeadTailProperties DEF TrimPrefix, Strings
<1>8. Tail(t) # <<>>
  <2>1. Len(<<>>) = 0
    BY EmptySeq
  <2>2. Len(Tail(t)) # 0
    BY <1>5, <1>6, <1>7
  <2> QED
    BY <2>1, <2>2, Zenon
<1>9. HasPrefix(t, <<"/">>)
  <2>1. SubSeq(t, 1, 1) \in Strings /\ Len(SubSeq(t, 1, 1)) = 1 /\ SubSeq(t, 1, 1)[1] = t[1]
    <3>1. 1 \in Nat \ {0} /\ 1 \in 0..Len(t) /\ 1 - 1 + 1 = 1 /\ 1 \in 1..(1 - 1 + 1) /\ 1 + 1 - 1 = 1
      BY <1>5, <1>6
    <3> QED
      BY <1>5, <3>1, SubSeqStrings
  <2>2. \A i \in 1..1 : SubSeq(t, 1, 1)[i] = <<"/">>[i]
    BY <1>5, <2>1, Slash
  <2>3. SubSeq(t, 1, 1) = <<"/">>
    BY <2>1, <2>2, Slash, SeqEqual DEF Strings
  <2> QED
    BY <1>5, <2>3, Slash DEF HasPrefix
<1>10. t = <<"/">> \o Tail(t)
  BY <1>5, <1>9, LeadingSlash
<1>11. Normal(b) = <<"/">> \o Tail(t)
  BY <1>7, <1>8, NormalForm DEF t
<1> QED
  BY <1>10, <1>11 DEF t

\* The path that a client sends for a call is the call behind the prefix that
\* client and endpoint agree on.
LEMMA PathSent ==
  ASSUME NEW c \in Clients, NEW k \in Keys,
         ~HasPrefix(BuildRequestUrl(c.urlPrefix, k), <<"/", "/">>)
  PROVE  RequestPath(c, k) =
           (Normal(c.base) \o Normal(c.urlPrefix)) \o (<<"/">> \o (k.api \o (<<"/">> \o k.op)))
<1> DEFINE below == <<"/">> \o (k.api \o (<<"/">> \o k.op))
           url == BuildRequestUrl(c.urlPrefix, k)
<1>1. c.base \in Strings /\ c.urlPrefix \in Strings /\ k.api \in Strings /\ k.op \in Strings
  BY StringsAssumption DEF StringsAssumption
<1>2. below \in Strings /\ Normal(c.base) \in Strings /\ Normal(c.urlPrefix) \in Strings
  BY <1>1, Slash, ConcatStrings, NormalForm
<1>3. url = Normal(c.urlPrefix) \o below /\ HasPrefix(url, <<"/">>)
  BY <1>1, UrlBuilt
<1>4. url \in Strings
  BY <1>2, <1>3, ConcatStrings
<1>5. RequestPath(c, k) = CleanUrl(c.base, url)
  BY DEF RequestPath, UrlPath
<1>6. CleanUrl(c.base, url) = Normal(c.base) \o url
  <2> HIDE DEF url
  <2>1. CASE c.base \in {<<>>, <<"/">>}
    <3>1. Normal(c.base) = <<>>
      <4>1. c.base = <<>> => Normal(c.base) = <<>>
        BY <1>1, NormalForm
      <4>2. c.base = <<"/">> => TrimSuffix(c.base) = <<>>
        <5>1. SubSeq(<<"/">>, 1, 0) = <<>>
          OBVIOUS
        <5>2. Len(<<"/">>) - 1 = 0 /\ <<"/">> # <<>>
          BY Slash
        <5> QED
          BY <5>1, <5>2, Slash DEF TrimSuffix
      <4>3. c.base = <<"/">> => Normal(c.base) = <<>>
        BY <4>2 DEF Normal, TrimPrefix
      <4> QED
        BY <2>1, <4>1, <4>3
    <3> QED
      BY <1>4, <2>1, <3>1, EmptyIsNeutral DEF CleanUrl
  <2>2. CASE c.base \notin {<<>>, <<"/">>}
    <3>1. HasPrefix(c.base, <<"/">>) /\ c.base # <<"/", "/">>
      BY <2>2, NamesAssumption DEF NamesAssumption
    <3>2. Normal(c.base) = TrimSuffix(c.base)
      BY <1>1, <2>2, <3>1, BaseIsNormal
    <3>3. url = <<"/">> \o TrimPrefix(url) /\ TrimPrefix(url) \in Strings
      BY <1>3, <1>4, LeadingSlash DEF TrimPrefix
    <3>4. CleanUrl(c.base, url) = (TrimSuffix(c.base) \o <<"/">>) \o TrimPrefix(url)
      BY <2>2 DEF CleanUrl
    <3>5. (TrimSuffix(c.base) \o <<"/">>) \o TrimPrefix(url)
            = TrimSuffix(c.base) \o (<<"/">> \o TrimPrefix(url))
      <4>1. /\ TrimSuffix(c.base) \in Strings /\ <<"/">> \in Strings
            /\ TrimPrefix(url) \in Strings
        BY <1>1, <3>3, Slash, TrimStrings
      <4> QED
        BY <4>1, Associates, Zenon
    <3> QED
      BY <3>2, <3>3, <3>4, <3>5
  <2> QED
    BY <2>1, <2>2
<1>7. Normal(c.base) \o (Normal(c.urlPrefix) \o below)
        = (Normal(c.base) \o Normal(c.urlPrefix)) \o below
  <2> HIDE DEF below
  <2> QED
    BY <1>2, Associates, Zenon
<1> QED
  BY <1>3, <1>5, <1>6, <1>7

\* A call whose client agrees with the endpoint on the prefix is found in the
\* path of its request.
LEMMA RouteIsFound ==
  ASSUME NEW route \in Routes, Agree(route)
  PROVE  /\ HasPrefix(route.path, prefix) /\ ~OutOfRange(route.path, prefix)
         /\ HasKey(route.path, prefix) /\ CallKey(route.path, prefix) = route.call
<1>1. PICK c \in Clients, k \in Keys :
        route = [client |-> c, call |-> k, path |-> RequestPath(c, k)]
  BY DEF Agree, Routes
<1>2. route.client = c /\ route.call = k /\ route.path = RequestPath(c, k)
  BY <1>1
<1>3. /\ ~HasPrefix(BuildRequestUrl(c.urlPrefix, k), <<"/", "/">>)
      /\ prefix = Normal(c.base) \o Normal(c.urlPrefix)
  BY <1>2 DEF Agree
<1>4. prefix \in Strings
  <2>1. c.base \in Strings /\ c.urlPrefix \in Strings
    BY StringsAssumption DEF StringsAssumption
  <2> QED
    BY <1>3, <2>1, NormalForm, ConcatStrings
<1>5. route.path = prefix \o (<<"/">> \o (k.api \o (<<"/">> \o k.op)))
  BY <1>2, <1>3, PathSent
<1>6. LET path == prefix \o (<<"/">> \o (k.api \o (<<"/">> \o k.op)))
      IN  HasPrefix(path, prefix) /\ ~OutOfRange(path, prefix) /\ HasKey(path, prefix)
            /\ CallKey(path, prefix) = k
  BY <1>4, KeyIsFound
<1> QED
  BY <1>2, <1>5, <1>6
-----------------------------------------------------------------------------
(***************************************************************************)
(* ServeHTTP: the stages a request has passed, and what it had to have.    *)
(***************************************************************************)

\* ServeHTTP is in one of these stages, or past them all with the hook called.
Reached(stages) == hook # "none" \/ stage \in stages

\* What every request that got past a check has.
AdmissionState ==
  /\ Reached({"method", "serializer", "key", "lookup", "protocol", "hook"}) =>
       HasPrefix(req.route.path, prefix)
  /\ Reached({"serializer", "key", "lookup", "protocol", "hook"}) => req.post
  /\ Reached({"key", "lookup", "protocol", "hook"}) => req.mime # "unknown"
  /\ Reached({"lookup", "protocol", "hook"}) =>
       Names(req.route.path, prefix) = key.api \o <<"/">> \o key.op
  /\ Reached({"protocol", "hook"}) => key \in Bound
  /\ Reached({"hook"}) => ~req.bidi \/ req.http2

\* How far the hook has got, and ServeHTTP with it.
HookState ==
  /\ hook = "running" => stage = "hook"
  /\ stage = "hook" => hook \in {"none", "running"}
  /\ stage = "wait" => hook \in {"ok", "err"}
  /\ stage = "panicked" => hook \in {"none", "panicked"}
  /\ hook = "panicked" => stage = "panicked"
  /\ hook # "none" => stage \in {"hook", "wait", "returned", "panicked"}
  /\ hook = "none" => \A w \in Workers : worker[w] = "none"

\* Until a check fails or the hook runs nothing is written.
ReplyState == hook = "none" /\ stage \notin {"returned", "panicked"} => reply = NoReply

IndInv ==
  /\ TypeOK /\ AdmissionState /\ HookState /\ ReplyState
  /\ RefusalIsAnswered /\ NothingOutlivesRequest
-----------------------------------------------------------------------------
\* The path of every request is a string.
LEMMA RequestsHavePaths == \A r \in Requests : r.route.path \in Strings
<1>1. \A route \in Routes : route.path \in Strings
  BY RequestPathString, StringsAssumption DEF Routes, StringsAssumption
<1> QED
  BY <1>1 DEF Requests

\* The inductive invariant holds at first.
LEMMA InitIndInv == Init => IndInv
<1> SUFFICES ASSUME Init PROVE IndInv
  OBVIOUS
<1>1. TypeOK
  <2>1. key \in [api : Strings, op : Strings]
    BY Slash DEF Init, NoKey, Key
  <2>2. ctxDone \in BOOLEAN /\ gctxDone \in BOOLEAN /\ bodyOpen \in BOOLEAN
    BY Zenon DEF Init
  <2>3. /\ prefix \in Prefixes /\ req \in Requests /\ hook = "none" /\ stage = "prefix"
        /\ reply = NoReply /\ worker \in [Workers -> {"none", "running", "blocked", "ok", "err"}]
    BY DEF Init
  <2> QED
    BY <2>1, <2>2, <2>3 DEF TypeOK
<1>2. AdmissionState /\ HookState /\ ReplyState /\ RefusalIsAnswered /\ NothingOutlivesRequest
  BY DEF Init, AdmissionState, Reached, HookState, ReplyState, RefusalIsAnswered,
         NothingOutlivesRequest, Ended
<1> QED
  BY <1>1, <1>2 DEF IndInv

\* A check that a request passes is one thing more that is known of it; one that
\* it fails decides the answer.
LEMMA StepCheck ==
  ASSUME IndInv, CheckPrefix \/ CheckMethod \/ CheckSerializer \/ Lookup \/ CheckProtocol
  PROVE  IndInv'
<1> USE DEF CheckPrefix, CheckMethod, CheckSerializer, Lookup, CheckProtocol, Check, Leave
<1>1. UNCHANGED <<prefix, req, key, hook, worker>> /\ hook = "none"
  BY DEF IndInv, HookState
<1>2. TypeOK'
  <2>1. stage' \in {"prefix", "method", "serializer", "key", "lookup", "protocol",
                    "hook", "wait", "returned", "panicked"}
        /\ reply' \in {NoReply} \cup Statuses
    BY DEF IndInv, TypeOK, WriteError, Statuses
  <2>2. bodyOpen' \in BOOLEAN /\ ctxDone' \in BOOLEAN /\ gctxDone' \in BOOLEAN
    BY Zenon DEF IndInv, TypeOK
  <2> QED
    BY <1>1, <2>1, <2>2 DEF IndInv, TypeOK
<1>3. AdmissionState'
  <2>1. AdmissionState
    BY DEF IndInv
  <2> USE DEF AdmissionState, Reached
  <2>2. CASE CheckPrefix
    BY <1>1, <2>1, <2>2
  <2>3. CASE CheckMethod
    BY <1>1, <2>1, <2>3
  <2>4. CASE CheckSerializer
    BY <1>1, <2>1, <2>4
  <2>5. CASE Lookup
    BY <1>1, <2>1, <2>5
  <2>6. CASE CheckProtocol
    BY <1>1, <2>1, <2>6
  <2> QED
    BY <2>2, <2>3, <2>4, <2>5, <2>6, Zenon
<1>4. HookState'
  <2>1. stage' \in {"method", "serializer", "key", "protocol", "hook", "returned"}
    OBVIOUS
  <2>2. HookState
    BY DEF IndInv
  <2> HIDE DEF CheckPrefix, CheckMethod, CheckSerializer, Lookup, CheckProtocol
  <2> QED
    BY <1>1, <2>1, <2>2 DEF HookState
<1>5. /\ reply = NoReply
      /\ \/ reply' = reply /\ bodyOpen' = bodyOpen /\ stage' \notin {"returned", "panicked"}
         \/ stage' = "returned" /\ bodyOpen' = FALSE
  <2>1. ReplyState
    BY DEF IndInv
  <2>2. stage \notin {"returned", "panicked"}
    OBVIOUS
  <2>3. reply = NoReply
    BY <1>1, <2>1, <2>2 DEF ReplyState
  <2> QED
    BY <2>3
<1>6. ReplyState'
  BY <1>1, <1>5 DEF ReplyState
<1>7. RefusalIsAnswered'
  <2>1. AdmissionState
    BY DEF IndInv
  <2> QED
    BY <1>1, <1>5, <2>1 DEF AdmissionState, Reached, RefusalIsAnswered, WriteError
<1>8. NothingOutlivesRequest'
  <2>1. HookState
    BY DEF IndInv
  <2> HIDE DEF CheckPrefix, CheckMethod, CheckSerializer, Lookup, CheckProtocol
  <2> QED
    BY <1>1, <1>5, <2>1 DEF HookState, NothingOutlivesRequest, Ended, Finished
<1> QED
  BY <1>2, <1>3, <1>4, <1>6, <1>7, <1>8 DEF IndInv

\* The key found is the two names in the path.
LEMMA StepParse ==
  ASSUME IndInv, ParseCallKey
  PROVE  IndInv'
<1> DEFINE path == req.route.path
<1>1. /\ UNCHANGED <<prefix, req, hook, worker>>
      /\ hook = "none" /\ stage = "key" /\ reply = NoReply
      /\ ctxDone' \in BOOLEAN /\ gctxDone' \in BOOLEAN
  <2>1. /\ UNCHANGED <<prefix, req, hook, worker>>
        /\ hook = "none" /\ stage = "key" /\ reply = NoReply
    BY DEF IndInv, HookState, ReplyState, ParseCallKey
  <2>2. ctxDone' \in BOOLEAN /\ gctxDone' \in BOOLEAN
    BY Zenon DEF IndInv, TypeOK, ParseCallKey, Leave
  <2> QED
    BY <2>1, <2>2
<1>2. path \in Strings /\ prefix \in Strings
  BY RequestsHavePaths, StringsAssumption DEF IndInv, TypeOK, StringsAssumption
<1>3. CASE OutOfRange(path, prefix)
  <2>1. stage' = "panicked" /\ bodyOpen' = FALSE /\ UNCHANGED <<key, reply>>
    BY <1>3 DEF ParseCallKey, Leave
  <2>2. TypeOK'
    BY <1>1, <2>1 DEF IndInv, TypeOK
  <2>3. AdmissionState' /\ HookState' /\ ReplyState' /\ RefusalIsAnswered' /\ NothingOutlivesRequest'
    BY <1>1, <2>1 DEF IndInv, AdmissionState, Reached, HookState, ReplyState, RefusalIsAnswered,
                      NothingOutlivesRequest, Ended, Finished
  <2> QED
    BY <2>2, <2>3 DEF IndInv
<1>4. CASE ~OutOfRange(path, prefix) /\ HasKey(path, prefix)
  <2>1. key' = CallKey(path, prefix) /\ stage' = "lookup" /\ UNCHANGED <<reply, bodyOpen>>
    BY <1>4 DEF ParseCallKey
  <2>2. /\ key' \in [api : Strings, op : Strings]
        /\ Names(path, prefix) = key'.api \o <<"/">> \o key'.op
    BY <1>2, <1>4, <2>1, CutAtSlash
  <2>3. TypeOK'
    BY <1>1, <2>1, <2>2 DEF IndInv, TypeOK
  <2>4. AdmissionState'
    BY <1>1, <2>1, <2>2 DEF IndInv, AdmissionState, Reached
  <2>5. HookState' /\ ReplyState' /\ RefusalIsAnswered' /\ NothingOutlivesRequest'
    BY <1>1, <2>1 DEF IndInv, HookState, ReplyState, RefusalIsAnswered, NothingOutlivesRequest, Ended
  <2> QED
    BY <2>3, <2>4, <2>5 DEF IndInv
<1>5. CASE ~OutOfRange(path, prefix) /\ ~HasKey(path, prefix)
  <2>1. reply' = 400 /\ stage' = "returned" /\ bodyOpen' = FALSE /\ UNCHANGED key
    BY <1>1, <1>5 DEF ParseCallKey, WriteError, Leave
  <2>2. TypeOK'
    BY <1>1, <2>1 DEF IndInv, TypeOK, Statuses
  <2>3. AdmissionState' /\ HookState' /\ ReplyState' /\ NothingOutlivesRequest'
    BY <1>1, <2>1 DEF IndInv, AdmissionState, Reached, HookState, ReplyState,
                      NothingOutlivesRequest, Ended, Finished
  <2>4. RefusalIsAnswered'
    BY <1>1, <2>1 DEF IndInv, AdmissionState, Reached, RefusalIsAnswered
  <2> QED
    BY <2>2, <2>3, <2>4 DEF IndInv
<1> QED
  BY <1>3, <1>4, <1>5

\* While the hook runs ServeHTTP waits for it.
LEMMA StepHook ==
  ASSUME IndInv, InvokeHook \/ HookReturns
  PROVE  IndInv'
<1> USE DEF InvokeHook, HookReturns, Ended
<1>1. /\ UNCHANGED <<prefix, req, key, reply, ctxDone, gctxDone, worker, bodyOpen>>
      /\ stage = "hook" /\ stage' \in {"hook", "wait"} /\ hook' \in {"running", "ok", "err"}
      /\ hook' = "running" <=> stage' = "hook"
  BY DEF IndInv, HookState
<1>2. TypeOK'
  BY <1>1 DEF IndInv, TypeOK
<1>3. AdmissionState'
  BY <1>1 DEF IndInv, AdmissionState, Reached
<1>4. HookState' /\ ReplyState' /\ RefusalIsAnswered' /\ NothingOutlivesRequest'
  BY <1>1 DEF HookState, ReplyState, RefusalIsAnswered, NothingOutlivesRequest
<1> QED
  BY <1>2, <1>3, <1>4 DEF IndInv

\* A hook that panics ends the request with it, and the body is closed.
LEMMA StepPanic ==
  ASSUME IndInv, HookPanics
  PROVE  IndInv'
<1>1. /\ UNCHANGED <<prefix, req, key, reply, worker>>
      /\ hook = "running" /\ hook' = "panicked" /\ stage' = "panicked" /\ bodyOpen' = FALSE
  BY DEF HookPanics, Leave
<1>2. TypeOK'
  <2>1. ctxDone' \in BOOLEAN /\ gctxDone' \in BOOLEAN
    BY Zenon DEF HookPanics, Leave
  <2> QED
    BY <1>1, <2>1 DEF IndInv, TypeOK
<1>3. AdmissionState'
  BY <1>1 DEF IndInv, AdmissionState, Reached
<1>4. HookState' /\ ReplyState' /\ RefusalIsAnswered' /\ NothingOutlivesRequest'
  BY <1>1 DEF HookState, ReplyState, RefusalIsAnswered, NothingOutlivesRequest, Ended
<1> QED
  BY <1>2, <1>3, <1>4 DEF IndInv

\* A goroutine is started by a running hook only, and once it has returned it
\* does not come back.
LEMMA StepWorker ==
  ASSUME IndInv, NEW w \in Workers, WorkerStep(w)
  PROVE  IndInv'
<1> USE DEF WorkerStep, HookStartsWorker, WorkerBlocks, WorkerReturns
<1>1. /\ UNCHANGED <<prefix, req, key, stage, reply, ctxDone, hook, bodyOpen>>
      /\ hook # "none"
  BY DEF IndInv, HookState
<1>2. ~Ended \/ hook = "panicked"
  BY DEF IndInv, HookState, NothingOutlivesRequest, Finished
<1>3. TypeOK'
  <2>1. worker' \in [Workers -> {"none", "running", "blocked", "ok", "err"}]
    BY DEF IndInv, TypeOK
  <2>2. gctxDone' \in BOOLEAN
    BY Zenon DEF IndInv, TypeOK
  <2> QED
    BY <1>1, <2>1, <2>2 DEF IndInv, TypeOK
<1>4. AdmissionState' /\ HookState' /\ ReplyState'
  BY <1>1 DEF IndInv, AdmissionState, Reached, HookState, ReplyState
<1>5. RefusalIsAnswered' /\ NothingOutlivesRequest'
  BY <1>1, <1>2 DEF IndInv, RefusalIsAnswered, NothingOutlivesRequest, Ended
<1> QED
  BY <1>3, <1>4, <1>5 DEF IndInv

\* Whoever writes a response does so with the hook, or behind it.
LEMMA StepReply ==
  ASSUME IndInv, WriteResponse \/ ServerCompletes
  PROVE  IndInv'
<1> USE DEF WriteResponse, ServerCompletes
<1>1. /\ UNCHANGED <<prefix, req, key, stage, ctxDone, gctxDone, hook, worker, bodyOpen>>
      /\ reply = NoReply /\ reply' \in Statuses
  BY DEF Statuses
<1>2. hook # "none"
  BY <1>1 DEF IndInv, HookState, RefusalIsAnswered, Active, NoReply
<1>3. TypeOK'
  BY <1>1 DEF IndInv, TypeOK
<1> HIDE DEF WriteResponse, ServerCompletes
<1>4. AdmissionState'
  <2>1. AdmissionState
    BY DEF IndInv
  <2> QED
    BY <1>1, <2>1 DEF AdmissionState, Reached
<1>5. HookState'
  <2>1. HookState
    BY DEF IndInv
  <2> QED
    BY <1>1, <2>1 DEF HookState
<1>6. ReplyState' /\ RefusalIsAnswered'
  BY <1>1, <1>2 DEF ReplyState, RefusalIsAnswered
<1>7. NothingOutlivesRequest'
  <2>1. NothingOutlivesRequest
    BY DEF IndInv
  <2> QED
    BY <1>1, <2>1 DEF NothingOutlivesRequest, Ended, Finished
<1> QED
  BY <1>3, <1>4, <1>5, <1>6, <1>7 DEF IndInv

\* ServeHTTP returns when every goroutine has.
LEMMA StepWait ==
  ASSUME IndInv, Wait
  PROVE  IndInv'
<1> USE DEF Wait
<1>1. /\ UNCHANGED <<prefix, req, key, reply, hook, worker>>
      /\ stage = "wait" /\ stage' = "returned" /\ bodyOpen' = FALSE /\ gctxDone' = TRUE
      /\ hook \notin {"none", "running"}
  BY DEF IndInv, HookState
<1>2. TypeOK'
  <2>1. ctxDone' \in BOOLEAN
    BY Zenon
  <2> QED
    BY <1>1, <2>1 DEF IndInv, TypeOK
<1>3. AdmissionState' /\ HookState' /\ ReplyState' /\ RefusalIsAnswered'
  <2>1. AdmissionState /\ HookState
    BY DEF IndInv
  <2>2. AdmissionState'
    BY <1>1, <2>1 DEF AdmissionState, Reached
  <2> QED
    BY <1>1, <2>1, <2>2 DEF HookState, ReplyState, RefusalIsAnswered
<1>4. NothingOutlivesRequest'
  BY <1>1 DEF NothingOutlivesRequest, Ended, Finished
<1> QED
  BY <1>2, <1>3, <1>4 DEF IndInv

\* What the invariant says beside the types does not depend on the contexts.
LEMMA Unmoved ==
  ASSUME IndInv, TypeOK', UNCHANGED <<prefix, req, key, stage, reply, hook, worker, bodyOpen>>
  PROVE  IndInv'
<1>1. AdmissionState'
  <2>1. AdmissionState
    BY DEF IndInv
  <2> QED
    BY <2>1 DEF AdmissionState, Reached
<1>2. HookState'
  <2>1. HookState
    BY DEF IndInv
  <2> QED
    BY <2>1 DEF HookState
<1>3. ReplyState'
  <2>1. ReplyState
    BY DEF IndInv
  <2> QED
    BY <2>1 DEF ReplyState
<1>4. RefusalIsAnswered'
  <2>1. RefusalIsAnswered
    BY DEF IndInv
  <2> QED
    BY <2>1 DEF RefusalIsAnswered
<1>5. NothingOutlivesRequest'
  <2>1. NothingOutlivesRequest
    BY DEF IndInv
  <2> QED
    BY <2>1 DEF NothingOutlivesRequest, Ended, Finished
<1> QED
  BY <1>1, <1>2, <1>3, <1>4, <1>5 DEF IndInv

\* That the context is done changes nothing the invariant speaks of.
LEMMA StepContext ==
  ASSUME IndInv, ContextEnds
  PROVE  IndInv'
<1>1. /\ UNCHANGED <<prefix, req, key, stage, reply, hook, worker, bodyOpen>>
      /\ ctxDone' = TRUE /\ gctxDone' = TRUE
  BY DEF ContextEnds
<1>2. TypeOK'
  BY <1>1 DEF IndInv, TypeOK
<1> QED
  BY <1>1, <1>2, Unmoved

\* A step that changes nothing keeps the invariant.
LEMMA Stutter == IndInv /\ UNCHANGED vars => IndInv'
<1> SUFFICES ASSUME IndInv, UNCHANGED vars PROVE IndInv'
  OBVIOUS
<1>1. TypeOK'
  BY DEF vars, IndInv, TypeOK
<1> QED
  BY <1>1, Unmoved DEF vars

\* The inductive invariant holds in every reachable state.
THEOREM Invariance == Spec => []IndInv
<1>1. IndInv /\ [Next]_vars => IndInv'
  <2> SUFFICES ASSUME IndInv, [Next]_vars PROVE IndInv'
    OBVIOUS
  <2>1. CASE Serve
    BY <2>1, StepCheck, StepParse, StepHook, StepWait DEF Serve
  <2>2. CASE HookReturns \/ HookPanics
    BY <2>2, StepHook, StepPanic
  <2>3. CASE WriteResponse \/ ServerCompletes
    BY <2>3, StepReply
  <2>4. CASE \E w \in Workers : WorkerStep(w)
    BY <2>4, StepWorker
  <2>5. CASE ContextEnds
    BY <2>5, StepContext
  <2>6. CASE Terminated \/ UNCHANGED vars
    BY <2>6, Stutter DEF Terminated
  <2> QED
    BY <2>1, <2>2, <2>3, <2>4, <2>5, <2>6 DEF Next
<1> QED
  BY InitIndInv, <1>1, PTL DEF Spec

\* Every variable keeps its type: what is cut out of a path is two names.
THEOREM TypeCorrectness == Spec => []TypeOK
<1>1. IndInv => TypeOK
  BY DEF IndInv
<1> QED
  BY Invariance, <1>1, PTL

\* The bound handler runs only for a request that passed every check, and whose
\* path is the names of the handler's call behind the prefix.
THEOREM HandlerIsGuarded == Spec => []HookOnlyIfAdmissible
<1>1. IndInv => HookOnlyIfAdmissible
  BY DEF IndInv, AdmissionState, Reached, HookOnlyIfAdmissible, Accepted
<1> QED
  BY Invariance, <1>1, PTL

\* A request that the handler never saw is answered with the status of the first
\* check it failed.
THEOREM RefusalsAreAnswered == Spec => []RefusalIsAnswered
<1>1. IndInv => RefusalIsAnswered
  BY DEF IndInv
<1> QED
  BY Invariance, <1>1, PTL

\* When ServeHTTP has ended the body is closed and the hook has too, and unless
\* the hook panicked no goroutine of the request's group is still running.
THEOREM NothingIsLeft == Spec => []NothingOutlivesRequest
<1>1. IndInv => NothingOutlivesRequest
  BY DEF IndInv
<1> QED
  BY Invariance, <1>1, PTL
-----------------------------------------------------------------------------
\* Behind parseCallKey the key is that of the call.
RoutingState ==
  Agree(req.route) =>
    /\ Reached({"lookup", "protocol", "hook"}) => key = req.route.call
    /\ key \in {NoKey, req.route.call}
    /\ stage \in {"returned", "panicked"} /\ Accepted /\ req.route.call \in Bound => hook # "none"

\* Such a request is refused for what it is, never for its path.
LEMMA StepRouting == IndInv /\ RoutingState /\ [Next]_vars => RoutingState'
<1> SUFFICES ASSUME IndInv, RoutingState, [Next]_vars PROVE RoutingState'
  OBVIOUS
<1> SUFFICES ASSUME Agree(req.route)' PROVE RoutingState'
  BY DEF RoutingState
<1>1. UNCHANGED <<prefix, req>>
  BY DEF Next, Serve, vars, CheckPrefix, CheckMethod, CheckSerializer, Lookup, CheckProtocol, Check,
         ParseCallKey, InvokeHook, Wait, HookReturns, HookPanics, WriteResponse, WorkerStep, HookStartsWorker,
         WorkerBlocks, WorkerReturns, ContextEnds, ServerCompletes, Terminated
<1>2. Agree(req.route) /\ req.route \in Routes
  BY <1>1 DEF Agree, IndInv, TypeOK, Requests
<1>3. /\ HasPrefix(req.route.path, prefix) /\ ~OutOfRange(req.route.path, prefix)
      /\ HasKey(req.route.path, prefix) /\ CallKey(req.route.path, prefix) = req.route.call
  BY <1>2, RouteIsFound
<1>4. CASE CheckPrefix \/ CheckMethod \/ CheckSerializer \/ Lookup \/ CheckProtocol
  BY <1>1, <1>2, <1>3, <1>4
  DEF RoutingState, Reached, Accepted, IndInv, HookState,
      CheckPrefix, CheckMethod, CheckSerializer, Lookup, CheckProtocol, Check, Leave
<1>5. CASE ParseCallKey
  <2>1. key' = req.route.call /\ stage' = "lookup"
    BY <1>3, <1>5 DEF ParseCallKey
  <2> QED
    BY <1>1, <2>1 DEF RoutingState
<1>6. CASE InvokeHook \/ HookReturns \/ HookPanics \/ Wait
  BY <1>1, <1>2, <1>6
  DEF RoutingState, Reached, Accepted, IndInv, HookState, InvokeHook, HookReturns, HookPanics, Wait,
      Leave
<1>7. CASE WriteResponse \/ ServerCompletes \/ ContextEnds \/ Terminated \/ UNCHANGED vars
  BY <1>1, <1>2, <1>7
  DEF RoutingState, Reached, Accepted, WriteResponse, ServerCompletes, ContextEnds, Terminated, vars
<1>8. CASE \E w \in Workers : WorkerStep(w)
  BY <1>1, <1>2, <1>8
  DEF RoutingState, Reached, Accepted, WorkerStep, HookStartsWorker, WorkerBlocks, WorkerReturns
<1> QED
  BY <1>4, <1>5, <1>6, <1>7, <1>8 DEF Next, Serve

\* A call reaches the handler bound for it, and no other, if client and endpoint
\* agree on the prefix: parseCallKey finds the key that the client put into the
\* URL, and the request is refused for no reason of routing.
THEOREM CallsReachTheirHandler == Spec => []CallReachesItsHandler
<1>1. Init => RoutingState
  BY DEF Init, RoutingState, Reached
<1>2. RoutingState => CallReachesItsHandler
  BY DEF RoutingState, CallReachesItsHandler
<1> QED
  BY Invariance, <1>1, <1>2, StepRouting, PTL DEF Spec
-----------------------------------------------------------------------------
(***************************************************************************)
(* What is never taken back, whatever the hook, its goroutines and the     *)
(* client do: a status once written (by the hook, by one of its goroutines *)
(* or by a check), the end of a context, the end of the hook and of a      *)
(* goroutine, and the end of the request.  Behind the end no goroutine is  *)
(* started; what a panic of the hook has left behind runs to its own end.  *)
(***************************************************************************)
Final ==
  /\ reply # NoReply => reply' = reply
  /\ ctxDone => ctxDone'
  /\ gctxDone => gctxDone'
  /\ hook \in {"ok", "err", "panicked"} => hook' = hook
  /\ \A w \in Workers : worker[w] \in {"ok", "err"} => worker'[w] = worker[w]
  /\ Ended => /\ UNCHANGED <<stage, key, hook, bodyOpen>>
              /\ \A w \in Workers : Finished(w) => worker'[w] = worker[w]
  /\ stage = "returned" => UNCHANGED worker

\* The end of ServeHTTP cancels contexts, and revives none.
LEMMA ContextsStay ==
  ASSUME \/ UNCHANGED <<ctxDone, gctxDone>>
         \/ ctxDone' = (ctxDone \/ req.deadline) /\ gctxDone' = (gctxDone \/ ctxDone')
  PROVE  (ctxDone => ctxDone') /\ (gctxDone => gctxDone')
<1>1. CASE UNCHANGED <<ctxDone, gctxDone>>
  BY <1>1
<1>2. CASE ctxDone' = (ctxDone \/ req.deadline) /\ gctxDone' = (gctxDone \/ ctxDone')
  BY <1>2, Zenon
<1> QED
  BY <1>1, <1>2

\* No step takes any of it back.
LEMMA StepFinal == IndInv /\ [Next]_vars => Final
<1> SUFFICES ASSUME IndInv, [Next]_vars PROVE Final
  OBVIOUS
<1>0. /\ TypeOK /\ HookState
      /\ Ended => hook # "running"
      /\ stage = "returned" => \A w \in Workers : Finished(w)
  BY DEF IndInv, NothingOutlivesRequest, HookState, Ended
<1>1. CASE CheckPrefix \/ CheckMethod \/ CheckSerializer \/ Lookup \/ CheckProtocol
  <2>1. /\ ~Ended
        /\ UNCHANGED <<hook, worker>>
        /\ reply # NoReply => reply' = reply
    BY <1>1 DEF CheckPrefix, CheckMethod, CheckSerializer, Lookup, CheckProtocol, Check,
                WriteError, Leave, Ended
  <2>2. \/ UNCHANGED <<ctxDone, gctxDone>>
        \/ ctxDone' = (ctxDone \/ req.deadline) /\ gctxDone' = (gctxDone \/ ctxDone')
    BY <1>1 DEF CheckPrefix, CheckMethod, CheckSerializer, Lookup, CheckProtocol, Check, Leave
  <2>3. (ctxDone => ctxDone') /\ (gctxDone => gctxDone')
    BY <2>2, ContextsStay
  <2> QED
    BY <2>1, <2>3 DEF Final, Ended
<1>2. CASE ParseCallKey
  <2>1. /\ ~Ended
        /\ UNCHANGED <<hook, worker>>
        /\ reply # NoReply => reply' = reply
    BY <1>2 DEF ParseCallKey, WriteError, Leave, Ended
  <2>2. \/ UNCHANGED <<ctxDone, gctxDone>>
        \/ ctxDone' = (ctxDone \/ req.deadline) /\ gctxDone' = (gctxDone \/ ctxDone')
    BY <1>2 DEF ParseCallKey, Leave
  <2>3. (ctxDone => ctxDone') /\ (gctxDone => gctxDone')
    BY <2>2, ContextsStay
  <2> QED
    BY <2>1, <2>3 DEF Final, Ended
<1>3. CASE InvokeHook
  <2>1. /\ stage = "hook" /\ hook = "none"
        /\ UNCHANGED <<ctxDone, gctxDone, reply, worker>>
    BY <1>3 DEF InvokeHook
  <2> QED
    BY <2>1 DEF Final, Ended
<1>4. CASE Wait
  <2>1. /\ stage = "wait" /\ gctxDone' /\ UNCHANGED <<hook, reply, worker>>
        /\ ctxDone => ctxDone'
    BY <1>4 DEF Wait
  <2> QED
    BY <2>1 DEF Final, Ended
<1>5. CASE HookReturns \/ HookPanics
  <2>1. /\ stage = "hook" /\ hook = "running" /\ UNCHANGED <<reply, worker>>
    BY <1>0, <1>5 DEF HookReturns, HookPanics, HookState, Leave
  <2>2. \/ UNCHANGED <<ctxDone, gctxDone>>
        \/ ctxDone' = (ctxDone \/ req.deadline) /\ gctxDone' = (gctxDone \/ ctxDone')
    BY <1>5 DEF HookReturns, HookPanics, Leave
  <2>3. (ctxDone => ctxDone') /\ (gctxDone => gctxDone')
    BY <2>2, ContextsStay
  <2> QED
    BY <2>1, <2>3 DEF Final, Ended
<1>6. CASE WriteResponse
  <2>1. /\ reply = NoReply /\ UNCHANGED <<stage, key, ctxDone, gctxDone, hook, worker, bodyOpen>>
    BY <1>6 DEF WriteResponse
  <2> QED
    BY <2>1 DEF Final
<1>7. ASSUME NEW v \in Workers, WorkerStep(v) PROVE Final
  <2>1. /\ UNCHANGED <<stage, key, reply, ctxDone, hook, bodyOpen>>
        /\ gctxDone => gctxDone'
    BY <1>7 DEF WorkerStep, HookStartsWorker, WorkerBlocks, WorkerReturns
  <2>2. PICK to : worker' = [worker EXCEPT ![v] = to]
    BY <1>7 DEF WorkerStep, HookStartsWorker, WorkerBlocks, WorkerReturns
  <2>3. hook = "running" \/ ~Finished(v)
    BY <1>7 DEF WorkerStep, HookStartsWorker, WorkerBlocks, WorkerReturns, Finished
  <2>4. worker[v] \notin {"ok", "err"}
    BY <1>7 DEF WorkerStep, HookStartsWorker, WorkerBlocks, WorkerReturns
  <2>5. \A w \in Workers : w # v => worker'[w] = worker[w]
    BY <1>0, <2>2 DEF TypeOK
  <2>6. Ended => ~Finished(v)
    BY <1>0, <2>3
  <2>7. stage # "returned"
    BY <1>0, <2>6 DEF Ended
  <2> QED
    BY <2>1, <2>4, <2>5, <2>6, <2>7 DEF Final
<1>8. CASE ContextEnds
  <2>1. /\ ctxDone' /\ gctxDone' /\ UNCHANGED <<stage, key, reply, hook, worker, bodyOpen>>
    BY <1>8 DEF ContextEnds
  <2> QED
    BY <2>1 DEF Final
<1>9. CASE ServerCompletes
  <2>1. /\ reply = NoReply /\ UNCHANGED <<stage, key, ctxDone, gctxDone, hook, worker, bodyOpen>>
    BY <1>9 DEF ServerCompletes
  <2> QED
    BY <2>1 DEF Final
<1>10. CASE Terminated \/ UNCHANGED vars
  <2>1. UNCHANGED <<stage, key, reply, ctxDone, gctxDone, hook, worker, bodyOpen>>
    BY <1>10 DEF Terminated, vars
  <2> QED
    BY <2>1 DEF Final
<1> QED
  BY <1>1, <1>2, <1>3, <1>4, <1>5, <1>6, <1>7, <1>8, <1>9, <1>10 DEF Next, Serve

\* The first status written is the one the client gets, a goroutine or a hook
\* that has ended has ended, nothing is started behind the end of ServeHTTP, and
\* once it has returned nothing runs: what still does was left by a panic.
THEOREM NothingIsTakenBack == Spec => [][Final]_vars
<1>1. IndInv /\ [Next]_vars => [Final]_vars
  BY StepFinal
<1> QED
  BY <1>1, Invariance, PTL DEF Spec
-----------------------------------------------------------------------------
(***************************************************************************)
(* Progress.  The prover cannot evaluate ENABLED, so that an action that   *)
(* is called for can be taken is a hypothesis of what follows.             *)
(***************************************************************************)
Checking == stage \in {"prefix", "method", "serializer", "key", "lookup", "protocol"}
AllFinished == \A w \in Workers : Finished(w)
CanReturn(w) == worker[w] = "running" \/ (worker[w] = "blocked" /\ gctxDone)

ActionsEnabled ==
  /\ Checking => ENABLED <<Serve>>_vars
  /\ stage = "hook" /\ hook = "none" => ENABLED <<Serve>>_vars
  /\ stage = "wait" /\ AllFinished => ENABLED <<Serve>>_vars
  /\ hook = "running" => ENABLED <<HookReturns \/ HookPanics>>_vars
  /\ \A w \in Workers : CanReturn(w) => ENABLED <<WorkerReturns(w)>>_vars

\* Each check hands the request to the next, or ends it; behind the last is the
\* hook, and behind the wait the end.
LEMMA ServeMoves ==
  ASSUME IndInv, Serve
  PROVE  /\ stage = "prefix" => stage' \in {"method", "returned"}
         /\ stage = "method" => stage' \in {"serializer", "returned"}
         /\ stage = "serializer" => stage' \in {"key", "returned"}
         /\ stage = "key" => stage' \in {"lookup", "returned", "panicked"}
         /\ stage = "lookup" => stage' \in {"protocol", "returned"}
         /\ stage = "protocol" => stage' \in {"hook", "returned"} /\ hook' = hook
         /\ stage = "hook" => stage' = "hook" /\ hook = "none" /\ hook' = "running"
         /\ stage = "wait" => AllFinished /\ stage' = "returned"
         /\ ~Ended
  BY DEF Serve, CheckPrefix, CheckMethod, CheckSerializer, ParseCallKey, Lookup,
         CheckProtocol, Check, InvokeHook, Wait, Leave, Ended, AllFinished

\* Nobody else moves it, but the hook when it returns or panics.
LEMMA OthersKeepStage ==
  ASSUME IndInv, [Next]_vars, ~Serve
  PROVE  \/ UNCHANGED <<stage, hook>>
         \/ /\ HookReturns \/ HookPanics
            /\ stage = "hook" /\ hook = "running" /\ stage' \in {"wait", "panicked"}
<1>1. CASE HookReturns \/ HookPanics
  BY <1>1 DEF HookReturns, HookPanics, Leave, IndInv, HookState
<1>2. CASE ~HookReturns /\ ~HookPanics
  BY <1>2 DEF Next, WriteResponse, WorkerStep, HookStartsWorker, WorkerBlocks, WorkerReturns,
              ContextEnds, ServerCompletes, Terminated, vars
<1> QED
  BY <1>1, <1>2

\* A request is refused, or its handler runs and returns: ServeHTTP ends or comes
\* to the wait for the group, whatever the path, the goroutines and the client do.
THEOREM WaitIsReached == FairSpec /\ []ActionsEnabled => <>(stage = "wait" \/ Ended)
<1> DEFINE Goal == stage = "wait" \/ Ended
           Called == stage = "hook" /\ hook = "none"
           Running == stage = "hook" /\ hook = "running"
<1>1. IndInv /\ (stage = "prefix") /\ [Next]_vars => (stage = "prefix")' \/ (stage = "method")' \/ Goal'
  BY ServeMoves, OthersKeepStage DEF Ended
<1>1s. IndInv /\ (stage = "prefix") /\ <<Serve>>_vars => (stage = "method")' \/ Goal'
  BY ServeMoves, OthersKeepStage DEF Ended
<1>2. IndInv /\ (stage = "method") /\ [Next]_vars => (stage = "method")' \/ (stage = "serializer")' \/ Goal'
  BY ServeMoves, OthersKeepStage DEF Ended
<1>2s. IndInv /\ (stage = "method") /\ <<Serve>>_vars => (stage = "serializer")' \/ Goal'
  BY ServeMoves, OthersKeepStage DEF Ended
<1>3. IndInv /\ (stage = "serializer") /\ [Next]_vars => (stage = "serializer")' \/ (stage = "key")' \/ Goal'
  BY ServeMoves, OthersKeepStage DEF Ended
<1>3s. IndInv /\ (stage = "serializer") /\ <<Serve>>_vars => (stage = "key")' \/ Goal'
  BY ServeMoves, OthersKeepStage DEF Ended
<1>4. IndInv /\ (stage = "key") /\ [Next]_vars => (stage = "key")' \/ (stage = "lookup")' \/ Goal'
  BY ServeMoves, OthersKeepStage DEF Ended
<1>4s. IndInv /\ (stage = "key") /\ <<Serve>>_vars => (stage = "lookup")' \/ Goal'
  BY ServeMoves, OthersKeepStage DEF Ended
<1>5. IndInv /\ (stage = "lookup") /\ [Next]_vars => (stage = "lookup")' \/ (stage = "protocol")' \/ Goal'
  BY ServeMoves, OthersKeepStage DEF Ended
<1>5s. IndInv /\ (stage = "lookup") /\ <<Serve>>_vars => (stage = "protocol")' \/ Goal'
  BY ServeMoves, OthersKeepStage DEF Ended
<1>6. IndInv /\ (stage = "protocol") /\ [Next]_vars => (stage = "protocol")' \/ Called' \/ Goal'
  BY ServeMoves, OthersKeepStage DEF Ended, IndInv, HookState
<1>6s. IndInv /\ (stage = "protocol") /\ <<Serve>>_vars => Called' \/ Goal'
  BY ServeMoves, OthersKeepStage DEF Ended, IndInv, HookState
<1>7. IndInv /\ Called /\ [Next]_vars => Called' \/ Running'
  BY ServeMoves, OthersKeepStage
<1>7s. IndInv /\ Called /\ <<Serve>>_vars => Running'
  BY ServeMoves, OthersKeepStage
<1>8. IndInv /\ Running /\ [Next]_vars => Running' \/ Goal'
  BY ServeMoves, OthersKeepStage DEF Ended
<1>8s. Running /\ <<HookReturns \/ HookPanics>>_vars => Goal'
  BY DEF HookReturns, HookPanics, Leave, Ended
<1>enabled. ActionsEnabled =>
        /\ stage = "prefix" => ENABLED <<Serve>>_vars
        /\ stage = "method" => ENABLED <<Serve>>_vars
        /\ stage = "serializer" => ENABLED <<Serve>>_vars
        /\ stage = "key" => ENABLED <<Serve>>_vars
        /\ stage = "lookup" => ENABLED <<Serve>>_vars
        /\ stage = "protocol" => ENABLED <<Serve>>_vars
        /\ Called => ENABLED <<Serve>>_vars
        /\ Running => ENABLED <<HookReturns \/ HookPanics>>_vars
  BY DEF ActionsEnabled, Checking
<1>9. Init => (stage = "prefix")
  BY DEF Init
<1>10. FairSpec => Spec /\ WF_vars(Serve) /\ WF_vars(HookReturns \/ HookPanics)
  BY PTL DEF FairSpec
<1>11. FairSpec /\ []ActionsEnabled => (Called ~> Goal)
  BY <1>7, <1>7s, <1>8, <1>8s, <1>10, <1>enabled, Invariance, PTL DEF Spec
<1>12. FairSpec /\ []ActionsEnabled => ((stage = "key") ~> (Called \/ Goal))
  BY <1>4, <1>4s, <1>5, <1>5s, <1>6, <1>6s, <1>10, <1>enabled, Invariance, PTL DEF Spec
<1>13. FairSpec /\ []ActionsEnabled => ((stage = "prefix") ~> ((stage = "key") \/ Goal))
  BY <1>1, <1>1s, <1>2, <1>2s, <1>3, <1>3s, <1>10, <1>enabled, Invariance, PTL DEF Spec
<1> QED
  BY <1>9, <1>10, <1>11, <1>12, <1>13, PTL DEF Spec
\* The group's context is done with the request's, and with the first error of a
\* goroutine.
GroupIsTold == (ctxDone \/ \E w \in Workers : worker[w] = "err") => gctxDone

\* It is so in every state.
LEMMA GroupIsToldHolds == Spec => []GroupIsTold
<1>1. Init => GroupIsTold
  BY DEF Init, GroupIsTold
<1>2. IndInv /\ GroupIsTold /\ [Next]_vars => GroupIsTold'
  <2> SUFFICES ASSUME TypeOK, GroupIsTold, [Next]_vars PROVE GroupIsTold'
    BY DEF IndInv
  <2>0. worker \in [Workers -> {"none", "running", "blocked", "ok", "err"}]
    BY DEF TypeOK
  <2>1. ASSUME NEW v \in Workers, WorkerStep(v) PROVE GroupIsTold'
    <3>1. ctxDone' = ctxDone
      BY <2>1 DEF WorkerStep, HookStartsWorker, WorkerBlocks, WorkerReturns
    <3>2. \/ gctxDone' = TRUE
          \/ gctxDone' = gctxDone /\ \A w \in Workers : worker'[w] = "err" => worker[w] = "err"
      BY <2>0, <2>1 DEF WorkerStep, HookStartsWorker, WorkerBlocks, WorkerReturns
    <3> QED
      BY <3>1, <3>2 DEF GroupIsTold
  <2>2. CASE Wait \/ ContextEnds
    BY <2>2 DEF Wait, ContextEnds, GroupIsTold
  <2>3. CASE ~Wait /\ ~ContextEnds /\ ~(\E v \in Workers : WorkerStep(v))
    <3>1. /\ worker' = worker
          /\ UNCHANGED <<ctxDone, gctxDone>> \/ gctxDone' = (gctxDone \/ ctxDone')
      BY <2>3 DEF Next, Serve, CheckPrefix, CheckMethod, CheckSerializer, ParseCallKey, Lookup,
                  CheckProtocol, Check, InvokeHook, HookReturns, HookPanics, Leave, WriteResponse,
                  ServerCompletes, Terminated, vars
    <3> QED
      BY <3>1 DEF GroupIsTold
  <2> QED
    BY <2>1, <2>2, <2>3
<1> QED
  BY <1>1, <1>2, Invariance, PTL DEF Spec

\* While ServeHTTP waits the hook has returned: no goroutine is started, and one
\* that has finished has finished.
LEMMA WaitKeeps ==
  ASSUME IndInv, [Next]_vars, stage = "wait"
  PROVE  /\ stage' = "wait" \/ (Serve /\ AllFinished /\ stage' = "returned")
         /\ \A w \in Workers : Finished(w) => Finished(w)'
         /\ gctxDone => gctxDone'
<1>0. /\ worker \in [Workers -> {"none", "running", "blocked", "ok", "err"}]
      /\ hook # "running"
  BY DEF IndInv, TypeOK, HookState
<1>1. stage' = "wait" \/ (Serve /\ AllFinished /\ stage' = "returned")
  BY ServeMoves, OthersKeepStage
<1>2. gctxDone => gctxDone'
  BY StepFinal DEF Final
<1>3. ASSUME NEW w \in Workers, Finished(w) PROVE Finished(w)'
  <2>1. ASSUME NEW v \in Workers, WorkerStep(v) PROVE Finished(w)'
    BY <1>0, <1>3, <2>1 DEF WorkerStep, HookStartsWorker, WorkerBlocks, WorkerReturns, Finished
  <2>2. CASE ~(\E v \in Workers : WorkerStep(v))
    <3>1. worker' = worker
      BY <2>2 DEF Next, Serve, CheckPrefix, CheckMethod, CheckSerializer, ParseCallKey, Lookup,
                  CheckProtocol, Check, InvokeHook, Wait, HookReturns, HookPanics, WriteResponse,
                  ContextEnds, ServerCompletes, Terminated, vars
    <3> QED
      BY <1>3, <3>1 DEF Finished
  <2> QED
    BY <2>1, <2>2
<1> QED
  BY <1>1, <1>2, <1>3

\* ServeHTTP waits for a group whose context is done.
WaitsForGroup == stage = "wait" /\ gctxDone

\* Every goroutine that ServeHTTP waits for ends once the group's context is done:
\* one blocked on a stream is not left behind.  The fairness is the goroutine's
\* own, which FairSpec has for each.
THEOREM WorkerEnds ==
  ASSUME NEW w \in Workers
  PROVE  FairSpec /\ WF_vars(WorkerReturns(w)) /\ []ActionsEnabled => (WaitsForGroup ~> Finished(w))
<1> DEFINE Fin == Finished(w)
           Held == stage = "wait" /\ gctxDone /\ ~Finished(w)
<1>1. IndInv /\ Held /\ [Next]_vars => Held' \/ Fin'
  <2> SUFFICES ASSUME IndInv, Held, [Next]_vars PROVE Held' \/ Fin'
    OBVIOUS
  <2>1. ~AllFinished
    BY DEF AllFinished
  <2> QED
    BY <2>1, WaitKeeps
<1>2. IndInv /\ <<WorkerReturns(w)>>_vars => Fin'
  BY DEF IndInv, TypeOK, WorkerReturns, Finished
<1>3. IndInv /\ ActionsEnabled /\ Held => ENABLED <<WorkerReturns(w)>>_vars
  BY DEF IndInv, TypeOK, ActionsEnabled, CanReturn, Finished
<1>4. WaitsForGroup => Held \/ Fin
  BY DEF WaitsForGroup
<1>5. FairSpec => Spec
  BY PTL DEF FairSpec
<1> QED
  BY <1>1, <1>2, <1>3, <1>4, <1>5, Invariance, PTL DEF Spec

\* ServeReturns follows, if the ends of the goroutines, each WorkerEnds, are put
\* together: ServeHTTP returns once the request's context is done, or one of its
\* goroutines has failed, whatever the others are blocked on.
THEOREM ServeReturnsIfWorkersEnd ==
  FairSpec /\ []ActionsEnabled /\ (WaitsForGroup ~> AllFinished) => ServeReturns
<1> DEFINE Waits == stage = "wait"
           WaitsDone == stage = "wait" /\ AllFinished
           Told == ctxDone \/ \E w \in Workers : worker[w] = "err"
           Left == Ended
<1>1. IndInv /\ Waits /\ [Next]_vars => Waits' \/ Left'
  BY WaitKeeps DEF Ended
<1>2. IndInv /\ WaitsDone /\ [Next]_vars => WaitsDone' \/ Left'
  <2> SUFFICES ASSUME IndInv, WaitsDone, [Next]_vars PROVE WaitsDone' \/ Left'
    OBVIOUS
  <2>1. AllFinished'
    BY WaitKeeps DEF AllFinished
  <2> QED
    BY <2>1, WaitKeeps DEF Ended
<1>3. IndInv /\ WaitsDone /\ <<Serve>>_vars => Left'
  BY ServeMoves DEF Ended
<1>4. ActionsEnabled => (WaitsDone => ENABLED <<Serve>>_vars)
  BY DEF ActionsEnabled
<1>5. GroupIsTold => (Waits /\ gctxDone => WaitsForGroup) /\ (Told => gctxDone)
  BY DEF GroupIsTold, WaitsForGroup
<1>6. IndInv /\ gctxDone /\ [Next]_vars => gctxDone'
  BY StepFinal DEF Final
<1>7. Waits /\ AllFinished => WaitsDone
  OBVIOUS
<1>8. IndInv /\ Left /\ [Next]_vars => Left'
  BY StepFinal DEF Final, Ended
<1>9. FairSpec => Spec /\ WF_vars(Serve)
  BY PTL DEF FairSpec
<1>10. FairSpec /\ []ActionsEnabled => <>(Waits \/ Left)
  BY WaitIsReached, PTL DEF Ended
<1> QED
  BY <1>1, <1>2, <1>3, <1>4, <1>5, <1>6, <1>7, <1>8, <1>9, <1>10, Invariance,
     GroupIsToldHolds, PTL
     DEF Spec, ServeReturns
=============================================================================
