---------------------------- MODULE MCUnaryInput ----------------------------
(* UnaryInput for TLC: the shapes of the repository's serializer tests     *)
(* (biased_serializer_test.go), made small, in several versions, and types *)
(* that the codec does not handle.                                         *)
EXTENDS UnaryInput

MCStringLength == [s \in {"", "a", "ab"} |-> CASE s = "" -> 0 [] s = "a" -> 1 [] s = "ab" -> 2]

Of(kind) == [kind |-> kind]
Number(kind, width) == [kind |-> kind, width |-> width]
Ptr(t) == [kind |-> "ptr", elem |-> t]
Slice(t) == [kind |-> "slice", elem |-> t]
F(name, t) == [name |-> name, type |-> t]

Free == SetRange(NewSet, Unset, Unset)
Struct(receiverOf, fields, checks) ==
  [kind |-> "struct", fields |-> fields, receiver |-> receiverOf, checks |-> checks]
Plain(fields) == Struct("none", fields, [i \in DOMAIN fields |-> Free])

\* A disk: an id of some length and form, a size that is bounded from above only,
\* because the bound from below was set first.
Id == SetRegex(SetRange(NewSet, 1, 2), [compiles |-> TRUE, matches |-> {"a"}])
Size == SetMax(SetMin(NewSet, 0), 1)
Disk(receiverOf) ==
  Struct(receiverOf, <<F("id", Of("string")), F("size", Number("int", 3))>>, <<Id, Size>>)
List(t) == Struct("pointer", <<F("disks", Slice(t)), F("next", Ptr(Of("string")))>>,
                  <<SetRange(NewSet, 1, 2), Free>>)

Checked(t, cs) == Struct("value", <<F("n", t)>>, <<cs>>)
Bad == SetRegex(Free, [compiles |-> FALSE, matches |-> {}])

MCVersions ==
  {<<t, t>> : t \in {
     List(Disk("value")), List(Disk("pointer")), List(Ptr(Disk("pointer"))),
     Plain(<<F("disk", Disk("value")), F("data", Of("bytes"))>>),
     Plain(<<F("disk", Ptr(Disk("value")))>>),
     Checked(Number("uint", 3), SetMin(NewSet, -3)), Checked(Number("uint", 3), NewSet),
     Checked(Number("int", 3), SetNoRegex(SetMin(NewSet, 1))),
     Checked(Of("string"), Bad), Checked(Ptr(Number("int", 3)), Free),
     Checked(Slice(Of("string")), Free), Checked(Of("other"), Free),
     Checked(Slice(Ptr(Of("other"))), Free)}}
  \cup
  {<<List(Disk("none")), List(Ptr(Disk("value")))>>,
   <<List(Ptr(Disk("none"))), List(Disk("value"))>>,
   <<Plain(<<F("disks", Slice(Disk("none")))>>), List(Disk("none"))>>,
   <<List(Disk("none")), Plain(<<F("disks", Slice(Disk("none")))>>)>>,
   <<Plain(<<F("s", Of("string")), F("n", Number("int", 3))>>),
     Plain(<<F("n", Number("int", 2)), F("s", Ptr(Of("string")))>>)>>,
   <<Plain(<<F("s", Ptr(Of("string")))>>), Plain(<<F("s", Of("string"))>>)>>,
   <<Plain(<<F("n", Number("int", 3))>>), Plain(<<F("n", Number("uint", 3))>>)>>,
   <<Plain(<<F("d", Of("bytes"))>>), Plain(<<F("d", Of("string"))>>)>>,
   <<Plain(<<F("d", Of("string"))>>), Plain(<<F("d", Of("bytes"))>>)>>}

RECURSIVE MCValuesOf(_)
MCValuesOf(t) ==
  CASE t.kind = "int"    -> {-3, 0, 1}
    [] t.kind = "uint"   -> {0, 1, 6}
    [] t.kind = "slice"  -> BoundedSeq(MCValuesOf(t.elem), 2)
    [] t.kind = "ptr"    -> BoundedSeq(MCValuesOf(t.elem), 1)
    [] t.kind = "struct" ->
         FoldLeft(LAMBDA S, f : {Append(v, x) : v \in S, x \in MCValuesOf(f.type)}, {<<>>}, t.fields)
    [] t.kind = "other"  -> {FALSE}
    [] OTHER             -> DOMAIN StringLength

MCHandlerErrors ==
  {[exceptions |-> <<404>>, deadline |-> TRUE, validation |-> FALSE],
   [exceptions |-> <<0, 404>>, deadline |-> FALSE, validation |-> TRUE],
   [exceptions |-> <<>>, deadline |-> TRUE, validation |-> TRUE]}
=============================================================================
