------------------------------ MODULE BlockIO ------------------------------
(***************************************************************************)
(* The block-io codec (apirt/internal/blockio): how an object is written   *)
(* as a sequence of records, each a field's name, a wire type and a value, *)
(* and how the records are stored in an object again.                      *)
(*                                                                         *)
(* A Go type is a record with a kind:                                      *)
(*   "string"; "int" and "uint", of some width; "bytes", a ByteString;     *)
(*   "ptr" and "slice", of some elem; "struct", with its fields, each a    *)
(*   name and a type, in order; "other", a kind the codec does not know.   *)
(* A struct's value is the sequence of its fields' values, a pointer's is  *)
(* <<>> (nil) or <<v>>, and its elem is no pointer and no slice.  A nil    *)
(* slice is not told from an empty one, nor a nil byte string.  Field      *)
(* names are distinct.  The bytes of names, lengths and numbers are left   *)
(* out: a body comes whole or not at all (UnaryInput).                     *)
(***************************************************************************)
EXTENDS Integers, SequencesExt

RECURSIVE Scalar(_), Panics(_, _), Encode(_, _, _), Marshal(_, _)
RECURSIVE Zero(_), Store(_, _, _), Unmarshal(_, _, _)

\* A ByteString is a struct, with no field that a record can name.
IsStruct(t) == t.kind \in {"struct", "bytes"}
FieldsOf(t) == IF t.kind = "struct" THEN t.fields ELSE <<>>
-----------------------------------------------------------------------------
(***************************************************************************)
(* Encoding.                                                               *)
(***************************************************************************)
Record(name, wire, val) == [name |-> name, wire |-> wire, val |-> val]

\* The encoder of a pointer or a slice is built from that of its element, even
\* if there is none: an unknown kind panics then.  That of a struct is not.
Scalar(t) == IF t.kind \in {"ptr", "slice"} THEN Scalar(t.elem) ELSE t

Panics(t, v) ==
  \/ Scalar(t).kind = "other"
  \/ t.kind \in {"ptr", "slice"} /\ \E i \in DOMAIN v : Panics(t.elem, v[i])
  \/ t.kind = "struct" /\ \E i \in DOMAIN v : Panics(t.fields[i].type, v[i])

\* A slice is its elements, one after another under the field's name.
Encode(name, t, v) ==
  CASE t.kind = "ptr" /\ v = <<>> -> <<Record(name, "nil", <<>>)>>
    [] t.kind = "ptr" /\ v # <<>> -> Encode(name, t.elem, v[1])
    [] t.kind = "slice"           -> FlattenSeq([i \in DOMAIN v |-> Encode(name, t.elem, v[i])])
    [] t.kind = "struct"          -> <<Record(name, "struct", Marshal(t, v))>>
    [] OTHER                      -> <<Record(name, t.kind, v)>>

Marshal(t, v) ==
  FlattenSeq([i \in DOMAIN t.fields |-> Encode(t.fields[i].name, t.fields[i].type, v[i])])
-----------------------------------------------------------------------------
(***************************************************************************)
(* Decoding.  What becomes of a value: it is stored, or decoding stops     *)
(* with an error or a panic.                                               *)
(***************************************************************************)
Stored(v) == [out |-> "ok", val |-> v]
Fails(v)  == [out |-> "error", val |-> v]
Panic(v)  == [out |-> "panic", val |-> v]

\* The decoder, at the end of its input or before the next record.
Eof(records) == records = <<>>
Read(records) == Head(records)

Zero(t) ==
  CASE t.kind = "struct"             -> [i \in DOMAIN t.fields |-> Zero(t.fields[i].type)]
    [] t.kind \in {"ptr", "slice"}   -> <<>>
    [] t.kind \in {"string", "bytes"} -> ""
    [] t.kind \in {"int", "uint"}    -> 0
    [] OTHER                         -> FALSE

\* Every number is stored as it is.
Fit_AsIs(t, n) == n

\* SetInt and SetUint keep the bits there is room for.
Fit(t, n) ==
  IF t.kind = "uint" THEN n % 2^t.width
  ELSE LET half == 2^(t.width - 1) IN ((n + half) % (2 * half)) - half

\* A list of structs, or of pointers to them, gets one element more.
IsList(t) == t.kind = "slice" /\ (IsStruct(t.elem) \/ (t.elem.kind = "ptr" /\ IsStruct(t.elem.elem)))

StoreElement(t, v, rec) ==
  LET elem == Scalar(t)
      r    == Unmarshal(elem, Zero(elem), rec.val)
  IN  IF r.out # "ok" THEN [r EXCEPT !.val = v]
      ELSE Stored(Append(v, IF t.elem.kind = "ptr" THEN <<r.val>> ELSE r.val))

\* A record is stored in a field of type t whose value is v.  nil is the zero
\* value of whatever type the field has.
Store(t, v, rec) ==
  CASE rec.wire = "nil" -> Stored(Zero(t))
    [] rec.wire = "string" /\ t.kind = "string"    -> Stored(rec.val)
    [] rec.wire = "string" /\ t.kind = "ptr"
         /\ t.elem.kind = "string"                 -> Stored(<<rec.val>>)
    [] rec.wire \in {"int", "uint"} /\ t.kind = rec.wire -> Stored(Fit(t, rec.val))
    [] rec.wire = "bytes" /\ t.kind = "bytes"      -> Stored(rec.val)
    [] rec.wire \in {"int", "uint", "bytes"} /\ t.kind # rec.wire -> Panic(v)
    [] rec.wire = "struct" /\ IsList(t)            -> StoreElement(t, v, rec)
    [] rec.wire = "struct" /\ IsStruct(t)          -> Unmarshal(t, v, rec.val)
    [] OTHER                                       -> Fails(v)

\* One turn of Unmarshal's loop: a field that the type has not is an error.
DecodeField(t, obj, rec) ==
  LET F  == FieldsOf(t)
      at == {i \in DOMAIN F : F[i].name = rec.name}
  IN  IF at = {} THEN Fails(obj)
      ELSE LET i == Max(at)
               r == Store(F[i].type, obj[i], rec)
           IN  [r EXCEPT !.val = [obj EXCEPT ![i] = r.val]]

Unmarshal(t, obj, records) ==
  IF Eof(records) THEN Stored(obj)
  ELSE LET r == DecodeField(t, obj, Read(records))
       IN  IF r.out = "ok" THEN Unmarshal(t, r.val, Tail(records)) ELSE r
=============================================================================
