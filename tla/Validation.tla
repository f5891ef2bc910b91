----------------------------- MODULE Validation -----------------------------
(***************************************************************************)
(* Constraint sets and the walk over an object (apivalidation), and what   *)
(* they are for: the places of an object that a constraint is put on.      *)
(*                                                                         *)
(* Types and values are those of BlockIO.  A struct has in addition the    *)
(* receiver of its Validate method, "value", "pointer" or "none", and a    *)
(* constraint set for each field; that method is the application's, and    *)
(* checks the fields in order, a list by its length and then its elements. *)
(* A regex is the set of strings it matches, if it compiles.  Floats are   *)
(* left out; they are compared as integers are.                            *)
(***************************************************************************)
EXTENDS Integers, SequencesExt

CONSTANTS
  StringLength,  \* the length of each string
  WordBits       \* width of a uint64

ASSUME WordAssumption == WordBits \in Nat \ {0}

RECURSIVE ValidateValue(_, _, _, _), Validate(_, _, _), Sites(_, _, _), HasNilObject(_, _)
-----------------------------------------------------------------------------
(***************************************************************************)
(* Constraint sets.  A bound of -1 is unset; a new set has bounds of 0.    *)
(***************************************************************************)
Unset == -1
NoRegex == [compiles |-> TRUE, matches |-> {}]
NewSet == [min |-> 0, max |-> 0, hasRegex |-> FALSE, regex |-> NoRegex]

\* Each of them sets both bounds.
SetRange(cs, min, max) == [cs EXCEPT !.min = min, !.max = max]
SetMin(cs, min) == SetRange(cs, min, Unset)
SetMax(cs, max) == SetRange(cs, Unset, max)

SetRegex(cs, regex) == [cs EXCEPT !.hasRegex = TRUE, !.regex = regex]
SetNoRegex(cs) == [cs EXCEPT !.hasRegex = FALSE, !.regex = NoRegex]

InRange(cs, n) == (cs.min # Unset => n >= cs.min) /\ (cs.max # Unset => n <= cs.max)

\* The bounds are converted for the comparison: a negative one is large.
AsUint(n) == n % 2^WordBits
InUintRange(cs, n) ==
  /\ cs.min # Unset => n >= AsUint(cs.min)
  /\ cs.max # Unset => n <= AsUint(cs.max)
-----------------------------------------------------------------------------
(***************************************************************************)
(* Outcomes.  An error knows its place if it is an apivalidation.Error.    *)
(***************************************************************************)
Valid == [out |-> "ok", placed |-> FALSE, path |-> <<>>]
ErrorAt(path) == [out |-> "error", placed |-> TRUE, path |-> path]
BareError == [out |-> "error", placed |-> FALSE, path |-> <<>>]
NilPanic == [out |-> "panic", placed |-> FALSE, path |-> <<>>]

WrapError(path, e) == IF e.out = "error" /\ ~e.placed THEN ErrorAt(path) ELSE e

\* The first that is not "ok": nothing behind it is looked at.
FirstError(outcomes) ==
  LET bad == {i \in DOMAIN outcomes : outcomes[i].out # "ok"}
  IN  IF bad = {} THEN Valid ELSE outcomes[Min(bad)]

Index(path, i) == Append(path, ToString(i - 1))
Field(path, t, i) == Append(path, t.fields[i].name)
-----------------------------------------------------------------------------
(***************************************************************************)
(* The walk.                                                               *)
(***************************************************************************)

\* Is Validate in the method set of what the walk holds?
Implements(t) ==
  \/ t.kind = "struct" /\ t.receiver = "value"
  \/ t.kind = "ptr" /\ t.elem.kind = "struct" /\ t.elem.receiver # "none"

Check(ok, path) == IF ok THEN Valid ELSE ErrorAt(path)

\* A regex that does not compile is an error without a place.
ValidateString(cs, v, path) ==
  IF InRange(cs, StringLength[v]) /\ cs.hasRegex /\ ~cs.regex.compiles THEN BareError
  ELSE Check(InRange(cs, StringLength[v]) /\ (cs.hasRegex => v \in cs.regex.matches), path)

ValidateValue(cs, t, v, path) ==
  CASE t.kind = "int"    -> Check(InRange(cs, v), path)
    [] t.kind = "uint"   -> Check(InUintRange(cs, v), path)
    [] t.kind = "string" -> ValidateString(cs, v, path)
    [] OTHER             -> Validate(t, v, path)

ValidateCollectionLength(cs, v, path) == Check(InRange(cs, Len(v)), path)

\* The Validate method of a struct.
ValidateField(t, v, i, path) ==
  LET cs == t.checks[i]
      ft == t.fields[i].type
      at == Field(path, t, i)
  IN  IF ft.kind = "slice"
      THEN FirstError(<<ValidateCollectionLength(cs, v[i], at), ValidateValue(cs, ft, v[i], at)>>)
      ELSE ValidateValue(cs, ft, v[i], at)

ValidateMethod(t, v, path) == FirstError([i \in DOMAIN v |-> ValidateField(t, v, i, path)])

\* Every pointer is nothing to look at.
WalkPointer_Skipped(t, v, path) == Valid

WalkPointer(t, v, path) == IF v = <<>> THEN Valid ELSE Validate(t.elem, v[1], path)

\* validate: the object's own method, or reflection.  The method of a nil
\* pointer is called too, before anybody has looked whether it is nil.
Validate(t, v, path) ==
  CASE Implements(t) /\ t.kind = "struct" -> WrapError(path, ValidateMethod(t, v, path))
    [] Implements(t) /\ t.kind = "ptr" ->
         IF v = <<>> THEN NilPanic ELSE WrapError(path, ValidateMethod(t.elem, v[1], path))
    [] ~Implements(t) /\ t.kind = "ptr" -> WalkPointer(t, v, path)
    [] t.kind = "slice" ->
         FirstError([i \in DOMAIN v |-> Validate(t.elem, v[i], Index(path, i))])
    [] ~Implements(t) /\ t.kind = "struct" ->
         FirstError([i \in DOMAIN v |-> Validate(t.fields[i].type, v[i], Field(path, t, i))])
    [] OTHER -> Valid

\* ValidateObject is given a pointer to the object.
ValidateObject(t, v) ==
  WrapError(<<"$">>, Validate([kind |-> "ptr", elem |-> t], <<v>>, <<"$">>))
-----------------------------------------------------------------------------
(***************************************************************************)
(* What the walk is to find, whatever way it takes: the places a           *)
(* constraint is put on, each with whether it is kept there.  No order,    *)
(* and no early return.  A constraint is in force if a caller that has the *)
(* value may call the Validate method of the struct: in Go, not if the     *)
(* struct is held by value and the method is its pointer's.                *)
(***************************************************************************)
Site(path, inForce, kept) == [path |-> path, inForce |-> inForce, kept |-> kept]

Within(n, min, max) == (min = Unset \/ min <= n) /\ (max = Unset \/ n <= max)

\* The constraints on field i of a struct, those on its parts left out.
FieldSites(t, v, i, path, inForce) ==
  LET cs == t.checks[i]
      at == Field(path, t, i)
      uint(b) == IF b < Unset THEN b + 2^WordBits ELSE b
  IN  CASE t.fields[i].type.kind = "int"   -> {Site(at, inForce, Within(v[i], cs.min, cs.max))}
        [] t.fields[i].type.kind = "uint"  ->
             {Site(at, inForce, Within(v[i], uint(cs.min), uint(cs.max)))}
        [] t.fields[i].type.kind = "slice" ->
             {Site(at, inForce, Within(Len(v[i]), cs.min, cs.max))}
        [] t.fields[i].type.kind = "string" ->
             {Site(at, inForce, Within(StringLength[v[i]], cs.min, cs.max)),
              Site(IF cs.regex.compiles THEN at ELSE path, inForce,
                   ~cs.hasRegex \/ (cs.regex.compiles /\ v[i] \in cs.regex.matches))}
        [] OTHER -> {}

StructSites(t, v, path, inForce) ==
  UNION {(IF t.receiver = "none" THEN {} ELSE FieldSites(t, v, i, path, inForce))
           \cup Sites(t.fields[i].type, v[i], Field(path, t, i)) : i \in DOMAIN v}

Sites(t, v, path) ==
  CASE t.kind = "struct" -> StructSites(t, v, path, t.receiver = "value")
    [] t.kind = "slice"  -> UNION {Sites(t.elem, v[i], Index(path, i)) : i \in DOMAIN v}
    [] t.kind = "ptr" /\ v # <<>> -> IF t.elem.kind = "struct" THEN StructSites(t.elem, v[1], path, TRUE)
                                     ELSE Sites(t.elem, v[1], path)
    [] OTHER -> {}

\* Is there a nil pointer to a struct with a Validate method in it?
HasNilObject(t, v) ==
  CASE t.kind = "struct" -> \E i \in DOMAIN v : HasNilObject(t.fields[i].type, v[i])
    [] t.kind = "slice"  -> \E i \in DOMAIN v : HasNilObject(t.elem, v[i])
    [] t.kind = "ptr"    -> IF v = <<>> THEN t.elem.kind = "struct" /\ t.elem.receiver # "none"
                            ELSE HasNilObject(t.elem, v[1])
    [] OTHER -> FALSE
=============================================================================
