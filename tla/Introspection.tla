--------------------------- MODULE Introspection ---------------------------
(***************************************************************************)
(* Types as the introspection typesupport describes them, values of them,  *)
(* and what texts are made of.                                             *)
(*                                                                         *)
(* A type is a tree, and a value of it a tree of bytes: a scalar the bytes *)
(* of the host, the lowest first, a string its characters, everything else *)
(* a sequence.  How a number is spelled is left out: the text of an        *)
(* integer holds its bytes, that of a float the bytes of what it says,     *)
(* which is the float to six digits.                                       *)
(***************************************************************************)
EXTENDS Integers, Sequences

CONSTANTS
  MaxShown,    \* elements of an array that are shown, 20 in the code
  MaxCount,    \* bound of counts and lengths, which have four bytes on the wire
  Types,       \* the types of messages, and of all their parts
  Values,      \* their values, [type, value], and all parts of those
  SixDigits    \* what is read back of the floats that six digits do not say

Byte == 0..255

(***************************************************************************)
(* Types.  What has no bound has size or bound 0; start is what the       *)
(* constructor of the message puts into it.                                *)
(***************************************************************************)
Scalar(kind, size) == [kind |-> kind, size |-> size]
Text(bound) == [kind |-> "string", bound |-> bound]
WideText == [kind |-> "wide"]          \* the code knows no wide strings
Fixed(of, size, start) ==
  [kind |-> "array", of |-> of, size |-> size, bounded |-> FALSE, start |-> start]
Bounded(of, size, start) ==
  [kind |-> "array", of |-> of, size |-> size, bounded |-> TRUE, start |-> start]
Unbounded(of) == Fixed(of, 0, << >>)
Message(members) == [kind |-> "message", members |-> members]
Empty == Message(<<Scalar("placeholder", 1)>>)

\* octet is the uint8 of typesupports that tell the two apart, placeholder the
\* member structure_needs_at_least_one_member of a message without any.
ScalarKinds == {"bool", "int", "float", "octet", "placeholder"}
ScalarTypes ==
  { Scalar(k, 1) : k \in {"bool", "octet", "placeholder"} }
    \cup { Scalar("int", n) : n \in {1, 2, 4, 8} }
    \cup { Scalar("float", n) : n \in {4, 8} }

IsScalar(t) == t.kind \in ScalarKinds
IsArray(t) == t.kind = "array"
IsStruct(t) == t.kind \in {"array", "message"}
HasCount(t) == t.bounded \/ t.size = 0
TooLong(t, n) == t.bound > 0 /\ n > t.bound

\* Only the parts of a type matter here, which are types again.
IsType(t) ==
  \/ t \in ScalarTypes
  \/ t.kind = "string" /\ t.bound \in Nat
  \/ t.kind = "wide"
  \/ IsArray(t) /\ t.of \in Types /\ ~IsArray(t.of) /\ t.size \in Nat /\ t.bounded \in BOOLEAN
  \/ t.kind = "message" /\ t.members \in Seq(Types) /\ t.members # << >>

ASSUME IntrospectionAssumption ==
  /\ MaxShown \in Nat \ {0}
  /\ \A t \in Types : IsType(t)

(***************************************************************************)
(* Values of the types, which obey their bounds.                           *)
(***************************************************************************)
Value(t, v) == [type |-> t, value |-> v]

\* v is a value of type t, whose parts are in V.
IsValue(t, v, V) ==
  \/ /\ IsScalar(t) /\ v \in [1..t.size -> Byte]
     /\ t.kind = "bool" => v \in {<<0>>, <<1>>}
  \/ t.kind = "string" /\ v \in Seq(Byte) /\ Len(v) < MaxCount /\ ~TooLong(t, Len(v))
  \/ t.kind = "wide" /\ v \in Seq(Byte) /\ Len(v) < MaxCount
  \/ /\ IsArray(t) /\ Len(v) \in 0..MaxCount
     /\ HasCount(t) \/ Len(v) = t.size
     /\ t.bounded => Len(v) <= t.size
     /\ \A i \in 1..Len(v) : Value(t.of, v[i]) \in V
  \/ /\ t.kind = "message" /\ Len(v) = Len(t.members)
     /\ \A i \in 1..Len(v) : Value(t.members[i], v[i]) \in V

\* Values are in V, and so are their parts; types are in T.
AreValues(V, T) ==
  \A x \in V : x = Value(x.type, x.value) /\ x.type \in T /\ IsValue(x.type, x.value, V)

ASSUME CountAssumption == MaxCount \in Nat /\ MaxCount <= 65535      \* two bytes of a count are in use
ASSUME WireAssumption == AreValues({ x : x \in Values }, { t : t \in Types })

(***************************************************************************)
(* What texts are made of.  A string is raw when it was written without    *)
(* escapes; neither infinity nor a NaN is a number of JSON: all bits of    *)
(* the exponent.                                                           *)
(***************************************************************************)
None == [is |-> "none"]             \* no text, or no value
Null == [is |-> "null"]
Number(b) == [is |-> "number", bytes |-> b]       \* an integer
Decimal(b) == [is |-> "decimal", bytes |-> b]     \* the float that is nearest
Truth(b) == [is |-> "truth", bytes |-> b]
Quoted(s, raw) == [is |-> "string", chars |-> s, raw |-> raw]

Finite(t, b) ==
  \/ t.kind # "float"
  \/ b[t.size] % 128 # 127
  \/ b[t.size - 1] < (IF t.size = 4 THEN 128 ELSE 240)

\* A stream writes a float with six digits.
Rounded(b) == IF b \in DOMAIN SixDigits THEN SixDigits[b] ELSE b

ASSUME DigitsAssumption == \A b \in DOMAIN SixDigits : SixDigits[b] \in [1..Len(b) -> Byte]

ScalarText(t, b) ==
  IF t.kind = "bool" THEN Truth(b)
  ELSE IF ~Finite(t, b) THEN [is |-> "nan", bytes |-> b]
  ELSE IF t.kind = "float" THEN Decimal(Rounded(b)) ELSE Number(b)

Quote == 34
Backslash == 92
IsCharacter(c) == c < 128                 \* for UTF-8
IsPlain(c) == 32 <= c /\ IsCharacter(c) /\ c \notin {Quote, Backslash}    \* needs no escape

-----------------------------------------------------------------------------
(***************************************************************************)
(* A walk through a message: the stack of arrays and messages it is in,    *)
(* the innermost first, each with its type and how many of its parts are   *)
(* done; and a stream that is written on the way.                          *)
(***************************************************************************)
Opened == [is |-> "opened"]
Closed(cut) == [is |-> "closed", cut |-> cut]

\* Behind the elements that are shown.
Hidden(walk) == \E i \in DOMAIN walk : IsArray(walk[i].type) /\ walk[i].done >= MaxShown

Says(stream, walk, x) == IF Hidden(walk) THEN stream ELSE Append(stream, x)

\* n parts of the innermost are done, or one more, or it is left.
Done(walk, n) == [walk EXCEPT ![1].done = n]
OneDone(walk) == Done(walk, walk[1].done + 1)
Left(walk) == IF Len(walk) = 1 THEN << >> ELSE OneDone(Tail(walk))

PartType(in) == IF IsArray(in.type) THEN in.type.of ELSE in.type.members[in.done + 1]
=============================================================================
