------------------------------ MODULE Structs ------------------------------
(***************************************************************************)
(* Requests and responses in the structs of their typesupport, filled from *)
(* JSON and read back (src/ros_manager.cpp), step by step: the calls of    *)
(* read_struct_field and fill_struct_field are a walk through the struct,  *)
(* and each field that is read or filled is a step.  The fields that are   *)
(* finished, with their values and texts, are a history of the walk: no    *)
(* step depends on them.                                                   *)
(***************************************************************************)
EXTENDS Introspection

CONSTANTS
  Default,    \* what the constructor makes of the types in its domain
  Nearest     \* the float of n bytes nearest to a number x, for <<x, n>> in its domain

\* Defaults are values, in V; arrays begin with what their type says; the
\* messages in them, and arrays and messages in messages, are as constructed.
AreDefaults(V) ==
  \A t \in DOMAIN Default :
    /\ Value(t, Default[t]) \in V
    /\ IsStruct(t) => Default[t] = [i \in 1..Len(Default[t]) |-> Default[t][i]]
    /\ IsArray(t) =>
         /\ Default[t] = t.start /\ t.of \in DOMAIN Default
         /\ IsStruct(t.of) => \A i \in 1..Len(t.start) : t.start[i] = Default[t.of]
    /\ t.kind = "message" =>
         \A i \in 1..Len(t.members) :
           /\ t.members[i] \in DOMAIN Default
           /\ IsStruct(t.members[i]) => Default[t][i] = Default[t.members[i]]

ASSUME StructsAssumption == AreDefaults({ x : x \in Values })
ASSUME NearestAssumption == \A p \in DOMAIN Nearest : Nearest[p] \in [1..p[2] -> Byte]

-----------------------------------------------------------------------------
(***************************************************************************)
(* A text stands for the JSON that it parses to, or it is spoilt.  A       *)
(* string is written without escapes: one with a quote or a backslash may  *)
(* end early, bring other members with it, be another string, or not       *)
(* parse, and hide what else is wrong with the text; the text is garbled.  *)
(* A text that is sure not to parse is broken: a NaN or an infinity is in  *)
(* it, a control character, or what is no UTF-8.                           *)
(***************************************************************************)
List(parts) == [is |-> "list", parts |-> parts]
Object(parts) == [is |-> "object", parts |-> parts]
Garbled == [is |-> "garbled"]
Broken == [is |-> "broken"]

Spoilt(x) == x \in {Garbled, Broken}

\* Whether a word is sure to parse, as what was meant.
ParsesWord(x) ==
  CASE x.is = "string" -> x.raw => \A i \in DOMAIN x.chars : IsPlain(x.chars[i])
    [] x.is = "closed" -> ~x.cut
    [] OTHER           -> x.is # "nan"

\* A string that need not end where it was meant to.
Misleads(x) == x.is = "string" /\ \E i \in DOMAIN x.chars : x.chars[i] \in {Quote, Backslash}

Parsed(x) == IF ParsesWord(x) THEN x ELSE IF Misleads(x) THEN Garbled ELSE Broken

\* What is around a spoilt part is spoilt.
With(text, x) ==
  IF text = Garbled \/ x = Garbled THEN Garbled
  ELSE IF text = Broken \/ x = Broken THEN Broken
  ELSE [text EXCEPT !.parts = Append(@, x)]

-----------------------------------------------------------------------------
(***************************************************************************)
(* A walk: the arrays and messages it is in, the innermost first, the      *)
(* fields that are finished, and how it ended.                             *)
(***************************************************************************)
Field(t, v, x) == [type |-> t, value |-> v, text |-> x]
Walk(fields, past, end) == [fields |-> fields, past |-> past, end |-> end]

At(f, n) == [type |-> f.type, value |-> f.value, text |-> f.text, done |-> n]
Enters(f, fields) == <<At(f, 0)>> \o fields

WalkInto(f) == Walk(Enters(f, << >>), {}, None)
Into(s, f) == Walk(Enters(f, s.fields), s.past, None)
Ends(s, end) == Walk(<< >>, s.past, end)

\* The field in is left: all its parts are done.
Whole(in) == Field(in.type, in.value, in.text)

(***************************************************************************)
(* Struct to text.                                                         *)
(***************************************************************************)
Word(t, v) ==
  CASE t.kind \in {"octet", "wide"} -> Null
    [] t.kind = "string" -> Quoted(v, TRUE)
    [] OTHER -> ScalarText(t, v)

Blank(t) == IF IsArray(t) THEN List(<< >>) ELSE Object(<< >>)

\* A message that would be empty has one byte, which the generator puts there
\* and the text does not have.
Shown(in) == IF in.type = Empty THEN 0 ELSE Len(in.value)

\* f is read, a part of the innermost of fields, or all there is.
IsRead(s, fields, f) ==
  IF fields = << >> THEN Walk(<< >>, s.past \cup {f}, f.text)
  ELSE LET in == fields[1]
           wider == Field(in.type, in.value, With(in.text, f.text))
       IN Walk([fields EXCEPT ![1] = At(wider, in.done + 1)], s.past \cup {f}, None)

read_struct_members(x) == WalkInto(Field(x.type, x.value, Blank(x.type)))

read_struct_field(s) ==
  LET in == s.fields[1]
      t == PartType(in)
      v == in.value[in.done + 1]
  IN IF in.done = Shown(in) THEN IsRead(s, Tail(s.fields), Whole(in))
     ELSE IF IsStruct(t) THEN Into(s, Field(t, v, Blank(t)))
     ELSE IsRead(s, s.fields, Field(t, v, Parsed(Word(t, v))))

-----------------------------------------------------------------------------
(***************************************************************************)
(* JSON to struct.  Filling a struct ends with a value, or it is refused,  *)
(* or undefined: an element of an empty vector is written to, which its    *)
(* accessor answers with a null pointer and the field is refused, if it    *)
(* answers.                                                                *)
(***************************************************************************)
Filled(v) == [how |-> "filled", value |-> v]
Refused == [how |-> "refused"]
Undefined == [how |-> "undefined"]

\* get<T> keeps the low bytes of an integer that is too large.
Narrowed(b, n) == [i \in 1..n |-> IF i <= Len(b) THEN b[i] ELSE 0]

\* get<float> and get<double>.  A decimal of that width is what it says.
ReadFloat(x, n) ==
  IF <<x, n>> \in DOMAIN Nearest THEN Nearest[<<x, n>>] ELSE Narrowed(x.bytes, n)

\* Mutant of WrongCount: as many as the bound are too many.
WrongCountOff(t, n) == IF t.bounded THEN n >= t.size ELSE t.size # 0 /\ n # t.size

\* Another: a fixed array may have fewer.
WrongCountLess(t, n) == (t.bounded \/ t.size # 0) /\ n > t.size

WrongCount(t, n) == IF t.bounded THEN n > t.size ELSE t.size # 0 /\ n # t.size

\* Only a vector without a bound is resized.
Room(f) ==
  IF IsArray(f.type) /\ HasCount(f.type) /\ ~f.type.bounded
  THEN [f EXCEPT !.value = [i \in 1..Len(f.text.parts) |-> Default[f.type.of]]]
  ELSE f

\* An integer goes into any field of numbers but an octet, any other number only
\* into a float.
Accepts(t, x) ==
  \/ t.kind = "array" /\ x.is = "list" /\ ~WrongCount(t, Len(x.parts))
  \/ t.kind = "message" /\ x.is = "object"
  \/ t.kind = "bool" /\ x.is = "truth"
  \/ t.kind \in {"int", "placeholder"} /\ x.is = "number"
  \/ t.kind = "float" /\ x.is \in {"number", "decimal"}
  \/ t.kind = "string" /\ x.is = "string" /\ ~TooLong(t, Len(x.chars))

Taken(t, x) ==
  IF t.kind = "float" THEN ReadFloat(x, t.size)
  ELSE IF IsScalar(t) THEN Narrowed(x.bytes, t.size) ELSE x.chars

\* Elements of a list, or members of the struct; only the request itself may
\* leave out the one of a message that would be empty.
Wanted(s) ==
  LET in == s.fields[1]
  IN IF IsArray(in.type) THEN Len(in.text.parts)
     ELSE IF in.type = Empty /\ Len(s.fields) = 1 THEN 0
     ELSE Len(in.type.members)

\* f is filled, a part of the innermost of fields, or all there is.
IsFilled(s, fields, f) ==
  IF fields = << >> THEN Walk(<< >>, s.past \cup {f}, Filled(f.value))
  ELSE LET in == fields[1]
           i == in.done + 1
           fuller == Field(in.type, [in.value EXCEPT ![i] = f.value], in.text)
       IN Walk([fields EXCEPT ![1] = At(fuller, i)], s.past \cup {f}, None)

fill_struct_members(t, x) ==
  LET f == Field(t, Default[t], x)
  IN IF x.is = "object" THEN WalkInto(f) ELSE Ends(WalkInto(f), Refused)

fill_struct_field(s) ==
  LET in == s.fields[1]
      i == in.done + 1
      f == Field(PartType(in), in.value[i], in.text.parts[i])
  IN IF in.done = Wanted(s) THEN IsFilled(s, Tail(s.fields), Whole(in))
     ELSE IF i > Len(in.text.parts) THEN Ends(s, Refused)       \* A member is missing.
     ELSE IF i > Len(in.value) THEN Ends(s, Undefined)
     ELSE IF ~Accepts(f.type, f.text) THEN Ends(s, Refused)
     ELSE IF IsStruct(f.type) THEN Into(s, Room(f))
     ELSE IsFilled(s, s.fields, Field(f.type, Taken(f.type, f.text), f.text))
=============================================================================
