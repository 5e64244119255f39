---------------------------- MODULE CodecProofs ----------------------------
(***************************************************************************)
(* What is proved of Codec: texts that are parsed again parse, a form is   *)
(* accepted as it begins, and a request says what the user wrote.          *)
(*                                                                         *)
(* The walks are proved about one step at a time: each field in the        *)
(* history was finished rightly if its parts, also in the history, were.   *)
(***************************************************************************)
EXTENDS Codec, EchoProofs

-----------------------------------------------------------------------------
(***************************************************************************)
(* Sequences, of whatever.                                                 *)
(***************************************************************************)
IsList(w) == Len(w) \in Nat /\ w = [i \in 1..Len(w) |-> w[i]]

LEMMA ListIsSeq ==
  ASSUME NEW w, IsList(w)
  PROVE  \E S : w \in Seq(S)
<1>1. PICK n \in Nat : n = Len(w)
  BY DEF IsList
<1>2. w = [i \in 1..n |-> w[i]]
  BY <1>1 DEF IsList
<1>. DEFINE S == { w[i] : i \in 1..n }
<1>3. \A i \in 1..n : w[i] \in S
  OBVIOUS
<1>. HIDE DEF S
<1>4. w \in [1..n -> S]
  BY <1>2, <1>3
<1>5. w \in Seq(S)
  BY <1>4, SeqDef
<1>. QED  BY <1>5

LEMMA SeqIsList ==
  ASSUME NEW S, NEW w \in Seq(S)
  PROVE  IsList(w) /\ \A i \in 1..Len(w) : w[i] \in S
BY LenProperties, ElementOfSeq DEF IsList

LEMMA NoList ==
  /\ IsList(<< >>) /\ Len(<< >>) = 0
  /\ \A w : IsList(w) /\ Len(w) = 0 => w = << >>
<1>1. << >> \in Seq({}) /\ Len(<< >>) = 0
  OBVIOUS
<1>2. ASSUME NEW w, IsList(w), Len(w) = 0  PROVE w = << >>
  <2>1. PICK S : w \in Seq(S)
    BY <1>2, ListIsSeq
  <2>. QED  BY <1>2, <2>1, EmptySeq
<1>. QED  BY <1>1, <1>2, SeqIsList

LEMMA ListPush ==
  ASSUME NEW w, IsList(w), NEW c
  PROVE  /\ IsList(<<c>> \o w) /\ Len(<<c>> \o w) = Len(w) + 1
         /\ (<<c>> \o w)[1] = c
         /\ \A i \in 1..Len(w) : (<<c>> \o w)[i + 1] = w[i]
<1>1. PICK S : w \in Seq(S)
  BY ListIsSeq
<1>. DEFINE T == S \cup {c}
            v == <<c>> \o w
<1>2. \A i \in 1..Len(w) : w[i] \in T
  BY <1>1, ElementOfSeq
<1>3. w \in Seq(T) /\ c \in T
  BY <1>1, SeqMonotonic
<1>. HIDE DEF T
<1>4. /\ v \in Seq(T) /\ Len(v) = Len(w) + 1 /\ v[1] = c
      /\ \A i \in 2..(Len(w) + 1) : v[i] = w[i - 1]
  BY <1>3, PushIsWalk
<1>. HIDE DEF v
<1>5. PICK n \in Nat : n = Len(w)
  BY DEF IsList
<1>6. ASSUME NEW i \in 1..n  PROVE v[i + 1] = w[i]
  <2>1. PICK j \in 2..(n + 1) : j = i + 1 /\ j - 1 = i
    OBVIOUS
  <2>. QED  BY <1>4, <1>5, <2>1
<1>7. IsList(v)
  BY <1>4, SeqIsList
<1>. QED  BY <1>4, <1>5, <1>6, <1>7 DEF v

LEMMA ListTail ==
  ASSUME NEW w, IsList(w), Len(w) # 0
  PROVE  /\ IsList(Tail(w)) /\ Len(Tail(w)) = Len(w) - 1
         /\ \A i \in 1..(Len(w) - 1) : Tail(w)[i] = w[i + 1]
<1>1. PICK S : w \in Seq(S)
  BY ListIsSeq
<1>. QED  BY <1>1, TailIsWalk, SeqIsList

LEMMA ListExcept ==
  ASSUME NEW w, IsList(w), NEW k \in 1..Len(w), NEW e
  PROVE  /\ IsList([w EXCEPT ![k] = e]) /\ Len([w EXCEPT ![k] = e]) = Len(w)
         /\ [w EXCEPT ![k] = e][k] = e
         /\ \A i \in 1..Len(w) : i # k => [w EXCEPT ![k] = e][i] = w[i]
<1>1. PICK S : w \in Seq(S)
  BY ListIsSeq
<1>. DEFINE T == S \cup {e}
            v == [w EXCEPT ![k] = e]
<1>2. w \in Seq(T) /\ e \in T
  BY <1>1, SeqMonotonic
<1>. HIDE DEF T
<1>3. v \in Seq(T) /\ Len(v) = Len(w)
      /\ \A i \in 1..Len(w) : v[i] = IF i = k THEN e ELSE w[i]
  BY <1>2, ExceptSeq
<1>. HIDE DEF v
<1>4. IsList(v)
  BY <1>3, SeqIsList
<1>. QED  BY <1>3, <1>4 DEF v

LEMMA ListAppend ==
  ASSUME NEW w, IsList(w), NEW e
  PROVE  /\ IsList(Append(w, e)) /\ Len(Append(w, e)) = Len(w) + 1
         /\ Append(w, e)[Len(w) + 1] = e
         /\ \A i \in 1..Len(w) : Append(w, e)[i] = w[i]
<1>1. PICK S : w \in Seq(S)
  BY ListIsSeq
<1>. DEFINE T == S \cup {e}
            v == Append(w, e)
<1>2. w \in Seq(T) /\ e \in T
  BY <1>1, SeqMonotonic
<1>. HIDE DEF T
<1>3. v \in Seq(T) /\ Len(v) = Len(w) + 1 /\ v[Len(w) + 1] = e
      /\ \A i \in 1..Len(w) : v[i] = w[i]
  BY <1>2, AppendProperties
<1>. HIDE DEF v
<1>4. IsList(v)
  BY <1>3, SeqIsList
<1>. QED  BY <1>3, <1>4 DEF v

-----------------------------------------------------------------------------
(***************************************************************************)
(* Types, values and words.                                                *)
(***************************************************************************)
PartAt(t, i) == IF IsArray(t) THEN t.of ELSE t.members[i]

LEMMA PartTypeIs ==
  ASSUME NEW in
  PROVE  PartType(in) = PartAt(in.type, in.done + 1)
BY DEF PartType, PartAt

LEMMA Structured ==
  ASSUME NEW t
  PROVE  IsStruct(t) <=> t.kind \in Containers
BY DEF IsStruct, Containers

LEMMA PartsOfTypes ==
  ASSUME NEW t \in Types, IsStruct(t), NEW i, IsArray(t) \/ i \in 1..Len(t.members)
  PROVE  PartAt(t, i) \in Types
<1>1. CASE IsArray(t)
  BY <1>1, TypesAreTrees DEF PartAt
<1>2. CASE ~IsArray(t)
  <2>1. t.kind = "message"
    BY <1>2 DEF IsStruct, IsArray
  <2>2. t.members \in Seq(Types) /\ i \in 1..Len(t.members)
    BY <1>2, <2>1, TypesAreTrees
  <2>. QED  BY <1>2, <2>2, ElementOfSeq DEF PartAt
<1>. QED  BY <1>1, <1>2

LEMMA PartsOfValues ==
  ASSUME NEW x \in Values, IsStruct(x.type)
  PROVE  /\ x.type \in Types /\ Len(x.value) \in Nat
         /\ IsArray(x.type) =>
              /\ HasCount(x.type) \/ Len(x.value) = x.type.size
              /\ x.type.bounded => Len(x.value) <= x.type.size
         /\ x.type.kind = "message" => Len(x.value) = Len(x.type.members)
         /\ \A i \in 1..Len(x.value) : Value(PartAt(x.type, i), x.value[i]) \in Values
<1>1. IsValue(x.type, x.value, Values) /\ x.type \in Types
  BY ValuesAreTrees
<1>2. CASE IsArray(x.type)
  <2>1. /\ Len(x.value) \in 0..MaxCount
        /\ HasCount(x.type) \/ Len(x.value) = x.type.size
        /\ x.type.bounded => Len(x.value) <= x.type.size
        /\ \A i \in 1..Len(x.value) : Value(x.type.of, x.value[i]) \in Values
    BY <1>1, <1>2 DEF IsValue, IsScalar, ScalarKinds, IsArray
  <2>2. Len(x.value) \in Nat
    BY <2>1, CountsAreShort
  <2>. QED  BY <1>1, <1>2, <2>1, <2>2 DEF PartAt, IsArray
<1>3. CASE x.type.kind = "message"
  <2>1. /\ Len(x.value) = Len(x.type.members) /\ Len(x.type.members) \in Nat
        /\ \A i \in 1..Len(x.value) : Value(x.type.members[i], x.value[i]) \in Values
    BY <1>1, <1>3, TypesAreTrees DEF IsValue, IsScalar, ScalarKinds, IsArray
  <2>. QED  BY <1>1, <1>3, <2>1 DEF PartAt, IsArray
<1>. QED  BY <1>2, <1>3 DEF IsStruct, IsArray

LEMMA StringsObey ==
  ASSUME NEW x \in Values, x.type.kind = "string"
  PROVE  x.value \in Seq(Byte) /\ ~TooLong(x.type, Len(x.value))
<1>1. IsValue(x.type, x.value, Values)
  BY ValuesAreTrees
<1>. QED  BY <1>1 DEF IsValue, IsScalar, ScalarKinds, IsArray

LEMMA EmptyIsMessage == Empty.kind = "message" /\ Len(Empty.members) = 1 /\ IsStruct(Empty)
BY DEF Empty, Message, IsStruct

\* What a word of a text looks like.
LEMMA WordIs ==
  ASSUME NEW x \in Values, ~IsStruct(x.type), ParsesWord(Word(x.type, x.value))
  PROVE  /\ ~Spoilt(Word(x.type, x.value))
         /\ IsText(Word(x.type, x.value), {})
         /\ Tells(Field(x.type, x.value, Word(x.type, x.value)), {})
         /\ Mute(x.type) \/ Accepts(x.type, Word(x.type, x.value))
<1>. DEFINE w == Word(x.type, x.value)
            t == x.type
            v == x.value
            f == Field(x.type, x.value, Word(x.type, x.value))
<1>1. t \in Types /\ t.kind \in ScalarKinds \cup {"string", "wide"}
  BY ValuesAreTrees, TypesAreTrees DEF IsStruct
<1>5. f.type = t /\ f.value = v /\ f.text = w
  BY DEF Field
<1>. HIDE DEF f
<1>2. CASE Mute(t)
  <2>1. w = Null
    BY <1>2 DEF Mute, Word
  <2>. QED  BY <1>2, <1>5, <2>1 DEF Null, Spoilt, Garbled, Broken, IsText, Tells, f
<1>3. CASE t.kind = "string"
  <2>1. w = Quoted(v, TRUE)
    BY <1>3 DEF Word
  <2>2. v \in Seq(Byte) /\ ~TooLong(t, Len(v))
    BY <1>3, StringsObey
  <2>3. w.is = "string" /\ w.chars = v /\ w = Quoted(w.chars, w.raw)
    BY <2>1 DEF Quoted
  <2>4. Tells(f, {})
    BY <1>3, <1>5, <2>2, <2>3 DEF Tells, SameString
  <2>. QED  BY <1>3, <2>2, <2>3, <2>4 DEF Spoilt, Garbled, Broken, IsText, Accepts, f
<1>4. CASE ~Mute(t) /\ t.kind # "string"
  <2>1. IsScalar(t) /\ t.kind \in {"bool", "int", "float", "placeholder"} /\ w = ScalarText(t, v)
    BY <1>1, <1>4 DEF Mute, Word, IsScalar, ScalarKinds
  <2>2. v \in Seq(Byte) /\ (t.kind = "bool" => v \in {<<0>>, <<1>>})
    BY <2>1, ScalarsAreBytes
  <2>3. CASE t.kind = "bool"
    <3>1. w.is = "truth" /\ w.bytes = v /\ w = Truth(v)
      BY <2>1, <2>3 DEF ScalarText, Truth
    <3>. QED  BY <1>5, <2>1, <2>2, <2>3, <3>1 DEF Spoilt, Garbled, Broken, IsText, Tells, Accepts, f
  <2>4. CASE t.kind = "float"
    <3>1. w.is = "decimal" /\ w.bytes = Rounded(v) /\ w = Decimal(Rounded(v))
      BY <2>1, <2>4 DEF ScalarText, Decimal, ParsesWord
    <3>2. Rounded(v) \in Seq(Byte)
      BY <2>2, RoundedIsBytes
    <3>. QED  BY <1>5, <2>1, <2>4, <3>1, <3>2 DEF Spoilt, Garbled, Broken, IsText, Tells, Accepts, f
  <2>5. CASE t.kind \in {"int", "placeholder"}
    <3>1. w.is = "number" /\ w.bytes = v /\ w = Number(v)
      BY <2>1, <2>5 DEF ScalarText, Number, ParsesWord
    <3>. QED  BY <1>5, <2>1, <2>2, <2>5, <3>1 DEF Spoilt, Garbled, Broken, IsText, Tells, Accepts, f
  <2>. QED  BY <2>1, <2>3, <2>4, <2>5
<1>. QED  BY <1>2, <1>3, <1>4

LEMMA WordIsOdd ==
  ASSUME NEW x \in Values, ~IsStruct(x.type), ~ParsesWord(Word(x.type, x.value)), NEW y
  PROVE  LET f == Field(x.type, x.value, y)
         IN IF Misleads(Word(x.type, x.value)) THEN Garbles(f) ELSE Breaks(f)
<1>. DEFINE w == Word(x.type, x.value)
            t == x.type
            v == x.value
            f == Field(x.type, x.value, y)
<1>1. t \in Types /\ t.kind \in ScalarKinds \cup {"string", "wide"}
  BY ValuesAreTrees, TypesAreTrees DEF IsStruct
<1>5. f.type = t /\ f.value = v
  BY DEF Field
<1>. HIDE DEF f
<1>2. CASE Mute(t)
  <2>1. w = Null
    BY <1>2 DEF Mute, Word
  <2>. QED  BY <2>1 DEF Null, ParsesWord
<1>3. CASE t.kind = "string"
  <2>1. w = Quoted(v, TRUE)
    BY <1>3 DEF Word
  <2>2. w.is = "string" /\ w.chars = v
    BY <2>1 DEF Quoted
  <2>3. CASE Misleads(w)
    BY <1>3, <1>5, <2>2, <2>3 DEF Misleads, Garbles, f
  <2>4. CASE ~Misleads(w)
    <3>1. v \in Seq(Byte)
      BY <1>3, StringsObey
    <3>2. PICK i \in DOMAIN v : ~IsPlain(v[i])
      BY <2>2 DEF ParsesWord
    <3>3. v[i] \in Byte /\ v[i] \notin {Quote, Backslash}
      BY <2>2, <2>4, <3>1 DEF Misleads
    <3>4. v[i] < 32 \/ ~IsCharacter(v[i])
      BY <3>2, <3>3 DEF IsPlain, IsCharacter, Byte
    <3>. QED  BY <1>3, <1>5, <2>4, <3>4 DEF Breaks, f
  <2>. QED  BY <2>3, <2>4
<1>4. CASE ~Mute(t) /\ t.kind # "string"
  <2>1. IsScalar(t) /\ t.kind # "string" /\ w = ScalarText(t, v)
    BY <1>1, <1>4 DEF Mute, Word, IsScalar, ScalarKinds
  <2>2. ~Finite(t, v) /\ w.is = "nan"
    BY <2>1 DEF ScalarText, Truth, Number, Decimal, ParsesWord
  <2>3. ~Misleads(w)
    BY <2>2 DEF Misleads
  <2>4. Breaks(f)
    BY <1>5, <2>1, <2>2 DEF Breaks, Infinite
  <2>. QED  BY <2>3, <2>4 DEF f
<1>. QED  BY <1>2, <1>3, <1>4

-----------------------------------------------------------------------------
(***************************************************************************)
(* A walk that reads x0.  S are the fields that are finished.              *)
(***************************************************************************)
\* The first n parts of a field are read.
PartsRead(f, n, S) ==
  /\ f.text = IF IsArray(f.type) THEN List(f.text.parts) ELSE Object(f.text.parts)
  /\ IsList(f.text.parts) /\ Len(f.text.parts) = n
  /\ \A i \in 1..n : /\ ~Spoilt(f.text.parts[i])
                     /\ Field(PartAt(f.type, i), f.value[i], f.text.parts[i]) \in S

\* A text is spoilt, if it is, by what is in S.
Excused(x, S) ==
  /\ x = Garbled => \E g \in S : Garbles(g)
  /\ x = Broken => \E g \in S : Breaks(g)

FieldRead(f, S) ==
  /\ f = Field(f.type, f.value, f.text) /\ Value(f.type, f.value) \in Values
  /\ Excused(f.text, S)
  /\ ~Spoilt(f.text) /\ ~IsStruct(f.type) =>
       f.text = Word(f.type, f.value) /\ ParsesWord(f.text)
  /\ ~Spoilt(f.text) /\ IsStruct(f.type) => PartsRead(f, Shown(f), S)

IsFrame(in) == in = At(in, in.done)

FrameRead(in, S) ==
  /\ IsFrame(in) /\ Value(in.type, in.value) \in Values /\ IsStruct(in.type)
  /\ in.done \in Nat /\ in.done <= Shown(in)
  /\ Excused(in.text, S)
  /\ ~Spoilt(in.text) => PartsRead(in, in.done, S)

\* f is the part of in that is to be read.
ReadNext(f, in) ==
  /\ in.done < Shown(in)
  /\ f.type = PartAt(in.type, in.done + 1) /\ f.value = in.value[in.done + 1]

LinkedRead(w, x0) ==
  /\ Len(w) # 0 => w[Len(w)].type = x0.type /\ w[Len(w)].value = x0.value
  /\ \A i \in 1..Len(w) : i # Len(w) => ReadNext(w[i], w[i + 1])

\* Garbage of a part is garbage of what is around it.
GarbageShows(s) ==
  \A f \in s.past : Spoilt(f.text) =>
    IF s.fields = << >> THEN Spoilt(s.end)
    ELSE \E i \in 1..Len(s.fields) : Spoilt(s.fields[i].text)

ReadWalk(s, x0) ==
  /\ s = Walk(s.fields, s.past, s.end)
  /\ IsList(s.fields) /\ LinkedRead(s.fields, x0)
  /\ \A i \in 1..Len(s.fields) : FrameRead(s.fields[i], s.past)
  /\ \A f \in s.past : FieldRead(f, s.past)
  /\ GarbageShows(s)
  /\ IF s.fields = << >> THEN Field(x0.type, x0.value, s.end) \in s.past ELSE s.end = None

LEMMA ReadStays ==
  ASSUME NEW S, NEW T, S \subseteq T
  PROVE  /\ \A f : FieldRead(f, S) => FieldRead(f, T)
         /\ \A in : FrameRead(in, S) => FrameRead(in, T)
<1>1. \A f, n : PartsRead(f, n, S) => PartsRead(f, n, T)
  BY DEF PartsRead
<1>2. \A x : Excused(x, S) => Excused(x, T)
  BY DEF Excused
<1>. QED  BY <1>1, <1>2 DEF FieldRead, FrameRead

LEMMA SoundExcused ==
  ASSUME NEW x, ~Spoilt(x), NEW S
  PROVE  Excused(x, S)
BY DEF Spoilt, Excused

LEMMA WithSpoilt ==
  ASSUME NEW x, NEW y, Spoilt(x) \/ Spoilt(y), NEW S, Excused(x, S), Excused(y, S)
  PROVE  Spoilt(With(x, y)) /\ Excused(With(x, y), S)
BY DEF With, Spoilt, Excused, Garbled, Broken

LEMMA ReadBegins ==
  ASSUME NEW x \in Values, x.type.kind = "message"
  PROVE  /\ ReadWalk(read_struct_members(x), x) /\ read_struct_members(x).past = {}
         /\ Len(read_struct_members(x).fields) = 1
         /\ read_struct_members(x).fields[1].type = x.type
         /\ read_struct_members(x).fields[1].value = x.value
<1>. DEFINE in == At(Field(x.type, x.value, Object(<< >>)), 0)
            w == <<in>>
<1>1. IsStruct(x.type) /\ ~IsArray(x.type) /\ x = Value(x.type, x.value)
  BY ValuesAreTrees DEF IsStruct, IsArray
<1>2. read_struct_members(x) = Walk(<<in>> \o << >>, {}, None)
  BY <1>1 DEF read_struct_members, WalkInto, Enters, Blank
<1>13. in.type = x.type /\ in.value = x.value /\ in.text = Object(<< >>) /\ in.done = 0 /\ IsFrame(in)
  BY DEF At, Field, IsFrame
<1>3. Shown(in) \in Nat
  BY <1>1, <1>13, PartsOfValues DEF Shown
<1>4. ~Spoilt(Object(<< >>)) /\ Object(<< >>).parts = << >>
  BY DEF Object, Spoilt, Garbled, Broken
<1>5. PartsRead(in, 0, {})
  BY <1>1, <1>4, <1>13, NoList DEF PartsRead
<1>6. FrameRead(in, {})
  BY <1>1, <1>3, <1>4, <1>5, <1>13, SoundExcused DEF FrameRead
<1>. HIDE DEF in
<1>8. IsList(<<in>> \o << >>) /\ Len(<<in>> \o << >>) = 1 /\ (<<in>> \o << >>)[1] = in
  <2>1. PICK none : none = << >>
    OBVIOUS
  <2>2. IsList(none) /\ Len(none) = 0
    BY <2>1, NoList
  <2>3. IsList(<<in>> \o none) /\ Len(<<in>> \o none) = 0 + 1 /\ (<<in>> \o none)[1] = in
    BY <2>2, ListPush, Zenon
  <2>. QED  BY <2>1, <2>3
<1>. DEFINE v == <<in>> \o << >>
            s == Walk(v, {}, None)
<1>9. s.fields = v /\ s.past = {} /\ s.end = None /\ s = Walk(s.fields, s.past, s.end)
  BY DEF Walk
<1>10. IsList(v) /\ Len(v) = 1 /\ v[1] = in /\ v # << >>
  BY <1>8, NoList
<1>. HIDE DEF v, s
<1>11. LinkedRead(v, x)
  BY <1>10, <1>13 DEF LinkedRead
<1>12. ReadWalk(s, x)
  BY <1>6, <1>9, <1>10, <1>11 DEF ReadWalk, GarbageShows
<1>. QED  BY <1>2, <1>9, <1>10, <1>12, <1>13 DEF s, v

\* A field is read: in is the one that it is a part of.
LEMMA TakesPart ==
  ASSUME NEW in, NEW S, FrameRead(in, S), NEW f, FieldRead(f, S \cup {f}), ReadNext(f, in)
  PROVE  LET new == At(Field(in.type, in.value, With(in.text, f.text)), in.done + 1)
         IN /\ FrameRead(new, S \cup {f}) /\ new.type = in.type /\ new.value = in.value
            /\ Spoilt(in.text) \/ Spoilt(f.text) => Spoilt(new.text)
<1>. DEFINE new == At(Field(in.type, in.value, With(in.text, f.text)), in.done + 1)
            T == S \cup {f}
            n == in.done
<1>1. /\ IsFrame(in) /\ in.done \in Nat /\ in.done < Shown(in) /\ FrameRead(in, T)
  BY ReadStays DEF FrameRead, ReadNext
<1>2. /\ new.type = in.type /\ new.value = in.value /\ new.done = n + 1
      /\ new.text = With(in.text, f.text) /\ IsFrame(new)
  BY DEF At, Field, IsFrame
<1>3. Shown(in) \in Nat /\ Shown(new) = Shown(in)
  <2>1. Len(in.value) \in Nat
    BY <1>1, PartsOfValues DEF FrameRead, Value
  <2>. QED  BY <1>2, <2>1 DEF Shown
<1>. HIDE DEF new
<1>4. n + 1 <= Shown(new) /\ n + 1 \in Nat
  BY <1>1, <1>3
<1>5. CASE Spoilt(in.text) \/ Spoilt(f.text)
  <2>1. Excused(in.text, T) /\ Excused(f.text, T)
    BY <1>1 DEF FrameRead, FieldRead
  <2>. HIDE DEF T
  <2>2. Spoilt(new.text) /\ Excused(new.text, T)
    BY <1>2, <1>5, <2>1, WithSpoilt
  <2>3. FrameRead(new, T)
    BY <1>1, <1>2, <1>4, <2>2 DEF FrameRead
  <2>. QED  BY <1>2, <2>2, <2>3 DEF new, T
<1>6. CASE ~Spoilt(in.text) /\ ~Spoilt(f.text)
  <2>. DEFINE p == in.text.parts
              q == Append(p, f.text)
  <2>1. PartsRead(in, n, T)
    BY <1>1, <1>6 DEF FrameRead
  <2>2. /\ IsList(p) /\ Len(p) = n
        /\ \A i \in 1..n : ~Spoilt(p[i]) /\ Field(PartAt(in.type, i), in.value[i], p[i]) \in T
        /\ in.text = IF IsArray(in.type) THEN List(p) ELSE Object(p)
    BY <2>1 DEF PartsRead
  <2>3. new.text = [in.text EXCEPT !.parts = q]
    BY <1>2, <1>6 DEF With, Spoilt
  <2>. HIDE DEF q
  <2>4. new.text = IF IsArray(in.type) THEN List(q) ELSE Object(q)
    BY <2>2, <2>3 DEF List, Object
  <2>5. new.text.parts = q /\ ~Spoilt(new.text)
    BY <2>4 DEF List, Object, Spoilt, Garbled, Broken
  <2>6. IsList(q) /\ Len(q) = n + 1 /\ q[n + 1] = f.text /\ \A i \in 1..n : q[i] = p[i]
    <3>. HIDE DEF p, n
    <3>1. IsList(p) /\ Len(p) = n
      BY <2>2
    <3>2. /\ IsList(Append(p, f.text)) /\ Len(Append(p, f.text)) = Len(p) + 1
          /\ Append(p, f.text)[Len(p) + 1] = f.text
          /\ \A i \in 1..Len(p) : Append(p, f.text)[i] = p[i]
      BY <3>1, ListAppend
    <3>. QED  BY <3>1, <3>2 DEF q
  <2>7. f = Field(PartAt(in.type, n + 1), in.value[n + 1], f.text) /\ f \in T
    BY DEF FieldRead, ReadNext
  <2>. HIDE DEF p, T
  <2>8. ASSUME NEW i \in 1..(n + 1)
        PROVE  ~Spoilt(q[i]) /\ Field(PartAt(in.type, i), in.value[i], q[i]) \in T
    <3>1. CASE i = n + 1
      BY <1>6, <2>6, <2>7, <3>1
    <3>2. CASE i # n + 1
      <4>1. i \in 1..n
        BY <1>1, <3>2
      <4>. QED  BY <2>2, <2>6, <4>1
    <3>. QED  BY <3>1, <3>2
  <2>9. PartsRead(new, n + 1, T)
    BY <1>2, <2>4, <2>5, <2>6, <2>8 DEF PartsRead
  <2>10. FrameRead(new, T)
    BY <1>1, <1>2, <1>4, <2>5, <2>9, SoundExcused DEF FrameRead
  <2>. QED  BY <1>2, <1>6, <2>10 DEF new, T
<1>. QED  BY <1>5, <1>6

LEMMA IndexAfter ==
  ASSUME NEW n \in Nat, NEW i \in 1..n, i # n
  PROVE  i + 1 \in 1..n /\ i + 1 # 1
OBVIOUS

LEMMA IsReadSound ==
  ASSUME NEW s, NEW w, NEW x0, NEW f, IsList(w), LinkedRead(w, x0),
         \A i \in 1..Len(w) : FrameRead(w[i], s.past),
         \A g \in s.past : FieldRead(g, s.past),
         FieldRead(f, s.past \cup {f}),
         Len(w) # 0 => ReadNext(f, w[1]),
         Len(w) = 0 => f.type = x0.type /\ f.value = x0.value,
         \A g \in s.past : Spoilt(g.text) =>
           Spoilt(f.text) \/ \E i \in 1..Len(w) : Spoilt(w[i].text)
  PROVE  ReadWalk(IsRead(s, w, f), x0)
<1>. DEFINE T == s.past \cup {f}
            t == IsRead(s, w, f)
<1>1. PICK n \in Nat : n = Len(w)
  BY DEF IsList
<1>2. /\ \A i \in 1..n : FrameRead(w[i], T)
      /\ \A g \in T : FieldRead(g, T)
  BY <1>1, ReadStays
<1>3. CASE n = 0
  <2>1. w = << >>
    BY <1>1, <1>3, NoList
  <2>2. t = Walk(<< >>, T, f.text)
    BY <2>1 DEF IsRead
  <2>. HIDE DEF t, T
  <2>3. t.fields = << >> /\ t.past = T /\ t.end = f.text /\ t = Walk(t.fields, t.past, t.end)
    BY <2>2 DEF Walk
  <2>4. Field(x0.type, x0.value, t.end) \in t.past
    BY <1>1, <1>3, <2>3 DEF FieldRead, T
  <2>5. GarbageShows(t)
    BY <1>1, <1>3, <2>3 DEF GarbageShows, T
  <2>6. LinkedRead(<< >>, x0)
    BY NoList DEF LinkedRead
  <2>7. ReadWalk(t, x0)
    BY <1>2, <2>3, <2>4, <2>5, <2>6, NoList DEF ReadWalk
  <2>. QED  BY <2>7 DEF t
<1>4. CASE n # 0
  <2>. DEFINE in == w[1]
              new == At(Field(in.type, in.value, With(in.text, f.text)), in.done + 1)
              v == [w EXCEPT ![1] = new]
  <2>1. w # << >> /\ 1 \in 1..n
    BY <1>1, <1>4, NoList
  <2>2. t = Walk(v, T, None)
    BY <2>1 DEF IsRead
  <2>3. /\ FrameRead(new, T) /\ new.type = in.type /\ new.value = in.value
        /\ Spoilt(in.text) \/ Spoilt(f.text) => Spoilt(new.text)
    BY <1>1, <1>4, <2>1, TakesPart
  <2>. HIDE DEF t, new, T
  <2>12. 1 \in 1..Len(w)
    BY <1>1, <2>1
  <2>13. /\ IsList(v) /\ Len(v) = Len(w) /\ v[1] = new
         /\ \A i \in 1..Len(w) : i # 1 => v[i] = w[i]
    BY <2>12, ListExcept, SMTT(30)
  <2>4. /\ IsList(v) /\ Len(v) = n /\ v[1] = new
        /\ \A i \in 1..n : i # 1 => v[i] = w[i]
    BY <1>1, <2>13
  <2>. HIDE DEF v
  <2>5. t.fields = v /\ t.past = T /\ t.end = None /\ t = Walk(t.fields, t.past, t.end)
    BY <2>2 DEF Walk
  <2>6. \A i \in 1..n : v[i].type = w[i].type /\ v[i].value = w[i].value
    BY <2>3, <2>4
  <2>7. \A i \in 1..n : FrameRead(v[i], T)
    BY <1>2, <2>3, <2>4
  <2>8. LinkedRead(v, x0)
    <3>1. v[n].type = x0.type /\ v[n].value = x0.value
      BY <1>1, <1>4, <2>6 DEF LinkedRead
    <3>2. ASSUME NEW i \in 1..n, i # n  PROVE ReadNext(v[i], v[i + 1])
      <4>1. PICK j \in 1..n : j = i + 1 /\ j # 1
        BY <3>2, IndexAfter
      <4>2. ReadNext(w[i], w[j]) /\ v[j] = w[j]
        BY <1>1, <2>4, <3>2, <4>1 DEF LinkedRead
      <4>. QED  BY <2>6, <4>1, <4>2 DEF ReadNext
    <3>. QED  BY <2>4, <3>1, <3>2 DEF LinkedRead
  <2>9. GarbageShows(t)
    <3>. SUFFICES ASSUME NEW g \in T, Spoilt(g.text)
                  PROVE  \E i \in 1..n : Spoilt(v[i].text)
      BY <2>1, <2>4, <2>5, NoList DEF GarbageShows
    <3>1. Spoilt(f.text) \/ \E i \in 1..n : Spoilt(w[i].text)
      BY <1>1 DEF T
    <3>. QED  BY <2>1, <2>3, <2>4, <3>1
  <2>10. v # << >>
    BY <1>4, <2>4, NoList
  <2>11. ReadWalk(t, x0)
    BY <1>2, <2>4, <2>5, <2>7, <2>8, <2>9, <2>10 DEF ReadWalk, T
  <2>. QED  BY <2>11 DEF t
<1>. QED  BY <1>3, <1>4

LEMMA InnermostRead ==
  ASSUME NEW s, NEW x0, ReadWalk(s, x0), s.fields # << >>
  PROVE  /\ IsList(s.fields) /\ Len(s.fields) \in Nat /\ 1 \in 1..Len(s.fields)
         /\ FrameRead(s.fields[1], s.past) /\ IsStruct(s.fields[1].type)
         /\ s.fields[1].done \in Nat /\ Shown(s.fields[1]) \in Nat
         /\ Shown(s.fields[1]) <= Len(s.fields[1].value)
         /\ s.fields[1].done # Shown(s.fields[1]) => s.fields[1].done < Shown(s.fields[1])
<1>. DEFINE in == s.fields[1]
<1>1. IsList(s.fields) /\ Len(s.fields) \in Nat
  BY DEF ReadWalk, IsList
<1>2. Len(s.fields) # 0
  BY <1>1, NoList
<1>3. 1 \in 1..Len(s.fields)
  BY <1>1, <1>2
<1>4. FrameRead(in, s.past)
  BY <1>3 DEF ReadWalk
<1>5. /\ Value(in.type, in.value) \in Values /\ IsStruct(in.type)
      /\ in.done \in Nat /\ in.done <= Shown(in)
  BY <1>4 DEF FrameRead
<1>6. Len(in.value) \in Nat
  BY <1>5, PartsOfValues DEF Value
<1>7. Shown(in) \in Nat /\ Shown(in) <= Len(in.value)
  BY <1>6 DEF Shown
<1>. HIDE DEF in
<1>8. in.done # Shown(in) => in.done < Shown(in)
  BY <1>5, <1>7
<1>. QED  BY <1>1, <1>3, <1>4, <1>5, <1>7, <1>8 DEF in

\* The part that is read next.
LEMMA NextRead ==
  ASSUME NEW in, NEW S, FrameRead(in, S), in.done < Shown(in)
  PROVE  Value(PartAt(in.type, in.done + 1), in.value[in.done + 1]) \in Values
<1>. DEFINE x == Value(in.type, in.value)
<1>1. x \in Values /\ x.type = in.type /\ x.value = in.value /\ IsStruct(in.type) /\ in.done \in Nat
  BY DEF FrameRead, Value
<1>. HIDE DEF x
<1>2. Len(x.value) \in Nat /\ \A i \in 1..Len(x.value) : Value(PartAt(x.type, i), x.value[i]) \in Values
  BY <1>1, PartsOfValues
<1>3. Shown(in) <= Len(in.value)
  BY <1>1, <1>2 DEF Shown
<1>4. PICK i \in 1..Len(x.value) : i = in.done + 1
  <2>1. Shown(in) \in Nat
    BY <1>1, <1>2 DEF Shown
  <2>. QED  BY <1>1, <1>2, <1>3, <2>1
<1>. QED  BY <1>1, <1>2, <1>4

\* A step that reads a word.
LEMMA WordSound ==
  ASSUME NEW s, NEW x0, ReadWalk(s, x0), s.fields # << >>,
         s.fields[1].done # Shown(s.fields[1]),
         NEW x, x = Value(PartAt(s.fields[1].type, s.fields[1].done + 1),
                          s.fields[1].value[s.fields[1].done + 1]),
         ~IsStruct(x.type)
  PROVE  ReadWalk(IsRead(s, s.fields, Field(x.type, x.value, Parsed(Word(x.type, x.value)))), x0)
<1>. DEFINE in == s.fields[1]
            f == Field(x.type, x.value, Parsed(Word(x.type, x.value)))
            T == s.past \cup {f}
<1>1. /\ Len(s.fields) \in Nat /\ 1 \in 1..Len(s.fields)
      /\ FrameRead(in, s.past) /\ in.done < Shown(in)
  BY InnermostRead
<1>2. x \in Values /\ x.type = PartAt(in.type, in.done + 1) /\ x.value = in.value[in.done + 1]
  BY <1>1, NextRead DEF Value
<1>3. f.type = x.type /\ f.value = x.value /\ f.text = Parsed(Word(x.type, x.value))
      /\ f = Field(f.type, f.value, f.text) /\ Value(f.type, f.value) = x
  BY <1>2, ValuesAreTrees DEF Field
<1>4. ReadNext(f, in)
  BY <1>1, <1>2, <1>3 DEF ReadNext
<1>5. FieldRead(f, T)
  <2>1. CASE ParsesWord(Word(x.type, x.value))
    <3>1. f.text = Word(x.type, x.value) /\ ~Spoilt(f.text)
      BY <1>2, <1>3, <2>1, WordIs DEF Parsed
    <3>. HIDE DEF f, T
    <3>. QED  BY <1>2, <1>3, <2>1, <3>1, SoundExcused DEF FieldRead
  <2>2. CASE ~ParsesWord(Word(x.type, x.value))
    <3>1. f.text \in {Garbled, Broken}
      BY <1>3, <2>2 DEF Parsed
    <3>2. (f.text = Garbled => Garbles(f)) /\ (f.text = Broken => Breaks(f))
      <4>1. IF Misleads(Word(x.type, x.value)) THEN Garbles(f) ELSE Breaks(f)
        BY <1>2, <2>2, WordIsOdd
      <4>2. f.text = IF Misleads(Word(x.type, x.value)) THEN Garbled ELSE Broken
        BY <1>3, <2>2 DEF Parsed
      <4>3. Garbled # Broken
        BY DEF Garbled, Broken
      <4>. HIDE DEF f
      <4>. QED  BY <4>1, <4>2, <4>3, Zenon
    <3>3. Spoilt(f.text) /\ Excused(f.text, T)
      BY <3>1, <3>2 DEF Spoilt, Excused
    <3>. HIDE DEF f, T
    <3>. QED  BY <1>2, <1>3, <3>1, <3>3 DEF FieldRead
  <2>. QED  BY <2>1, <2>2
<1>. HIDE DEF f
<1>6. /\ IsList(s.fields) /\ LinkedRead(s.fields, x0)
      /\ \A i \in 1..Len(s.fields) : FrameRead(s.fields[i], s.past)
      /\ \A g \in s.past : FieldRead(g, s.past)
  BY DEF ReadWalk
<1>7. ASSUME NEW g \in s.past, Spoilt(g.text)
      PROVE  Spoilt(f.text) \/ \E i \in 1..Len(s.fields) : Spoilt(s.fields[i].text)
  BY <1>7 DEF ReadWalk, GarbageShows
<1>8. Len(s.fields) # 0
  BY <1>1
<1>9. ReadWalk(IsRead(s, s.fields, f), x0)
  BY <1>4, <1>5, <1>6, <1>7, <1>8, IsReadSound
<1>. QED  BY <1>9 DEF f

\* A step into a part.
LEMMA IntoSound ==
  ASSUME NEW s, NEW x0, ReadWalk(s, x0), s.fields # << >>,
         s.fields[1].done # Shown(s.fields[1]),
         NEW x, x = Value(PartAt(s.fields[1].type, s.fields[1].done + 1),
                          s.fields[1].value[s.fields[1].done + 1]),
         IsStruct(x.type)
  PROVE  ReadWalk(Into(s, Field(x.type, x.value, Blank(x.type))), x0)
<1>. DEFINE in == s.fields[1]
            new == At(Field(x.type, x.value, Blank(x.type)), 0)
            w == s.fields
            v == <<new>> \o w
            t == Into(s, Field(x.type, x.value, Blank(x.type)))
<1>1. /\ IsList(w) /\ Len(w) \in Nat /\ 1 \in 1..Len(w)
      /\ FrameRead(in, s.past) /\ in.done < Shown(in)
  BY InnermostRead
<1>2. x \in Values /\ x.type = PartAt(in.type, in.done + 1) /\ x.value = in.value[in.done + 1]
      /\ Value(x.type, x.value) = x
  BY <1>1, NextRead, ValuesAreTrees DEF Value
<1>3. /\ new.type = x.type /\ new.value = x.value /\ new.text = Blank(x.type) /\ new.done = 0
      /\ IsFrame(new)
  BY DEF At, Field, IsFrame
<1>4. ~Spoilt(Blank(x.type)) /\ Blank(x.type).parts = << >>
      /\ Blank(x.type) = IF IsArray(x.type) THEN List(<< >>) ELSE Object(<< >>)
  BY DEF Blank, List, Object, Spoilt, Garbled, Broken
<1>5. t = Walk(v, s.past, None)
  BY DEF Into, Enters
<1>. HIDE DEF new, t
<1>6. Shown(new) \in Nat
  BY <1>2, <1>3, PartsOfValues DEF Shown
<1>7. PartsRead(new, 0, s.past)
  <2>1. new.text = IF IsArray(new.type) THEN List(new.text.parts) ELSE Object(new.text.parts)
    BY <1>3, <1>4
  <2>2. IsList(new.text.parts) /\ Len(new.text.parts) = 0
    BY <1>3, <1>4, NoList
  <2>. QED  BY <2>1, <2>2 DEF PartsRead
<1>8. FrameRead(new, s.past)
  <2>1. Value(new.type, new.value) \in Values /\ IsStruct(new.type)
    BY <1>2, <1>3
  <2>4. ~Spoilt(new.text)
    BY <1>3, <1>4, Zenon
  <2>5. new.done = 0
    BY <1>3
  <2>2. new.done \in Nat /\ new.done <= Shown(new)
    BY <1>6, <2>5
  <2>3. ~Spoilt(new.text) => PartsRead(new, new.done, s.past)
    BY <1>3, <1>7
  <2>. QED  BY <1>3, <2>1, <2>2, <2>3, <2>4, SoundExcused DEF FrameRead
<1>9. ReadNext(new, in)
  BY <1>1, <1>2, <1>3 DEF ReadNext
<1>10. /\ IsList(v) /\ Len(v) = Len(w) + 1 /\ v[1] = new
       /\ \A i \in 1..Len(w) : v[i + 1] = w[i]
  <2>1. IsList(w)
    BY <1>1
  <2>. HIDE DEF in, w
  <2>. QED  BY <2>1, ListPush, SMTT(30)
<1>. HIDE DEF v
<1>11. t.fields = v /\ t.past = s.past /\ t.end = None /\ t = Walk(t.fields, t.past, t.end)
  BY <1>5 DEF Walk
<1>12. /\ LinkedRead(w, x0) /\ \A i \in 1..Len(w) : FrameRead(w[i], s.past)
       /\ \A g \in s.past : FieldRead(g, s.past)
  BY DEF ReadWalk
<1>13. PICK n \in Nat : n = Len(w) /\ n # 0 /\ Len(v) = n + 1
  BY <1>1, <1>10
<1>14. ASSUME NEW i \in 1..(n + 1)
       PROVE  i = 1 \/ \E j \in 1..n : i = j + 1 /\ v[i] = w[j]
  <2>1. CASE i # 1
    <3>1. PICK j \in 1..n : i = j + 1
      BY <2>1, <1>13
    <3>. QED  BY <1>10, <1>13, <3>1
  <2>. QED  BY <2>1
<1>15. \A i \in 1..(n + 1) : FrameRead(v[i], s.past)
  BY <1>8, <1>10, <1>12, <1>13, <1>14
<1>16. LinkedRead(v, x0)
  <2>1. v[n + 1] = w[n] /\ n \in 1..n
    BY <1>10, <1>13
  <2>2. v[n + 1].type = x0.type /\ v[n + 1].value = x0.value
    BY <1>12, <1>13, <2>1 DEF LinkedRead
  <2>3. ASSUME NEW i \in 1..(n + 1), i # n + 1  PROVE ReadNext(v[i], v[i + 1])
    <3>1. CASE i = 1
      <4>1. v[2] = w[1]
        BY <1>1, <1>10
      <4>. QED  BY <1>9, <1>10, <3>1, <4>1
    <3>2. CASE i # 1
      <4>1. PICK j \in 1..n : i = j + 1 /\ v[i] = w[j]
        BY <1>14, <3>2
      <4>2. j + 1 \in 1..n /\ j # n
        BY <1>13, <2>3, <4>1
      <4>3. v[i + 1] = w[i]
        BY <1>10, <1>13, <4>1, <4>2
      <4>4. ReadNext(w[j], w[j + 1])
        BY <1>12, <1>13, <4>2 DEF LinkedRead
      <4>. QED  BY <4>1, <4>3, <4>4
    <3>. QED  BY <3>1, <3>2
  <2>. QED  BY <1>13, <2>2, <2>3 DEF LinkedRead
<1>17. GarbageShows(t)
  <2>. SUFFICES ASSUME NEW g \in s.past, Spoilt(g.text)
                PROVE  v # << >> /\ \E i \in 1..Len(v) : Spoilt(v[i].text)
    BY <1>11 DEF GarbageShows
  <2>1. PICK i \in 1..n : Spoilt(w[i].text)
    BY <1>13 DEF ReadWalk, GarbageShows
  <2>2. i + 1 \in 1..(n + 1) /\ v[i + 1] = w[i]
    BY <1>10, <1>13, <2>1
  <2>. QED  BY <1>13, <2>1, <2>2, NoList
<1>18. v # << >>
  BY <1>13, NoList
<1>19. ReadWalk(t, x0)
  BY <1>10, <1>11, <1>12, <1>13, <1>15, <1>16, <1>17, <1>18 DEF ReadWalk
<1>. QED  BY <1>19 DEF t

\* A step out of a field.
LEMMA WholeSound ==
  ASSUME NEW s, NEW x0, ReadWalk(s, x0), s.fields # << >>,
         s.fields[1].done = Shown(s.fields[1])
  PROVE  ReadWalk(IsRead(s, Tail(s.fields), Whole(s.fields[1])), x0)
<1>. DEFINE in == s.fields[1]
            w == s.fields
            v == Tail(w)
            f == Whole(in)
            T == s.past \cup {f}
<1>1. /\ IsList(w) /\ Len(w) \in Nat /\ 1 \in 1..Len(w) /\ FrameRead(in, s.past)
  BY InnermostRead
<1>2. /\ f.type = in.type /\ f.value = in.value /\ f.text = in.text
      /\ f = Field(f.type, f.value, f.text)
  BY DEF Whole, Field
<1>. HIDE DEF f
<1>3. FrameRead(in, T)
  BY <1>1, ReadStays
<1>4. Shown(f) = Shown(in)
  BY <1>2 DEF Shown
<1>5. FieldRead(f, T)
  <2>. HIDE DEF T
  <2>1. ASSUME ~Spoilt(in.text)  PROVE PartsRead(f, Shown(f), T)
    <3>1. PartsRead(in, Shown(in), T)
      BY <1>3, <2>1 DEF FrameRead
    <3>. QED  BY <1>2, <1>4, <3>1 DEF PartsRead
  <2>. QED  BY <1>2, <1>3, <2>1 DEF FrameRead, FieldRead
<1>6. /\ IsList(v) /\ Len(v) = Len(w) - 1
      /\ \A i \in 1..(Len(w) - 1) : v[i] = w[i + 1]
  BY <1>1, ListTail
<1>. HIDE DEF v
<1>7. PICK n \in Nat : Len(w) = n + 1 /\ Len(v) = n
  BY <1>1, <1>6
<1>8. \A i \in 1..n : i + 1 \in 1..(n + 1) /\ v[i] = w[i + 1]
  BY <1>6, <1>7
<1>9. /\ LinkedRead(w, x0) /\ \A i \in 1..(n + 1) : FrameRead(w[i], s.past)
      /\ \A g \in s.past : FieldRead(g, s.past)
  BY <1>7 DEF ReadWalk
<1>10. /\ w[n + 1].type = x0.type /\ w[n + 1].value = x0.value
       /\ \A i \in 1..(n + 1) : i # n + 1 => ReadNext(w[i], w[i + 1])
  BY <1>7, <1>9 DEF LinkedRead
<1>11. LinkedRead(v, x0)
  <2>1. ASSUME n # 0  PROVE v[n].type = x0.type /\ v[n].value = x0.value
    BY <1>8, <1>10, <2>1
  <2>2. ASSUME NEW i \in 1..n, i # n  PROVE ReadNext(v[i], v[i + 1])
    <3>1. PICK j \in 1..n : j = i + 1
      BY <2>2, IndexAfter
    <3>2. v[i] = w[j] /\ v[j] = w[j + 1] /\ j \in 1..(n + 1) /\ j # n + 1
      BY <1>8, <3>1
    <3>. QED  BY <1>10, <3>1, <3>2
  <2>. QED  BY <1>7, <2>1, <2>2 DEF LinkedRead
<1>12. \A i \in 1..Len(v) : FrameRead(v[i], s.past)
  BY <1>7, <1>8, <1>9
<1>13. ASSUME Len(v) # 0  PROVE ReadNext(f, v[1])
  <2>1. 1 \in 1..n /\ 1 \in 1..(n + 1) /\ 1 # n + 1
    BY <1>7, <1>13
  <2>2. ReadNext(w[1], w[1 + 1]) /\ v[1] = w[1 + 1]
    BY <1>8, <1>10, <2>1
  <2>. QED  BY <1>2, <2>2 DEF ReadNext
<1>14. ASSUME Len(v) = 0  PROVE f.type = x0.type /\ f.value = x0.value
  <2>1. n + 1 = 1
    BY <1>7, <1>14
  <2>. QED  BY <1>2, <1>10, <2>1
<1>15. ASSUME NEW g \in s.past, Spoilt(g.text)
       PROVE  Spoilt(f.text) \/ \E i \in 1..Len(v) : Spoilt(v[i].text)
  <2>1. PICK i \in 1..(n + 1) : Spoilt(w[i].text)
    BY <1>7, <1>15 DEF ReadWalk, GarbageShows
  <2>2. CASE i = 1
    BY <1>2, <2>1, <2>2
  <2>3. CASE i # 1
    <3>1. PICK j \in 1..n : i = j + 1
      BY <2>3
    <3>. QED  BY <1>7, <1>8, <2>1, <3>1
  <2>. QED  BY <2>2, <2>3
<1>16. ReadWalk(IsRead(s, v, f), x0)
  BY <1>5, <1>6, <1>9, <1>11, <1>12, <1>13, <1>14, <1>15, IsReadSound
<1>. QED  BY <1>16 DEF f, v

LEMMA ReadFieldSound ==
  ASSUME NEW s, NEW x0, ReadWalk(s, x0), s.fields # << >>
  PROVE  ReadWalk(read_struct_field(s), x0)
<1>. DEFINE in == s.fields[1]
            x == Value(PartAt(in.type, in.done + 1), in.value[in.done + 1])
<1>1. PartType(in) = x.type /\ in.value[in.done + 1] = x.value
  BY PartTypeIs DEF Value
<1>2. read_struct_field(s) =
        IF in.done = Shown(in) THEN IsRead(s, Tail(s.fields), Whole(in))
        ELSE IF IsStruct(x.type) THEN Into(s, Field(x.type, x.value, Blank(x.type)))
        ELSE IsRead(s, s.fields, Field(x.type, x.value, Parsed(Word(x.type, x.value))))
  BY <1>1 DEF read_struct_field
<1>3. CASE in.done = Shown(in)
  BY <1>2, <1>3, WholeSound
<1>4. CASE in.done # Shown(in) /\ IsStruct(x.type)
  BY <1>2, <1>4, IntoSound
<1>5. CASE in.done # Shown(in) /\ ~IsStruct(x.type)
  BY <1>2, <1>5, WordSound
<1>. QED  BY <1>3, <1>4, <1>5

-----------------------------------------------------------------------------
(***************************************************************************)
(* What is so of a field that was read.                                    *)
(***************************************************************************)
LEMMA PartsStay ==
  ASSUME NEW f, NEW S, NEW T, S \subseteq T, SameParts(f, S)
  PROVE  SameParts(f, T)
BY DEF SameParts

LEMMA TellsStays ==
  ASSUME NEW f, NEW S, NEW T, S \subseteq T, Tells(f, S)
  PROVE  Tells(f, T)
BY PartsStay DEF Tells

LEMMA CarriesStays ==
  ASSUME NEW f, NEW S, NEW T, S \subseteq T, Carries(f, S)
  PROVE  Carries(f, T)
BY PartsStay DEF Carries

LEMMA ContainerRead ==
  ASSUME NEW S, NEW f, FieldRead(f, S), ~Spoilt(f.text), IsStruct(f.type)
  PROVE  /\ PartsRead(f, Shown(f), S) /\ IsList(f.text.parts) /\ Len(f.text.parts) = Shown(f)
         /\ Len(f.value) \in Nat /\ f.type \in Types
         /\ IsArray(f.type) =>
              /\ f.text.is = "list" /\ f.text = List(f.text.parts) /\ Shown(f) = Len(f.value)
              /\ HasCount(f.type) \/ Len(f.value) = f.type.size
              /\ f.type.bounded => Len(f.value) <= f.type.size
         /\ f.type.kind = "message" =>
              /\ f.text.is = "object" /\ f.text = Object(f.text.parts)
              /\ Len(f.value) = Len(f.type.members)
         /\ f.type # Empty => Shown(f) = Len(f.value)
<1>. DEFINE x == Value(f.type, f.value)
<1>1. x \in Values /\ x.type = f.type /\ x.value = f.value /\ PartsRead(f, Shown(f), S)
  BY DEF FieldRead, Value
<1>. HIDE DEF x
<1>2. /\ f.type \in Types /\ Len(f.value) \in Nat
      /\ IsArray(f.type) =>
           /\ HasCount(f.type) \/ Len(f.value) = f.type.size
           /\ f.type.bounded => Len(f.value) <= f.type.size
      /\ f.type.kind = "message" => Len(f.value) = Len(f.type.members)
  BY <1>1, PartsOfValues
<1>3. f.type # Empty => Shown(f) = Len(f.value)
  BY DEF Shown
<1>4. IsArray(f.type) => f.type # Empty
  BY EmptyIsMessage DEF IsArray
<1>5. /\ IsList(f.text.parts) /\ Len(f.text.parts) = Shown(f)
      /\ f.text = IF IsArray(f.type) THEN List(f.text.parts) ELSE Object(f.text.parts)
  BY <1>1 DEF PartsRead
<1>6. IsArray(f.type) => f.text = List(f.text.parts) /\ f.text.is = "list"
  BY <1>5 DEF List
<1>7. f.type.kind = "message" => f.text = Object(f.text.parts) /\ f.text.is = "object"
  BY <1>5 DEF Object, IsArray
<1>. QED  BY <1>1, <1>2, <1>3, <1>4, <1>5, <1>6, <1>7

LEMMA ReadTells ==
  ASSUME NEW S, NEW f, FieldRead(f, S), ~Spoilt(f.text)
  PROVE  Tells(f, S)
<1>1. CASE ~IsStruct(f.type)
  <2>. DEFINE x == Value(f.type, f.value)
  <2>1. /\ x \in Values /\ x.type = f.type /\ x.value = f.value
        /\ f = Field(f.type, f.value, f.text)
        /\ f.text = Word(f.type, f.value) /\ ParsesWord(Word(f.type, f.value))
    BY <1>1 DEF FieldRead, Value
  <2>. HIDE DEF x
  <2>2. Tells(f, {})
    BY <1>1, <2>1, WordIs
  <2>. QED  BY <2>2, TellsStays
<1>2. CASE IsStruct(f.type)
  <2>1. PICK n : /\ n = Shown(f) /\ IsList(f.text.parts) /\ Len(f.text.parts) = n
                 /\ \A i \in 1..n : Field(PartAt(f.type, i), f.value[i], f.text.parts[i]) \in S
    BY <1>2, ContainerRead DEF PartsRead
  <2>2. CASE IsArray(f.type)
    <3>1. /\ f.text.is = "list" /\ n = Len(f.value) /\ n \in Nat
          /\ HasCount(f.type) \/ n = f.type.size
          /\ f.type.bounded => n <= f.type.size
      BY <1>2, <2>1, <2>2, ContainerRead
    <3>2. ASSUME NEW i \in 1..n
          PROVE  i <= n /\ Field(f.type.of, f.value[i], f.text.parts[i]) \in S
      BY <2>1, <2>2, <3>1 DEF PartAt
    <3>3. f.type.bounded => n <= n
      BY <3>1
    <3>4. /\ IsArray(f.type) /\ f.text.is = "list"
          /\ HasCount(f.type) \/ Len(f.value) = f.type.size
          /\ IF f.type.bounded
             THEN Len(f.text.parts) <= Len(f.value) /\ Len(f.value) <= f.type.size
             ELSE Len(f.text.parts) = Len(f.value)
          /\ \A i \in 1..Len(f.value) :
               IF i <= Len(f.text.parts)
               THEN Field(f.type.of, f.value[i], f.text.parts[i]) \in S
               ELSE f.value[i] = f.type.start[i]
      BY <2>1, <2>2, <3>1, <3>2, <3>3
    <3>. QED  BY <3>4 DEF Tells, SameParts
  <2>3. CASE f.type.kind = "message"
    <3>1. f.text.is = "object" /\ Len(f.value) = Len(f.type.members) /\ Len(f.value) \in Nat
      BY <1>2, <2>3, ContainerRead
    <3>2. CASE f.type = Empty
      BY <2>3, <3>1, <3>2 DEF Tells, SameParts
    <3>3. CASE f.type # Empty
      <4>1. n = Len(f.value)
        BY <1>2, <2>1, <3>3, ContainerRead
      <4>2. ASSUME NEW i \in 1..n
            PROVE  i <= n /\ Field(f.type.members[i], f.value[i], f.text.parts[i]) \in S
        BY <2>1, <2>3, <3>1, <4>1 DEF PartAt, IsArray
      <4>3. \A i \in 1..Len(f.value) :
              /\ i <= Len(f.text.parts)
              /\ Field(f.type.members[i], f.value[i], f.text.parts[i]) \in S
        BY <2>1, <4>1, <4>2
      <4>. QED  BY <2>3, <3>1, <4>3 DEF Tells, SameParts
    <3>. QED  BY <3>2, <3>3
  <2>. QED  BY <1>2, <2>2, <2>3 DEF IsStruct, IsArray
<1>. QED  BY <1>1, <1>2

LEMMA ReadAccepts ==
  ASSUME NEW S, NEW f, FieldRead(f, S), ~Spoilt(f.text), ~Mute(f.type)
  PROVE  Accepts(f.type, f.text)
<1>1. CASE ~IsStruct(f.type)
  <2>. DEFINE x == Value(f.type, f.value)
  <2>1. /\ x \in Values /\ x.type = f.type /\ x.value = f.value
        /\ f.text = Word(f.type, f.value) /\ ParsesWord(Word(f.type, f.value))
    BY <1>1 DEF FieldRead, Value
  <2>. HIDE DEF x
  <2>. QED  BY <1>1, <2>1, WordIs
<1>2. CASE IsArray(f.type)
  <2>1. IsStruct(f.type) /\ f.type.kind = "array"
    BY <1>2 DEF IsStruct, IsArray
  <2>2. PICK n \in Nat : n = Len(f.text.parts)
    BY <2>1, <1>2, ContainerRead
  <2>3. /\ f.text.is = "list" /\ (HasCount(f.type) \/ n = f.type.size)
        /\ f.type.bounded => n <= f.type.size
    BY <1>2, <2>1, <2>2, ContainerRead
  <2>4. f.type.size \in Nat
    BY <1>2, <2>1, ContainerRead, TypesAreTrees
  <2>5. ~WrongCount(f.type, n)
    BY <2>3, <2>4 DEF WrongCount, HasCount
  <2>. QED  BY <2>1, <2>2, <2>3, <2>5 DEF Accepts
<1>3. CASE f.type.kind = "message"
  <2>1. f.text.is = "object"
    BY <1>3, ContainerRead DEF IsStruct
  <2>. QED  BY <1>3, <2>1 DEF Accepts
<1>. QED  BY <1>1, <1>2, <1>3 DEF IsStruct, IsArray

\* The texts of fields without garbage.
TextsOf(S) == { g.text : g \in { h \in S : ~Spoilt(h.text) } }

LEMMA TextStays ==
  ASSUME NEW W, NEW Z, W \subseteq Z, NEW x, IsText(x, W)
  PROVE  IsText(x, Z)
<1>1. \A p : p \in Seq(W) => p \in Seq(Z)
  BY SeqMonotonic
<1>. QED  BY <1>1 DEF IsText

LEMMA ReadTexts ==
  ASSUME NEW S, \A f \in S : FieldRead(f, S)
  PROVE  \A x \in TextsOf(S) : IsText(x, TextsOf(S))
<1>. DEFINE W == TextsOf(S)
<1>1. \A f \in S : ~Spoilt(f.text) => f.text \in W
  BY DEF TextsOf
<1>. SUFFICES ASSUME NEW f \in S, ~Spoilt(f.text)  PROVE IsText(f.text, W)
  BY DEF TextsOf
<1>. HIDE DEF W
<1>2. FieldRead(f, S)
  OBVIOUS
<1>3. CASE ~IsStruct(f.type)
  <2>. DEFINE x == Value(f.type, f.value)
  <2>1. /\ x \in Values /\ x.type = f.type /\ x.value = f.value
        /\ f.text = Word(f.type, f.value) /\ ParsesWord(Word(f.type, f.value))
    BY <1>2, <1>3 DEF FieldRead, Value
  <2>. HIDE DEF x
  <2>2. IsText(f.text, {})
    BY <1>3, <2>1, WordIs
  <2>. QED  BY <2>2, TextStays
<1>4. CASE IsStruct(f.type)
  <2>. DEFINE p == f.text.parts
  <2>1. PICK n \in Nat : n = Len(p)
    BY <1>2, <1>4, ContainerRead DEF IsList
  <2>2. /\ p = [i \in 1..n |-> p[i]] /\ n = Shown(f) /\ PartsRead(f, n, S)
    BY <1>2, <1>4, <2>1, ContainerRead DEF IsList
  <2>3. ASSUME NEW i \in 1..n  PROVE p[i] \in W
    <3>1. PICK g \in S : g = Field(PartAt(f.type, i), f.value[i], p[i]) /\ ~Spoilt(p[i])
      BY <2>2 DEF PartsRead
    <3>2. g.text = p[i]
      BY <3>1 DEF Field
    <3>. QED  BY <1>1, <3>1, <3>2
  <2>4. p \in [1..n -> W]
    BY <2>2, <2>3
  <2>5. p \in Seq(W)
    BY <2>4, SeqDef
  <2>6. (f.text = List(p) /\ f.text.is = "list") \/ (f.text = Object(p) /\ f.text.is = "object")
    BY <1>2, <1>4, ContainerRead DEF IsStruct, IsArray
  <2>. QED  BY <2>5, <2>6 DEF IsText
<1>. QED  BY <1>3, <1>4

-----------------------------------------------------------------------------
(***************************************************************************)
(* Defaults, and walks that read them.                                     *)
(***************************************************************************)
LEMMA DefaultsAre ==
  ASSUME NEW t \in DOMAIN Default
  PROVE  /\ Value(t, Default[t]) \in Values /\ t \in Types
         /\ IsStruct(t) => Default[t] = [i \in 1..Len(Default[t]) |-> Default[t][i]]
         /\ IsArray(t) =>
              /\ Default[t] = t.start /\ t.of \in DOMAIN Default
              /\ IsStruct(t.of) => \A i \in 1..Len(t.start) : t.start[i] = Default[t.of]
         /\ t.kind = "message" =>
              \A i \in 1..Len(t.members) :
                /\ t.members[i] \in DOMAIN Default
                /\ IsStruct(t.members[i]) => Default[t][i] = Default[t.members[i]]
<1>1. { v : v \in Values } = Values
  OBVIOUS
<1>2. AreDefaults(Values)
  BY <1>1, StructsAssumption, Zenon
<1>3. Value(t, Default[t]) \in Values
  BY <1>2, Zenon DEF AreDefaults
<1>4. PICK x \in Values : x = Value(t, Default[t])
  BY <1>3
<1>5. x.type = t /\ x.type \in Types
  BY <1>4, ValuesAreTrees DEF Value
<1>. QED  BY <1>2, <1>3, <1>5, Zenon DEF AreDefaults

\* The parts of a default that are structs are defaults.
LEMMA DefaultParts ==
  ASSUME NEW t \in DOMAIN Default, IsStruct(t)
  PROVE  /\ IsList(Default[t])
         /\ IsArray(t) => (HasCount(t) \/ Len(Default[t]) = t.size)
                       /\ (t.bounded => Len(Default[t]) <= t.size)
         /\ t.kind = "message" => Len(Default[t]) = Len(t.members)
         /\ \A i \in 1..Len(Default[t]) :
              /\ PartAt(t, i) \in DOMAIN Default
              /\ IsStruct(PartAt(t, i)) => Default[t][i] = Default[PartAt(t, i)]
<1>. DEFINE x == Value(t, Default[t])
<1>1. x \in Values /\ x.type = t /\ x.value = Default[t]
  BY DefaultsAre DEF Value
<1>. HIDE DEF x
<1>2. /\ Len(Default[t]) \in Nat
      /\ IsArray(t) =>
           /\ HasCount(t) \/ Len(Default[t]) = t.size
           /\ t.bounded => Len(Default[t]) <= t.size
      /\ t.kind = "message" => Len(Default[t]) = Len(t.members)
  BY <1>1, PartsOfValues
<1>3. IsList(Default[t])
  BY <1>2, DefaultsAre DEF IsList
<1>4. CASE IsArray(t)
  <2>1. \A i \in 1..Len(Default[t]) :
          t.of \in DOMAIN Default /\ (IsStruct(t.of) => Default[t][i] = Default[t.of])
    BY <1>4, DefaultsAre
  <2>. QED  BY <1>2, <1>3, <1>4, <2>1 DEF PartAt
<1>5. CASE t.kind = "message"
  <2>1. \A i \in 1..Len(Default[t]) :
          /\ t.members[i] \in DOMAIN Default
          /\ IsStruct(t.members[i]) => Default[t][i] = Default[t.members[i]]
    BY <1>2, <1>5, DefaultsAre
  <2>2. ~IsArray(t)
    BY <1>5 DEF IsArray
  <2>. QED  BY <1>2, <1>3, <1>5, <2>1, <2>2 DEF PartAt
<1>. QED  BY <1>4, <1>5 DEF IsStruct, IsArray

Fresh(f) == f.type \in DOMAIN Default /\ f.value = Default[f.type]

FreshWalk(s) ==
  /\ \A i \in 1..Len(s.fields) : Fresh(s.fields[i])
  /\ \A g \in s.past : IsStruct(g.type) => Fresh(g)

LEMMA IsReadFresh ==
  ASSUME NEW s, NEW w, IsList(w), NEW f, \A i \in 1..Len(w) : Fresh(w[i]),
         \A g \in s.past : IsStruct(g.type) => Fresh(g), IsStruct(f.type) => Fresh(f)
  PROVE  FreshWalk(IsRead(s, w, f))
<1>. DEFINE T == s.past \cup {f}
            t == IsRead(s, w, f)
<1>1. \A g \in T : IsStruct(g.type) => Fresh(g)
  OBVIOUS
<1>. HIDE DEF T
<1>2. CASE w = << >>
  <2>1. t = Walk(<< >>, T, f.text)
    BY <1>2 DEF IsRead, T
  <2>. HIDE DEF t
  <2>2. t.fields = << >> /\ t.past = T
    BY <2>1 DEF Walk
  <2>3. FreshWalk(t)
    BY <1>1, <2>2, NoList DEF FreshWalk
  <2>. QED  BY <2>3 DEF t
<1>3. CASE w # << >>
  <2>. DEFINE in == w[1]
              new == At(Field(in.type, in.value, With(in.text, f.text)), in.done + 1)
              v == [w EXCEPT ![1] = new]
  <2>1. t = Walk(v, T, None)
    BY <1>3 DEF IsRead, T
  <2>2. new.type = in.type /\ new.value = in.value
    BY DEF At, Field
  <2>. HIDE DEF t, new
  <2>3. Len(w) \in Nat /\ Len(w) # 0
    BY <1>3, NoList DEF IsList
  <2>4. 1 \in 1..Len(w)
    BY <2>3
  <2>5. /\ IsList(v) /\ Len(v) = Len(w) /\ v[1] = new
        /\ \A i \in 1..Len(w) : i # 1 => v[i] = w[i]
    BY <2>4, ListExcept, SMTT(30)
  <2>. HIDE DEF v
  <2>6. Fresh(new)
    BY <2>2, <2>4 DEF Fresh
  <2>7. \A i \in 1..Len(v) : Fresh(v[i])
    BY <2>5, <2>6
  <2>8. t.fields = v /\ t.past = T
    BY <2>1 DEF Walk
  <2>9. FreshWalk(t)
    BY <1>1, <2>7, <2>8 DEF FreshWalk
  <2>. QED  BY <2>9 DEF t
<1>. QED  BY <1>2, <1>3

LEMMA ReadFieldFresh ==
  ASSUME NEW s, NEW x0, ReadWalk(s, x0), s.fields # << >>, FreshWalk(s)
  PROVE  FreshWalk(read_struct_field(s))
<1>. DEFINE w == s.fields
            in == w[1]
            x == Value(PartAt(in.type, in.done + 1), in.value[in.done + 1])
            f == Field(x.type, x.value, Blank(x.type))
<1>1. /\ IsList(w) /\ Len(w) \in Nat /\ 1 \in 1..Len(w) /\ IsStruct(in.type)
      /\ in.done \in Nat /\ Shown(in) \in Nat /\ Shown(in) <= Len(in.value)
      /\ in.done # Shown(in) => in.done < Shown(in)
  BY InnermostRead
<1>2. PartType(in) = x.type /\ in.value[in.done + 1] = x.value
  BY PartTypeIs DEF Value
<1>3. read_struct_field(s) =
        IF in.done = Shown(in) THEN IsRead(s, Tail(s.fields), Whole(in))
        ELSE IF IsStruct(x.type) THEN Into(s, Field(x.type, x.value, Blank(x.type)))
        ELSE IsRead(s, s.fields, Field(x.type, x.value, Parsed(Word(x.type, x.value))))
  BY <1>2 DEF read_struct_field
<1>4. /\ Fresh(in) /\ \A i \in 1..Len(w) : Fresh(w[i])
      /\ \A g \in s.past : IsStruct(g.type) => Fresh(g)
  BY <1>1 DEF FreshWalk
<1>5. CASE in.done = Shown(in)
  <2>. DEFINE v == Tail(w)
  <2>7. /\ IsList(v) /\ Len(v) = Len(w) - 1
        /\ \A i \in 1..(Len(w) - 1) : v[i] = w[i + 1]
    BY <1>1, ListTail
  <2>1. PICK n \in Nat : Len(w) = n + 1 /\ Len(v) = n
    BY <1>1, <2>7
  <2>2. IsList(v) /\ Len(v) = n /\ \A i \in 1..n : v[i] = w[i + 1]
    BY <2>1, <2>7
  <2>3. \A i \in 1..n : i + 1 \in 1..(n + 1)
    OBVIOUS
  <2>4. \A i \in 1..n : Fresh(v[i])
    BY <1>4, <2>1, <2>2, <2>3
  <2>5. Fresh(Whole(in))
    BY <1>4 DEF Fresh, Whole, Field
  <2>. HIDE DEF v
  <2>6. FreshWalk(IsRead(s, v, Whole(in)))
    BY <1>4, <2>2, <2>4, <2>5, IsReadFresh
  <2>. QED  BY <1>3, <1>5, <2>6 DEF v
<1>6. CASE in.done # Shown(in) /\ IsStruct(x.type)
  <2>. DEFINE new == At(f, 0)
              v == <<new>> \o w
              t == Into(s, f)
  <2>1. t = Walk(v, s.past, None)
    BY DEF Into, Enters
  <2>2. new.type = x.type /\ new.value = x.value
    BY DEF At, Field
  <2>. HIDE DEF t, new
  <2>3. /\ IsList(v) /\ Len(v) = Len(w) + 1 /\ v[1] = new
        /\ \A i \in 1..Len(w) : v[i + 1] = w[i]
    <3>1. IsList(w)
      BY <1>1
    <3>. QED  BY <3>1, ListPush, SMTT(30)
  <2>. HIDE DEF v
  <2>4. PICK i \in 1..Len(in.value) : i = in.done + 1
    <3>1. Len(in.value) \in Nat
      BY <1>1, <1>4, DefaultParts DEF Fresh, IsList
    <3>. QED  BY <1>1, <1>6, <3>1
  <2>5. x.type \in DOMAIN Default /\ x.value = Default[x.type]
    <3>1. x.type = PartAt(in.type, i) /\ x.value = Default[in.type][i] /\ in.type \in DOMAIN Default
          /\ i \in 1..Len(Default[in.type])
      BY <1>4, <2>4 DEF Fresh, Value
    <3>. HIDE DEF x
    <3>. QED  BY <1>1, <1>6, <3>1, DefaultParts
  <2>6. Fresh(new)
    BY <2>2, <2>5 DEF Fresh
  <2>7. ASSUME NEW k \in 1..Len(v)  PROVE Fresh(v[k])
    <3>1. CASE k = 1
      BY <2>3, <2>6, <3>1
    <3>2. CASE k # 1
      <4>1. PICK j \in 1..Len(w) : k = j + 1
        BY <1>1, <2>3, <3>2
      <4>. QED  BY <1>4, <2>3, <4>1
    <3>. QED  BY <3>1, <3>2
  <2>8. t.fields = v /\ t.past = s.past
    BY <2>1 DEF Walk
  <2>9. FreshWalk(t)
    BY <1>4, <2>7, <2>8 DEF FreshWalk
  <2>. QED  BY <1>3, <1>6, <2>9 DEF t
<1>7. CASE in.done # Shown(in) /\ ~IsStruct(x.type)
  <2>. DEFINE g == Field(x.type, x.value, Parsed(Word(x.type, x.value)))
  <2>1. g.type = x.type
    BY DEF Field
  <2>. HIDE DEF g
  <2>2. FreshWalk(IsRead(s, w, g))
    BY <1>1, <1>4, <1>7, <2>1, IsReadFresh
  <2>. QED  BY <1>3, <1>7, <2>2 DEF g
<1>. QED  BY <1>5, <1>6, <1>7

-----------------------------------------------------------------------------
(***************************************************************************)
(* A walk that fills a t0 from x0.  S are the fields that are finished, W  *)
(* the texts there are.                                                    *)
(***************************************************************************)
\* A value has room for a text.
Matching(f) ==
  /\ IsArray(f.type) =>
       /\ f.text.is = "list" /\ (HasCount(f.type) \/ Len(f.value) = f.type.size)
       /\ IF f.type.bounded THEN Len(f.value) <= f.type.size /\ Len(f.value) = Len(f.type.start)
          ELSE Len(f.value) = Len(f.text.parts)
  /\ f.type.kind = "message" => f.text.is = "object" /\ Len(f.value) = Len(f.type.members)

\* A part that is not filled is as it began.
PartBegins(in, i) ==
  /\ IsStruct(PartAt(in.type, i)) =>
       PartAt(in.type, i) \in DOMAIN Default /\ in.value[i] = Default[PartAt(in.type, i)]
  /\ IsArray(in.type) /\ in.type.bounded => in.value[i] = in.type.start[i]

PartsFilled(in, S) ==
  \A i \in 1..Len(in.value) :
    IF i <= in.done THEN Field(PartAt(in.type, i), in.value[i], in.text.parts[i]) \in S
    ELSE PartBegins(in, i)

FrameFilled(in, S, W) ==
  /\ IsFrame(in) /\ in.type \in Types /\ IsStruct(in.type)
  /\ IsList(in.value) /\ in.text \in W /\ IsList(in.text.parts)
  /\ in.done \in Nat /\ in.done <= Len(in.value) /\ in.done <= Len(in.text.parts)
  /\ Matching(in) /\ PartsFilled(in, S)

\* f is the part of in that is to be filled.
FillNext(f, in) ==
  /\ in.done < Len(in.value) /\ in.done < Len(in.text.parts)
  /\ f.type = PartAt(in.type, in.done + 1) /\ f.text = in.text.parts[in.done + 1]

LinkedFill(w, t0, x0) ==
  /\ Len(w) # 0 => w[Len(w)].type = t0 /\ w[Len(w)].text = x0
  /\ \A i \in 1..Len(w) : i # Len(w) => FillNext(w[i], w[i + 1])

FillEnds(s, t0, x0) ==
  \/ s.end \in {Refused, Undefined}
  \/ s.end = Filled(s.end.value) /\ Field(t0, s.end.value, x0) \in s.past

FillWalk(s, t0, x0, W) ==
  /\ s = Walk(s.fields, s.past, s.end)
  /\ IsList(s.fields) /\ LinkedFill(s.fields, t0, x0)
  /\ \A i \in 1..Len(s.fields) : FrameFilled(s.fields[i], s.past, W)
  /\ \A f \in s.past : Carries(f, s.past)
  /\ IF s.fields = << >> THEN FillEnds(s, t0, x0) ELSE s.end = None

Legible(W) == \A x \in W : IsText(x, W)

LEMMA PartsOfTexts ==
  ASSUME NEW W, Legible(W), NEW x \in W, x.is \in {"list", "object"}
  PROVE  x.parts \in Seq(W) /\ IsList(x.parts) /\ \A i \in 1..Len(x.parts) : x.parts[i] \in W
<1>1. IsText(x, W)
  BY DEF Legible
<1>2. x.parts \in Seq(W)
  BY <1>1 DEF IsText, Null
<1>. QED  BY <1>2, SeqIsList

LEMMA FilledStays ==
  ASSUME NEW S, NEW T, S \subseteq T, NEW in, NEW W, FrameFilled(in, S, W)
  PROVE  FrameFilled(in, T, W)
<1>1. PartsFilled(in, S) => PartsFilled(in, T)
  BY DEF PartsFilled
<1>. QED  BY <1>1 DEF FrameFilled

LEMMA NarrowedIsBytes ==
  ASSUME NEW b \in Seq(Byte), NEW n \in Sizes
  PROVE  Narrowed(b, n) \in [1..n -> Byte]
<1>1. ASSUME NEW i \in 1..n  PROVE (IF i <= Len(b) THEN b[i] ELSE 0) \in Byte
  <2>1. i \in Nat /\ 1 <= i
    BY DEF Sizes
  <2>2. Len(b) \in Nat /\ \A j \in 1..Len(b) : b[j] \in Byte
    BY LenProperties, ElementOfSeq
  <2>3. 0 \in Byte
    BY DEF Byte
  <2>. QED  BY <2>1, <2>2, <2>3
<1>. QED  BY <1>1 DEF Narrowed

LEMMA NearestIsBytes ==
  ASSUME NEW x, NEW n, <<x, n>> \in DOMAIN Nearest
  PROVE  Nearest[<<x, n>>] \in [1..n -> Byte]
<1>1. \A p \in DOMAIN Nearest : Nearest[p] \in [1..p[2] -> Byte]
  BY NearestAssumption, Zenon
<1>2. PICK p : p = <<x, n>> /\ p[2] = n
  OBVIOUS
<1>. QED  BY <1>1, <1>2

\* What is taken of a word.
LEMMA WordCarries ==
  ASSUME NEW t \in Types, ~IsStruct(t), NEW W, NEW x, IsText(x, W), Accepts(t, x)
  PROVE  Carries(Field(t, Taken(t, x), x), {})
<1>. DEFINE f == Field(t, Taken(t, x), x)
<1>1. f.type = t /\ f.value = Taken(t, x) /\ f.text = x
  BY DEF Field
<1>2. t.kind # "array" /\ t.kind # "message"
  BY DEF IsStruct
<1>. HIDE DEF f
<1>3. CASE t.kind = "string"
  <2>1. x.is = "string" /\ ~TooLong(t, Len(x.chars)) /\ ~IsScalar(t)
    BY <1>3 DEF Accepts, IsScalar, ScalarKinds
  <2>2. f.value = x.chars
    BY <1>1, <1>3, <2>1 DEF Taken
  <2>3. Carries(f, {})
    BY <1>1, <1>3, <2>1, <2>2 DEF Carries, SameString
  <2>. QED  BY <2>3 DEF f
<1>4. CASE t.kind # "string"
  <2>1. /\ t.kind \in {"bool", "int", "float", "placeholder"}
        /\ x.is \in {"number", "decimal", "truth"}
    BY <1>2, <1>4 DEF Accepts
  <2>2. IsScalar(t)
    BY <2>1 DEF IsScalar, ScalarKinds
  <2>3. PICK n : n \in Sizes /\ n = t.size
    BY <2>2, TypesAreTrees
  <2>4. x.bytes \in Seq(Byte)
    <3>1. x.bytes \in Seq(Byte) \/ x.bytes \in {<<0>>, <<1>>}
      BY <2>1 DEF IsText, Null
    <3>2. <<0>> \in Seq(Byte) /\ <<1>> \in Seq(Byte)
      BY DEF Byte
    <3>. QED  BY <3>1, <3>2
  <2>5. f.value = IF t.kind = "float" THEN ReadFloat(x, n) ELSE Narrowed(x.bytes, n)
    BY <1>1, <2>2, <2>3 DEF Taken
  <2>6. Narrowed(x.bytes, n) \in [1..n -> Byte]
    BY <2>3, <2>4, NarrowedIsBytes
  <2>7. f.value \in [1..n -> Byte]
    BY <2>5, <2>6, NearestIsBytes DEF ReadFloat
  <2>8. Carries(f, {})
    BY <1>1, <2>1, <2>2, <2>3, <2>5, <2>7 DEF Carries
  <2>. QED  BY <2>8 DEF f
<1>. QED  BY <1>3, <1>4

\* A struct that is to be filled.
LEMMA RoomIs ==
  ASSUME NEW t \in DOMAIN Default, IsStruct(t), NEW W, Legible(W), NEW x \in W, Accepts(t, x),
         NEW S, NEW f, f = Field(t, Default[t], x)
  PROVE  /\ Room(f).type = t /\ Room(f).text = x /\ FrameFilled(At(Room(f), 0), S, W)
         /\ At(Room(f), 0).type = t /\ At(Room(f), 0).text = x
<1>1. f.type = t /\ f.value = Default[t] /\ f.text = x
  BY DEF Field
<1>2. t \in Types
  BY DefaultsAre
<1>3. /\ IsArray(t) => x.is = "list" /\ ~WrongCount(t, Len(x.parts))
      /\ t.kind = "message" => x.is = "object"
      /\ t.kind \in {"array", "message"}
  BY DEF IsStruct, IsArray, Accepts
<1>4. IsList(x.parts)
  BY <1>3, PartsOfTexts DEF IsArray
<1>5. /\ IsList(Default[t])
      /\ IsArray(t) => (HasCount(t) \/ Len(Default[t]) = t.size)
                    /\ (t.bounded => Len(Default[t]) <= t.size)
      /\ t.kind = "message" => Len(Default[t]) = Len(t.members)
      /\ \A i \in 1..Len(Default[t]) :
           /\ PartAt(t, i) \in DOMAIN Default
           /\ IsStruct(PartAt(t, i)) => Default[t][i] = Default[PartAt(t, i)]
  BY DefaultParts
<1>6. IsArray(t) => Default[t] = t.start /\ t.of \in DOMAIN Default /\ t.size \in Nat
  BY <1>2, DefaultsAre, TypesAreTrees
<1>. DEFINE in == At(Room(f), 0)
<1>7. CASE IsArray(t) /\ HasCount(t) /\ ~t.bounded
  <2>1. PICK n \in Nat : n = Len(x.parts)
    BY <1>4 DEF IsList
  <2>. DEFINE v == [i \in 1..n |-> Default[t.of]]
  <2>2. Room(f) = Field(t, v, x)
    BY <1>1, <1>7, <2>1 DEF Room, Field
  <2>3. /\ Room(f).type = t /\ Room(f).text = x
        /\ in.type = t /\ in.value = v /\ in.text = x /\ in.done = 0 /\ IsFrame(in)
    BY <2>2 DEF Field, At, IsFrame
  <2>4. Len(v) = n /\ IsList(v)
    <3>1. v \in Seq({Default[t.of]}) /\ Len(v) = n
      OBVIOUS
    <3>. HIDE DEF v
    <3>. QED  BY <3>1, SeqIsList
  <2>5. \A i \in 1..n : v[i] = Default[t.of]
    OBVIOUS
  <2>. HIDE DEF in, v
  <2>6. Matching(in)
    BY <1>3, <1>7, <2>1, <2>3, <2>4 DEF Matching, IsArray
  <2>7. ASSUME NEW i \in 1..n  PROVE PartBegins(in, i) /\ ~(i <= 0)
    <3>1. PartAt(t, i) = t.of /\ in.value[i] = Default[t.of]
      BY <1>7, <2>3, <2>5 DEF PartAt
    <3>. QED  BY <1>6, <1>7, <2>3, <3>1 DEF PartBegins
  <2>8. PartsFilled(in, S)
    BY <2>3, <2>4, <2>7 DEF PartsFilled
  <2>9. FrameFilled(in, S, W)
    BY <1>2, <1>4, <2>1, <2>3, <2>4, <2>6, <2>8 DEF FrameFilled
  <2>. QED  BY <2>3, <2>9 DEF in
<1>8. CASE ~(IsArray(t) /\ HasCount(t) /\ ~t.bounded)
  <2>1. Room(f) = f
    BY <1>1, <1>8 DEF Room
  <2>2. /\ in.type = t /\ in.value = Default[t] /\ in.text = x /\ in.done = 0 /\ IsFrame(in)
    BY <1>1, <2>1 DEF At, IsFrame
  <2>. HIDE DEF in
  <2>3. Matching(in)
    <3>1. CASE IsArray(t)
      <4>1. t.kind # "message" /\ x.is = "list"
        BY <1>3, <3>1 DEF IsArray
      <4>2. ASSUME t.bounded
            PROVE  Len(Default[t]) <= t.size /\ Len(Default[t]) = Len(t.start)
        BY <1>5, <1>6, <3>1, <4>2
      <4>3. ASSUME ~t.bounded  PROVE Len(Default[t]) = Len(x.parts)
        BY <1>3, <1>5, <1>8, <3>1, <4>3 DEF WrongCount, HasCount
      <4>. QED  BY <1>5, <2>2, <3>1, <4>1, <4>2, <4>3 DEF Matching
    <3>2. CASE ~IsArray(t)
      BY <1>3, <1>5, <2>2, <3>2 DEF Matching, IsArray
    <3>. QED  BY <3>1, <3>2
  <2>4. Len(Default[t]) \in Nat
    BY <1>5 DEF IsList
  <2>5. ASSUME NEW i \in 1..Len(Default[t])  PROVE PartBegins(in, i) /\ ~(i <= 0)
    BY <1>5, <1>6, <2>2, <2>4 DEF PartBegins
  <2>6. PartsFilled(in, S)
    BY <2>2, <2>5 DEF PartsFilled
  <2>7. 0 <= Len(Default[t]) /\ 0 <= Len(x.parts)
    BY <1>4, <2>4 DEF IsList
  <2>8. FrameFilled(in, S, W)
    BY <1>2, <1>4, <1>5, <2>2, <2>3, <2>6, <2>7 DEF FrameFilled
  <2>. QED  BY <1>1, <2>1, <2>2, <2>8 DEF in
<1>. QED  BY <1>7, <1>8

\* A field is filled: in is the one that it is a part of.
LEMMA TakesFilled ==
  ASSUME NEW in, NEW S, NEW W, FrameFilled(in, S, W), NEW f, f = Field(f.type, f.value, f.text),
         FillNext(f, in)
  PROVE  LET fuller == Field(in.type, [in.value EXCEPT ![in.done + 1] = f.value], in.text)
             new == At(fuller, in.done + 1)
         IN FrameFilled(new, S \cup {f}, W) /\ new.type = in.type /\ new.text = in.text
<1>. DEFINE T == S \cup {f}
<1>15. PICK v, e : v = in.value /\ e = f.value
  OBVIOUS
<1>1. PICK n \in Nat : n = Len(v)
  BY <1>15 DEF FrameFilled
<1>2. PICK m \in Nat : m = Len(in.text.parts)
  BY DEF FrameFilled, IsList
<1>3. PICK d \in Nat : d = in.done /\ d < n /\ d < m
  BY <1>1, <1>2, <1>15 DEF FrameFilled, FillNext
<1>4. PICK k \in 1..n : k = d + 1 /\ k <= m /\ \A i \in 1..n : i <= k <=> i <= d \/ i = k
  BY <1>3
<1>. DEFINE u == [v EXCEPT ![k] = e]
            new == At(Field(in.type, u, in.text), k)
<1>14. IsList(v)
  BY <1>15 DEF FrameFilled
<1>5. k \in 1..Len(v)
  BY <1>1
<1>13. /\ IsList(u) /\ Len(u) = Len(v) /\ u[k] = e
       /\ \A i \in 1..Len(v) : i # k => u[i] = v[i]
  BY <1>5, <1>14, ListExcept, SMTT(30)
<1>6. IsList(u) /\ Len(u) = n /\ u[k] = e /\ \A i \in 1..n : i # k => u[i] = v[i]
  BY <1>1, <1>13
<1>7. /\ new.type = in.type /\ new.value = u /\ new.text = in.text /\ new.done = k
      /\ IsFrame(new)
  BY DEF At, Field, IsFrame
<1>. HIDE DEF u, new
<1>8. Matching(new)
  <2>1. Matching(in)
    BY DEF FrameFilled
  <2>. QED  BY <1>1, <1>6, <1>7, <1>15, <2>1 DEF Matching
<1>9. ASSUME NEW i \in 1..n
      PROVE  IF i <= k THEN Field(PartAt(in.type, i), u[i], in.text.parts[i]) \in T
             ELSE PartBegins(new, i)
  <2>1. PartsFilled(in, S)
    BY DEF FrameFilled
  <2>2. CASE i = k
    <3>1. f = Field(PartAt(in.type, k), f.value, in.text.parts[k])
      BY <1>3, <1>4 DEF FillNext
    <3>2. i <= k
      BY <1>4, <2>2
    <3>. QED  BY <1>6, <1>15, <2>2, <3>1, <3>2
  <2>3. CASE i # k /\ i <= d
    <3>1. Field(PartAt(in.type, i), v[i], in.text.parts[i]) \in S
      BY <1>1, <1>3, <1>15, <2>1, <2>3 DEF PartsFilled
    <3>2. u[i] = v[i] /\ i <= k
      BY <1>4, <1>6, <2>3
    <3>. QED  BY <3>1, <3>2
  <2>4. CASE i # k /\ ~(i <= d)
    <3>1. PartBegins(in, i)
      BY <1>1, <1>3, <1>15, <2>1, <2>4 DEF PartsFilled
    <3>2. u[i] = v[i] /\ ~(i <= k)
      BY <1>4, <1>6, <2>4
    <3>. QED  BY <1>7, <1>15, <3>1, <3>2 DEF PartBegins
  <2>. QED  BY <2>2, <2>3, <2>4
<1>10. PartsFilled(new, T)
  BY <1>6, <1>7, <1>9 DEF PartsFilled
<1>11. k \in Nat /\ k <= n
  BY <1>4
<1>12. FrameFilled(new, T, W)
  BY <1>2, <1>4, <1>6, <1>7, <1>8, <1>10, <1>11 DEF FrameFilled
<1>. QED  BY <1>3, <1>4, <1>7, <1>12, <1>15 DEF new, u

LEMMA IsFilledSound ==
  ASSUME NEW s, NEW w, NEW t0, NEW x0, NEW W, NEW f, IsList(w), LinkedFill(w, t0, x0),
         \A i \in 1..Len(w) : FrameFilled(w[i], s.past, W),
         \A g \in s.past : Carries(g, s.past),
         f = Field(f.type, f.value, f.text), Carries(f, s.past \cup {f}),
         Len(w) # 0 => FillNext(f, w[1]),
         Len(w) = 0 => f.type = t0 /\ f.text = x0
  PROVE  FillWalk(IsFilled(s, w, f), t0, x0, W)
<1>. DEFINE T == s.past \cup {f}
            t == IsFilled(s, w, f)
<1>1. PICK n \in Nat : n = Len(w)
  BY DEF IsList
<1>2. /\ \A i \in 1..n : FrameFilled(w[i], T, W)
      /\ \A g \in T : Carries(g, T)
  <2>1. s.past \subseteq T
    OBVIOUS
  <2>2. \A g \in s.past : Carries(g, T)
    BY <2>1, CarriesStays
  <2>3. \A i \in 1..n : FrameFilled(w[i], T, W)
    BY <1>1, <2>1, FilledStays
  <2>. QED  BY <2>2, <2>3
<1>3. CASE n = 0
  <2>1. w = << >>
    BY <1>1, <1>3, NoList
  <2>2. t = Walk(<< >>, T, Filled(f.value))
    BY <2>1 DEF IsFilled
  <2>. HIDE DEF t, T
  <2>3. /\ t.fields = << >> /\ t.past = T /\ t.end = Filled(f.value) /\ t.end.value = f.value
        /\ t = Walk(t.fields, t.past, t.end)
    BY <2>2 DEF Walk, Filled
  <2>4. Field(t0, f.value, x0) \in t.past
    BY <1>1, <1>3, <2>3 DEF T
  <2>5. FillEnds(t, t0, x0)
    BY <2>3, <2>4 DEF FillEnds
  <2>6. LinkedFill(<< >>, t0, x0)
    BY NoList DEF LinkedFill
  <2>7. FillWalk(t, t0, x0, W)
    BY <1>2, <2>3, <2>5, <2>6, NoList DEF FillWalk
  <2>. QED  BY <2>7 DEF t
<1>4. CASE n # 0
  <2>. DEFINE in == w[1]
              fuller == Field(in.type, [in.value EXCEPT ![in.done + 1] = f.value], in.text)
              new == At(fuller, in.done + 1)
              v == [w EXCEPT ![1] = new]
  <2>1. w # << >> /\ 1 \in 1..n
    BY <1>1, <1>4, NoList
  <2>2. t = Walk(v, T, None)
    BY <2>1 DEF IsFilled
  <2>3. FrameFilled(new, T, W) /\ new.type = in.type /\ new.text = in.text
    BY <1>1, <1>4, <2>1, TakesFilled
  <2>. HIDE DEF t, new, T
  <2>12. 1 \in 1..Len(w)
    BY <1>1, <2>1
  <2>13. /\ IsList(v) /\ Len(v) = Len(w) /\ v[1] = new
         /\ \A i \in 1..Len(w) : i # 1 => v[i] = w[i]
    BY <2>12, ListExcept, SMTT(30)
  <2>4. /\ IsList(v) /\ Len(v) = n /\ v[1] = new
        /\ \A i \in 1..n : i # 1 => v[i] = w[i]
    BY <1>1, <2>13
  <2>. HIDE DEF v
  <2>5. t.fields = v /\ t.past = T /\ t.end = None /\ t = Walk(t.fields, t.past, t.end)
    BY <2>2 DEF Walk
  <2>6. \A i \in 1..n : v[i].type = w[i].type /\ v[i].text = w[i].text
    BY <2>3, <2>4
  <2>7. \A i \in 1..n : FrameFilled(v[i], T, W)
    BY <1>2, <2>3, <2>4
  <2>8. LinkedFill(v, t0, x0)
    <3>1. v[n].type = t0 /\ v[n].text = x0
      BY <1>1, <1>4, <2>6 DEF LinkedFill
    <3>2. ASSUME NEW i \in 1..n, i # n  PROVE FillNext(v[i], v[i + 1])
      <4>1. PICK j \in 1..n : j = i + 1 /\ j # 1
        BY <3>2, IndexAfter
      <4>2. FillNext(w[i], w[j]) /\ v[j] = w[j]
        BY <1>1, <2>4, <3>2, <4>1 DEF LinkedFill
      <4>. QED  BY <2>6, <4>1, <4>2 DEF FillNext
    <3>. QED  BY <2>4, <3>1, <3>2 DEF LinkedFill
  <2>10. v # << >>
    BY <1>4, <2>4, NoList
  <2>11. FillWalk(t, t0, x0, W)
    BY <1>2, <2>4, <2>5, <2>7, <2>8, <2>10 DEF FillWalk, T
  <2>. QED  BY <2>11 DEF t
<1>. QED  BY <1>3, <1>4

LEMMA InnermostFilled ==
  ASSUME NEW s, NEW t0, NEW x0, NEW W, FillWalk(s, t0, x0, W), s.fields # << >>
  PROVE  /\ IsList(s.fields) /\ Len(s.fields) \in Nat /\ 1 \in 1..Len(s.fields)
         /\ FrameFilled(s.fields[1], s.past, W)
<1>1. IsList(s.fields) /\ Len(s.fields) \in Nat
  BY DEF FillWalk, IsList
<1>2. Len(s.fields) # 0
  BY <1>1, NoList
<1>3. 1 \in 1..Len(s.fields)
  BY <1>1, <1>2
<1>. QED  BY <1>1, <1>3 DEF FillWalk

LEMMA EndsSound ==
  ASSUME NEW s, NEW t0, NEW x0, NEW W, \A g \in s.past : Carries(g, s.past),
         NEW end \in {Refused, Undefined}
  PROVE  FillWalk(Ends(s, end), t0, x0, W)
<1>. DEFINE t == Ends(s, end)
<1>1. t = Walk(<< >>, s.past, end)
  BY DEF Ends
<1>. HIDE DEF t
<1>2. t.fields = << >> /\ t.past = s.past /\ t.end = end /\ t = Walk(t.fields, t.past, t.end)
  BY <1>1 DEF Walk
<1>3. LinkedFill(<< >>, t0, x0)
  BY NoList DEF LinkedFill
<1>4. FillEnds(t, t0, x0)
  BY <1>2 DEF FillEnds
<1>5. FillWalk(t, t0, x0, W)
  BY <1>2, <1>3, <1>4, NoList DEF FillWalk
<1>. QED  BY <1>5 DEF t

LEMMA FillBegins ==
  ASSUME NEW t \in DOMAIN Default, t.kind = "message", NEW W, Legible(W), NEW x \in W \cup {Broken}
  PROVE  LET s == fill_struct_members(t, x)
         IN /\ FillWalk(s, t, x, W) /\ s.past = {}
            /\ x.is = "object" => /\ s.fields # << >> /\ Len(s.fields) = 1
                                  /\ s.fields[1].type = t /\ s.fields[1].text = x
<1>. DEFINE f == Field(t, Default[t], x)
            in == At(f, 0)
            s == fill_struct_members(t, x)
<1>1. CASE x.is # "object"
  <2>. DEFINE u == WalkInto(f)
  <2>1. s = Ends(u, Refused) /\ u.past = {}
    BY <1>1 DEF fill_struct_members, WalkInto, Walk
  <2>. HIDE DEF u
  <2>2. FillWalk(Ends(u, Refused), t, x, W) /\ Ends(u, Refused).past = {}
    BY <2>1, EndsSound DEF Ends, Walk
  <2>. QED  BY <1>1, <2>1, <2>2
<1>2. CASE x.is = "object"
  <2>1. x \in W
    BY <1>2 DEF Spoilt, Garbled, Broken
  <2>2. IsStruct(t) /\ Accepts(t, x)
    BY <1>2 DEF IsStruct, Accepts
  <2>3. f.type = t
    BY DEF Field
  <2>4. Room(f) = f
    BY <2>3 DEF Room, IsArray
  <2>5. FrameFilled(in, {}, W) /\ in.type = t /\ in.text = x
    BY <2>1, <2>2, <2>4, RoomIs
  <2>. DEFINE none == << >>
  <2>6. IsList(none) /\ Len(none) = 0
    BY NoList
  <2>7. s = Walk(<<in>> \o none, {}, None)
    BY <1>2 DEF fill_struct_members, WalkInto, Enters
  <2>. HIDE DEF in, none, s
  <2>8. IsList(<<in>> \o none) /\ Len(<<in>> \o none) = 0 + 1 /\ (<<in>> \o none)[1] = in
    BY <2>6, ListPush, Zenon
  <2>. DEFINE v == <<in>> \o none
  <2>9. IsList(v) /\ Len(v) = 1 /\ v[1] = in /\ v # << >>
    BY <2>8, NoList
  <2>. HIDE DEF v
  <2>10. s.fields = v /\ s.past = {} /\ s.end = None /\ s = Walk(s.fields, s.past, s.end)
    BY <2>7 DEF Walk, v
  <2>11. LinkedFill(v, t, x)
    BY <2>5, <2>9 DEF LinkedFill
  <2>13. \A i \in 1..Len(v) : FrameFilled(v[i], {}, W)
    BY <2>5, <2>9
  <2>12. FillWalk(s, t, x, W)
    BY <2>9, <2>10, <2>11, <2>13 DEF FillWalk
  <2>. QED  BY <2>5, <2>9, <2>10, <2>12 DEF s
<1>. QED  BY <1>1, <1>2

\* A struct is left, filled.
LEMMA WholeFilled ==
  ASSUME NEW s, NEW t0, NEW x0, NEW W, FillWalk(s, t0, x0, W), s.fields # << >>,
         s.fields[1].done = Wanted(s)
  PROVE  FillWalk(IsFilled(s, Tail(s.fields), Whole(s.fields[1])), t0, x0, W)
<1>. DEFINE in == s.fields[1]
            w == s.fields
            v == Tail(w)
            f == Whole(in)
            T == s.past \cup {f}
<1>1. /\ IsList(w) /\ Len(w) \in Nat /\ 1 \in 1..Len(w) /\ FrameFilled(in, s.past, W)
  BY InnermostFilled
<1>2. /\ f.type = in.type /\ f.value = in.value /\ f.text = in.text
      /\ f = Field(f.type, f.value, f.text)
  BY DEF Whole, Field
<1>. HIDE DEF f
<1>3. Carries(f, T)
  <2>. HIDE DEF T
  <2>1. FrameFilled(in, T, W)
    BY <1>1, FilledStays DEF T
  <2>2. PICK n \in Nat : n = Len(in.value) /\ in.done \in Nat /\ in.done <= n
    BY <2>1 DEF FrameFilled, IsList
  <2>3. PICK m \in Nat : m = Len(in.text.parts) /\ in.done <= m
    BY <2>1 DEF FrameFilled, IsList
  <2>4. Matching(in) /\ PartsFilled(in, T) /\ in.type \in Types
    BY <2>1 DEF FrameFilled
  <2>5. CASE IsArray(in.type)
    <3>1. in.done = m
      BY <2>3, <2>5 DEF Wanted
    <3>2. ASSUME NEW i \in 1..n
          PROVE  IF i <= m THEN Field(in.type.of, in.value[i], in.text.parts[i]) \in T
                 ELSE PartBegins(in, i)
      BY <2>2, <2>4, <2>5, <3>1 DEF PartsFilled, PartAt
    <3>3. CASE in.type.bounded
      <4>1. ASSUME NEW i \in 1..n
            PROVE  IF i <= m THEN Field(in.type.of, in.value[i], in.text.parts[i]) \in T
                   ELSE in.value[i] = in.type.start[i]
        BY <2>5, <3>2, <3>3 DEF PartBegins
      <4>2. /\ in.text.is = "list" /\ (HasCount(in.type) \/ n = in.type.size)
            /\ m <= n /\ n <= in.type.size
        BY <2>2, <2>4, <2>5, <3>1, <3>3 DEF Matching
      <4>3. /\ IsArray(f.type) /\ f.text.is = "list"
            /\ HasCount(f.type) \/ Len(f.value) = f.type.size
            /\ f.type.bounded /\ Len(f.text.parts) <= Len(f.value) /\ Len(f.value) <= f.type.size
        BY <1>2, <2>2, <2>3, <2>5, <3>3, <4>2
      <4>4. \A i \in 1..Len(f.value) :
              IF i <= Len(f.text.parts)
              THEN Field(f.type.of, f.value[i], f.text.parts[i]) \in T
              ELSE f.value[i] = f.type.start[i]
        BY <1>2, <2>2, <2>3, <4>1
      <4>. QED  BY <4>3, <4>4, Zenon DEF Carries, SameParts
    <3>4. CASE ~in.type.bounded
      <4>1. /\ in.text.is = "list" /\ (HasCount(in.type) \/ n = in.type.size)
            /\ m = n
        BY <2>2, <2>3, <2>4, <2>5, <3>4 DEF Matching
      <4>2. ASSUME NEW i \in 1..n
            PROVE  i <= m /\ Field(in.type.of, in.value[i], in.text.parts[i]) \in T
        BY <3>2, <4>1
      <4>3. /\ IsArray(f.type) /\ f.text.is = "list"
            /\ HasCount(f.type) \/ Len(f.value) = f.type.size
            /\ ~f.type.bounded /\ Len(f.text.parts) = Len(f.value)
        BY <1>2, <2>2, <2>3, <2>5, <3>4, <4>1
      <4>4. \A i \in 1..Len(f.value) :
              IF i <= Len(f.text.parts)
              THEN Field(f.type.of, f.value[i], f.text.parts[i]) \in T
              ELSE f.value[i] = f.type.start[i]
        BY <1>2, <2>2, <2>3, <4>2
      <4>. QED  BY <4>3, <4>4, Zenon DEF Carries, SameParts
    <3>. QED  BY <3>3, <3>4
  <2>6. CASE ~IsArray(in.type)
    <3>1. in.type.kind = "message"
      BY <2>1, <2>6 DEF FrameFilled, IsStruct, IsArray
    <3>2. in.text.is = "object" /\ n = Len(in.type.members)
      BY <2>2, <2>4, <3>1 DEF Matching
    <3>3. CASE in.type = Empty
      BY <1>2, <2>2, <3>1, <3>2, <3>3 DEF Carries, SameParts
    <3>4. CASE in.type # Empty
      <4>1. in.done = n
        BY <2>6, <3>2, <3>4 DEF Wanted
      <4>2. ASSUME NEW i \in 1..n
            PROVE  i <= m /\ Field(in.type.members[i], in.value[i], in.text.parts[i]) \in T
        <5>1. i <= m /\ i <= in.done
          BY <2>3, <4>1
        <5>2. Field(PartAt(in.type, i), in.value[i], in.text.parts[i]) \in T
          BY <2>2, <2>4, <5>1 DEF PartsFilled
        <5>. QED  BY <2>6, <5>1, <5>2 DEF PartAt
      <4>. QED  BY <1>2, <2>2, <2>3, <3>1, <3>2, <4>2 DEF Carries, SameParts
    <3>. QED  BY <3>3, <3>4
  <2>. QED  BY <2>5, <2>6
<1>6. /\ IsList(v) /\ Len(v) = Len(w) - 1
      /\ \A i \in 1..(Len(w) - 1) : v[i] = w[i + 1]
  BY <1>1, ListTail
<1>. HIDE DEF v
<1>7. PICK n \in Nat : Len(w) = n + 1 /\ Len(v) = n
  BY <1>1, <1>6
<1>8. \A i \in 1..n : i + 1 \in 1..(n + 1) /\ v[i] = w[i + 1]
  BY <1>6, <1>7
<1>9. /\ LinkedFill(w, t0, x0) /\ \A i \in 1..(n + 1) : FrameFilled(w[i], s.past, W)
      /\ \A g \in s.past : Carries(g, s.past)
  BY <1>7 DEF FillWalk
<1>10. /\ w[n + 1].type = t0 /\ w[n + 1].text = x0
       /\ \A i \in 1..(n + 1) : i # n + 1 => FillNext(w[i], w[i + 1])
  BY <1>7, <1>9 DEF LinkedFill
<1>11. LinkedFill(v, t0, x0)
  <2>1. ASSUME n # 0  PROVE v[n].type = t0 /\ v[n].text = x0
    BY <1>8, <1>10, <2>1
  <2>2. ASSUME NEW i \in 1..n, i # n  PROVE FillNext(v[i], v[i + 1])
    <3>1. PICK j \in 1..n : j = i + 1
      BY <2>2, IndexAfter
    <3>2. v[i] = w[j] /\ v[j] = w[j + 1] /\ j \in 1..(n + 1) /\ j # n + 1
      BY <1>8, <3>1
    <3>. QED  BY <1>10, <3>1, <3>2
  <2>. QED  BY <1>7, <2>1, <2>2 DEF LinkedFill
<1>12. \A i \in 1..Len(v) : FrameFilled(v[i], s.past, W)
  BY <1>7, <1>8, <1>9
<1>13. ASSUME Len(v) # 0  PROVE FillNext(f, v[1])
  <2>1. 1 \in 1..n /\ 1 \in 1..(n + 1) /\ 1 # n + 1
    BY <1>7, <1>13
  <2>2. FillNext(w[1], w[1 + 1]) /\ v[1] = w[1 + 1]
    BY <1>8, <1>10, <2>1
  <2>. QED  BY <1>2, <2>2 DEF FillNext
<1>14. ASSUME Len(v) = 0  PROVE f.type = t0 /\ f.text = x0
  <2>1. n + 1 = 1
    BY <1>7, <1>14
  <2>. QED  BY <1>2, <1>10, <2>1
<1>16. FillWalk(IsFilled(s, v, f), t0, x0, W)
  BY <1>2, <1>3, <1>6, <1>9, <1>11, <1>12, <1>13, <1>14, IsFilledSound
<1>. QED  BY <1>16 DEF f, v

\* A part that is a struct is entered.
LEMMA IntoFilled ==
  ASSUME NEW s, NEW t0, NEW x0, NEW W, FillWalk(s, t0, x0, W), s.fields # << >>,
         NEW f, FillNext(f, s.fields[1]), f.type = PartAt(s.fields[1].type, s.fields[1].done + 1),
         f.type = Room(f).type, f.text = Room(f).text,
         FrameFilled(At(Room(f), 0), s.past, W)
  PROVE  FillWalk(Into(s, Room(f)), t0, x0, W)
<1>. DEFINE in == s.fields[1]
            new == At(Room(f), 0)
            w == s.fields
            v == <<new>> \o w
            t == Into(s, Room(f))
<1>1. IsList(w) /\ Len(w) \in Nat /\ 1 \in 1..Len(w) /\ FrameFilled(in, s.past, W)
  BY InnermostFilled
<1>2. new.type = f.type /\ new.text = f.text
  BY DEF At
<1>5. t = Walk(v, s.past, None)
  BY DEF Into, Enters
<1>. HIDE DEF new, t
<1>9. FillNext(new, in)
  BY <1>2 DEF FillNext
<1>10. /\ IsList(v) /\ Len(v) = Len(w) + 1 /\ v[1] = new
       /\ \A i \in 1..Len(w) : v[i + 1] = w[i]
  <2>1. IsList(w)
    BY <1>1
  <2>. QED  BY <2>1, ListPush, SMTT(30)
<1>. HIDE DEF v
<1>11. t.fields = v /\ t.past = s.past /\ t.end = None /\ t = Walk(t.fields, t.past, t.end)
  BY <1>5 DEF Walk
<1>12. /\ LinkedFill(w, t0, x0) /\ \A i \in 1..Len(w) : FrameFilled(w[i], s.past, W)
       /\ \A g \in s.past : Carries(g, s.past)
  BY DEF FillWalk
<1>13. PICK n \in Nat : n = Len(w) /\ n # 0 /\ Len(v) = n + 1
  BY <1>1, <1>10
<1>14. ASSUME NEW i \in 1..(n + 1)
       PROVE  i = 1 \/ \E j \in 1..n : i = j + 1 /\ v[i] = w[j]
  <2>1. CASE i # 1
    <3>1. PICK j \in 1..n : i = j + 1
      BY <2>1, <1>13
    <3>. QED  BY <1>10, <1>13, <3>1
  <2>. QED  BY <2>1
<1>15. \A i \in 1..(n + 1) : FrameFilled(v[i], s.past, W)
  BY <1>10, <1>12, <1>13, <1>14 DEF new
<1>16. LinkedFill(v, t0, x0)
  <2>1. v[n + 1] = w[n] /\ n \in 1..n
    BY <1>10, <1>13
  <2>2. v[n + 1].type = t0 /\ v[n + 1].text = x0
    BY <1>12, <1>13, <2>1 DEF LinkedFill
  <2>3. ASSUME NEW i \in 1..(n + 1), i # n + 1  PROVE FillNext(v[i], v[i + 1])
    <3>1. CASE i = 1
      <4>1. v[2] = w[1]
        BY <1>1, <1>10
      <4>. QED  BY <1>9, <1>10, <3>1, <4>1
    <3>2. CASE i # 1
      <4>1. PICK j \in 1..n : i = j + 1 /\ v[i] = w[j]
        BY <1>14, <3>2
      <4>2. j + 1 \in 1..n /\ j # n
        BY <1>13, <2>3, <4>1
      <4>3. v[i + 1] = w[i]
        BY <1>10, <1>13, <4>1, <4>2
      <4>4. FillNext(w[j], w[j + 1])
        BY <1>12, <1>13, <4>2 DEF LinkedFill
      <4>. QED  BY <4>1, <4>3, <4>4
    <3>. QED  BY <3>1, <3>2
  <2>. QED  BY <1>13, <2>2, <2>3 DEF LinkedFill
<1>18. v # << >>
  BY <1>13, NoList
<1>19. FillWalk(t, t0, x0, W)
  BY <1>10, <1>11, <1>12, <1>13, <1>15, <1>16, <1>18 DEF FillWalk
<1>. QED  BY <1>19 DEF t

\* What is filled next: its type, its text, and if it is a struct, its value.
LEMMA NextFilled ==
  ASSUME NEW in, NEW S, NEW W, FrameFilled(in, S, W), Legible(W),
         ~(in.done + 1 > Len(in.text.parts)), ~(in.done + 1 > Len(in.value)),
         NEW t, t = PartAt(in.type, in.done + 1), NEW x, x = in.text.parts[in.done + 1]
  PROVE  /\ t \in Types /\ x \in W /\ in.done < Len(in.value) /\ in.done < Len(in.text.parts)
         /\ IsStruct(t) => t \in DOMAIN Default /\ in.value[in.done + 1] = Default[t]
<1>1. PICK d \in Nat, n \in Nat, m \in Nat : d = in.done /\ n = Len(in.value) /\ m = Len(in.text.parts)
  BY DEF FrameFilled, IsList
<1>8. ~(d + 1 > m) /\ ~(d + 1 > n)
  BY <1>1
<1>9. d + 1 \in 1..n /\ d + 1 \in 1..m /\ ~(d + 1 <= d) /\ d < n /\ d < m
  BY <1>8
<1>2. PICK k : k \in 1..n /\ k \in 1..m /\ k = d + 1 /\ ~(k <= d) /\ d < n /\ d < m
  BY <1>9
<1>3. in.text.parts[k] \in W
  <2>1. in.text \in W /\ in.text.is \in {"list", "object"}
    BY DEF FrameFilled, Matching, IsStruct, IsArray
  <2>. QED  BY <1>1, <1>2, <2>1, PartsOfTexts
<1>4. PartAt(in.type, k) \in Types
  <2>1. IsArray(in.type) \/ k \in 1..Len(in.type.members)
    BY <1>1, <1>2 DEF FrameFilled, Matching, IsStruct, IsArray
  <2>2. in.type \in Types /\ IsStruct(in.type)
    BY DEF FrameFilled
  <2>. QED  BY <2>1, <2>2, PartsOfTypes
<1>5. PartBegins(in, k)
  BY <1>1, <1>2 DEF FrameFilled, PartsFilled
<1>6. t = PartAt(in.type, k) /\ x = in.text.parts[k]
  BY <1>1, <1>2
<1>7. IsStruct(t) => t \in DOMAIN Default /\ in.value[k] = Default[t]
  BY <1>5, <1>6 DEF PartBegins
<1>. QED  BY <1>1, <1>2, <1>3, <1>4, <1>6, <1>7

LEMMA FillFieldSound ==
  ASSUME NEW s, NEW t0, NEW x0, NEW W, Legible(W), FillWalk(s, t0, x0, W), s.fields # << >>
  PROVE  FillWalk(fill_struct_field(s), t0, x0, W)
<1>. DEFINE in == s.fields[1]
            i == in.done + 1
            t == PartAt(in.type, i)
            x == in.text.parts[i]
            f == Field(t, in.value[i], x)
<1>1. PartType(in) = t
  BY PartTypeIs
<1>2. f.type = t /\ f.text = x
  BY DEF Field
<1>3. fill_struct_field(s) =
        IF in.done = Wanted(s) THEN IsFilled(s, Tail(s.fields), Whole(in))
        ELSE IF i > Len(in.text.parts) THEN Ends(s, Refused)
        ELSE IF i > Len(in.value) THEN Ends(s, Undefined)
        ELSE IF ~Accepts(t, x) THEN Ends(s, Refused)
        ELSE IF IsStruct(t) THEN Into(s, Room(f))
        ELSE IsFilled(s, s.fields, Field(t, Taken(t, x), x))
  BY <1>1, <1>2 DEF fill_struct_field
<1>4. /\ IsList(s.fields) /\ Len(s.fields) \in Nat /\ 1 \in 1..Len(s.fields)
      /\ FrameFilled(in, s.past, W)
  BY InnermostFilled
<1>5. /\ LinkedFill(s.fields, t0, x0) /\ \A k \in 1..Len(s.fields) : FrameFilled(s.fields[k], s.past, W)
      /\ \A g \in s.past : Carries(g, s.past)
  BY DEF FillWalk
<1>. DEFINE next == fill_struct_field(s)
<1>6. CASE in.done = Wanted(s)
  BY <1>3, <1>6, WholeFilled
<1>7. ASSUME next = Ends(s, Refused) \/ next = Ends(s, Undefined)
      PROVE  FillWalk(next, t0, x0, W)
  BY <1>5, <1>7, EndsSound
<1>8. CASE /\ in.done # Wanted(s) /\ ~(i > Len(in.text.parts)) /\ ~(i > Len(in.value))
           /\ Accepts(t, x)
  <2>1. /\ t \in Types /\ x \in W /\ in.done < Len(in.value) /\ in.done < Len(in.text.parts)
        /\ IsStruct(t) => t \in DOMAIN Default /\ in.value[i] = Default[t]
    BY <1>4, <1>8, NextFilled
  <2>2. CASE IsStruct(t)
    <3>1. next = Into(s, Room(f))
      BY <1>3, <1>8, <2>2
    <3>2. f = Field(t, Default[t], x)
      BY <2>1, <2>2
    <3>3. FillNext(f, in)
      BY <1>2, <2>1 DEF FillNext
    <3>. HIDE DEF f, t, x, next
    <3>4. Room(f).type = t /\ Room(f).text = x /\ FrameFilled(At(Room(f), 0), s.past, W)
      BY <1>8, <2>1, <2>2, <3>2, RoomIs
    <3>5. FillWalk(Into(s, Room(f)), t0, x0, W)
      <4>1. f.type = PartAt(s.fields[1].type, s.fields[1].done + 1)
        BY <1>2 DEF t
      <4>. QED  BY <1>2, <3>3, <3>4, <4>1, IntoFilled
    <3>. QED  BY <3>1, <3>5 DEF next
  <2>3. CASE ~IsStruct(t)
    <3>. DEFINE g == Field(t, Taken(t, x), x)
    <3>1. next = IsFilled(s, s.fields, g)
      BY <1>3, <1>8, <2>3
    <3>2. g.type = t /\ g.text = x /\ g = Field(g.type, g.value, g.text)
      BY DEF Field
    <3>3. FillNext(g, in)
      BY <2>1, <3>2 DEF FillNext
    <3>4. IsText(x, W)
      BY <2>1 DEF Legible
    <3>. HIDE DEF t, x, next
    <3>5. Carries(g, {})
      BY <1>8, <2>1, <2>3, <3>4, WordCarries
    <3>. HIDE DEF g
    <3>6. Carries(g, s.past \cup {g})
      BY <3>5, CarriesStays
    <3>7. Len(s.fields) # 0
      BY <1>4
    <3>8. FillWalk(IsFilled(s, s.fields, g), t0, x0, W)
      BY <1>4, <1>5, <3>2, <3>3, <3>6, <3>7, IsFilledSound
    <3>. QED  BY <3>1, <3>8 DEF next
  <2>. QED  BY <2>2, <2>3
<1>9. CASE /\ in.done # Wanted(s)
           /\ i > Len(in.text.parts) \/ i > Len(in.value) \/ ~Accepts(t, x)
  <2>1. next = Ends(s, Refused) \/ next = Ends(s, Undefined)
    BY <1>3, <1>9
  <2>. QED  BY <1>7, <2>1
<1>. QED  BY <1>6, <1>8, <1>9

-----------------------------------------------------------------------------
(***************************************************************************)
(* A walk that fills a t0 from the text that it begins with.  P are the    *)
(* fields that were read for that.                                         *)
(***************************************************************************)
\* Nothing in them is what the text cannot carry.
Plain(P, t0) ==
  \A g \in P : ~Mute(g.type) /\ ~(g.type = Empty /\ t0 # Empty) /\ ~Garbles(g) /\ ~Breaks(g)

TemplateRead(P) ==
  /\ \A g \in P : FieldRead(g, P)
  /\ \A g \in P : IsStruct(g.type) => Fresh(g)

FromTemplate(s, P, t0) ==
  /\ \A i \in 1..Len(s.fields) :
       \E g \in P : g.type = s.fields[i].type /\ g.text = s.fields[i].text
  /\ t0 = Empty => Len(s.fields) <= 1
  /\ s.fields = << >> => s.end.how = "filled"

LEMMA FilledFits ==
  ASSUME NEW s, NEW P, NEW t0, NEW f, NEW w, IsList(w),
         \A i \in 1..Len(w) : \E g \in P : g.type = w[i].type /\ g.text = w[i].text,
         t0 = Empty => Len(w) <= 1
  PROVE  FromTemplate(IsFilled(s, w, f), P, t0)
<1>. DEFINE t == IsFilled(s, w, f)
<1>1. CASE w = << >>
  <2>1. t = Walk(<< >>, s.past \cup {f}, Filled(f.value))
    BY <1>1 DEF IsFilled
  <2>. HIDE DEF t
  <2>2. t.fields = << >> /\ t.end.how = "filled"
    BY <2>1 DEF Walk, Filled
  <2>3. FromTemplate(t, P, t0)
    BY <2>2, NoList DEF FromTemplate
  <2>. QED  BY <2>3 DEF t
<1>2. CASE w # << >>
  <2>. DEFINE in == w[1]
              fuller == Field(in.type, [in.value EXCEPT ![in.done + 1] = f.value], in.text)
              new == At(fuller, in.done + 1)
              v == [w EXCEPT ![1] = new]
  <2>1. t = Walk(v, s.past \cup {f}, None)
    BY <1>2 DEF IsFilled
  <2>2. new.type = in.type /\ new.text = in.text
    BY DEF At, Field
  <2>. HIDE DEF t, new
  <2>3. Len(w) \in Nat /\ Len(w) # 0
    BY <1>2, NoList DEF IsList
  <2>4. 1 \in 1..Len(w)
    BY <2>3
  <2>5. /\ IsList(v) /\ Len(v) = Len(w) /\ v[1] = new
        /\ \A i \in 1..Len(w) : i # 1 => v[i] = w[i]
    BY <2>4, ListExcept, SMTT(30)
  <2>. HIDE DEF v
  <2>6. \A i \in 1..Len(w) : v[i].type = w[i].type /\ v[i].text = w[i].text
    BY <2>2, <2>5
  <2>7. t.fields = v
    BY <2>1 DEF Walk
  <2>8. v # << >>
    BY <2>3, <2>5, NoList
  <2>9. FromTemplate(t, P, t0)
    BY <2>5, <2>6, <2>7, <2>8 DEF FromTemplate
  <2>. QED  BY <2>9 DEF t
<1>. QED  BY <1>1, <1>2

LEMMA OnlyOne ==
  ASSUME NEW n \in Nat, 1 \in 1..n, n <= 1
  PROVE  n = 1
OBVIOUS

\* What the innermost is filled from was read, all of it.
LEMMA PartsFit ==
  ASSUME NEW s, NEW P, NEW t0, NEW x0, NEW W, FillWalk(s, t0, x0, W), s.fields # << >>,
         TemplateRead(P), Plain(P, t0), FromTemplate(s, P, t0),
         s.fields[1].done # Wanted(s)
  PROVE  LET in == s.fields[1]
             i == in.done + 1
         IN /\ in.type # Empty /\ ~(i > Len(in.text.parts)) /\ ~(i > Len(in.value))
            /\ \E h \in P : /\ h.type = PartAt(in.type, i) /\ h.text = in.text.parts[i]
                            /\ Accepts(h.type, h.text)
<1>. DEFINE in == s.fields[1]
            i == in.done + 1
<1>1. /\ IsList(s.fields) /\ Len(s.fields) \in Nat /\ 1 \in 1..Len(s.fields)
      /\ FrameFilled(in, s.past, W)
  BY InnermostFilled
<1>2. PICK g \in P : g.type = in.type /\ g.text = in.text
  BY <1>1 DEF FromTemplate
<1>3. \A h \in P : FieldRead(h, P) /\ ~Spoilt(h.text) /\ ~Mute(h.type)
  BY DEF TemplateRead, Plain, FieldRead, Excused, Spoilt
<1>4. IsStruct(g.type) /\ FieldRead(g, P) /\ ~Spoilt(g.text) /\ Fresh(g)
  BY <1>1, <1>2, <1>3 DEF FrameFilled, TemplateRead
<1>5. PICK n : /\ n = Shown(g) /\ PartsRead(g, n, P) /\ Len(g.text.parts) = n
               /\ g.type # Empty => n = Len(g.value)
               /\ g.type.kind = "message" => Len(g.value) = Len(g.type.members)
  BY <1>4, ContainerRead
<1>6. n \in Nat
  BY <1>4, <1>5, ContainerRead DEF IsList
<1>7. PICK d \in Nat, m \in Nat : d = in.done /\ m = Len(in.value) /\ d <= m /\ d <= n
  BY <1>1, <1>2, <1>5 DEF FrameFilled, IsList
<1>8. in.type # Empty
  <2>. SUFFICES ASSUME in.type = Empty  PROVE FALSE
    OBVIOUS
  <2>1. t0 = Empty /\ n = 0
    BY <1>2, <1>5 DEF Plain, Shown
  <2>4. Len(s.fields) <= 1
    BY <2>1 DEF FromTemplate
  <2>2. Len(s.fields) = 1
    BY <1>1, <2>4, OnlyOne, Zenon
  <2>3. Wanted(s) = 0
    BY <2>2, EmptyIsMessage DEF Wanted, IsArray
  <2>. QED  BY <1>6, <1>7, <2>1, <2>3
<1>9. n = Len(g.value)
  BY <1>2, <1>5, <1>8
<1>10. Wanted(s) = n
  <2>1. CASE IsArray(in.type)
    BY <1>2, <1>5, <2>1 DEF Wanted
  <2>2. CASE ~IsArray(in.type)
    <3>1. in.type.kind = "message"
      BY <1>2, <1>4, <2>2 DEF IsStruct, IsArray
    <3>. QED  BY <1>2, <1>5, <1>8, <1>9, <2>2, <3>1 DEF Wanted
  <2>. QED  BY <2>1, <2>2
<1>11. m = n
  <2>1. Matching(in)
    BY <1>1 DEF FrameFilled
  <2>2. CASE IsArray(in.type)
    <3>1. CASE in.type.bounded
      <4>1. g.value = in.type.start
        BY <1>2, <1>4, <2>2, DefaultsAre DEF Fresh
      <4>. QED  BY <1>7, <1>9, <2>1, <2>2, <3>1, <4>1 DEF Matching
    <3>2. CASE ~in.type.bounded
      BY <1>2, <1>5, <1>7, <2>1, <2>2, <3>2 DEF Matching
    <3>. QED  BY <3>1, <3>2
  <2>3. CASE ~IsArray(in.type)
    <3>1. in.type.kind = "message"
      BY <1>2, <1>4, <2>3 DEF IsStruct, IsArray
    <3>. QED  BY <1>2, <1>5, <1>7, <1>9, <2>1, <3>1 DEF Matching
  <2>. QED  BY <2>2, <2>3
<1>12. PICK k \in 1..n : k = d + 1 /\ ~(k > n)
  <2>1. d < n
    BY <1>6, <1>7, <1>10
  <2>. QED  BY <1>6, <2>1
<1>13. PICK h \in P : h = Field(PartAt(g.type, k), g.value[k], g.text.parts[k])
  BY <1>5 DEF PartsRead
<1>14. h.type = PartAt(in.type, k) /\ h.text = in.text.parts[k]
  BY <1>2, <1>13 DEF Field
<1>15. Accepts(h.type, h.text)
  BY <1>3, ReadAccepts
<1>. HIDE DEF in
<1>16. ~(i > Len(in.text.parts)) /\ ~(i > Len(in.value)) /\ i = k
  BY <1>2, <1>5, <1>7, <1>11, <1>12
<1>. QED  BY <1>8, <1>14, <1>15, <1>16 DEF in

LEMMA FillFieldFits ==
  ASSUME NEW s, NEW P, NEW t0, NEW x0, NEW W, Legible(W), FillWalk(s, t0, x0, W), s.fields # << >>,
         TemplateRead(P), Plain(P, t0), FromTemplate(s, P, t0)
  PROVE  FromTemplate(fill_struct_field(s), P, t0)
<1>. DEFINE w == s.fields
            in == w[1]
            i == in.done + 1
            t == PartAt(in.type, i)
            x == in.text.parts[i]
            f == Field(t, in.value[i], x)
<1>1. PartType(in) = t
  BY PartTypeIs
<1>2. f.type = t /\ f.text = x
  BY DEF Field
<1>3. fill_struct_field(s) =
        IF in.done = Wanted(s) THEN IsFilled(s, Tail(s.fields), Whole(in))
        ELSE IF i > Len(in.text.parts) THEN Ends(s, Refused)
        ELSE IF i > Len(in.value) THEN Ends(s, Undefined)
        ELSE IF ~Accepts(t, x) THEN Ends(s, Refused)
        ELSE IF IsStruct(t) THEN Into(s, Room(f))
        ELSE IsFilled(s, s.fields, Field(t, Taken(t, x), x))
  BY <1>1, <1>2 DEF fill_struct_field
<1>4. IsList(w) /\ Len(w) \in Nat /\ 1 \in 1..Len(w) /\ FrameFilled(in, s.past, W)
  BY InnermostFilled
<1>5. /\ \A k \in 1..Len(w) : \E g \in P : g.type = w[k].type /\ g.text = w[k].text
      /\ t0 = Empty => Len(w) <= 1
  BY DEF FromTemplate
<1>6. CASE in.done = Wanted(s)
  <2>. DEFINE v == Tail(w)
  <2>1. /\ IsList(v) /\ Len(v) = Len(w) - 1
        /\ \A k \in 1..(Len(w) - 1) : v[k] = w[k + 1]
    BY <1>4, ListTail
  <2>. HIDE DEF v
  <2>2. PICK n \in Nat : Len(w) = n + 1 /\ Len(v) = n
    BY <1>4, <2>1
  <2>3. \A k \in 1..n : k + 1 \in 1..(n + 1) /\ v[k] = w[k + 1]
    BY <2>1, <2>2
  <2>4. ASSUME NEW k \in 1..Len(v)
        PROVE  \E g \in P : g.type = v[k].type /\ g.text = v[k].text
    <3>1. PICK j \in 1..Len(w) : v[k] = w[j]
      BY <2>2, <2>3
    <3>. QED  BY <1>5, <3>1
  <2>5. t0 = Empty => Len(v) <= 1
    BY <1>5, <2>2
  <2>6. FromTemplate(IsFilled(s, v, Whole(in)), P, t0)
    BY <2>1, <2>4, <2>5, FilledFits
  <2>. QED  BY <1>3, <1>6, <2>6 DEF v
<1>7. CASE in.done # Wanted(s)
  <2>1. /\ in.type # Empty /\ ~(i > Len(in.text.parts)) /\ ~(i > Len(in.value))
        /\ \E h \in P : h.type = t /\ h.text = x /\ Accepts(h.type, h.text)
    BY <1>7, PartsFit
  <2>2. PICK h \in P : h.type = t /\ h.text = x /\ Accepts(t, x)
    BY <2>1
  <2>3. fill_struct_field(s) =
          IF IsStruct(t) THEN Into(s, Room(f)) ELSE IsFilled(s, w, Field(t, Taken(t, x), x))
    BY <1>3, <1>7, <2>1, <2>2
  <2>4. CASE IsStruct(t)
    <3>1. /\ t \in Types /\ x \in W /\ t \in DOMAIN Default /\ in.value[i] = Default[t]
      BY <1>4, <2>1, <2>4, NextFilled
    <3>2. f = Field(t, Default[t], x)
      BY <3>1
    <3>3. t0 # Empty
      <4>. SUFFICES ASSUME t0 = Empty  PROVE FALSE
        OBVIOUS
      <4>3. Len(w) <= 1
        BY <1>5
      <4>1. Len(w) = 1
        BY <1>4, <4>3, OnlyOne, Zenon
      <4>2. in.type = t0
        BY <4>1 DEF FillWalk, LinkedFill
      <4>. QED  BY <2>1, <4>2
    <3>. DEFINE new == At(Room(f), 0)
                v == <<new>> \o w
                u == Into(s, Room(f))
    <3>4. u = Walk(v, s.past, None)
      BY DEF Into, Enters
    <3>5. new.type = t /\ new.text = x
      <4>. HIDE DEF f, t, x
      <4>. QED  BY <2>2, <2>4, <3>1, <3>2, RoomIs
    <3>. HIDE DEF new, u
    <3>6. /\ IsList(v) /\ Len(v) = Len(w) + 1 /\ v[1] = new
          /\ \A k \in 1..Len(w) : v[k + 1] = w[k]
      <4>1. IsList(w)
        BY <1>4
      <4>. HIDE DEF w
      <4>. QED  BY <4>1, ListPush, SMTT(30)
    <3>. HIDE DEF v
    <3>7. ASSUME NEW k \in 1..Len(v)
          PROVE  \E g \in P : g.type = v[k].type /\ g.text = v[k].text
      <4>1. CASE k = 1
        BY <2>2, <3>5, <3>6, <4>1
      <4>2. CASE k # 1
        <5>1. PICK j \in 1..Len(w) : k = j + 1
          BY <1>4, <3>6, <4>2
        <5>. QED  BY <1>5, <3>6, <5>1
      <4>. QED  BY <4>1, <4>2
    <3>8. u.fields = v
      BY <3>4 DEF Walk
    <3>9. v # << >>
      BY <1>4, <3>6, NoList
    <3>10. FromTemplate(u, P, t0)
      BY <3>3, <3>7, <3>8, <3>9 DEF FromTemplate
    <3>. QED  BY <2>3, <2>4, <3>10 DEF u
  <2>5. CASE ~IsStruct(t)
    <3>. DEFINE g == Field(t, Taken(t, x), x)
    <3>. HIDE DEF g
    <3>1. FromTemplate(IsFilled(s, w, g), P, t0)
      BY <1>4, <1>5, FilledFits
    <3>. QED  BY <2>3, <2>5, <3>1 DEF g
  <2>. QED  BY <2>4, <2>5
<1>. QED  BY <1>6, <1>7

-----------------------------------------------------------------------------
(***************************************************************************)
(* What is said of a message.                                              *)
(***************************************************************************)
\* The serializer goes by what no text holds.
Odd(s) == (s.puts # << >> /\ CutAt(s)) \/ (PutsMore(s) /\ Infinite(PutNext(s)))

LEMMA AfterSays ==
  ASSUME NEW s, SenderSound(s), s.puts # << >>
  PROVE  \/ After(s).said = s.said
         \/ \E x : After(s).said = Append(s.said, x) /\ (ParsesWord(x) \/ Odd(s))
<1>. DEFINE in == s.puts[1]
            x == Item(s)
            Says1(y) == After(s).said = s.said \/ After(s).said = Append(s.said, y)
<1>1. \A walk, y : Says(s.said, walk, y) = s.said \/ Says(s.said, walk, y) = Append(s.said, y)
  BY DEF Says
<1>2. /\ in.done \in Nat /\ Len(in.value) \in Nat
      /\ in.done # Len(in.value) =>
           /\ in.done < Len(in.value)
           /\ x.type.kind \in ScalarKinds \cup {"string", "wide", "array", "message"}
  BY WhereItIs
<1>3. \A y : Says1(y) /\ (ParsesWord(y) \/ Odd(s)) =>
        \/ After(s).said = s.said
        \/ \E z : After(s).said = Append(s.said, z) /\ (ParsesWord(z) \/ Odd(s))
  OBVIOUS
<1>4. CASE in.done = Len(in.value)
  <2>. DEFINE cut == IsArray(in.type) /\ Len(in.value) > MaxShown
  <2>1. After(s).said = Says(s.said, Tail(s.puts), Closed(cut))
    BY <1>4, AfterIs, LeavesIsSound
  <2>2. ParsesWord(Closed(cut)) \/ Odd(s)
    BY DEF ParsesWord, Closed, Odd, CutAt
  <2>3. Says1(Closed(cut))
    BY <1>1, <2>1
  <2>. QED  BY <1>3, <2>2, <2>3
<1>5. ParsesWord(Opened) /\ ParsesWord(Null) /\ \A c : ParsesWord(Quoted(c, FALSE))
  BY DEF ParsesWord, Opened, Null, Quoted
<1>6. CASE in.done # Len(in.value) /\ IsScalar(x.type)
  <2>. DEFINE y == ScalarText(x.type, x.value)
  <2>1. After(s) = PutsScalar(s, x)
    BY <1>6, AfterIs
  <2>2. After(s).said = Says(s.said, s.puts, y)
    BY <2>1 DEF PutsScalar, Puts
  <2>3. ASSUME ~ParsesWord(y)  PROVE Odd(s)
    <3>1. ~Finite(x.type, x.value)
      BY <2>3 DEF ScalarText, Truth, Number, Decimal, ParsesWord
    <3>2. PutsMore(s) /\ PutNext(s) = x
      BY <1>2, <1>6 DEF PutsMore, PutNext, Item
    <3>. QED  BY <1>6, <3>1, <3>2 DEF Odd, Infinite
  <2>4. Says1(y)
    BY <1>1, <2>2
  <2>. QED  BY <1>3, <2>3, <2>4
<1>7. CASE in.done # Len(in.value) /\ x.type.kind = "string"
  <2>. DEFINE y == Quoted(x.value, FALSE)
  <2>1. After(s) = PutsString(s, x)
    BY <1>7, AfterIs
  <2>2. After(s).said = Says(s.said, s.puts, y)
    BY <2>1 DEF PutsString, Puts
  <2>. QED  BY <1>1, <1>3, <1>5, <2>2
<1>8. CASE in.done # Len(in.value) /\ x.type.kind = "wide"
  <2>1. After(s) = PutsWide(s, x)
    BY <1>8, AfterIs
  <2>2. After(s).said = Says(s.said, s.puts, Null)
    BY <2>1 DEF PutsWide, Puts
  <2>. QED  BY <1>1, <1>3, <1>5, <2>2
<1>9. CASE in.done # Len(in.value) /\ x.type.kind \in {"array", "message"}
  <2>1. \/ After(s) = EntersMessage(s, x) \/ After(s) = PutsCount(s, x)
        \/ After(s) = EntersFixed(s, x)
    BY <1>9, AfterIs
  <2>2. After(s).said = Says(s.said, s.puts, Opened)
    <3>1. CASE After(s) = PutsCount(s, x)
      BY <3>1 DEF PutsCount, Puts
    <3>2. ASSUME NEW moved \in BOOLEAN
          PROVE  Walks(s, <<In(x)>> \o s.puts, Says(s.said, s.puts, Opened), moved).said
                   = Says(s.said, s.puts, Opened)
      BY <1>9, EntersIsSound DEF Containers
    <3>3. s.moved \in BOOLEAN
      BY DEF SenderSound, Senders
    <3>4. CASE After(s) = EntersMessage(s, x)
      BY <3>2, <3>3, <3>4 DEF EntersMessage
    <3>5. CASE After(s) = EntersFixed(s, x)
      BY <3>2, <3>5 DEF EntersFixed
    <3>. QED  BY <2>1, <3>1, <3>4, <3>5
  <2>. QED  BY <1>1, <1>3, <1>5, <2>2
<1>. QED  BY <1>2, <1>4, <1>6, <1>7, <1>8, <1>9 DEF IsScalar

OddLogged == \E i \in 1..Len(log) : Odd(log[i])

SaidParses ==
  seen # None => OddLogged \/ \A i \in 1..Len(Sender.said) : ParsesWord(Sender.said[i])

LEMMA SaidStays ==
  ASSUME SaidParses, UNCHANGED <<seen, log>>
  PROVE  SaidParses'
BY DEF SaidParses, OddLogged, Sender

LEMMA PublishSays ==
  ASSUME IInv, NEW m \in Messages, NEW little \in BOOLEAN, Publish(m, little)
  PROVE  SaidParses'
<1>. DEFINE s == Starts(Value(m.type, m.value), little)
<1>1. log' = <<s>>
  BY DEF Publish
<1>2. s.said = <<Opened>>
  BY DEF Starts
<1>. HIDE DEF s
<1>3. Sender' = s
  BY <1>1 DEF Sender
<1>4. Len(s.said) = 1 /\ s.said[1] = Opened
  BY <1>2
<1>5. ParsesWord(Opened)
  BY DEF ParsesWord, Opened
<1>6. \A i \in 1..Len(s.said) : ParsesWord(s.said[i])
  BY <1>4, <1>5
<1>. QED  BY <1>3, <1>6 DEF SaidParses

LEMMA SerializeSays ==
  ASSUME IInv, SaidParses, Serialize
  PROVE  SaidParses'
<1>. DEFINE t == After(Sender)
<1>1. seen # None /\ Sender.puts # << >> /\ log' = Append(log, t) /\ seen' = seen
  BY DEF Serialize
<1>2. /\ log \in Seq(Senders) /\ Len(log) \in Nat /\ Len(log) # 0 /\ SenderSound(Sender)
  BY <1>1, SeenIsMessage
<1>3. SenderSound(t)
  BY <1>1, <1>2, AfterIsSound
<1>4. t \in Senders
  BY <1>3 DEF SenderSound
<1>5. \/ t.said = Sender.said
      \/ \E x : t.said = Append(Sender.said, x) /\ (ParsesWord(x) \/ Odd(Sender))
  BY <1>1, <1>2, AfterSays
<1>. HIDE DEF t
<1>6. /\ log' \in Seq(Senders) /\ Len(log') = Len(log) + 1
      /\ \A i \in 1..Len(log) : log'[i] = log[i]
      /\ log'[Len(log) + 1] = t
  BY <1>1, <1>2, <1>4, AppendProperties
<1>7. Sender' = t
  BY <1>6 DEF Sender
<1>8. \A i \in 1..Len(log) : i \in 1..Len(log')
  BY <1>2, <1>6
<1>9. ASSUME OddLogged \/ Odd(Sender)  PROVE OddLogged'
  <2>1. Len(log) \in 1..Len(log)
    BY <1>2
  <2>2. PICK i \in 1..Len(log) : Odd(log[i])
    BY <1>9, <2>1 DEF OddLogged, Sender
  <2>3. i \in 1..Len(log') /\ Odd(log'[i])
    BY <1>6, <1>8, <2>2
  <2>. QED  BY <2>3 DEF OddLogged
<1>10. ASSUME ~OddLogged, ~Odd(Sender)
       PROVE  \A i \in 1..Len(t.said) : ParsesWord(t.said[i])
  <2>1. \A i \in 1..Len(Sender.said) : ParsesWord(Sender.said[i])
    BY <1>1, <1>10 DEF SaidParses
  <2>2. CASE t.said = Sender.said
    BY <2>1, <2>2
  <2>3. CASE t.said # Sender.said
    <3>1. PICK x : t.said = Append(Sender.said, x) /\ ParsesWord(x)
      BY <1>5, <1>10, <2>3
    <3>2. IsList(Sender.said)
      BY <1>2, SeqIsList DEF SenderSound, Senders
    <3>3. /\ Len(t.said) = Len(Sender.said) + 1 /\ t.said[Len(Sender.said) + 1] = x
          /\ \A i \in 1..Len(Sender.said) : t.said[i] = Sender.said[i]
      BY <3>1, <3>2, ListAppend
    <3>4. PICK n \in Nat : n = Len(Sender.said)
      BY <3>2 DEF IsList
    <3>5. ASSUME NEW i \in 1..(n + 1)  PROVE i = n + 1 \/ i \in 1..n
      BY <3>5
    <3>. QED  BY <2>1, <3>1, <3>3, <3>4, <3>5
  <2>. QED  BY <2>2, <2>3
<1>. QED  BY <1>7, <1>9, <1>10 DEF SaidParses

\* What a feedback message or a result is made of.
LEMMA EchoParses ==
  ASSUME IInv, SaidParses, stage = "returned", Readable
  PROVE  \/ \A i \in DOMAIN ss : ParsesWord(ss[i])
         \/ \E i \in DOMAIN log : log[i].puts # << >> /\ CutAt(log[i])
         \/ \E i \in DOMAIN log : PutsMore(log[i]) /\ Infinite(PutNext(log[i]))
<1>1. ss = Sender.said /\ seen # None
  BY InvIsTrue DEF EchoTrueUnlessShifted, IInv, Decoded
<1>2. log \in Seq(Senders) /\ ss \in Seq(Texts)
  BY DEF IInv, EchoTypeOK
<1>3. DOMAIN log = 1..Len(log) /\ DOMAIN ss = 1..Len(ss)
  BY <1>2, LenProperties
<1>4. OddLogged \/ \A i \in 1..Len(ss) : ParsesWord(ss[i])
  BY <1>1 DEF SaidParses
<1>. QED  BY <1>3, <1>4 DEF OddLogged, Odd

-----------------------------------------------------------------------------
(***************************************************************************)
(* The inductive invariant of the forms.                                   *)
(***************************************************************************)
LEMMA FormsAre ==
  /\ \A t \in Forms : t \in DOMAIN Default /\ t.kind = "message"
  /\ \A a \in Responses : a \in Values /\ a.type.kind = "message"
  /\ Legible(Written)
<1>1. { v : v \in Values } = Values /\ { x : x \in Written } = Written
  OBVIOUS
<1>2. AreForms(Values, Written)
  BY <1>1, CodecAssumption, Zenon
<1>. QED  BY <1>2, Zenon DEF AreForms, Legible

\* The texts there are in a form.
FormTexts(P) == Written \cup TextsOf(P)

LEMMA FormTextsAre ==
  ASSUME NEW P, \A g \in P : FieldRead(g, P)
  PROVE  Legible(FormTexts(P))
<1>1. Written \subseteq FormTexts(P) /\ TextsOf(P) \subseteq FormTexts(P)
  BY DEF FormTexts
<1>2. ASSUME NEW x \in Written  PROVE IsText(x, FormTexts(P))
  BY <1>1, FormsAre, TextStays DEF Legible
<1>3. ASSUME NEW x \in TextsOf(P)  PROVE IsText(x, FormTexts(P))
  BY <1>1, ReadTexts, TextStays
<1>. QED  BY <1>2, <1>3 DEF Legible, FormTexts

TemplateSound ==
  template # None =>
    /\ form \in Forms /\ ReadWalk(template, Value(form, Default[form])) /\ FreshWalk(template)

TextSound ==
  text # None =>
    /\ template # None /\ ~Runs(template)
    /\ text \in FormTexts(template.past) \cup {Broken}

RequestSound ==
  request # None =>
    /\ text # None /\ FillWalk(request, form, text, FormTexts(template.past))
    /\ text = template.end /\ Plain(template.past, form) =>
         FromTemplate(request, template.past, form)

ReplySound ==
  /\ answer # None => answer \in Responses
  /\ reply # None => answer # None /\ ReadWalk(reply, answer)

CInv == IInv /\ SaidParses /\ TemplateSound /\ TextSound /\ RequestSound /\ ReplySound

LEMMA CodecInitInv ==
  ASSUME Init
  PROVE  CInv
<1>1. IInv
  BY InitInv DEF Init
<1>2. SaidParses
  BY DEF Init, EchoInit, SaidParses
<1>. QED  BY <1>1, <1>2 DEF Init, CInv, TemplateSound, TextSound, RequestSound, ReplySound

LEMMA EchoStepInv ==
  ASSUME CInv, EchoNext, UNCHANGED formVars
  PROVE  CInv'
<1>1. IInv /\ SaidParses
  BY DEF CInv
<1>2. IInv'
  BY <1>1, NextInv
<1>3. SaidParses'
  <2>1. ASSUME NEW m \in Messages, NEW little \in BOOLEAN, Publish(m, little)
        PROVE  SaidParses'
    BY <1>1, <2>1, PublishSays
  <2>2. CASE Serialize
    BY <1>1, <2>2, SerializeSays
  <2>3. CASE UNCHANGED <<seen, log>>
    BY <1>1, <2>3, SaidStays
  <2>. QED  BY <2>1, <2>2, <2>3 DEF EchoNext, format_serialized_message
<1>4. /\ form' = form /\ template' = template /\ text' = text
      /\ request' = request /\ answer' = answer /\ reply' = reply
  BY DEF formVars
<1>. QED  BY <1>2, <1>3, <1>4 DEF CInv, TemplateSound, TextSound, RequestSound, ReplySound

LEMMA EchoStays ==
  ASSUME CInv, UNCHANGED echoVars
  PROVE  IInv' /\ SaidParses'
BY StutterInv, SaidStays DEF CInv, echoVars

LEMMA OpenFormInv ==
  ASSUME CInv, NEW t \in Forms, get_service_request_json(t)
  PROVE  CInv'
<1>. DEFINE x == Value(t, Default[t])
            s == read_struct_members(x)
<1>1. /\ form' = t /\ text' = None /\ request' = None /\ answer' = None /\ reply' = None
      /\ template' = s /\ IInv' /\ SaidParses'
  BY EchoStays DEF get_service_request_json, NoCall
<1>2. t \in DOMAIN Default /\ t.kind = "message"
  BY FormsAre
<1>3. x \in Values /\ x.type = t /\ x.value = Default[t]
  BY <1>2, DefaultsAre DEF Value
<1>. HIDE DEF x
<1>4. /\ ReadWalk(s, x) /\ s.past = {} /\ Len(s.fields) = 1
      /\ s.fields[1].type = t /\ s.fields[1].value = Default[t]
  BY <1>2, <1>3, ReadBegins
<1>. HIDE DEF s
<1>5. FreshWalk(s)
  BY <1>2, <1>4 DEF FreshWalk, Fresh
<1>6. TemplateSound'
  BY <1>1, <1>4, <1>5 DEF TemplateSound, x
<1>. QED  BY <1>1, <1>6 DEF CInv, TextSound, RequestSound, ReplySound

LEMMA ReadTemplateInv ==
  ASSUME CInv, ReadTemplate
  PROVE  CInv'
<1>. DEFINE s == read_struct_field(template)
            x == Value(form, Default[form])
<1>1. /\ template # None /\ template.fields # << >> /\ template' = s /\ text' \in ParsedAs(s.end)
      /\ form' = form /\ request' = request /\ answer' = answer /\ reply' = reply
      /\ IInv' /\ SaidParses'
  BY EchoStays DEF ReadTemplate, Runs
<1>2. form \in Forms /\ ReadWalk(template, x) /\ FreshWalk(template)
  BY <1>1 DEF CInv, TemplateSound
<1>3. ReadWalk(s, x) /\ FreshWalk(s)
  BY <1>1, <1>2, ReadFieldSound, ReadFieldFresh
<1>. HIDE DEF s
<1>4. TemplateSound'
  BY <1>1, <1>2, <1>3 DEF TemplateSound
<1>5. text = None /\ request = None
  BY <1>1 DEF CInv, TextSound, RequestSound, Runs
<1>6. ASSUME text' # None
      PROVE  s.fields = << >> /\ text' \in FormTexts(s.past) \cup {Broken}
  <2>5. s.end # None
    BY <1>1, <1>6 DEF ParsedAs, None, Garbled
  <2>1. s.fields = << >>
    BY <1>3, <2>5 DEF ReadWalk
  <2>2. PICK g \in s.past : g = Field(x.type, x.value, s.end)
    BY <1>3, <2>1 DEF ReadWalk
  <2>3. g.text = s.end
    BY <2>2 DEF Field
  <2>4. ~Spoilt(s.end) => s.end \in TextsOf(s.past)
    BY <2>3 DEF TextsOf
  <2>6. s.end \in TextsOf(s.past) \cup {Garbled, Broken}
    BY <2>4 DEF Spoilt
  <2>. QED  BY <1>1, <2>1, <2>6 DEF FormTexts, ParsedAs
<1>7. s # None
  BY <1>3, <1>6 DEF ReadWalk, Walk, None
<1>8. TextSound'
  BY <1>1, <1>6, <1>7 DEF TextSound, Runs
<1>9. RequestSound' /\ ReplySound'
  BY <1>1, <1>5 DEF CInv, RequestSound, ReplySound
<1>. QED  BY <1>1, <1>4, <1>8, <1>9 DEF CInv

LEMMA EditInv ==
  ASSUME CInv, NEW x \in Written \cup {Broken}, Edit(x)
  PROVE  CInv'
<1>1. /\ text # None /\ text' = x /\ request' = None /\ answer' = None /\ reply' = None
      /\ form' = form /\ template' = template /\ IInv' /\ SaidParses'
  BY EchoStays DEF Edit, NoCall
<1>2. TemplateSound'
  BY <1>1 DEF CInv, TemplateSound
<1>3. TextSound'
  BY <1>1 DEF CInv, TextSound, FormTexts
<1>. QED  BY <1>1, <1>2, <1>3 DEF CInv, RequestSound, ReplySound

\* What there is when a form is open.
LEMMA FormIs ==
  ASSUME CInv, text # None
  PROVE  /\ form \in Forms /\ form \in DOMAIN Default /\ form.kind = "message"
         /\ TemplateRead(template.past) /\ Legible(FormTexts(template.past))
         /\ text \in FormTexts(template.past) \cup {Broken}
         /\ template.fields = << >>
         /\ Field(form, Default[form], template.end) \in template.past
<1>. DEFINE x == Value(form, Default[form])
<1>1. template # None /\ ~Runs(template) /\ text \in FormTexts(template.past) \cup {Broken}
  BY DEF CInv, TextSound
<1>2. form \in Forms /\ ReadWalk(template, x) /\ FreshWalk(template)
  BY <1>1 DEF CInv, TemplateSound
<1>3. template.fields = << >>
  BY <1>1 DEF Runs
<1>4. x.type = form /\ x.value = Default[form]
  BY DEF Value
<1>. HIDE DEF x
<1>5. /\ \A g \in template.past : FieldRead(g, template.past)
      /\ Field(form, Default[form], template.end) \in template.past
  BY <1>2, <1>3, <1>4 DEF ReadWalk
<1>6. TemplateRead(template.past)
  BY <1>2, <1>5 DEF TemplateRead, FreshWalk
<1>. QED  BY <1>1, <1>2, <1>3, <1>5, <1>6, FormsAre, FormTextsAre

LEMMA SendRequestInv ==
  ASSUME CInv, SendRequest
  PROVE  CInv'
<1>. DEFINE s == fill_struct_members(form, text)
            P == template.past
            W == FormTexts(P)
<1>1. /\ text # None /\ request' = s /\ text' = text /\ answer' = answer /\ reply' = reply
      /\ form' = form /\ template' = template /\ IInv' /\ SaidParses'
  BY EchoStays DEF SendRequest
<1>2. /\ form \in Forms /\ form \in DOMAIN Default /\ form.kind = "message"
      /\ TemplateRead(P) /\ Legible(W) /\ text \in W \cup {Broken}
      /\ Field(form, Default[form], template.end) \in P
  BY <1>1, FormIs
<1>. HIDE DEF W
<1>3. /\ FillWalk(s, form, text, W)
      /\ text.is = "object" => /\ s.fields # << >> /\ Len(s.fields) = 1
                               /\ s.fields[1].type = form /\ s.fields[1].text = text
  BY <1>2, FillBegins
<1>. HIDE DEF s
<1>4. ASSUME text = template.end, Plain(P, form)  PROVE FromTemplate(s, P, form)
  <2>1. PICK g \in P : g = Field(form, Default[form], text)
    BY <1>2, <1>4
  <2>2. g.type = form /\ g.text = text
    BY <2>1 DEF Field
  <2>3. FieldRead(g, P) /\ IsStruct(g.type)
    BY <1>2, <2>2 DEF TemplateRead, IsStruct
  <2>4. ~Spoilt(g.text)
    BY <1>4, <2>3 DEF Plain, FieldRead, Excused, Spoilt
  <2>5. text.is = "object"
    BY <1>2, <2>2, <2>3, <2>4, ContainerRead
  <2>6. /\ s.fields # << >> /\ Len(s.fields) = 1
        /\ s.fields[1].type = g.type /\ s.fields[1].text = g.text
    BY <1>3, <2>2, <2>5
  <2>7. \A i \in 1..Len(s.fields) : g.type = s.fields[i].type /\ g.text = s.fields[i].text
    BY <2>6
  <2>8. Len(s.fields) <= 1
    BY <2>6
  <2>. HIDE DEF P
  <2>. QED  BY <2>6, <2>7, <2>8 DEF FromTemplate
<1>5. RequestSound'
  BY <1>1, <1>3, <1>4 DEF RequestSound, W
<1>6. TemplateSound' /\ TextSound' /\ ReplySound'
  BY <1>1 DEF CInv, TemplateSound, TextSound, ReplySound
<1>. QED  BY <1>1, <1>5, <1>6 DEF CInv

LEMMA FillRequestInv ==
  ASSUME CInv, FillRequest
  PROVE  CInv'
<1>. DEFINE s == fill_struct_field(request)
            P == template.past
            W == FormTexts(P)
<1>1. /\ request # None /\ request.fields # << >> /\ request' = s /\ text' = text
      /\ answer' = answer /\ reply' = reply
      /\ form' = form /\ template' = template /\ IInv' /\ SaidParses'
  BY EchoStays DEF FillRequest, Runs
<1>2. /\ text # None /\ FillWalk(request, form, text, W)
      /\ text = template.end /\ Plain(P, form) => FromTemplate(request, P, form)
  BY <1>1 DEF CInv, RequestSound
<1>3. TemplateRead(P) /\ Legible(W)
  BY <1>2, FormIs
<1>. HIDE DEF W
<1>4. FillWalk(s, form, text, W)
  BY <1>1, <1>2, <1>3, FillFieldSound
<1>5. text = template.end /\ Plain(P, form) => FromTemplate(s, P, form)
  BY <1>1, <1>2, <1>3, FillFieldFits
<1>. HIDE DEF s
<1>6. RequestSound'
  BY <1>1, <1>2, <1>4, <1>5 DEF RequestSound, W
<1>7. TemplateSound' /\ TextSound' /\ ReplySound'
  BY <1>1 DEF CInv, TemplateSound, TextSound, ReplySound
<1>. QED  BY <1>1, <1>6, <1>7 DEF CInv

\* A step of a call behind the request.
LEMMA ReplyStepInv ==
  ASSUME CInv, UNCHANGED <<echoVars, form, template, text, request>>, ReplySound'
  PROVE  CInv'
<1>1. IInv' /\ SaidParses'
  BY EchoStays
<1>. QED  BY <1>1 DEF CInv, TemplateSound, TextSound, RequestSound

LEMMA CodecNextInv ==
  ASSUME CInv, [Next]_vars
  PROVE  CInv'
<1>1. ASSUME NEW a \in Responses, ServerAnswers(a)  PROVE CInv'
  <2>1. ReplySound'
    BY <1>1 DEF ServerAnswers, CInv, ReplySound
  <2>. QED  BY <1>1, <2>1, ReplyStepInv DEF ServerAnswers
<1>2. CASE TakeResponse
  <2>1. /\ answer # None /\ reply' = read_struct_members(answer) /\ answer' = answer
        /\ answer \in Responses
    BY <1>2 DEF TakeResponse, CInv, ReplySound
  <2>2. ReadWalk(read_struct_members(answer), answer)
    BY <2>1, FormsAre, ReadBegins
  <2>3. ReplySound'
    BY <2>1, <2>2 DEF ReplySound
  <2>. QED  BY <1>2, <2>3, ReplyStepInv DEF TakeResponse
<1>3. CASE ReadReply
  <2>1. /\ reply # None /\ reply.fields # << >> /\ reply' = read_struct_field(reply)
        /\ answer' = answer /\ answer # None /\ answer \in Responses /\ ReadWalk(reply, answer)
    BY <1>3 DEF ReadReply, Runs, CInv, ReplySound
  <2>2. ReadWalk(read_struct_field(reply), answer)
    BY <2>1, ReadFieldSound
  <2>3. ReplySound'
    BY <2>1, <2>2 DEF ReplySound
  <2>. QED  BY <1>3, <2>3, ReplyStepInv DEF ReadReply
<1>4. CASE UNCHANGED vars
  <2>1. ReplySound'
    BY <1>4 DEF vars, formVars, CInv, ReplySound
  <2>. QED  BY <1>4, <2>1, ReplyStepInv DEF vars, formVars
<1>. QED
  BY <1>1, <1>2, <1>3, <1>4, EchoStepInv, OpenFormInv, ReadTemplateInv, EditInv, SendRequestInv,
     FillRequestInv DEF Next

-----------------------------------------------------------------------------
(***************************************************************************)
(* What the invariant says when a walk has ended.                          *)
(***************************************************************************)
LEMMA InvParses ==
  ASSUME CInv
  PROVE  TextsParse
<1>1. ASSUME reply # None, ~Runs(reply)
      PROVE  \/ reply.end = Garbled /\ \E f \in reply.past : Garbles(f)
             \/ reply.end = Broken /\ \E f \in reply.past : Breaks(f)
             \/ /\ Field(answer.type, answer.value, reply.end) \in reply.past
                /\ \A f \in reply.past : ~Spoilt(f.text) /\ Tells(f, reply.past)
  <2>1. ReadWalk(reply, answer) /\ reply.fields = << >>
    BY <1>1 DEF CInv, ReplySound, Runs
  <2>2. PICK g \in reply.past : g = Field(answer.type, answer.value, reply.end)
    BY <2>1 DEF ReadWalk
  <2>3. g.text = reply.end
    BY <2>2 DEF Field
  <2>4. \A f \in reply.past : FieldRead(f, reply.past)
    BY <2>1 DEF ReadWalk
  <2>5. CASE Spoilt(reply.end)
    BY <2>2, <2>3, <2>4, <2>5 DEF FieldRead, Excused, Spoilt
  <2>6. CASE ~Spoilt(reply.end)
    <3>1. \A f \in reply.past : ~Spoilt(f.text)
      BY <2>1, <2>6 DEF ReadWalk, GarbageShows
    <3>2. \A f \in reply.past : Tells(f, reply.past)
      BY <2>4, <3>1, ReadTells
    <3>. QED  BY <2>2, <3>1, <3>2
  <2>. QED  BY <2>5, <2>6
<1>2. IInv /\ SaidParses
  BY DEF CInv
<1>3. ASSUME stage = "returned", Readable
      PROVE  \/ \A i \in DOMAIN ss : ParsesWord(ss[i])
             \/ \E i \in DOMAIN log : log[i].puts # << >> /\ CutAt(log[i])
             \/ \E i \in DOMAIN log : PutsMore(log[i]) /\ Infinite(PutNext(log[i]))
  BY <1>2, <1>3, EchoParses
<1>. QED  BY <1>1, <1>3 DEF TextsParse

LEMMA InvAccepts ==
  ASSUME CInv
  PROVE  TemplatesAccepted
<1>. SUFFICES ASSUME request # None, ~Runs(request), text = template.end, Plain(template.past, form)
              PROVE  Sent
  BY DEF TemplatesAccepted, Plain
<1>1. FromTemplate(request, template.past, form)
  BY DEF CInv, RequestSound
<1>2. request.fields = << >>
  BY DEF Runs
<1>. QED  BY <1>1, <1>2 DEF FromTemplate, Sent

LEMMA InvCarries ==
  ASSUME CInv
  PROVE  RequestsCarryText
<1>. SUFFICES ASSUME Sent
              PROVE  /\ Field(form, request.end.value, text) \in request.past
                     /\ \A f \in request.past : Carries(f, request.past)
  BY DEF RequestsCarryText
<1>1. request # None /\ request.fields = << >> /\ request.end.how = "filled"
  BY DEF Sent, Runs
<1>2. FillWalk(request, form, text, FormTexts(template.past))
  BY <1>1 DEF CInv, RequestSound
<1>3. request.end \notin {Refused, Undefined}
  BY <1>1 DEF Refused, Undefined
<1>. QED  BY <1>1, <1>2, <1>3 DEF FillWalk, FillEnds

(* A text that is parsed again parses, whatever its message is, unless it  *)
(* holds an array that was cut, a number that no JSON has, or, of a        *)
(* result, a string that needs escapes, for it gets none.  Of a result     *)
(* without a quote or a backslash in a string, what parses says what the   *)
(* response did, field by field, its floats to six digits                  *)
(* (ros_manager.cpp:732, 816, 822, 1034, 1107).                            *)
THEOREM TextsAlwaysParse == Spec => []TextsParse
<1>1. Init => CInv
  BY CodecInitInv
<1>2. CInv /\ [Next]_vars => CInv'
  BY CodecNextInv
<1>3. CInv => TextsParse
  BY InvParses
<1>. QED  BY <1>1, <1>2, <1>3, PTL DEF Spec

(* The text that a form begins with makes a request, whatever its type and *)
(* its defaults are, unless the text cannot carry a part of them           *)
(* (ros_manager.cpp:339, 1252).                                            *)
THEOREM TemplatesAlwaysAccepted == Spec => []TemplatesAccepted
<1>1. Init => CInv
  BY CodecInitInv
<1>2. CInv /\ [Next]_vars => CInv'
  BY CodecNextInv
<1>3. CInv => TemplatesAccepted
  BY InvAccepts
<1>. QED  BY <1>1, <1>2, <1>3, PTL DEF Spec

(* A request that goes out says what was written for each field of it, and *)
(* obeys the bounds of its type (ros_manager.cpp:587).                     *)
THEOREM RequestsAlwaysCarryText == Spec => []RequestsCarryText
<1>1. Init => CInv
  BY CodecInitInv
<1>2. CInv /\ [Next]_vars => CInv'
  BY CodecNextInv
<1>3. CInv => RequestsCarryText
  BY InvCarries
<1>. QED  BY <1>1, <1>2, <1>3, PTL DEF Spec

(* What becomes of a message does not depend on the forms: what is proved  *)
(* of Echo holds here (ros_manager.cpp:505).                               *)
THEOREM CodecEchoes == Spec => EchoSpec
<1>1. Init => EchoInit
  BY DEF Init
<1>2. [Next]_vars => [EchoNext]_echoVars
  BY DEF Next, vars, get_service_request_json, ReadTemplate, Edit, SendRequest, FillRequest,
         ServerAnswers, TakeResponse, ReadReply
<1>. QED  BY <1>1, <1>2, PTL DEF Spec, EchoSpec
=============================================================================
