----------------------------- MODULE EchoProofs -----------------------------
(***************************************************************************)
(* What is proved of Echo: the decoder stays within the buffer, whatever   *)
(* it is given, and shows what was published.                              *)
(***************************************************************************)
EXTENDS Echo, TLAPS, SequenceTheorems

Sizes == {1, 2, 4, 8}
Containers == {"array", "message"}

(***************************************************************************)
(* Alignment.                                                              *)
(***************************************************************************)
\* The next multiple is the smallest one that is not below n.
LEMMA UpIsNext ==
  ASSUME NEW n \in Nat, NEW a \in Sizes
  PROVE  /\ Up(n, a) \in Nat
         /\ n <= Up(n, a) /\ Up(n, a) < n + a
         /\ (Up(n, a) - 4) % a = 0
BY DEF Up, Sizes

\* Aligned to 4 already, 8 is where it was to be.
LEMMA UpTwice ==
  ASSUME NEW n \in Nat, NEW a \in {4, 8}
  PROVE  Up(Up(n, 4), a) = Up(n, a) /\ Up(n, 4) <= Up(n, a)
BY DEF Up

LEMMA UpSame ==
  ASSUME NEW n \in Nat, n % 4 = 0
  PROVE  Up(n, 4) = n
BY DEF Up
-----------------------------------------------------------------------------
(***************************************************************************)
(* Bytes on the wire.                                                      *)
(***************************************************************************)
LEMMA OrderedIsBytes ==
  ASSUME NEW b \in Seq(Byte), NEW little \in BOOLEAN
  PROVE  /\ Ordered(b, little) \in Seq(Byte)
         /\ Len(Ordered(b, little)) = Len(b)
         /\ \A i \in 1..Len(b) : Ordered(b, little)[i] = IF little THEN b[i] ELSE b[Len(b) + 1 - i]
<1>1. Len(b) \in Nat /\ \A i \in 1..Len(b) : b[i] \in Byte
  BY ElementOfSeq, LenProperties
<1>2. \A i \in 1..Len(b) : (IF little THEN b[i] ELSE b[Len(b) + 1 - i]) \in Byte
  BY <1>1
<1>3. Ordered(b, little) \in [1..Len(b) -> Byte]
  BY <1>2 DEF Ordered
<1>4. Ordered(b, little) \in Seq(Byte)
  BY <1>1, <1>3, SeqDef
<1>. QED  BY <1>1, <1>3, <1>4, LenProperties DEF Ordered

LEMMA HighIsByte ==
  ASSUME NEW low \in Int, NEW high \in Int, 0 <= low, low <= 255,
         0 <= low + 256 * high, low + 256 * high <= 65535
  PROVE  0 <= high /\ high <= 255
OBVIOUS

LEMMA TwoBytes ==
  ASSUME NEW n \in Nat, n <= 65535
  PROVE  Low(n) \in Byte /\ High(n) \in Byte /\ Low(n) + 256 * High(n) = n
<1>1. /\ n % 256 \in 0..255 /\ n \div 256 \in Int /\ n % 256 \in Int
      /\ (n % 256) + 256 * (n \div 256) = n
  OBVIOUS
<1>2. 0 <= n % 256 /\ n % 256 <= 255 /\ 0 <= n /\ n <= 65535
  OBVIOUS
<1>3. 0 <= n \div 256 /\ n \div 256 <= 255
  BY <1>1, <1>2, HighIsByte
<1>. QED  BY <1>1, <1>3 DEF Low, High, Byte

LEMMA FourBytes ==
  ASSUME NEW low \in Byte, NEW high \in Byte, NEW little \in BOOLEAN
  PROVE  LET b == Ordered(<<low, high, 0, 0>>, little)
         IN /\ b \in Seq(Byte) /\ Len(b) = 4
            /\ IF little THEN b[1] = low /\ b[2] = high /\ b[3] = 0 /\ b[4] = 0
               ELSE b[4] = low /\ b[3] = high /\ b[2] = 0 /\ b[1] = 0
<1>. DEFINE f == <<low, high, 0, 0>>
            b == Ordered(f, little)
<1>1. f \in Seq(Byte) /\ Len(f) = 4
  BY DEF Byte
<1>2. b = [i \in 1..4 |-> IF little THEN f[i] ELSE f[5 - i]]
  BY DEF Ordered
<1>3. b \in Seq(Byte) /\ Len(b) = 4
  BY <1>1, OrderedIsBytes
<1>4. CASE little
  <2>1. b = [i \in 1..4 |-> f[i]]
    BY <1>2, <1>4
  <2>2. b[1] = low /\ b[2] = high /\ b[3] = 0 /\ b[4] = 0
    BY <2>1
  <2>. QED  BY <1>3, <1>4, <2>2
<1>5. CASE ~little
  BY <1>2, <1>3, <1>5
<1>. QED  BY <1>4, <1>5

\* What CountAt makes of the bytes of a count.
LEMMA CountIsBytes ==
  ASSUME NEW n \in Nat, n <= 65535, NEW little \in BOOLEAN
  PROVE  LET b == CountBytes(n, little)
         IN /\ b \in Seq(Byte) /\ Len(b) = 4
            /\ IF little THEN b[3] = 0 /\ b[4] = 0 /\ b[1] + 256 * b[2] = n
               ELSE b[2] = 0 /\ b[1] = 0 /\ b[4] + 256 * b[3] = n
<1>. DEFINE b == Ordered(<<Low(n), High(n), 0, 0>>, little)
<1>1. b = CountBytes(n, little)
  BY DEF CountBytes
<1>2. Low(n) \in Byte /\ High(n) \in Byte /\ Low(n) + 256 * High(n) = n
  BY TwoBytes
<1>3. /\ b \in Seq(Byte) /\ Len(b) = 4
      /\ IF little THEN b[1] = Low(n) /\ b[2] = High(n) /\ b[3] = 0 /\ b[4] = 0
         ELSE b[4] = Low(n) /\ b[3] = High(n) /\ b[2] = 0 /\ b[1] = 0
  BY <1>2, FourBytes
<1>. HIDE DEF b
<1>. QED  BY <1>1, <1>2, <1>3

LEMMA BehindIsWire ==
  ASSUME NEW w \in Seq(Byte), NEW b \in Seq(Byte), NEW a \in Sizes
  PROVE  /\ Behind(w, a, b) \in Seq(Byte)
         /\ Len(Behind(w, a, b)) = Up(Len(w), a) + Len(b)
         /\ \A i \in 1..Len(w) : Behind(w, a, b)[i] = w[i]
         /\ \A i \in 1..Len(b) : Behind(w, a, b)[Up(Len(w), a) + i] = b[i]
<1>1. /\ Len(w) \in Nat /\ Len(b) \in Nat
      /\ \A i \in 1..Len(w) : w[i] \in Byte
      /\ \A i \in 1..Len(b) : b[i] \in Byte
  BY ElementOfSeq, LenProperties
<1>2. PICK at \in Nat : at = Up(Len(w), a) /\ Len(w) <= at
  BY <1>1, UpIsNext
<1>3. PICK n \in Nat : n = at + Len(b)
  BY <1>1
<1>. DEFINE Put(i) == IF i <= Len(w) THEN w[i] ELSE IF i <= at THEN 0 ELSE b[i - at]
<1>4. Behind(w, a, b) = [i \in 1..n |-> Put(i)]
  BY <1>2, <1>3 DEF Behind
<1>5. ASSUME NEW i \in 1..n  PROVE Put(i) \in Byte
  <2>1. CASE i <= Len(w)
    BY <1>1, <2>1
  <2>2. CASE ~(i <= Len(w)) /\ i <= at
    BY <2>2 DEF Byte
  <2>3. CASE ~(i <= Len(w)) /\ ~(i <= at)
    <3>1. i - at \in 1..Len(b)
      BY <1>1, <1>3, <2>3
    <3>. QED  BY <1>1, <2>3, <3>1
  <2>. QED  BY <2>1, <2>2, <2>3
<1>6. /\ \A i \in 1..Len(w) : Put(i) = w[i] /\ i \in 1..n
      /\ \A i \in 1..Len(b) : Put(at + i) = b[i] /\ at + i \in 1..n
  BY <1>1, <1>2, <1>3
<1>. HIDE DEF Put
<1>7. Behind(w, a, b) \in [1..n -> Byte]
  BY <1>4, <1>5
<1>8. Behind(w, a, b) \in Seq(Byte) /\ Len(Behind(w, a, b)) = n
  BY <1>7, SeqDef, LenProperties
<1>. QED  BY <1>2, <1>3, <1>4, <1>6, <1>8

-----------------------------------------------------------------------------
(***************************************************************************)
(* Types and values.                                                       *)
(***************************************************************************)
LEMMA TypesAreTrees ==
  ASSUME NEW t \in Types
  PROVE  /\ t.kind \in ScalarKinds \cup {"string", "wide", "array", "message"}
         /\ IsScalar(t) => t.size \in Sizes
         /\ IsArray(t) => t.of \in Types /\ t.size \in Nat /\ t.bounded \in BOOLEAN
         /\ t.kind = "message" => t.members \in Seq(Types) /\ Len(t.members) \in Nat
<1>1. IsType(t)
  BY IntrospectionAssumption
<1>2. \A u \in ScalarTypes : u.kind \in ScalarKinds /\ u.size \in Sizes
  BY DEF ScalarTypes, Scalar, ScalarKinds, Sizes
<1>3. CASE t \in ScalarTypes
  BY <1>2, <1>3 DEF IsScalar, IsArray, ScalarKinds
<1>4. CASE ~(t \in ScalarTypes)
  BY <1>1, <1>4 DEF IsType, IsScalar, IsArray, ScalarKinds
<1>. QED  BY <1>3, <1>4

LEMMA ValuesAreTrees ==
  ASSUME NEW x \in Values
  PROVE  /\ x = Value(x.type, x.value) /\ x.type \in Types
         /\ IsValue(x.type, x.value, Values)
<1>1. { v : v \in Values } = Values /\ { t : t \in Types } = Types
  OBVIOUS
<1>2. AreValues(Values, Types)
  BY <1>1, WireAssumption, Zenon
<1>. QED  BY <1>2, Zenon DEF AreValues

LEMMA CountsAreShort == MaxCount \in Nat /\ MaxCount <= 65535
BY CountAssumption

LEMMA ScalarsAreBytes ==
  ASSUME NEW x \in Values, IsScalar(x.type)
  PROVE  /\ x.type.size \in Sizes
         /\ x.value \in Seq(Byte) /\ Len(x.value) = x.type.size
         /\ x.type.kind = "bool" => x.value \in {<<0>>, <<1>>}
<1>1. IsValue(x.type, x.value, Values) /\ x.type.size \in Sizes
  BY ValuesAreTrees, TypesAreTrees
<1>2. x.value \in [1..x.type.size -> Byte] /\ (x.type.kind = "bool" => x.value \in {<<0>>, <<1>>})
  BY <1>1 DEF IsValue, IsScalar, ScalarKinds, IsArray
<1>3. x.type.size \in Nat
  BY <1>1 DEF Sizes
<1>. QED  BY <1>1, <1>2, <1>3, SeqDef, LenProperties

LEMMA StringsAreBytes ==
  ASSUME NEW x \in Values, x.type.kind \in {"string", "wide"}
  PROVE  x.value \in Seq(Byte) /\ Len(x.value) \in Nat /\ Len(x.value) + 1 <= 65535
<1>1. IsValue(x.type, x.value, Values)
  BY ValuesAreTrees
<1>2. x.value \in Seq(Byte) /\ Len(x.value) < MaxCount
  BY <1>1 DEF IsValue, IsScalar, ScalarKinds, IsArray
<1>3. Len(x.value) \in Nat
  BY <1>2, LenProperties
<1>. QED  BY <1>2, <1>3, CountsAreShort

LEMMA PartsAreValues ==
  ASSUME NEW x \in Values, x.type.kind \in Containers
  PROVE  /\ Len(x.value) \in Nat
         /\ IsArray(x.type) =>
              Len(x.value) <= 65535 /\ (HasCount(x.type) \/ Len(x.value) = x.type.size)
         /\ x.type.kind = "message" => Len(x.value) = Len(x.type.members)
         /\ \A n \in Nat : n < Len(x.value) =>
              Value(PartType(Frame(x, n)), x.value[n + 1]) \in Values
<1>1. IsValue(x.type, x.value, Values) /\ x.type \in Types
  BY ValuesAreTrees
<1>2. CASE IsArray(x.type)
  <2>1. /\ Len(x.value) \in 0..MaxCount
        /\ HasCount(x.type) \/ Len(x.value) = x.type.size
        /\ \A i \in 1..Len(x.value) : Value(x.type.of, x.value[i]) \in Values
    BY <1>1, <1>2 DEF IsValue, IsScalar, ScalarKinds, IsArray
  <2>2. Len(x.value) \in Nat /\ Len(x.value) <= 65535
    BY <2>1, CountsAreShort
  <2>. QED  BY <1>2, <2>1, <2>2 DEF PartType, Frame, IsArray
<1>3. CASE x.type.kind = "message"
  <2>1. /\ Len(x.value) = Len(x.type.members) /\ Len(x.type.members) \in Nat
        /\ \A i \in 1..Len(x.value) : Value(x.type.members[i], x.value[i]) \in Values
    BY <1>1, <1>3, TypesAreTrees DEF IsValue, IsScalar, ScalarKinds, IsArray
  <2>. QED  BY <1>3, <2>1 DEF PartType, Frame, IsArray
<1>. QED  BY <1>2, <1>3 DEF Containers, IsArray

-----------------------------------------------------------------------------
(***************************************************************************)
(* Walks.                                                                  *)
(***************************************************************************)
LEMMA DoneIsWalk ==
  ASSUME NEW S, NEW w \in Seq(S), Len(w) # 0, NEW n, [w[1] EXCEPT !.done = n] \in S
  PROVE  /\ Done(w, n) \in Seq(S) /\ Len(Done(w, n)) = Len(w)
         /\ Done(w, n)[1] = [w[1] EXCEPT !.done = n]
         /\ \A i \in 2..Len(w) : Done(w, n)[i] = w[i]
<1>1. Len(w) \in Nat /\ 1 \in 1..Len(w)
  BY LenProperties
<1>2. Done(w, n) = [w EXCEPT ![1] = [w[1] EXCEPT !.done = n]]
  BY DEF Done
<1>. QED  BY <1>1, <1>2, ExceptSeq

LEMMA PushIsWalk ==
  ASSUME NEW S, NEW w \in Seq(S), NEW c \in S
  PROVE  /\ <<c>> \o w \in Seq(S) /\ Len(<<c>> \o w) = Len(w) + 1
         /\ (<<c>> \o w)[1] = c
         /\ \A i \in 2..(Len(w) + 1) : (<<c>> \o w)[i] = w[i - 1]
<1>1. <<c>> \in Seq(S) /\ Len(<<c>>) = 1 /\ <<c>>[1] = c
  OBVIOUS
<1>. QED  BY <1>1, ConcatProperties, LenProperties

LEMMA TailIsWalk ==
  ASSUME NEW S, NEW w \in Seq(S), Len(w) # 0
  PROVE  /\ Tail(w) \in Seq(S) /\ Len(Tail(w)) = Len(w) - 1
         /\ \A i \in 1..(Len(w) - 1) : Tail(w)[i] = w[i + 1]
BY HeadTailProperties, LenProperties
LEMMA OneOrMore ==
  ASSUME NEW n \in Nat, n # 0
  PROVE  n = 1 \/ n > 1
OBVIOUS

LEMMA LeftIsWalk ==
  ASSUME NEW S, NEW w \in Seq(S), Len(w) # 0,
         Len(w) > 1 => [w[2] EXCEPT !.done = w[2].done + 1] \in S
  PROVE  /\ Left(w) \in Seq(S) /\ Len(Left(w)) = Len(w) - 1
         /\ Len(w) > 1 => Left(w)[1] = [w[2] EXCEPT !.done = w[2].done + 1]
         /\ \A i \in 2..(Len(w) - 1) : Left(w)[i] = w[i + 1]
<1>1. Len(w) \in Nat
  BY LenProperties
<1>2. CASE Len(w) = 1
  BY <1>2 DEF Left
<1>3. CASE Len(w) > 1
  <2>. DEFINE v == Tail(w)
  <2>1. /\ v \in Seq(S) /\ Len(v) = Len(w) - 1
        /\ \A i \in 1..(Len(w) - 1) : v[i] = w[i + 1]
    BY TailIsWalk
  <2>2. v[1] = w[2] /\ Len(v) # 0
    BY <1>1, <1>3, <2>1
  <2>3. Left(w) = Done(v, v[1].done + 1)
    BY <1>3 DEF Left, OneDone
  <2>. HIDE DEF v
  <2>4. [v[1] EXCEPT !.done = v[1].done + 1] \in S
    BY <1>3, <2>2
  <2>5. /\ Left(w) \in Seq(S) /\ Len(Left(w)) = Len(v)
        /\ Left(w)[1] = [v[1] EXCEPT !.done = v[1].done + 1]
        /\ \A i \in 2..Len(v) : Left(w)[i] = v[i]
    BY <2>1, <2>2, <2>3, <2>4, DoneIsWalk
  <2>. QED  BY <1>1, <1>3, <2>1, <2>2, <2>5
<1>4. Len(w) = 1 \/ Len(w) > 1
  BY <1>1, OneOrMore
<1>. QED  BY <1>2, <1>3, <1>4

LEMMA SaysIsStream ==
  ASSUME NEW stream \in Seq(Texts), NEW walk, NEW x \in Texts
  PROVE  Says(stream, walk, x) \in Seq(Texts)
BY AppendProperties DEF Says

LEMMA FourThenMore ==
  ASSUME NEW c \in Seq(Byte), Len(c) = 4, NEW z \in Seq(Byte)
  PROVE  /\ c \o z \in Seq(Byte) /\ Len(c \o z) = 4 + Len(z)
         /\ \A i \in 1..4 : (c \o z)[i] = c[i]
         /\ \A i \in 1..Len(z) : (c \o z)[4 + i] = z[i]
<1>1. Len(z) \in Nat
  BY LenProperties
<1>2. /\ c \o z \in Seq(Byte) /\ Len(c \o z) = Len(c) + Len(z)
      /\ \A i \in 1..Len(c) + Len(z) : (c \o z)[i] = IF i <= Len(c) THEN c[i] ELSE z[i - Len(c)]
  BY ConcatProperties
<1>. QED  BY <1>1, <1>2

LEMMA StringBytesAreBytes ==
  ASSUME NEW s \in Seq(Byte), Len(s) + 1 <= 65535, NEW little \in BOOLEAN
  PROVE  LET b == StringBytes(s, little)
         IN /\ b \in Seq(Byte) /\ Len(b) = Len(s) + 5
            /\ \A i \in 1..4 : b[i] = CountBytes(Len(s) + 1, little)[i]
            /\ \A i \in 1..Len(s) : b[4 + i] = s[i]
            /\ b[Len(s) + 5] = 0
<1>1. Len(s) \in Nat /\ Len(s) + 1 \in Nat
  BY LenProperties
<1>. DEFINE c == CountBytes(Len(s) + 1, little)
            z == Append(s, 0)
<1>2. c \in Seq(Byte) /\ Len(c) = 4
  BY <1>1, CountIsBytes
<1>3. 0 \in Byte
  BY DEF Byte
<1>4. /\ z \in Seq(Byte) /\ Len(z) = Len(s) + 1
      /\ \A i \in 1..Len(s) : z[i] = s[i]
      /\ z[Len(s) + 1] = 0
  BY <1>3, AppendProperties
<1>. HIDE DEF c, z
<1>. DEFINE b == c \o z
<1>5. /\ b \in Seq(Byte) /\ Len(b) = 4 + Len(z)
      /\ \A i \in 1..4 : b[i] = c[i]
      /\ \A i \in 1..Len(z) : b[4 + i] = z[i]
  BY <1>2, <1>4, FourThenMore, SMTT(30)
<1>6. StringBytes(s, little) = b
  BY DEF StringBytes, c, z
<1>. HIDE DEF b
<1>7. Len(b) = Len(s) + 5
  BY <1>1, <1>4, <1>5
<1>8. \A i \in 1..Len(s) : b[4 + i] = s[i]
  BY <1>1, <1>4, <1>5
<1>9. b[Len(s) + 5] = 0
  <2>1. Len(s) + 1 \in 1..Len(z) /\ 4 + (Len(s) + 1) = Len(s) + 5
    BY <1>1, <1>4
  <2>. QED  BY <1>4, <1>5, <2>1
<1>10. \A i \in 1..4 : b[i] = CountBytes(Len(s) + 1, little)[i]
  BY <1>5 DEF c
<1>. QED  BY <1>5, <1>6, <1>7, <1>8, <1>9, <1>10

LEMMA WideBytesAreBytes ==
  ASSUME NEW s \in Seq(Byte), Len(s) + 1 <= 65535, NEW little \in BOOLEAN
  PROVE  WideBytes(s, little) \in Seq(Byte)
<1>1. Len(s) \in Nat /\ \A i \in 1..Len(s) : s[i] \in Byte
  BY LenProperties, ElementOfSeq
<1>. DEFINE Char(i) == Ordered(<<s[(i + 3) \div 4], 0, 0, 0>>, little)[1 + ((i - 1) % 4)]
            n == 4 * Len(s)
<1>2. ASSUME NEW c \in Byte, NEW j \in 1..4
      PROVE  Ordered(<<c, 0, 0, 0>>, little)[j] \in Byte
  <2>1. 0 \in Byte
    BY DEF Byte
  <2>2. LET b == Ordered(<<c, 0, 0, 0>>, little) IN b \in Seq(Byte) /\ Len(b) = 4
    BY <2>1, FourBytes
  <2>. QED  BY <2>2, ElementOfSeq
<1>3. ASSUME NEW i \in 1..n  PROVE Char(i) \in Byte
  <2>1. (i + 3) \div 4 \in 1..Len(s) /\ 1 + ((i - 1) % 4) \in 1..4
    BY <1>1
  <2>. QED  BY <1>1, <1>2, <2>1
<1>. HIDE DEF Char
<1>4. n \in Nat
  BY <1>1
<1>5. [i \in 1..n |-> Char(i)] \in [1..n -> Byte]
  BY <1>3
<1>6. [i \in 1..n |-> Char(i)] \in Seq(Byte)
  BY <1>4, <1>5, SeqDef
<1>7. CountBytes(Len(s), little) \in Seq(Byte)
  BY <1>1, CountIsBytes
<1>. DEFINE c == CountBytes(Len(s), little)
            d == [i \in 1..n |-> Char(i)]
<1>8. c \in Seq(Byte) /\ d \in Seq(Byte)
  BY <1>6, <1>7
<1>. HIDE DEF c, d
<1>9. c \o d \in Seq(Byte)
  BY <1>8, ConcatProperties
<1>. QED  BY <1>9 DEF WideBytes, Char, c, d

LEMMA RoundedIsBytes ==
  ASSUME NEW b \in Seq(Byte)
  PROVE  Rounded(b) \in Seq(Byte) /\ Len(Rounded(b)) = Len(b)
<1>1. Len(b) \in Nat
  BY LenProperties
<1>2. \A c \in DOMAIN SixDigits : SixDigits[c] \in [1..Len(c) -> Byte]
  BY DigitsAssumption, Zenon
<1>3. \A c \in [1..Len(b) -> Byte] : c \in Seq(Byte) /\ Len(c) = Len(b)
  BY <1>1, SeqDef, LenProperties
<1>. QED  BY <1>2, <1>3 DEF Rounded

LEMMA ScalarTextIsText ==
  ASSUME NEW t, NEW b \in Seq(Byte)
  PROVE  ScalarText(t, b) \in Texts
<1>1. Rounded(b) \in Seq(Byte)
  BY RoundedIsBytes
<1>. QED  BY <1>1 DEF ScalarText, Truth, Number, Decimal, Texts

LEMMA OtherTexts ==
  /\ Null \in Texts /\ Opened \in Texts
  /\ \A cut \in BOOLEAN : Closed(cut) \in Texts
BY DEF Null, Opened, Closed, Texts

-----------------------------------------------------------------------------
(***************************************************************************)
(* Where the serializer is.                                                *)
(***************************************************************************)
LEMMA FramesOfValues ==
  ASSUME NEW x \in Values, NEW n \in 0..Len(x.value)
  PROVE  Frame(x, n) \in Frames
BY DEF Frames

LEMMA FramesAreValues ==
  ASSUME NEW f \in Frames
  PROVE  /\ f = Frame(Value(f.type, f.value), f.done)
         /\ Value(f.type, f.value) \in Values
         /\ f.done \in 0..Len(f.value)
<1>0. PICK x \in Values : \E n \in 0..Len(x.value) : f = Frame(x, n)
  BY DEF Frames
<1>1. PICK n \in 0..Len(x.value) : f = Frame(x, n)
  BY <1>0
<1>2. f.type = x.type /\ f.value = x.value /\ f.done = n
  BY <1>1 DEF Frame
<1>3. x = Value(x.type, x.value)
  BY ValuesAreTrees
<1>. QED  BY <1>1, <1>2, <1>3

LEMMA PartsOfFrames ==
  ASSUME NEW f \in Frames, f.type.kind \in Containers
  PROVE  /\ f.type \in Types /\ Len(f.value) \in Nat /\ f.done \in Nat /\ f.done <= Len(f.value)
         /\ \A n \in 0..Len(f.value) : [f EXCEPT !.done = n] \in Frames
         /\ f.done < Len(f.value) => Value(PartType(f), f.value[f.done + 1]) \in Values
<1>. DEFINE x == Value(f.type, f.value)
<1>1. f = Frame(x, f.done) /\ x \in Values /\ f.done \in 0..Len(f.value)
  BY FramesAreValues
<1>2. x.type = f.type /\ x.value = f.value
  BY DEF Value
<1>. HIDE DEF x
<1>3. /\ Len(x.value) \in Nat /\ x.type \in Types
      /\ \A n \in Nat : n < Len(x.value) =>
           Value(PartType(Frame(x, n)), x.value[n + 1]) \in Values
  BY <1>1, <1>2, PartsAreValues, ValuesAreTrees
<1>4. f.done \in Nat /\ f.done <= Len(f.value)
  BY <1>1, <1>2, <1>3
<1>5. ASSUME NEW n \in 0..Len(f.value)  PROVE [f EXCEPT !.done = n] \in Frames
  <2>1. Frame(x, n) \in Frames
    BY <1>1, <1>2, FramesOfValues
  <2>2. [f EXCEPT !.done = n] = Frame(x, n)
    BY <1>1 DEF Frame
  <2>. QED  BY <2>1, <2>2
<1>. QED  BY <1>1, <1>2, <1>3, <1>4, <1>5

LEMMA InIsFrame ==
  ASSUME NEW x \in Values, x.type.kind \in Containers
  PROVE  In(x) \in Frames /\ In(x).type = x.type /\ In(x).value = x.value /\ In(x).done = 0
<1>1. Len(x.value) \in Nat
  BY PartsAreValues
<1>2. Frame(x, 0) \in Frames
  BY <1>1, FramesOfValues
<1>. QED  BY <1>2 DEF In, Frame

\* Behind the innermost, each one waits for a part it has.
Stacked(puts) ==
  \A i \in 1..Len(puts) :
    /\ puts[i].type.kind \in Containers
    /\ i > 1 => puts[i].done < Len(puts[i].value)

LEMMA StackDone ==
  ASSUME NEW puts \in Seq(Frames), Len(puts) # 0, Stacked(puts),
         puts[1].done < Len(puts[1].value)
  PROVE  /\ OneDone(puts) \in Seq(Frames) /\ Stacked(OneDone(puts))
         /\ Len(OneDone(puts)) = Len(puts)
         /\ OneDone(puts)[1] = [puts[1] EXCEPT !.done = puts[1].done + 1]
         /\ \A i \in 2..Len(puts) : OneDone(puts)[i] = puts[i]
<1>1. Len(puts) \in Nat /\ 1 \in 1..Len(puts) /\ \A i \in 1..Len(puts) : puts[i] \in Frames
  BY LenProperties, ElementOfSeq
<1>. DEFINE f == puts[1]
            g == [f EXCEPT !.done = f.done + 1]
<1>2. f \in Frames /\ f.type.kind \in Containers
  BY <1>1 DEF Stacked
<1>3. /\ f.done \in Nat /\ Len(f.value) \in Nat
      /\ \A n \in 0..Len(f.value) : [f EXCEPT !.done = n] \in Frames
      /\ f = Frame(Value(f.type, f.value), f.done)
  BY <1>2, PartsOfFrames, FramesAreValues
<1>4. f.done + 1 \in 0..Len(f.value)
  BY <1>3
<1>5. g \in Frames
  BY <1>3, <1>4
<1>6. g.type = f.type /\ g.value = f.value
  BY <1>3 DEF Frame
<1>. HIDE DEF g
<1>7. /\ Done(puts, f.done + 1) \in Seq(Frames) /\ Len(Done(puts, f.done + 1)) = Len(puts)
      /\ Done(puts, f.done + 1)[1] = g
      /\ \A i \in 2..Len(puts) : Done(puts, f.done + 1)[i] = puts[i]
  BY <1>5, DoneIsWalk DEF g
<1>8. Stacked(Done(puts, f.done + 1))
  BY <1>1, <1>2, <1>6, <1>7 DEF Stacked
<1>. QED  BY <1>7, <1>8 DEF OneDone, g

LEMMA StackPush ==
  ASSUME NEW puts \in Seq(Frames), Len(puts) # 0, Stacked(puts),
         puts[1].done < Len(puts[1].value), NEW x \in Values, x.type.kind \in Containers
  PROVE  /\ <<In(x)>> \o puts \in Seq(Frames) /\ Stacked(<<In(x)>> \o puts)
         /\ Len(<<In(x)>> \o puts) = Len(puts) + 1
         /\ (<<In(x)>> \o puts)[1] = In(x)
         /\ \A i \in 2..(Len(puts) + 1) : (<<In(x)>> \o puts)[i] = puts[i - 1]
<1>1. In(x) \in Frames /\ In(x).type = x.type
  BY InIsFrame
<1>. DEFINE w == <<In(x)>> \o puts
<1>2. /\ w \in Seq(Frames) /\ Len(w) = Len(puts) + 1 /\ w[1] = In(x)
      /\ \A i \in 2..(Len(puts) + 1) : w[i] = puts[i - 1]
  BY <1>1, PushIsWalk
<1>. HIDE DEF w
<1>3. Len(puts) \in Nat
  BY LenProperties
<1>4. Stacked(w)
  <2>. SUFFICES ASSUME NEW i \in 1..Len(w)
                PROVE  /\ w[i].type.kind \in Containers
                       /\ i > 1 => w[i].done < Len(w[i].value)
    BY DEF Stacked
  <2>1. CASE i = 1
    BY <1>1, <1>2, <2>1
  <2>2. CASE i > 1
    <3>1. PICK n \in Nat : n = Len(puts) /\ Len(w) = n + 1
      BY <1>2, <1>3
    <3>2. PICK j \in 1..n : i = j + 1
      BY <2>2, <3>1
    <3>3. w[i] = puts[j]
      BY <1>2, <2>2, <3>1, <3>2
    <3>4. j = 1 \/ j > 1
      BY <3>2
    <3>. QED  BY <3>1, <3>3, <3>4 DEF Stacked
  <2>. QED  BY <2>1, <2>2
<1>. QED  BY <1>2, <1>4 DEF w

LEMMA StackLeft ==
  ASSUME NEW puts \in Seq(Frames), Len(puts) # 0, Stacked(puts)
  PROVE  /\ Left(puts) \in Seq(Frames) /\ Stacked(Left(puts))
         /\ Len(Left(puts)) = Len(puts) - 1
         /\ Len(puts) > 1 => Left(puts)[1] = [puts[2] EXCEPT !.done = puts[2].done + 1]
         /\ \A i \in 2..(Len(puts) - 1) : Left(puts)[i] = puts[i + 1]
<1>1. Len(puts) \in Nat /\ \A i \in 1..Len(puts) : puts[i] \in Frames
  BY LenProperties, ElementOfSeq
<1>. DEFINE f == puts[2]
            g == [f EXCEPT !.done = f.done + 1]
<1>2. ASSUME Len(puts) > 1
      PROVE  g \in Frames /\ g.type = f.type /\ g.value = f.value /\ f.type.kind \in Containers
  <2>1. 2 \in 1..Len(puts)
    BY <1>1, <1>2
  <2>2. f \in Frames /\ f.type.kind \in Containers /\ f.done < Len(f.value)
    BY <1>1, <2>1 DEF Stacked
  <2>3. /\ f.done \in Nat /\ Len(f.value) \in Nat
        /\ \A n \in 0..Len(f.value) : [f EXCEPT !.done = n] \in Frames
        /\ f = Frame(Value(f.type, f.value), f.done)
    BY <2>2, PartsOfFrames, FramesAreValues
  <2>4. f.done + 1 \in 0..Len(f.value)
    BY <2>2, <2>3
  <2>5. g \in Frames
    BY <2>3, <2>4
  <2>6. g.type = f.type /\ g.value = f.value
    BY <2>3 DEF Frame
  <2>. QED  BY <2>2, <2>5, <2>6
<1>. DEFINE v == Left(puts)
<1>3. /\ v \in Seq(Frames) /\ Len(v) = Len(puts) - 1
      /\ Len(puts) > 1 => v[1] = g
      /\ \A i \in 2..(Len(puts) - 1) : v[i] = puts[i + 1]
  BY <1>2, LeftIsWalk
<1>. HIDE DEF v, g
<1>4. Stacked(v)
  <2>. SUFFICES ASSUME NEW i \in 1..Len(v)
                PROVE  /\ v[i].type.kind \in Containers
                       /\ i > 1 => v[i].done < Len(v[i].value)
    BY DEF Stacked
  <2>1. CASE i = 1
    BY <1>1, <1>2, <1>3, <2>1
  <2>2. CASE i > 1
    <3>1. i \in 2..(Len(puts) - 1) /\ i + 1 \in 1..Len(puts) /\ i + 1 > 1
      BY <1>1, <1>3, <2>2
    <3>. QED  BY <1>3, <3>1 DEF Stacked
  <2>. QED  BY <2>1, <2>2
<1>. QED  BY <1>3, <1>4 DEF v, g

-----------------------------------------------------------------------------
(***************************************************************************)
(* A step of the serializer.                                               *)
(***************************************************************************)
\* What is on the wire begins with the header.
SenderSound(s) ==
  /\ s \in Senders
  /\ 4 <= Len(s.wire) /\ s.wire[1] = 0 /\ s.wire[2] = IF s.little THEN 1 ELSE 0
  /\ Stacked(s.puts)

\* What is on the wire stays there, and what the decoder does not read stays so.
Leads(s, t) ==
  /\ s.little = t.little
  /\ Len(s.wire) <= Len(t.wire) /\ \A i \in 1..Len(s.wire) : t.wire[i] = s.wire[i]
  /\ t.readable => s.readable

LEMMA LeadsOn ==
  ASSUME NEW s, NEW t, NEW u, SenderSound(s), SenderSound(t), SenderSound(u),
         Leads(s, t), Leads(t, u)
  PROVE  Leads(s, u)
<1>1. s.wire \in Seq(Byte) /\ t.wire \in Seq(Byte) /\ u.wire \in Seq(Byte)
  BY DEF SenderSound, Senders
<1>2. Len(s.wire) \in Nat /\ Len(t.wire) \in Nat /\ Len(u.wire) \in Nat
  BY <1>1, LenProperties
<1>3. s.little = u.little /\ (u.readable => s.readable)
  BY DEF Leads
<1>4. Len(s.wire) <= Len(u.wire) /\ \A i \in 1..Len(s.wire) : u.wire[i] = s.wire[i]
  BY <1>2 DEF Leads
<1>. QED  BY <1>3, <1>4 DEF Leads

LEMMA PutsIsSound ==
  ASSUME NEW s, SenderSound(s), NEW puts \in Seq(Frames), Stacked(puts),
         NEW a \in Sizes, NEW bytes \in Seq(Byte), NEW x \in Texts
  PROVE  LET t == Puts(s, puts, a, bytes, x) IN SenderSound(t) /\ Leads(s, t)
<1>. DEFINE t == Puts(s, puts, a, bytes, x)
<1>1. /\ s.puts \in Seq(Frames) /\ s.wire \in Seq(Byte) /\ s.said \in Seq(Texts)
      /\ s.little \in BOOLEAN /\ s.moved \in BOOLEAN /\ s.readable \in BOOLEAN
  BY DEF SenderSound, Senders
<1>. DEFINE wire == Behind(s.wire, a, bytes)
            said == Says(s.said, s.puts, x)
            readable == s.readable /\ (s.moved => a >= 4)
<1>2. /\ wire \in Seq(Byte)
      /\ Len(wire) = Up(Len(s.wire), a) + Len(bytes)
      /\ \A i \in 1..Len(s.wire) : wire[i] = s.wire[i]
  BY <1>1, BehindIsWire
<1>3. said \in Seq(Texts)
  BY <1>1, SaysIsStream
<1>4. readable \in BOOLEAN
  OBVIOUS
<1>5. t = [puts |-> puts, wire |-> wire, said |-> said, little |-> s.little, moved |-> FALSE,
           readable |-> readable]
  BY DEF Puts
<1>. HIDE DEF wire, said, readable
<1>6. /\ t.puts = puts /\ t.wire = wire /\ t.little = s.little /\ t.readable = readable
  BY <1>5
<1>7. t \in Senders
  BY <1>1, <1>2, <1>3, <1>4, <1>5 DEF Senders
<1>. HIDE DEF t
<1>8. Len(s.wire) \in Nat /\ Len(bytes) \in Nat
  BY <1>1, LenProperties
<1>9. Len(s.wire) <= Len(wire)
  <2>1. PICK at \in Nat : at = Up(Len(s.wire), a) /\ Len(s.wire) <= at
    BY <1>8, UpIsNext
  <2>. QED  BY <1>2, <1>8, <2>1
<1>10. wire[1] = s.wire[1] /\ wire[2] = s.wire[2] /\ 4 <= Len(wire)
  BY <1>2, <1>8, <1>9 DEF SenderSound
<1>11. readable => s.readable
  BY DEF readable
<1>12. SenderSound(t)
  BY <1>6, <1>7, <1>10 DEF SenderSound
<1>13. Leads(s, t)
  BY <1>2, <1>6, <1>9, <1>11 DEF Leads
<1>. QED  BY <1>12, <1>13 DEF t

LEMMA WalksIsSound ==
  ASSUME NEW s, SenderSound(s), NEW puts \in Seq(Frames), Stacked(puts),
         NEW said \in Seq(Texts), NEW moved \in BOOLEAN
  PROVE  LET t == Walks(s, puts, said, moved)
         IN /\ SenderSound(t) /\ Leads(s, t)
            /\ t.puts = puts /\ t.wire = s.wire /\ t.said = said /\ t.moved = moved
            /\ t.little = s.little /\ t.readable = s.readable
<1>. DEFINE t == Walks(s, puts, said, moved)
<1>1. s \in Senders
  BY DEF SenderSound
<1>2. t \in Senders
  BY <1>1 DEF Walks, Senders
<1>3. /\ t.puts = puts /\ t.wire = s.wire /\ t.said = said /\ t.moved = moved
      /\ t.little = s.little /\ t.readable = s.readable
  BY <1>1 DEF Walks, Senders
<1>. HIDE DEF t
<1>4. SenderSound(t)
  BY <1>2, <1>3 DEF SenderSound
<1>5. s.wire \in Seq(Byte)
  BY <1>1 DEF Senders
<1>6. Len(s.wire) <= Len(s.wire)
  BY <1>5, LenProperties
<1>7. Leads(s, t)
  BY <1>3, <1>6 DEF Leads
<1>. QED  BY <1>3, <1>4, <1>7 DEF t

LEMMA SpoiltIsSound ==
  ASSUME NEW s, NEW t, SenderSound(t), Leads(s, t), NEW readable \in BOOLEAN,
         readable => t.readable
  PROVE  LET u == [t EXCEPT !.readable = readable]
         IN /\ SenderSound(u) /\ Leads(s, u)
            /\ u.puts = t.puts /\ u.wire = t.wire /\ u.said = t.said /\ u.moved = t.moved
            /\ u.little = t.little /\ u.readable = readable
<1>. DEFINE u == [t EXCEPT !.readable = readable]
<1>1. t \in Senders
  BY DEF SenderSound
<1>2. u \in Senders
  BY <1>1 DEF Senders
<1>3. /\ u.puts = t.puts /\ u.wire = t.wire /\ u.said = t.said /\ u.moved = t.moved
      /\ u.little = t.little /\ u.readable = readable
  BY <1>1 DEF Senders
<1>. HIDE DEF u
<1>4. SenderSound(u)
  BY <1>2, <1>3 DEF SenderSound
<1>5. u.readable => s.readable
  BY <1>3 DEF Leads
<1>6. Leads(s, u)
  BY <1>3, <1>5 DEF Leads
<1>. QED  BY <1>3, <1>4, <1>6 DEF u

\* What is put next.
Item(s) == Value(PartType(s.puts[1]), s.puts[1].value[s.puts[1].done + 1])

LEMMA AfterIs ==
  ASSUME NEW s
  PROVE  /\ s.puts[1].done = Len(s.puts[1].value) => After(s) = Leaves(s)
         /\ s.puts[1].done # Len(s.puts[1].value) =>
              /\ IsScalar(Item(s).type) => After(s) = PutsScalar(s, Item(s))
              /\ Item(s).type.kind = "string" => After(s) = PutsString(s, Item(s))
              /\ Item(s).type.kind = "wide" => After(s) = PutsWide(s, Item(s))
              /\ Item(s).type.kind = "message" => After(s) = EntersMessage(s, Item(s))
              /\ Item(s).type.kind = "array" =>
                   After(s) = IF HasCount(Item(s).type) THEN PutsCount(s, Item(s))
                              ELSE EntersFixed(s, Item(s))
<1>. DEFINE x == Item(s)
<1>1. After(s) =
        IF s.puts[1].done = Len(s.puts[1].value) THEN Leaves(s)
        ELSE CASE IsScalar(x.type)        -> PutsScalar(s, x)
               [] x.type.kind = "string"  -> PutsString(s, x)
               [] x.type.kind = "wide"    -> PutsWide(s, x)
               [] x.type.kind = "message" -> EntersMessage(s, x)
               [] x.type.kind = "array"   ->
                    IF HasCount(x.type) THEN PutsCount(s, x) ELSE EntersFixed(s, x)
  BY DEF After, Item
<1>2. IsScalar(x.type) <=> x.type.kind \in ScalarKinds
  BY DEF IsScalar
<1>. HIDE DEF x
<1>. QED  BY <1>1, <1>2 DEF ScalarKinds, x

LEMMA WhereItIs ==
  ASSUME NEW s, SenderSound(s), s.puts # << >>
  PROVE  /\ s.puts \in Seq(Frames) /\ Stacked(s.puts)
         /\ Len(s.puts) \in Nat /\ Len(s.puts) # 0
         /\ s.puts[1] \in Frames /\ s.puts[1].type.kind \in Containers
         /\ s.puts[1].type \in Types
         /\ s.puts[1].done \in Nat /\ Len(s.puts[1].value) \in Nat
         /\ s.puts[1].done <= Len(s.puts[1].value)
         /\ s.puts[1].done # Len(s.puts[1].value) =>
              /\ s.puts[1].done < Len(s.puts[1].value)
              /\ Item(s) \in Values
              /\ Item(s).type = PartType(s.puts[1])
              /\ Item(s).type.kind \in ScalarKinds \cup {"string", "wide", "array", "message"}
<1>1. s.puts \in Seq(Frames) /\ Stacked(s.puts)
  BY DEF SenderSound, Senders
<1>2. Len(s.puts) \in Nat /\ Len(s.puts) # 0
  BY <1>1, LenProperties, EmptySeq
<1>. DEFINE f == s.puts[1]
<1>3. 1 \in 1..Len(s.puts)
  BY <1>2
<1>4. f \in Frames /\ f.type.kind \in Containers
  BY <1>1, <1>3, ElementOfSeq DEF Stacked
<1>5. /\ f.type \in Types /\ Len(f.value) \in Nat /\ f.done \in Nat /\ f.done <= Len(f.value)
      /\ f.done < Len(f.value) => Value(PartType(f), f.value[f.done + 1]) \in Values
  BY <1>4, PartsOfFrames
<1>6. f.done # Len(f.value) => f.done < Len(f.value)
  BY <1>5
<1>7. Item(s) = Value(PartType(f), f.value[f.done + 1]) /\ Item(s).type = PartType(f)
  BY DEF Item, Value
<1>8. ASSUME Item(s) \in Values
      PROVE  Item(s).type.kind \in ScalarKinds \cup {"string", "wide", "array", "message"}
  BY <1>8, ValuesAreTrees, TypesAreTrees
<1>. HIDE DEF f
<1>9. f.done # Len(f.value) => f.done < Len(f.value) /\ Item(s) \in Values
  BY <1>5, <1>6, <1>7
<1>. QED  BY <1>1, <1>2, <1>4, <1>5, <1>7, <1>8, <1>9 DEF f

LEMMA PutsScalarIsSound ==
  ASSUME NEW s, SenderSound(s), s.puts # << >>, s.puts[1].done # Len(s.puts[1].value),
         IsScalar(Item(s).type)
  PROVE  SenderSound(PutsScalar(s, Item(s))) /\ Leads(s, PutsScalar(s, Item(s)))
<1>. DEFINE x == Item(s)
<1>1. x \in Values /\ s.puts \in Seq(Frames) /\ Stacked(s.puts) /\ Len(s.puts) # 0
      /\ s.puts[1].done < Len(s.puts[1].value)
  BY WhereItIs
<1>2. x.type.size \in Sizes /\ x.value \in Seq(Byte)
  BY <1>1, ScalarsAreBytes
<1>3. OneDone(s.puts) \in Seq(Frames) /\ Stacked(OneDone(s.puts))
  BY <1>1, StackDone
<1>4. s.little \in BOOLEAN
  BY DEF SenderSound, Senders
<1>5. Ordered(x.value, s.little) \in Seq(Byte) /\ ScalarText(x.type, x.value) \in Texts
  BY <1>2, <1>4, OrderedIsBytes, ScalarTextIsText
<1>. QED  BY <1>2, <1>3, <1>5, PutsIsSound DEF PutsScalar

LEMMA PutsStringIsSound ==
  ASSUME NEW s, SenderSound(s), s.puts # << >>, s.puts[1].done # Len(s.puts[1].value),
         Item(s).type.kind = "string"
  PROVE  SenderSound(PutsString(s, Item(s))) /\ Leads(s, PutsString(s, Item(s)))
<1>. DEFINE x == Item(s)
            t == Puts(s, OneDone(s.puts), 4, StringBytes(x.value, s.little), Quoted(x.value, FALSE))
            readable == t.readable /\ \A i \in 1..Len(x.value) : IsCharacter(x.value[i])
<1>1. x \in Values /\ s.puts \in Seq(Frames) /\ Stacked(s.puts) /\ Len(s.puts) # 0
      /\ s.puts[1].done < Len(s.puts[1].value)
  BY WhereItIs
<1>2. x.value \in Seq(Byte) /\ Len(x.value) + 1 <= 65535
  BY <1>1, StringsAreBytes
<1>3. OneDone(s.puts) \in Seq(Frames) /\ Stacked(OneDone(s.puts))
  BY <1>1, StackDone
<1>4. s.little \in BOOLEAN
  BY DEF SenderSound, Senders
<1>5. StringBytes(x.value, s.little) \in Seq(Byte)
  BY <1>2, <1>4, StringBytesAreBytes
<1>10. Quoted(x.value, FALSE) \in Texts
  BY <1>2 DEF Quoted, Texts
<1>6. 4 \in Sizes
  BY DEF Sizes
<1>7. SenderSound(t) /\ Leads(s, t)
  BY <1>3, <1>5, <1>6, <1>10, PutsIsSound
<1>8. PutsString(s, x) = [t EXCEPT !.readable = readable]
  BY DEF PutsString
<1>9. readable \in BOOLEAN /\ (readable => t.readable)
  OBVIOUS
<1>. HIDE DEF t, readable
<1>. QED  BY <1>7, <1>8, <1>9, SpoiltIsSound

LEMMA PutsWideIsSound ==
  ASSUME NEW s, SenderSound(s), s.puts # << >>, s.puts[1].done # Len(s.puts[1].value),
         Item(s).type.kind = "wide"
  PROVE  /\ SenderSound(PutsWide(s, Item(s))) /\ Leads(s, PutsWide(s, Item(s)))
         /\ PutsWide(s, Item(s)).readable = FALSE
<1>. DEFINE x == Item(s)
            t == Puts(s, OneDone(s.puts), 4, WideBytes(x.value, s.little), Null)
<1>1. x \in Values /\ s.puts \in Seq(Frames) /\ Stacked(s.puts) /\ Len(s.puts) # 0
      /\ s.puts[1].done < Len(s.puts[1].value)
  BY WhereItIs
<1>2. x.value \in Seq(Byte) /\ Len(x.value) + 1 <= 65535
  BY <1>1, StringsAreBytes
<1>3. OneDone(s.puts) \in Seq(Frames) /\ Stacked(OneDone(s.puts))
  BY <1>1, StackDone
<1>4. s.little \in BOOLEAN
  BY DEF SenderSound, Senders
<1>5. WideBytes(x.value, s.little) \in Seq(Byte) /\ Null \in Texts
  BY <1>2, <1>4, WideBytesAreBytes, OtherTexts
<1>6. 4 \in Sizes
  BY DEF Sizes
<1>7. SenderSound(t) /\ Leads(s, t)
  BY <1>3, <1>5, <1>6, PutsIsSound
<1>8. PutsWide(s, x) = [t EXCEPT !.readable = FALSE]
  BY DEF PutsWide
<1>9. PICK readable \in BOOLEAN : readable = FALSE
  OBVIOUS
<1>. HIDE DEF t
<1>10. /\ SenderSound([t EXCEPT !.readable = readable]) /\ Leads(s, [t EXCEPT !.readable = readable])
       /\ [t EXCEPT !.readable = readable].readable = readable
  BY <1>7, <1>9, SpoiltIsSound
<1>. QED  BY <1>8, <1>9, <1>10

LEMMA PutsCountIsSound ==
  ASSUME NEW s, SenderSound(s), s.puts # << >>, s.puts[1].done # Len(s.puts[1].value),
         Item(s).type.kind = "array"
  PROVE  SenderSound(PutsCount(s, Item(s))) /\ Leads(s, PutsCount(s, Item(s)))
<1>. DEFINE x == Item(s)
<1>1. x \in Values /\ s.puts \in Seq(Frames) /\ Stacked(s.puts) /\ Len(s.puts) # 0
      /\ s.puts[1].done < Len(s.puts[1].value)
  BY WhereItIs
<1>2. x.type.kind \in Containers /\ IsArray(x.type)
  BY DEF Containers, IsArray
<1>3. Len(x.value) \in Nat /\ Len(x.value) <= 65535
  BY <1>1, <1>2, PartsAreValues
<1>4. <<In(x)>> \o s.puts \in Seq(Frames) /\ Stacked(<<In(x)>> \o s.puts)
  BY <1>1, <1>2, StackPush
<1>5. s.little \in BOOLEAN
  BY DEF SenderSound, Senders
<1>6. CountBytes(Len(x.value), s.little) \in Seq(Byte) /\ Opened \in Texts
  BY <1>3, <1>5, CountIsBytes, OtherTexts
<1>7. 4 \in Sizes
  BY DEF Sizes
<1>. QED  BY <1>4, <1>6, <1>7, PutsIsSound DEF PutsCount

LEMMA EntersIsSound ==
  ASSUME NEW s, SenderSound(s), s.puts # << >>, s.puts[1].done # Len(s.puts[1].value),
         Item(s).type.kind \in Containers, NEW moved \in BOOLEAN
  PROVE  LET puts == <<In(Item(s))>> \o s.puts
             said == Says(s.said, s.puts, Opened)
             t == Walks(s, puts, said, moved)
         IN /\ SenderSound(t) /\ Leads(s, t)
            /\ t.puts = puts /\ t.wire = s.wire /\ t.said = said /\ t.moved = moved
<1>. DEFINE x == Item(s)
            puts == <<In(x)>> \o s.puts
            said == Says(s.said, s.puts, Opened)
<1>1. x \in Values /\ s.puts \in Seq(Frames) /\ Stacked(s.puts) /\ Len(s.puts) # 0
      /\ s.puts[1].done < Len(s.puts[1].value)
  BY WhereItIs
<1>2. puts \in Seq(Frames) /\ Stacked(puts)
  BY <1>1, StackPush
<1>3. s.said \in Seq(Texts)
  BY DEF SenderSound, Senders
<1>4. said \in Seq(Texts)
  BY <1>3, SaysIsStream, OtherTexts
<1>. HIDE DEF puts, said
<1>5. LET t == Walks(s, puts, said, moved)
      IN /\ SenderSound(t) /\ Leads(s, t)
         /\ t.puts = puts /\ t.wire = s.wire /\ t.said = said /\ t.moved = moved
  BY <1>2, <1>4, WalksIsSound
<1>. QED  BY <1>5 DEF puts, said

LEMMA LeavesIsSound ==
  ASSUME NEW s, SenderSound(s), s.puts # << >>
  PROVE  LET cut == IsArray(s.puts[1].type) /\ Len(s.puts[1].value) > MaxShown
             t == Leaves(s)
         IN /\ SenderSound(t) /\ Leads(s, t)
            /\ t.puts = Left(s.puts) /\ t.wire = s.wire /\ t.moved = s.moved
            /\ t.said = Says(s.said, Tail(s.puts), Closed(cut))
<1>. DEFINE cut == IsArray(s.puts[1].type) /\ Len(s.puts[1].value) > MaxShown
            said == Says(s.said, Tail(s.puts), Closed(cut))
<1>1. Left(s.puts) \in Seq(Frames) /\ Stacked(Left(s.puts))
  BY WhereItIs, StackLeft
<1>2. s.said \in Seq(Texts) /\ s.moved \in BOOLEAN
  BY DEF SenderSound, Senders
<1>3. cut \in BOOLEAN
  OBVIOUS
<1>. HIDE DEF cut
<1>4. said \in Seq(Texts)
  BY <1>2, <1>3, SaysIsStream, OtherTexts
<1>5. Leaves(s) = Walks(s, Left(s.puts), said, s.moved)
  BY DEF Leaves, cut
<1>. HIDE DEF said
<1>6. /\ SenderSound(Leaves(s)) /\ Leads(s, Leaves(s))
      /\ Leaves(s).puts = Left(s.puts) /\ Leaves(s).wire = s.wire /\ Leaves(s).said = said
      /\ Leaves(s).moved = s.moved
  BY <1>1, <1>2, <1>4, <1>5, WalksIsSound
<1>. QED  BY <1>6 DEF said, cut

LEMMA AfterIsSound ==
  ASSUME NEW s, SenderSound(s), s.puts # << >>
  PROVE  SenderSound(After(s)) /\ Leads(s, After(s))
<1>1. CASE s.puts[1].done = Len(s.puts[1].value)
  BY <1>1, AfterIs, LeavesIsSound
<1>2. CASE s.puts[1].done # Len(s.puts[1].value)
  <2>. DEFINE k == Item(s).type.kind
  <2>1. k \in ScalarKinds \cup {"string", "wide", "array", "message"}
    BY <1>2, WhereItIs
  <2>2. CASE k \in ScalarKinds
    <3>1. IsScalar(Item(s).type)
      BY <2>2 DEF IsScalar
    <3>. QED  BY <1>2, <3>1, AfterIs, PutsScalarIsSound
  <2>3. CASE k = "string"
    BY <1>2, <2>3, AfterIs, PutsStringIsSound
  <2>4. CASE k = "wide"
    BY <1>2, <2>4, AfterIs, PutsWideIsSound
  <2>5. CASE k = "message"
    <3>1. s.moved \in BOOLEAN /\ k \in Containers
      BY <2>5 DEF SenderSound, Senders, Containers
    <3>2. SenderSound(EntersMessage(s, Item(s))) /\ Leads(s, EntersMessage(s, Item(s)))
      BY <1>2, <3>1, EntersIsSound DEF EntersMessage
    <3>. QED  BY <1>2, <2>5, <3>2, AfterIs
  <2>6. CASE k = "array"
    <3>1. (Len(s.wire) % 4 # 0) \in BOOLEAN /\ k \in Containers
      BY <2>6 DEF Containers
    <3>2. SenderSound(EntersFixed(s, Item(s))) /\ Leads(s, EntersFixed(s, Item(s)))
      BY <1>2, <3>1, EntersIsSound DEF EntersFixed
    <3>3. SenderSound(PutsCount(s, Item(s))) /\ Leads(s, PutsCount(s, Item(s)))
      BY <1>2, <2>6, PutsCountIsSound
    <3>. QED  BY <1>2, <2>6, <3>2, <3>3, AfterIs
  <2>. QED  BY <2>1, <2>2, <2>3, <2>4, <2>5, <2>6
<1>. QED  BY <1>1, <1>2

-----------------------------------------------------------------------------
(***************************************************************************)
(* Where the decoder is, whatever it is given.                             *)
(***************************************************************************)
Calls == [type : Types, count : Nat, done : Nat]

\* Behind the innermost, each call waits for a part it has.
Waiting(w) ==
  \A i \in 1..Len(w) :
    /\ w[i].type.kind \in Containers
    /\ w[i].type.kind = "message" => w[i].count = Len(w[i].type.members)
    /\ w[i].done <= w[i].count
    /\ i > 1 => w[i].done < w[i].count

CallsSound == (stage = "reads" <=> calls # << >>) /\ Waiting(calls)

LEMMA CallsDone ==
  ASSUME NEW w \in Seq(Calls), Len(w) # 0, Waiting(w), NEW n \in Nat, n <= w[1].count
  PROVE  /\ Done(w, n) \in Seq(Calls) /\ Waiting(Done(w, n))
         /\ Len(Done(w, n)) = Len(w)
         /\ Done(w, n)[1] = [w[1] EXCEPT !.done = n]
         /\ \A i \in 2..Len(w) : Done(w, n)[i] = w[i]
<1>1. Len(w) \in Nat /\ 1 \in 1..Len(w) /\ \A i \in 1..Len(w) : w[i] \in Calls
  BY LenProperties, ElementOfSeq
<1>. DEFINE c == [w[1] EXCEPT !.done = n]
            v == Done(w, n)
<1>2. w[1] \in Calls
  BY <1>1
<1>3. c \in Calls /\ c.type = w[1].type /\ c.count = w[1].count /\ c.done = n
  BY <1>2 DEF Calls
<1>. HIDE DEF c
<1>4. /\ v \in Seq(Calls) /\ Len(v) = Len(w) /\ v[1] = c
      /\ \A i \in 2..Len(w) : v[i] = w[i]
  BY <1>3, DoneIsWalk DEF c
<1>. HIDE DEF v
<1>5. Waiting(v)
  <2>. SUFFICES ASSUME NEW i \in 1..Len(v)
                PROVE  /\ v[i].type.kind \in Containers
                       /\ v[i].type.kind = "message" => v[i].count = Len(v[i].type.members)
                       /\ v[i].done <= v[i].count
                       /\ i > 1 => v[i].done < v[i].count
    BY DEF Waiting
  <2>1. CASE i = 1
    BY <1>1, <1>3, <1>4, <2>1 DEF Waiting
  <2>2. CASE i # 1
    <3>1. i \in 2..Len(w) /\ i \in 1..Len(w)
      BY <1>1, <1>4, <2>2
    <3>. QED  BY <1>4, <3>1 DEF Waiting
  <2>. QED  BY <2>1, <2>2
<1>. QED  BY <1>4, <1>5 DEF v, c

LEMMA CallsPush ==
  ASSUME NEW w \in Seq(Calls), Len(w) # 0, Waiting(w), w[1].done < w[1].count,
         NEW c \in Calls, c.type.kind \in Containers, c.done = 0,
         c.type.kind = "message" => c.count = Len(c.type.members)
  PROVE  /\ <<c>> \o w \in Seq(Calls) /\ Waiting(<<c>> \o w)
         /\ Len(<<c>> \o w) = Len(w) + 1
         /\ (<<c>> \o w)[1] = c
         /\ \A i \in 2..(Len(w) + 1) : (<<c>> \o w)[i] = w[i - 1]
<1>. DEFINE v == <<c>> \o w
<1>1. /\ v \in Seq(Calls) /\ Len(v) = Len(w) + 1 /\ v[1] = c
      /\ \A i \in 2..(Len(w) + 1) : v[i] = w[i - 1]
  BY PushIsWalk
<1>. HIDE DEF v
<1>2. Len(w) \in Nat
  BY LenProperties
<1>3. c.count \in Nat /\ c.done <= c.count
  BY DEF Calls
<1>4. Waiting(v)
  <2>. SUFFICES ASSUME NEW i \in 1..Len(v)
                PROVE  /\ v[i].type.kind \in Containers
                       /\ v[i].type.kind = "message" => v[i].count = Len(v[i].type.members)
                       /\ v[i].done <= v[i].count
                       /\ i > 1 => v[i].done < v[i].count
    BY DEF Waiting
  <2>1. CASE i = 1
    BY <1>1, <1>3, <2>1
  <2>2. CASE i # 1
    <3>1. v[i] = w[i - 1] /\ i - 1 \in 1..Len(w)
      BY <1>1, <1>2, <2>2
    <3>2. i - 1 = 1 \/ i - 1 > 1
      BY <3>1, <1>2
    <3>. QED  BY <3>1, <3>2 DEF Waiting
  <2>. QED  BY <2>1, <2>2
<1>. QED  BY <1>1, <1>4 DEF v

LEMMA CallsLeft ==
  ASSUME NEW w \in Seq(Calls), Len(w) # 0, Waiting(w)
  PROVE  /\ Left(w) \in Seq(Calls) /\ Waiting(Left(w))
         /\ Len(Left(w)) = Len(w) - 1
         /\ Len(w) > 1 => Left(w)[1] = [w[2] EXCEPT !.done = w[2].done + 1]
         /\ \A i \in 2..(Len(w) - 1) : Left(w)[i] = w[i + 1]
<1>1. Len(w) \in Nat /\ \A i \in 1..Len(w) : w[i] \in Calls
  BY LenProperties, ElementOfSeq
<1>. DEFINE c == [w[2] EXCEPT !.done = w[2].done + 1]
            v == Left(w)
<1>2. ASSUME Len(w) > 1
      PROVE  /\ c \in Calls /\ c.type = w[2].type /\ c.count = w[2].count
             /\ c.done <= c.count /\ c.type.kind \in Containers
             /\ c.type.kind = "message" => c.count = Len(c.type.members)
  <2>1. 2 \in 1..Len(w)
    BY <1>1, <1>2
  <2>2. /\ w[2] \in Calls /\ w[2].done < w[2].count /\ w[2].type.kind \in Containers
        /\ w[2].type.kind = "message" => w[2].count = Len(w[2].type.members)
    BY <1>1, <2>1 DEF Waiting
  <2>3. w[2].done \in Nat /\ w[2].count \in Nat
    BY <2>2 DEF Calls
  <2>4. /\ c \in Calls /\ c.type = w[2].type /\ c.count = w[2].count /\ c.done = w[2].done + 1
    BY <2>2, <2>3 DEF Calls
  <2>. HIDE DEF c
  <2>. QED  BY <2>2, <2>3, <2>4
<1>3. /\ v \in Seq(Calls) /\ Len(v) = Len(w) - 1
      /\ Len(w) > 1 => v[1] = c
      /\ \A i \in 2..(Len(w) - 1) : v[i] = w[i + 1]
  BY <1>2, LeftIsWalk
<1>. HIDE DEF v, c
<1>4. Waiting(v)
  <2>. SUFFICES ASSUME NEW i \in 1..Len(v)
                PROVE  /\ v[i].type.kind \in Containers
                       /\ v[i].type.kind = "message" => v[i].count = Len(v[i].type.members)
                       /\ v[i].done <= v[i].count
                       /\ i > 1 => v[i].done < v[i].count
    BY DEF Waiting
  <2>1. CASE i = 1
    <3>1. Len(w) > 1
      BY <1>1, <1>3
    <3>. QED  BY <1>2, <1>3, <2>1, <3>1
  <2>2. CASE i # 1
    <3>1. i \in 2..(Len(w) - 1) /\ i + 1 \in 1..Len(w) /\ i + 1 > 1
      BY <1>1, <1>3, <2>2
    <3>. QED  BY <1>3, <3>1 DEF Waiting
  <2>. QED  BY <2>1, <2>2
<1>. QED  BY <1>3, <1>4 DEF v, c

ReaderOK ==
  /\ buffer \in Seq(Byte) /\ offset \in Nat
  /\ calls \in Seq(Calls) /\ ss \in Seq(Texts)
  /\ stage \in {"idle", "reads", "returned", "threw"}
  /\ CallsSound /\ ReadsInside

LEMMA AlignIs ==
  ASSUME buffer \in Seq(Byte), offset \in Nat, offset <= Len(buffer), NEW a \in Sizes
  PROVE  /\ AlignOffset(a) \in Nat
         /\ offset <= AlignOffset(a) /\ AlignOffset(a) <= Len(buffer)
         /\ AlignOffset(a) = IF Up(offset, a) <= Len(buffer) THEN Up(offset, a) ELSE Len(buffer)
<1>1. AlignOffset(a) = IF Up(offset, a) <= Len(buffer) THEN Up(offset, a) ELSE Len(buffer)
  BY DEF AlignOffset, Up
<1>2. Len(buffer) \in Nat
  BY LenProperties
<1>3. PICK up \in Nat : up = Up(offset, a) /\ offset <= up
  BY UpIsNext
<1>4. AlignOffset(a) = IF up <= Len(buffer) THEN up ELSE Len(buffer)
  BY <1>1, <1>3
<1>5. /\ AlignOffset(a) \in Nat
      /\ offset <= AlignOffset(a) /\ AlignOffset(a) <= Len(buffer)
  BY <1>2, <1>3, <1>4
<1>. QED  BY <1>1, <1>5

LEMMA HostBytesAreBytes ==
  ASSUME buffer \in Seq(Byte), NEW o \in Nat, NEW n \in Nat
  PROVE  /\ HostBytes(o, n) \in Seq(Byte) /\ Len(HostBytes(o, n)) = n
         /\ \A i \in 1..n : HostBytes(o, n)[i] \in Byte
<1>. DEFINE at(i) == IF is_cdr_stream_little_endian THEN i ELSE n + 1 - i
<1>1. HostBytes(o, n) = [i \in 1..n |-> ByteAt(o + at(i))]
  BY DEF HostBytes
<1>2. \A i : ByteAt(i) \in Byte
  <2>1. \A i \in DOMAIN buffer : buffer[i] \in Byte
    BY LenProperties, ElementOfSeq
  <2>. QED  BY <2>1 DEF ByteAt, Byte
<1>. HIDE DEF at
<1>3. HostBytes(o, n) \in [1..n -> Byte]
  BY <1>1, <1>2
<1>4. HostBytes(o, n) \in Seq(Byte)
  BY <1>3, SeqDef
<1>. QED  BY <1>3, <1>4, LenProperties

LEMMA CountIsNat ==
  ASSUME buffer \in Seq(Byte), NEW o \in Nat
  PROVE  CountAt(o) \in Nat
<1>. DEFINE b == HostBytes(o, 4)
<1>1. b[1] \in Byte /\ b[2] \in Byte
  BY HostBytesAreBytes
<1>2. CountAt(o) = IF b[3] = 0 /\ b[4] = 0 THEN b[1] + 256 * b[2] ELSE 65536
  BY DEF CountAt, TooMany
<1>. HIDE DEF b
<1>3. \A low, high \in Byte : low + 256 * high \in Nat
  BY DEF Byte
<1>. QED  BY <1>1, <1>2, <1>3

LEMMA CharactersAreBytes ==
  ASSUME buffer \in Seq(Byte), NEW o \in Nat, NEW n \in Nat
  PROVE  Characters(o, n) \in Seq(Byte)
<1>1. \A i : ByteAt(i) \in Byte
  <2>1. \A i \in DOMAIN buffer : buffer[i] \in Byte
    BY LenProperties, ElementOfSeq
  <2>. QED  BY <2>1 DEF ByteAt, Byte
<1>2. PICK m \in Nat : m = IF n > 0 /\ ByteAt(o + n) = 0 THEN n - 1 ELSE n
  OBVIOUS
<1>3. Characters(o, n) = [i \in 1..m |-> ByteAt(o + i)]
  BY <1>2 DEF Characters
<1>4. Characters(o, n) \in [1..m -> Byte]
  BY <1>1, <1>3
<1>. QED  BY <1>4, SeqDef

LEMMA WhereItReads ==
  ASSUME ReaderOK, stage = "reads"
  PROVE  /\ Len(calls) \in Nat /\ Len(calls) # 0 /\ Waiting(calls)
         /\ 4 <= offset /\ offset <= Len(buffer) /\ Len(buffer) \in Nat
         /\ calls[1] \in Calls /\ calls[1].type.kind \in Containers
         /\ calls[1].done \in Nat /\ calls[1].count \in Nat /\ calls[1].done <= calls[1].count
         /\ calls[1].done < calls[1].count =>
              /\ Part \in Types
              /\ Part.kind \in ScalarKinds \cup {"string", "wide", "array", "message"}
<1>1. calls \in Seq(Calls) /\ calls # << >> /\ Waiting(calls) /\ buffer \in Seq(Byte)
  BY DEF ReaderOK, CallsSound
<1>2. Len(calls) \in Nat /\ Len(calls) # 0 /\ Len(buffer) \in Nat
  BY <1>1, LenProperties, EmptySeq
<1>3. 4 <= offset /\ offset <= Len(buffer)
  BY DEF ReaderOK, ReadsInside
<1>. DEFINE c == calls[1]
<1>4. 1 \in 1..Len(calls)
  BY <1>2
<1>5. /\ c \in Calls /\ c.type.kind \in Containers /\ c.done <= c.count
      /\ c.type.kind = "message" => c.count = Len(c.type.members)
  BY <1>1, <1>4, ElementOfSeq DEF Waiting
<1>6. c.type \in Types /\ c.done \in Nat /\ c.count \in Nat
  BY <1>5 DEF Calls
<1>. HIDE DEF c
<1>7. ASSUME c.done < c.count
      PROVE  PartType(c) \in Types
  <2>1. CASE IsArray(c.type)
    BY <1>6, <2>1, TypesAreTrees DEF PartType
  <2>2. CASE c.type.kind = "message"
    <3>1. c.type.members \in Seq(Types) /\ Len(c.type.members) = c.count
      BY <1>5, <1>6, <2>2, TypesAreTrees
    <3>2. c.done + 1 \in 1..Len(c.type.members)
      BY <1>6, <1>7, <3>1
    <3>3. c.type.members[c.done + 1] \in Types
      BY <3>1, <3>2, ElementOfSeq
    <3>. QED  BY <2>2, <3>3 DEF PartType, IsArray
  <2>. QED  BY <1>5, <2>1, <2>2 DEF Containers, IsArray
<1>8. PartType(c) \in Types =>
        PartType(c).kind \in ScalarKinds \cup {"string", "wide", "array", "message"}
  BY TypesAreTrees
<1>. QED  BY <1>1, <1>2, <1>3, <1>5, <1>6, <1>7, <1>8 DEF Part, c

LEMMA SucceedsOK ==
  ASSUME ReaderOK, Due, NEW x \in Texts, NEW at \in Nat, offset <= at, at <= Len(buffer),
         Succeeds(x, at)
  PROVE  ReaderOK'
<1>1. stage = "reads" /\ calls[1].done < calls[1].count
  BY DEF Due
<1>2. /\ Len(calls) # 0 /\ Waiting(calls) /\ 4 <= offset
      /\ calls[1].done \in Nat /\ calls[1].count \in Nat
  BY <1>1, WhereItReads
<1>3. /\ calls \in Seq(Calls) /\ buffer \in Seq(Byte) /\ ss \in Seq(Texts) /\ offset \in Nat
  BY DEF ReaderOK
<1>. DEFINE n == calls[1].done + 1
            w == OneDone(calls)
<1>10. n \in Nat /\ n <= calls[1].count /\ w = Done(calls, n)
  BY <1>1, <1>2 DEF OneDone
<1>. HIDE DEF n, w
<1>4. w \in Seq(Calls) /\ Waiting(w) /\ Len(w) = Len(calls)
  BY <1>2, <1>3, <1>10, CallsDone
<1>5. w # << >>
  BY <1>2, <1>4
<1>6. Says(ss, calls, x) \in Seq(Texts)
  BY <1>3, SaysIsStream
<1>7. /\ calls' = w /\ offset' = at /\ ss' = Says(ss, calls, x)
      /\ buffer' = buffer /\ stage' = "reads"
  BY <1>1 DEF Succeeds, w
<1>8. CallsSound'
  BY <1>4, <1>5, <1>7 DEF CallsSound, Waiting
<1>9. ReadsInside'
  BY <1>2, <1>3, <1>7 DEF ReadsInside
<1>. QED  BY <1>3, <1>4, <1>6, <1>7, <1>8, <1>9 DEF ReaderOK

LEMMA FailsOK ==
  ASSUME ReaderOK, Due, NEW at \in Nat, offset <= at, at <= Len(buffer), Fails(at)
  PROVE  ReaderOK'
<1>1. stage = "reads" /\ calls[1].done < calls[1].count
  BY DEF Due
<1>2. /\ Len(calls) # 0 /\ Waiting(calls) /\ 4 <= offset
      /\ calls[1].done \in Nat /\ calls[1].count \in Nat
  BY <1>1, WhereItReads
<1>3. /\ calls \in Seq(Calls) /\ buffer \in Seq(Byte) /\ ss \in Seq(Texts) /\ offset \in Nat
  BY DEF ReaderOK
<1>4. PICK n \in Nat : n <= calls[1].count /\ calls' = Done(calls, n)
  BY <1>1, <1>2 DEF Fails, OneDone
<1>5. calls' \in Seq(Calls) /\ Waiting(calls') /\ Len(calls') = Len(calls)
  BY <1>2, <1>3, <1>4, CallsDone
<1>6. calls' # << >>
  BY <1>2, <1>5
<1>7. Says(ss, calls, Null) \in Seq(Texts)
  BY <1>3, SaysIsStream, OtherTexts
<1>8. ss' \in Seq(Texts)
  BY <1>3, <1>7 DEF Fails
<1>9. offset' = at /\ buffer' = buffer /\ stage' = "reads"
  BY <1>1 DEF Fails
<1>10. CallsSound'
  BY <1>5, <1>6, <1>9 DEF CallsSound, Waiting
<1>11. ReadsInside'
  BY <1>2, <1>3, <1>9 DEF ReadsInside
<1>. QED  BY <1>3, <1>5, <1>8, <1>9, <1>10, <1>11 DEF ReaderOK

LEMMA BeginsOK ==
  ASSUME ReaderOK, Due, NEW t \in Types, NEW count \in Nat, NEW at \in Nat,
         offset <= at, at <= Len(buffer), t.kind \in Containers,
         t.kind = "message" => count = Len(t.members), Begins(t, count, at)
  PROVE  ReaderOK'
<1>1. stage = "reads" /\ calls[1].done < calls[1].count
  BY DEF Due
<1>2. Len(calls) # 0 /\ Waiting(calls) /\ 4 <= offset
  BY <1>1, WhereItReads
<1>3. /\ calls \in Seq(Calls) /\ buffer \in Seq(Byte) /\ ss \in Seq(Texts) /\ offset \in Nat
      /\ Len(calls) \in Nat
  BY LenProperties DEF ReaderOK
<1>. DEFINE c == [type |-> t, count |-> count, done |-> 0]
            w == <<c>> \o calls
<1>4. c \in Calls /\ c.type = t /\ c.count = count /\ c.done = 0
  BY DEF Calls
<1>5. calls' = w
  BY DEF Begins
<1>. HIDE DEF c
<1>6. w \in Seq(Calls) /\ Waiting(w) /\ Len(w) = Len(calls) + 1
  BY <1>1, <1>2, <1>3, <1>4, CallsPush
<1>7. w # << >>
  BY <1>3, <1>6
<1>. HIDE DEF w
<1>8. Says(ss, calls, Opened) \in Seq(Texts)
  BY <1>3, SaysIsStream, OtherTexts
<1>9. /\ offset' = at /\ buffer' = buffer /\ stage' = "reads"
      /\ ss' = Says(ss, calls, Opened)
  BY <1>1 DEF Begins
<1>10. CallsSound'
  BY <1>5, <1>6, <1>7, <1>9 DEF CallsSound, Waiting
<1>11. ReadsInside'
  BY <1>2, <1>3, <1>9 DEF ReadsInside
<1>. QED  BY <1>3, <1>5, <1>6, <1>8, <1>9, <1>10, <1>11 DEF ReaderOK

LEMMA ReadScalarOK ==
  ASSUME ReaderOK, ReadScalar
  PROVE  ReaderOK'
<1>. DEFINE at == AlignOffset(Part.size)
            b == HostBytes(at, Part.size)
            read == IF Part.kind = "bool" /\ b # <<0>> THEN <<1>> ELSE b
<1>1. /\ Due /\ IsScalar(Part)
      /\ \/ Fits(at, Part.size) /\ Succeeds(ScalarText(Part, read), at + Part.size)
         \/ ~Fits(at, Part.size) /\ Fails(at)
  BY DEF ReadScalar
<1>2. /\ Part \in Types /\ offset <= Len(buffer) /\ Len(buffer) \in Nat
      /\ offset \in Nat /\ buffer \in Seq(Byte)
  BY <1>1, WhereItReads DEF Due, ReaderOK
<1>3. Part.size \in Sizes /\ Part.size \in Nat
  BY <1>1, <1>2, TypesAreTrees DEF Sizes
<1>4. at \in Nat /\ offset <= at /\ at <= Len(buffer)
  BY <1>2, <1>3, AlignIs
<1>. HIDE DEF at
<1>5. b \in Seq(Byte)
  BY <1>2, <1>3, <1>4, HostBytesAreBytes
<1>. HIDE DEF b
<1>6. <<1>> \in Seq(Byte)
  BY DEF Byte
<1>7. read \in Seq(Byte)
  BY <1>5, <1>6
<1>. HIDE DEF read
<1>8. ScalarText(Part, read) \in Texts
  BY <1>7, ScalarTextIsText
<1>9. CASE Fits(at, Part.size) /\ Succeeds(ScalarText(Part, read), at + Part.size)
  <2>. DEFINE to == at + Part.size
  <2>1. to \in Nat /\ offset <= to /\ to <= Len(buffer)
    BY <1>2, <1>3, <1>4, <1>9 DEF Fits
  <2>. HIDE DEF to
  <2>2. Succeeds(ScalarText(Part, read), to)
    BY <1>9 DEF to
  <2>. QED  BY <1>1, <1>8, <2>1, <2>2, SucceedsOK
<1>10. CASE Fails(at)
  BY <1>1, <1>4, <1>10, FailsOK
<1>. QED  BY <1>1, <1>9, <1>10

LEMMA ReadStringOK ==
  ASSUME ReaderOK, ReadString
  PROVE  ReaderOK'
<1>. DEFINE at == AlignOffset(4)
            len == CountAt(at)
            s == Characters(at + 4, len)
            to == at + 4 + len
<1>1. /\ Due
      /\ \/ ~Fits(at, 4) /\ Fails(at)
         \/ Fits(at, 4) /\ ~Fits(at + 4, len) /\ Fails(at + 4)
         \/ Fits(at, 4) /\ Fits(at + 4, len) /\ Succeeds(EchoText(s), to)
         \/ /\ Fits(at, 4) /\ Fits(at + 4, len)
            /\ stage' = "threw" /\ calls' = << >> /\ offset' = to
            /\ UNCHANGED <<buffer, ss>>
  BY DEF ReadString
<1>2. /\ offset <= Len(buffer) /\ Len(buffer) \in Nat /\ 4 <= offset
      /\ offset \in Nat /\ buffer \in Seq(Byte) /\ ss \in Seq(Texts)
  BY <1>1, WhereItReads DEF Due, ReaderOK
<1>3. 4 \in Sizes
  BY DEF Sizes
<1>4. at \in Nat /\ offset <= at /\ at <= Len(buffer)
  BY <1>2, <1>3, AlignIs
<1>. HIDE DEF at
<1>5. len \in Nat
  BY <1>2, <1>4, CountIsNat
<1>. HIDE DEF len
<1>6. at + 4 \in Nat /\ offset <= at + 4 /\ to \in Nat /\ offset <= to
  BY <1>2, <1>4, <1>5
<1>7. Fits(at, 4) => at + 4 <= Len(buffer)
  BY DEF Fits
<1>8. Fits(at + 4, len) => to <= Len(buffer)
  BY DEF Fits
<1>9. s \in Seq(Byte)
  BY <1>2, <1>5, <1>6, CharactersAreBytes
<1>. HIDE DEF s, to
<1>10. EchoText(s) \in Texts
  BY <1>9 DEF EchoText, Quoted, Texts
<1>11. CASE Fails(at)
  BY <1>1, <1>4, <1>11, FailsOK
<1>12. CASE Fits(at, 4) /\ Fails(at + 4)
  BY <1>1, <1>6, <1>7, <1>12, FailsOK
<1>13. CASE Fits(at + 4, len) /\ Succeeds(EchoText(s), to)
  BY <1>1, <1>6, <1>8, <1>10, <1>13, SucceedsOK
<1>14. CASE /\ Fits(at + 4, len)
            /\ stage' = "threw" /\ calls' = << >> /\ offset' = to
            /\ UNCHANGED <<buffer, ss>>
  <2>1. CallsSound'
    BY <1>14 DEF CallsSound, Waiting
  <2>2. ReadsInside'
    BY <1>2, <1>6, <1>8, <1>14 DEF ReadsInside
  <2>3. calls' \in Seq(Calls)
    BY <1>14, EmptySeq
  <2>. QED  BY <1>2, <1>6, <1>14, <2>1, <2>2, <2>3 DEF ReaderOK
<1>. QED  BY <1>1, <1>11, <1>12, <1>13, <1>14

LEMMA ReadWideOK ==
  ASSUME ReaderOK, ReadWide
  PROVE  ReaderOK'
<1>1. Due /\ Fails(offset)
  BY DEF ReadWide
<1>2. offset \in Nat /\ offset <= offset /\ offset <= Len(buffer)
  BY <1>1, WhereItReads DEF Due, ReaderOK
<1>. QED  BY <1>1, <1>2, FailsOK

LEMMA BeginArrayOK ==
  ASSUME ReaderOK, BeginArray
  PROVE  ReaderOK'
<1>. DEFINE at == AlignOffset(4)
<1>1. /\ Due /\ IsArray(Part)
      /\ \/ ~HasCount(Part) /\ Begins(Part, Part.size, at)
         \/ HasCount(Part) /\ Fits(at, 4) /\ Begins(Part, CountAt(at), at + 4)
         \/ HasCount(Part) /\ ~Fits(at, 4) /\ Fails(at)
  BY DEF BeginArray
<1>2. /\ Part \in Types /\ offset <= Len(buffer) /\ Len(buffer) \in Nat
      /\ offset \in Nat /\ buffer \in Seq(Byte)
  BY <1>1, WhereItReads DEF Due, ReaderOK
<1>3. Part.size \in Nat /\ Part.kind \in Containers /\ Part.kind # "message"
  BY <1>1, <1>2, TypesAreTrees DEF IsArray, Containers
<1>4. 4 \in Sizes
  BY DEF Sizes
<1>5. at \in Nat /\ offset <= at /\ at <= Len(buffer)
  BY <1>2, <1>4, AlignIs
<1>. HIDE DEF at
<1>6. CountAt(at) \in Nat
  BY <1>2, <1>5, CountIsNat
<1>7. at + 4 \in Nat /\ offset <= at + 4 /\ (Fits(at, 4) => at + 4 <= Len(buffer))
  BY <1>2, <1>5 DEF Fits
<1>8. CASE Begins(Part, Part.size, at)
  BY <1>1, <1>2, <1>3, <1>5, <1>8, BeginsOK
<1>9. CASE Fits(at, 4) /\ Begins(Part, CountAt(at), at + 4)
  BY <1>1, <1>2, <1>3, <1>6, <1>7, <1>9, BeginsOK
<1>10. CASE Fails(at)
  BY <1>1, <1>5, <1>10, FailsOK
<1>. QED  BY <1>1, <1>8, <1>9, <1>10

LEMMA BeginMessageOK ==
  ASSUME ReaderOK, BeginMessage
  PROVE  ReaderOK'
<1>1. Due /\ Part.kind = "message" /\ Begins(Part, Len(Part.members), offset)
  BY DEF BeginMessage
<1>2. /\ Part \in Types /\ offset <= Len(buffer) /\ offset <= offset /\ offset \in Nat
  BY <1>1, WhereItReads DEF Due, ReaderOK
<1>3. Len(Part.members) \in Nat /\ Part.kind \in Containers
  BY <1>1, <1>2, TypesAreTrees DEF Containers
<1>. QED  BY <1>1, <1>2, <1>3, BeginsOK

LEMMA ReturnsOK ==
  ASSUME ReaderOK, Returns
  PROVE  ReaderOK'
<1>. DEFINE cut == IsArray(calls[1].type) /\ calls[1].count > MaxShown
<1>1. /\ stage = "reads"
      /\ ss' = Says(ss, Tail(calls), Closed(cut))
      /\ calls' = Left(calls)
      /\ stage' = IF Len(calls) = 1 THEN "returned" ELSE "reads"
      /\ buffer' = buffer /\ offset' = offset
  BY DEF Returns
<1>2. /\ buffer \in Seq(Byte) /\ offset \in Nat /\ calls \in Seq(Calls) /\ ss \in Seq(Texts)
  BY DEF ReaderOK
<1>3. cut \in BOOLEAN
  OBVIOUS
<1>. HIDE DEF cut
<1>4. ss' \in Seq(Texts)
  BY <1>1, <1>2, <1>3, SaysIsStream, OtherTexts
<1>5. Len(calls) \in Nat /\ Len(calls) # 0 /\ Waiting(calls)
  BY <1>1, WhereItReads
<1>6. calls' \in Seq(Calls) /\ Waiting(calls') /\ Len(calls') = Len(calls) - 1
  BY <1>1, <1>2, <1>5, CallsLeft
<1>7. Len(calls) = 1 <=> calls' = << >>
  <2>1. Len(calls) = 1 <=> Len(calls') = 0
    BY <1>5, <1>6
  <2>. QED  BY <1>6, <2>1, EmptySeq
<1>8. stage' \in {"reads", "returned"} /\ (stage' = "reads" <=> calls' # << >>)
  BY <1>1, <1>7
<1>9. CallsSound'
  BY <1>6, <1>8 DEF CallsSound, Waiting
<1>10. ReadsInside'
  BY <1>1 DEF ReadsInside, ReaderOK
<1>. QED  BY <1>1, <1>2, <1>4, <1>6, <1>8, <1>9, <1>10 DEF ReaderOK

LEMMA ParseFieldOK ==
  ASSUME ReaderOK, parse_cdr_field
  PROVE  ReaderOK'
BY ReadScalarOK, ReadStringOK, ReadWideOK, BeginArrayOK, BeginMessageOK, ReturnsOK
   DEF parse_cdr_field

LEMMA ParseOK ==
  ASSUME NEW t \in Types, t.kind = "message", NEW w \in Seq(Byte), 4 <= Len(w),
         parse_cdr_to_json(t, w)
  PROVE  ReaderOK'
<1>. DEFINE c == [type |-> t, count |-> Len(t.members), done |-> 0]
<1>1. /\ stage' = "reads" /\ buffer' = w /\ offset' = 4
      /\ calls' = <<c>> /\ ss' = <<Opened>>
  BY DEF parse_cdr_to_json
<1>2. Len(t.members) \in Nat
  BY TypesAreTrees
<1>3. c \in Calls /\ c.type = t /\ c.count = Len(t.members) /\ c.done = 0
  BY <1>2 DEF Calls
<1>. HIDE DEF c
<1>4. <<c>> \in Seq(Calls) /\ Len(<<c>>) = 1 /\ <<c>>[1] = c /\ <<c>> # << >>
  BY <1>3
<1>5. <<Opened>> \in Seq(Texts)
  BY OtherTexts
<1>6. c.done <= c.count /\ c.type.kind \in Containers
  BY <1>2, <1>3 DEF Containers
<1>7. Waiting(<<c>>)
  BY <1>3, <1>4, <1>6 DEF Waiting
<1>8. CallsSound'
  BY <1>1, <1>4, <1>7 DEF CallsSound, Waiting
<1>9. ReadsInside'
  BY <1>1 DEF ReadsInside
<1>. QED  BY <1>1, <1>4, <1>5, <1>8, <1>9 DEF ReaderOK

-----------------------------------------------------------------------------
(***************************************************************************)
(* The decoder reads what the serializer put.                              *)
(***************************************************************************)
\* The decoder is where the serializer was at s, but for the padding that it
\* has skipped at the beginning of a fixed array.
Offset(s, w) ==
  IF s.moved /\ Up(Len(s.wire), 4) <= Len(w) THEN Up(Len(s.wire), 4)
  ELSE IF s.moved THEN Len(w) ELSE Len(s.wire)

\* The calls of the decoder and what the serializer is in.
Alike(w, puts) ==
  /\ Len(w) = Len(puts)
  /\ \A i \in 1..Len(w) :
       /\ w[i].type = puts[i].type /\ w[i].done = puts[i].done
       /\ w[i].count = Len(puts[i].value)

Matches(s) == Alike(calls, s.puts) /\ ss = s.said /\ offset = Offset(s, buffer)

LEMMA AlignMatches ==
  ASSUME buffer \in Seq(Byte), NEW s, s.wire \in Seq(Byte), s.moved \in BOOLEAN,
         NEW a \in Sizes, s.moved => a >= 4,
         offset = Offset(s, buffer), Up(Len(s.wire), a) <= Len(buffer)
  PROVE  AlignOffset(a) = Up(Len(s.wire), a)
<1>1. Len(buffer) \in Nat /\ Len(s.wire) \in Nat
  BY LenProperties
<1>2. CASE ~s.moved
  <2>1. offset = Len(s.wire)
    BY <1>2 DEF Offset
  <2>. QED  BY <2>1 DEF AlignOffset, Up
<1>3. CASE s.moved
  <2>1. a \in {4, 8}
    BY <1>3 DEF Sizes
  <2>2. PICK n \in Nat : n = Len(s.wire)
    BY <1>1
  <2>3. Up(Up(n, 4), a) = Up(n, a) /\ Up(n, 4) <= Up(n, a)
    BY <2>1, UpTwice
  <2>4. 4 \in Sizes
    BY DEF Sizes
  <2>5. Up(n, 4) \in Nat /\ Up(n, a) \in Nat
    BY <2>4, UpIsNext
  <2>6. Up(n, 4) <= Len(buffer)
    BY <1>1, <2>2, <2>3, <2>5
  <2>7. offset = Up(n, 4)
    BY <1>3, <2>2, <2>6 DEF Offset
  <2>8. AlignOffset(a) = IF Up(offset, a) <= Len(buffer) THEN Up(offset, a) ELSE Len(buffer)
    BY DEF AlignOffset, Up
  <2>. QED  BY <2>2, <2>3, <2>7, <2>8
<1>. QED  BY <1>2, <1>3

\* Where a fixed array begins for the decoder.
LEMMA FixedMatches ==
  ASSUME buffer \in Seq(Byte), NEW s, s.wire \in Seq(Byte), s.moved \in BOOLEAN,
         offset = Offset(s, buffer), Len(s.wire) <= Len(buffer), NEW t,
         t.wire = s.wire, t.moved = (Len(s.wire) % 4 # 0)
  PROVE  AlignOffset(4) = Offset(t, buffer)
<1>1. Len(buffer) \in Nat
  BY LenProperties
<1>2. PICK n \in Nat : n = Len(s.wire)
  BY LenProperties
<1>3. AlignOffset(4) = IF Up(offset, 4) <= Len(buffer) THEN Up(offset, 4) ELSE Len(buffer)
  BY DEF AlignOffset, Up
<1>4. 4 \in Sizes
  BY DEF Sizes
<1>5. Up(n, 4) \in Nat /\ Up(Len(buffer), 4) \in Nat /\ Len(buffer) <= Up(Len(buffer), 4)
  BY <1>1, <1>4, UpIsNext
<1>6. Up(Up(n, 4), 4) = Up(n, 4)
  BY UpTwice
<1>7. CASE n % 4 = 0
  <2>1. Up(n, 4) = n
    BY <1>7, UpSame
  <2>2. offset = n
    BY <1>2, <2>1 DEF Offset
  <2>3. Offset(t, buffer) = n
    BY <1>2, <1>7 DEF Offset
  <2>. QED  BY <1>2, <1>3, <2>1, <2>2, <2>3
<1>8. CASE n % 4 # 0
  <2>. DEFINE at == IF Up(n, 4) <= Len(buffer) THEN Up(n, 4) ELSE Len(buffer)
  <2>1. Offset(t, buffer) = at
    BY <1>2, <1>8 DEF Offset
  <2>2. CASE s.moved
    <3>1. offset = at
      BY <1>2, <2>2 DEF Offset
    <3>2. CASE Up(n, 4) <= Len(buffer)
      BY <1>3, <1>6, <2>1, <3>1, <3>2
    <3>3. CASE ~(Up(n, 4) <= Len(buffer))
      <4>1. offset = Len(buffer)
        BY <3>1, <3>3
      <4>. QED  BY <1>1, <1>3, <1>5, <2>1, <3>3, <4>1
    <3>. QED  BY <3>2, <3>3
  <2>3. CASE ~s.moved
    <3>1. offset = n
      BY <1>2, <2>3 DEF Offset
    <3>. QED  BY <1>3, <2>1, <3>1
  <2>. QED  BY <2>2, <2>3
<1>. QED  BY <1>7, <1>8

\* The header of what is on the wire.
LEMMA OrderMatches ==
  ASSUME NEW s, SenderSound(s), buffer = s.wire
  PROVE  s.little \in BOOLEAN /\ (is_cdr_stream_little_endian <=> s.little)
<1>1. s.little \in BOOLEAN
  BY DEF SenderSound, Senders
<1>2. buffer[1] = 0 /\ buffer[2] = IF s.little THEN 1 ELSE 0
  BY DEF SenderSound
<1>. QED  BY <1>1, <1>2 DEF is_cdr_stream_little_endian

LEMMA NumberMatches ==
  ASSUME buffer \in Seq(Byte), NEW little \in BOOLEAN, is_cdr_stream_little_endian <=> little,
         NEW b \in Seq(Byte), NEW at \in Nat, at + Len(b) <= Len(buffer),
         \A i \in 1..Len(b) : buffer[at + i] = Ordered(b, little)[i]
  PROVE  HostBytes(at, Len(b)) = b
<1>1. PICK n \in Nat : n = Len(b)
  BY LenProperties
<1>2. Len(buffer) \in Nat /\ DOMAIN buffer = 1..Len(buffer)
  BY LenProperties
<1>3. \A i \in 1..n : buffer[at + i] = IF little THEN b[i] ELSE b[n + 1 - i]
  BY <1>1, OrderedIsBytes
<1>4. \A i \in 1..n : ByteAt(at + i) = buffer[at + i]
  BY <1>1, <1>2 DEF ByteAt
<1>5. /\ HostBytes(at, n) \in Seq(Byte) /\ Len(HostBytes(at, n)) = n
  BY HostBytesAreBytes
<1>6. ASSUME NEW i \in 1..n  PROVE HostBytes(at, n)[i] = b[i]
  <2>1. CASE little
    <3>1. HostBytes(at, n)[i] = ByteAt(at + i)
      BY <2>1 DEF HostBytes
    <3>. QED  BY <1>3, <1>4, <2>1, <3>1
  <2>2. CASE ~little
    <3>1. HostBytes(at, n)[i] = ByteAt(at + (n + 1 - i))
      BY <2>2 DEF HostBytes
    <3>2. PICK j \in 1..n : j = n + 1 - i /\ i = n + 1 - j
      OBVIOUS
    <3>. QED  BY <1>3, <1>4, <2>2, <3>1, <3>2
  <2>. QED  BY <2>1, <2>2
<1>. QED  BY <1>1, <1>5, <1>6, SeqEqual

LEMMA CountMatches ==
  ASSUME buffer \in Seq(Byte), NEW little \in BOOLEAN, is_cdr_stream_little_endian <=> little,
         NEW n \in Nat, n <= 65535, NEW at \in Nat, at + 4 <= Len(buffer),
         \A i \in 1..4 : buffer[at + i] = CountBytes(n, little)[i]
  PROVE  CountAt(at) = n
<1>. DEFINE c == CountBytes(n, little)
<1>1. IF little THEN c[3] = 0 /\ c[4] = 0 /\ c[1] + 256 * c[2] = n
      ELSE c[2] = 0 /\ c[1] = 0 /\ c[4] + 256 * c[3] = n
  BY CountIsBytes
<1>. HIDE DEF c
<1>2. DOMAIN buffer = 1..Len(buffer) /\ Len(buffer) \in Nat
  BY LenProperties
<1>3. \A i \in 1..4 : ByteAt(at + i) = c[i]
  BY <1>2 DEF ByteAt, c
<1>. DEFINE b == HostBytes(at, 4)
<1>4. CASE little
  <2>1. b[1] = c[1] /\ b[2] = c[2] /\ b[3] = c[3] /\ b[4] = c[4]
    <3>1. b = [i \in 1..4 |-> ByteAt(at + i)]
      BY <1>4 DEF HostBytes
    <3>. QED  BY <1>3, <3>1
  <2>. HIDE DEF b
  <2>. QED  BY <1>1, <1>4, <2>1 DEF CountAt, b
<1>5. CASE ~little
  <2>1. b[1] = c[4] /\ b[2] = c[3] /\ b[3] = c[2] /\ b[4] = c[1]
    <3>1. b = [i \in 1..4 |-> ByteAt(at + (5 - i))]
      BY <1>5 DEF HostBytes
    <3>. QED  BY <1>3, <3>1
  <2>. HIDE DEF b
  <2>. QED  BY <1>1, <1>5, <2>1 DEF CountAt, b
<1>. QED  BY <1>4, <1>5

LEMMA CharactersMatch ==
  ASSUME buffer \in Seq(Byte), NEW s \in Seq(Byte), NEW at \in Nat,
         at + Len(s) + 1 <= Len(buffer), buffer[at + Len(s) + 1] = 0,
         \A i \in 1..Len(s) : buffer[at + i] = s[i]
  PROVE  Characters(at, Len(s) + 1) = s
<1>1. PICK n \in Nat : n = Len(s)
  BY LenProperties
<1>2. DOMAIN buffer = 1..Len(buffer) /\ Len(buffer) \in Nat
  BY LenProperties
<1>3. \A i \in 1..(n + 1) : ByteAt(at + i) = buffer[at + i]
  BY <1>1, <1>2 DEF ByteAt
<1>4. ByteAt(at + (n + 1)) = 0
  <2>1. at + (n + 1) = at + Len(s) + 1 /\ n + 1 \in 1..(n + 1)
    BY <1>1
  <2>. QED  BY <1>3, <2>1
<1>5. n + 1 > 0 /\ (n + 1) - 1 = n
  OBVIOUS
<1>6. Characters(at, n + 1) = [i \in 1..n |-> ByteAt(at + i)]
  BY <1>4, <1>5 DEF Characters
<1>7. \A i \in 1..n : Characters(at, n + 1)[i] = s[i]
  BY <1>1, <1>3, <1>6
<1>8. Characters(at, n + 1) \in Seq(Byte)
  BY CharactersAreBytes
<1>9. Len(Characters(at, n + 1)) = n
  BY <1>6, <1>8, LenProperties
<1>. QED  BY <1>1, <1>7, <1>8, <1>9, SeqEqual

LEMMA StringMatches ==
  ASSUME buffer \in Seq(Byte), NEW little \in BOOLEAN, is_cdr_stream_little_endian <=> little,
         NEW s \in Seq(Byte), Len(s) + 1 <= 65535, NEW at \in Nat,
         at + Len(StringBytes(s, little)) <= Len(buffer),
         \A i \in 1..Len(StringBytes(s, little)) : buffer[at + i] = StringBytes(s, little)[i]
  PROVE  /\ CountAt(at) = Len(s) + 1 /\ Characters(at + 4, Len(s) + 1) = s
         /\ Fits(at, 4) /\ Fits(at + 4, Len(s) + 1)
         /\ at + 4 + (Len(s) + 1) = at + Len(StringBytes(s, little))
<1>1. PICK n \in Nat : n = Len(s)
  BY LenProperties
<1>2. PICK m \in Nat : m = n + 1
  OBVIOUS
<1>3. PICK from \in Nat : from = at + 4
  OBVIOUS
<1>. DEFINE b == StringBytes(s, little)
<1>4. /\ Len(b) = n + 5
      /\ \A i \in 1..4 : b[i] = CountBytes(m, little)[i]
      /\ \A i \in 1..n : b[4 + i] = s[i]
      /\ b[n + 5] = 0
  BY <1>1, <1>2, StringBytesAreBytes
<1>. HIDE DEF b
<1>5. Len(buffer) \in Nat
  BY LenProperties
<1>6. at + (n + 5) <= Len(buffer) /\ \A i \in 1..(n + 5) : buffer[at + i] = b[i]
  BY <1>4 DEF b
<1>7. at + 4 <= Len(buffer) /\ from + n + 1 <= Len(buffer) /\ from + m <= Len(buffer)
  BY <1>2, <1>3, <1>5, <1>6
<1>8. CountAt(at) = m
  <2>1. m <= 65535
    BY <1>1, <1>2
  <2>2. \A i \in 1..4 : buffer[at + i] = CountBytes(m, little)[i]
    BY <1>4, <1>6
  <2>. QED  BY <1>7, <2>1, <2>2, CountMatches, SMTT(30)
<1>9. Characters(from, m) = s
  <2>1. buffer[from + n + 1] = 0
    <3>1. PICK k \in 1..(n + 5) : k = n + 5
      BY SMTT(30)
    <3>2. buffer[at + k] = b[k]
      BY <1>6
    <3>3. from + n + 1 = at + k
      BY <1>3, <3>1
    <3>4. b[k] = 0
      BY <1>4, <3>1
    <3>. QED  BY <3>2, <3>3, <3>4
  <2>2. ASSUME NEW i \in 1..n  PROVE buffer[from + i] = s[i]
    <3>1. PICK k \in 1..(n + 5) : k = 4 + i
      BY SMTT(30)
    <3>2. buffer[at + k] = b[k]
      BY <1>6
    <3>3. from + i = at + k
      BY <1>3, <3>1
    <3>4. b[k] = s[i]
      BY <1>4, <3>1
    <3>. QED  BY <3>2, <3>3, <3>4
  <2>3. Characters(from, Len(s) + 1) = s
    BY <1>1, <1>7, <2>1, <2>2, CharactersMatch
  <2>. QED  BY <1>1, <1>2, <2>3
<1>10. Fits(at, 4) /\ Fits(from, m)
  BY <1>7 DEF Fits
<1>11. at + 4 + m = at + Len(b)
  BY <1>2, <1>4
<1>. QED  BY <1>1, <1>2, <1>3, <1>8, <1>9, <1>10, <1>11 DEF b

LEMMA AlikeHidden ==
  ASSUME NEW w \in Seq(Calls), NEW puts \in Seq(Frames), Alike(w, puts)
  PROVE  Hidden(w) <=> Hidden(puts)
<1>1. DOMAIN w = 1..Len(w) /\ DOMAIN puts = 1..Len(w)
  BY LenProperties DEF Alike
<1>. QED  BY <1>1 DEF Alike, Hidden

LEMMA AlikeSays ==
  ASSUME NEW w \in Seq(Calls), NEW puts \in Seq(Frames), Alike(w, puts), NEW stream, NEW x
  PROVE  Says(stream, w, x) = Says(stream, puts, x)
BY AlikeHidden DEF Says

LEMMA AlikeTail ==
  ASSUME NEW w \in Seq(Calls), NEW puts \in Seq(Frames), Alike(w, puts), Len(w) # 0
  PROVE  /\ Tail(w) \in Seq(Calls) /\ Tail(puts) \in Seq(Frames)
         /\ Alike(Tail(w), Tail(puts))
<1>1. Len(w) \in Nat /\ Len(puts) = Len(w)
  BY LenProperties DEF Alike
<1>. DEFINE v == Tail(w)
            q == Tail(puts)
<1>2. /\ v \in Seq(Calls) /\ Len(v) = Len(w) - 1
      /\ \A i \in 1..(Len(w) - 1) : v[i] = w[i + 1]
  BY TailIsWalk
<1>3. /\ q \in Seq(Frames) /\ Len(q) = Len(w) - 1
      /\ \A i \in 1..(Len(w) - 1) : q[i] = puts[i + 1]
  BY <1>1, TailIsWalk
<1>. HIDE DEF v, q
<1>4. Alike(v, q)
  <2>1. ASSUME NEW i \in 1..Len(v)
        PROVE  v[i].type = q[i].type /\ v[i].done = q[i].done /\ v[i].count = Len(q[i].value)
    <3>1. PICK j \in 1..Len(w) : j = i + 1
      BY <1>1, <1>2
    <3>2. v[i] = w[j] /\ q[i] = puts[j]
      BY <1>2, <1>3, <3>1
    <3>3. w[j].type = puts[j].type /\ w[j].done = puts[j].done /\ w[j].count = Len(puts[j].value)
      BY DEF Alike
    <3>. QED  BY <3>2, <3>3
  <2>. QED  BY <1>2, <1>3, <2>1 DEF Alike
<1>. QED  BY <1>2, <1>3, <1>4 DEF v, q

LEMMA AlikeDone ==
  ASSUME NEW w \in Seq(Calls), NEW puts \in Seq(Frames), Alike(w, puts), Len(w) # 0,
         Waiting(w), w[1].done < w[1].count, Stacked(puts)
  PROVE  Alike(OneDone(w), OneDone(puts))
<1>1. Len(w) \in Nat /\ Len(puts) = Len(w) /\ 1 \in 1..Len(w)
  BY LenProperties DEF Alike
<1>2. w[1] \in Calls /\ puts[1] \in Frames
  BY <1>1, ElementOfSeq
<1>3. /\ w[1].done \in Nat /\ w[1].count \in Nat
      /\ w[1].type = puts[1].type /\ w[1].done = puts[1].done /\ w[1].count = Len(puts[1].value)
  BY <1>1, <1>2 DEF Calls, Alike
<1>. DEFINE n == w[1].done + 1
            v == OneDone(w)
            q == OneDone(puts)
<1>4. n \in Nat /\ n <= w[1].count
  BY <1>3
<1>5. v = Done(w, n)
  BY DEF OneDone
<1>6. /\ Len(v) = Len(w) /\ v[1] = [w[1] EXCEPT !.done = n]
      /\ \A i \in 2..Len(w) : v[i] = w[i]
  BY <1>4, <1>5, CallsDone
<1>7. /\ Len(q) = Len(w) /\ q[1] = [puts[1] EXCEPT !.done = puts[1].done + 1]
      /\ \A i \in 2..Len(w) : q[i] = puts[i]
  BY <1>1, <1>3, StackDone
<1>8. v[1].type = w[1].type /\ v[1].done = n /\ v[1].count = w[1].count
  BY <1>2, <1>6 DEF Calls
<1>9. puts[1] = Frame(Value(puts[1].type, puts[1].value), puts[1].done)
  BY <1>2, FramesAreValues
<1>10. q[1].type = puts[1].type /\ q[1].done = n /\ q[1].value = puts[1].value
  BY <1>3, <1>7, <1>9 DEF Frame
<1>. HIDE DEF v, q, n
<1>11. ASSUME NEW i \in 1..Len(v)
       PROVE  v[i].type = q[i].type /\ v[i].done = q[i].done /\ v[i].count = Len(q[i].value)
  <2>1. CASE i = 1
    BY <1>3, <1>8, <1>10, <2>1
  <2>2. CASE i # 1
    <3>1. i \in 2..Len(w) /\ i \in 1..Len(w)
      BY <1>1, <1>6, <2>2
    <3>. QED  BY <1>6, <1>7, <3>1 DEF Alike
  <2>. QED  BY <2>1, <2>2
<1>. QED  BY <1>6, <1>7, <1>11 DEF Alike, v, q

LEMMA AlikePush ==
  ASSUME NEW w \in Seq(Calls), NEW puts \in Seq(Frames), Alike(w, puts), Len(w) # 0,
         Waiting(w), w[1].done < w[1].count, Stacked(puts),
         NEW x \in Values, x.type.kind \in Containers, NEW c \in Calls,
         c = [type |-> x.type, count |-> Len(x.value), done |-> 0]
  PROVE  Alike(<<c>> \o w, <<In(x)>> \o puts)
<1>1. Len(w) \in Nat /\ Len(puts) = Len(w) /\ 1 \in 1..Len(w)
  BY LenProperties DEF Alike
<1>2. In(x) \in Frames /\ In(x).type = x.type /\ In(x).value = x.value /\ In(x).done = 0
  BY InIsFrame
<1>3. c.type = x.type /\ c.count = Len(x.value) /\ c.done = 0
  OBVIOUS
<1>. DEFINE v == <<c>> \o w
            q == <<In(x)>> \o puts
<1>4. Len(v) = Len(w) + 1 /\ v[1] = c /\ \A i \in 2..(Len(w) + 1) : v[i] = w[i - 1]
  BY PushIsWalk
<1>5. Len(q) = Len(w) + 1 /\ q[1] = In(x) /\ \A i \in 2..(Len(w) + 1) : q[i] = puts[i - 1]
  BY <1>1, <1>2, PushIsWalk
<1>. HIDE DEF v, q
<1>6. ASSUME NEW i \in 1..Len(v)
      PROVE  v[i].type = q[i].type /\ v[i].done = q[i].done /\ v[i].count = Len(q[i].value)
  <2>1. CASE i = 1
    BY <1>2, <1>3, <1>4, <1>5, <2>1
  <2>2. CASE i # 1
    <3>1. i \in 2..(Len(w) + 1) /\ i - 1 \in 1..Len(w)
      BY <1>1, <1>4, <2>2
    <3>. QED  BY <1>4, <1>5, <3>1 DEF Alike
  <2>. QED  BY <2>1, <2>2
<1>. QED  BY <1>4, <1>5, <1>6 DEF Alike, v, q

LEMMA AlikeLeft ==
  ASSUME NEW w \in Seq(Calls), NEW puts \in Seq(Frames), Alike(w, puts), Len(w) # 0,
         Waiting(w), Stacked(puts)
  PROVE  Alike(Left(w), Left(puts))
<1>1. Len(w) \in Nat /\ Len(puts) = Len(w)
  BY LenProperties DEF Alike
<1>. DEFINE v == Left(w)
            q == Left(puts)
<1>2. /\ Len(v) = Len(w) - 1
      /\ Len(w) > 1 => v[1] = [w[2] EXCEPT !.done = w[2].done + 1]
      /\ \A i \in 2..(Len(w) - 1) : v[i] = w[i + 1]
  BY CallsLeft
<1>3. /\ Len(q) = Len(w) - 1
      /\ Len(w) > 1 => q[1] = [puts[2] EXCEPT !.done = puts[2].done + 1]
      /\ \A i \in 2..(Len(w) - 1) : q[i] = puts[i + 1]
  BY <1>1, StackLeft
<1>. HIDE DEF v, q
<1>4. ASSUME NEW i \in 1..Len(v)
      PROVE  v[i].type = q[i].type /\ v[i].done = q[i].done /\ v[i].count = Len(q[i].value)
  <2>1. CASE i = 1
    <3>1. Len(w) > 1 /\ 2 \in 1..Len(w)
      BY <1>1, <1>2
    <3>2. w[2] \in Calls /\ puts[2] \in Frames
      BY <1>1, <3>1, ElementOfSeq
    <3>3. w[2].type = puts[2].type /\ w[2].done = puts[2].done /\ w[2].count = Len(puts[2].value)
      BY <3>1 DEF Alike
    <3>4. v[1].type = w[2].type /\ v[1].done = w[2].done + 1 /\ v[1].count = w[2].count
      BY <1>2, <3>1, <3>2 DEF Calls
    <3>5. puts[2] = Frame(Value(puts[2].type, puts[2].value), puts[2].done)
      BY <3>2, FramesAreValues
    <3>6. q[1].type = puts[2].type /\ q[1].done = puts[2].done + 1 /\ q[1].value = puts[2].value
      BY <1>3, <3>1, <3>5 DEF Frame
    <3>. QED  BY <2>1, <3>3, <3>4, <3>6
  <2>2. CASE i # 1
    <3>1. i \in 2..(Len(w) - 1) /\ i + 1 \in 1..Len(w)
      BY <1>1, <1>2, <2>2
    <3>. QED  BY <1>2, <1>3, <3>1 DEF Alike
  <2>. QED  BY <2>1, <2>2
<1>. QED  BY <1>2, <1>3, <1>4 DEF Alike, v, q

\* The serializer went on from s, and what it has put in the end is what is read.
Ahead(s, last) ==
  /\ SenderSound(s) /\ s.puts # << >>
  /\ SenderSound(last) /\ Leads(After(s), last) /\ last.readable /\ last.wire = buffer

MatchesNext(t) ==
  /\ Alike(calls', t.puts) /\ ss' = t.said /\ offset' = Offset(t, buffer)
  /\ buffer' = buffer /\ stage' # "threw"

LEMMA WhereTheyAre ==
  ASSUME ReaderOK, stage = "reads", NEW s, SenderSound(s), s.puts # << >>, Matches(s)
  PROVE  /\ calls \in Seq(Calls) /\ s.puts \in Seq(Frames) /\ Alike(calls, s.puts)
         /\ Len(calls) # 0 /\ Waiting(calls) /\ Stacked(s.puts)
         /\ calls[1].type = s.puts[1].type /\ calls[1].done = s.puts[1].done
         /\ calls[1].count = Len(s.puts[1].value)
         /\ Due <=> s.puts[1].done # Len(s.puts[1].value)
         /\ Due => Part = Item(s).type
<1>1. /\ calls \in Seq(Calls) /\ s.puts \in Seq(Frames) /\ Alike(calls, s.puts)
      /\ Len(calls) # 0 /\ Len(calls) \in Nat /\ Waiting(calls) /\ Stacked(s.puts)
  BY WhereItReads, WhereItIs DEF ReaderOK, Matches
<1>2. /\ calls[1].type = s.puts[1].type /\ calls[1].done = s.puts[1].done
      /\ calls[1].count = Len(s.puts[1].value)
  <2>1. 1 \in 1..Len(calls)
    BY <1>1
  <2>. QED  BY <1>1, <2>1 DEF Alike
<1>3. /\ s.puts[1].done \in Nat /\ Len(s.puts[1].value) \in Nat
      /\ s.puts[1].done <= Len(s.puts[1].value)
  BY WhereItIs
<1>4. Due <=> s.puts[1].done < Len(s.puts[1].value)
  BY <1>2 DEF Due
<1>5. s.puts[1].done < Len(s.puts[1].value) <=> s.puts[1].done # Len(s.puts[1].value)
  BY <1>3
<1>6. PartType(calls[1]) = PartType(s.puts[1])
  BY <1>2 DEF PartType
<1>7. Item(s).type = PartType(s.puts[1])
  BY DEF Item, Value
<1>. QED  BY <1>1, <1>2, <1>4, <1>5, <1>6, <1>7 DEF Part

\* What is put is on the wire that is read.
LEMMA PutsIsRead ==
  ASSUME NEW s, NEW t, NEW last, SenderSound(s), SenderSound(t), SenderSound(last),
         Leads(t, last), last.wire = buffer,
         NEW a \in Sizes, NEW bytes \in Seq(Byte), t.wire = Behind(s.wire, a, bytes)
  PROVE  LET at == Up(Len(s.wire), a)
         IN /\ at \in Nat /\ at + Len(bytes) <= Len(buffer) /\ at <= Len(buffer)
            /\ Len(t.wire) = at + Len(bytes)
            /\ \A i \in 1..Len(bytes) : buffer[at + i] = bytes[i]
<1>1. s.wire \in Seq(Byte) /\ t.wire \in Seq(Byte) /\ buffer \in Seq(Byte)
  BY DEF SenderSound, Senders
<1>2. Len(s.wire) \in Nat /\ Len(t.wire) \in Nat /\ Len(bytes) \in Nat /\ Len(buffer) \in Nat
  BY <1>1, LenProperties
<1>3. PICK at \in Nat : at = Up(Len(s.wire), a)
  BY <1>2, UpIsNext
<1>4. /\ Len(t.wire) = at + Len(bytes)
      /\ \A i \in 1..Len(bytes) : t.wire[at + i] = bytes[i]
  <2>1. PICK v \in Seq(Byte) : v = s.wire
    BY <1>1
  <2>2. /\ Len(Behind(v, a, bytes)) = Up(Len(v), a) + Len(bytes)
        /\ \A i \in 1..Len(bytes) : Behind(v, a, bytes)[Up(Len(v), a) + i] = bytes[i]
    BY BehindIsWire
  <2>. QED  BY <1>3, <2>1, <2>2
<1>5. Len(t.wire) <= Len(buffer) /\ \A i \in 1..Len(t.wire) : buffer[i] = t.wire[i]
  BY DEF Leads
<1>6. \A i \in 1..Len(bytes) : at + i \in 1..Len(t.wire)
  BY <1>2, <1>4
<1>7. at + Len(bytes) <= Len(buffer) /\ at <= Len(buffer)
  BY <1>2, <1>4, <1>5
<1>. QED  BY <1>3, <1>4, <1>5, <1>6, <1>7

LEMMA ReadScalarMatches ==
  ASSUME ReaderOK, ReadScalar, NEW s, NEW last, Ahead(s, last), Matches(s)
  PROVE  MatchesNext(After(s))
<1>. DEFINE x == Item(s)
            a == x.type.size
            t == After(s)
            b == Ordered(x.value, s.little)
<1>1. Due /\ IsScalar(Part) /\ stage = "reads"
  BY DEF ReadScalar, Due
<1>2. SenderSound(s) /\ s.puts # << >> /\ SenderSound(last) /\ last.readable /\ last.wire = buffer
  BY DEF Ahead
<1>3. /\ calls \in Seq(Calls) /\ s.puts \in Seq(Frames) /\ Alike(calls, s.puts)
      /\ Len(calls) # 0 /\ Waiting(calls) /\ Stacked(s.puts)
      /\ s.puts[1].done # Len(s.puts[1].value) /\ Part = x.type
  BY <1>1, <1>2, WhereTheyAre
<1>4. x \in Values /\ IsScalar(x.type)
  BY <1>1, <1>2, <1>3, WhereItIs
<1>5. /\ a \in Sizes /\ x.value \in Seq(Byte) /\ Len(x.value) = a
      /\ x.type.kind = "bool" => x.value \in {<<0>>, <<1>>}
  BY <1>4, ScalarsAreBytes
<1>6. t = PutsScalar(s, x)
  BY <1>3, <1>4, AfterIs
<1>7. /\ t.puts = OneDone(s.puts) /\ t.wire = Behind(s.wire, a, b)
      /\ t.said = Says(s.said, s.puts, ScalarText(x.type, x.value))
      /\ t.moved = FALSE /\ t.readable = (s.readable /\ (s.moved => a >= 4))
  BY <1>6 DEF PutsScalar, Puts
<1>8. SenderSound(t) /\ Leads(t, last)
  BY <1>2, AfterIsSound DEF Ahead
<1>. HIDE DEF x, a, t
<1>9. s.moved => a >= 4
  BY <1>2, <1>7, <1>8 DEF Leads
<1>10. /\ s.wire \in Seq(Byte) /\ s.moved \in BOOLEAN /\ s.little \in BOOLEAN
       /\ buffer \in Seq(Byte) /\ offset = Offset(s, buffer)
  BY <1>2 DEF SenderSound, Senders, ReaderOK, Matches
<1>11. b \in Seq(Byte) /\ Len(b) = a
  BY <1>5, <1>10, OrderedIsBytes
<1>. HIDE DEF b
<1>. DEFINE at == Up(Len(s.wire), a)
<1>12. /\ at \in Nat /\ at + a <= Len(buffer) /\ at <= Len(buffer) /\ Len(t.wire) = at + a
       /\ \A i \in 1..a : buffer[at + i] = b[i]
  BY <1>2, <1>5, <1>7, <1>8, <1>11, PutsIsRead
<1>13. AlignOffset(a) = at
  BY <1>5, <1>9, <1>10, <1>12, AlignMatches
<1>. HIDE DEF at
<1>14. s.little = last.little /\ (is_cdr_stream_little_endian <=> s.little)
  <2>1. s.little = last.little
    BY <1>2, AfterIsSound DEF Ahead, Leads
  <2>2. is_cdr_stream_little_endian <=> last.little
    BY <1>2, OrderMatches
  <2>. QED  BY <2>1, <2>2
<1>15. HostBytes(at, a) = x.value
  BY <1>5, <1>10, <1>12, <1>14, NumberMatches DEF b
<1>16. (IF Part.kind = "bool" /\ HostBytes(at, a) # <<0>> THEN <<1>> ELSE HostBytes(at, a))
         = x.value
  BY <1>3, <1>5, <1>15
<1>17. Fits(at, a)
  BY <1>12 DEF Fits
<1>18. Succeeds(ScalarText(Part, x.value), at + a)
  BY <1>3, <1>13, <1>16, <1>17 DEF ReadScalar, a
<1>19. /\ offset' = at + a /\ ss' = Says(ss, calls, ScalarText(x.type, x.value))
       /\ calls' = OneDone(calls) /\ buffer' = buffer /\ stage' = stage
  BY <1>3, <1>18 DEF Succeeds
<1>20. ss' = t.said
  BY <1>3, <1>7, <1>19, AlikeSays DEF Matches
<1>21. Alike(calls', t.puts)
  <2>1. calls[1].done < calls[1].count
    BY <1>1 DEF Due
  <2>. QED  BY <1>3, <1>7, <1>19, <2>1, AlikeDone
<1>22. offset' = Offset(t, buffer)
  BY <1>7, <1>12, <1>19 DEF Offset
<1>. QED  BY <1>1, <1>19, <1>20, <1>21, <1>22 DEF MatchesNext, t

LEMMA ReadStringMatches ==
  ASSUME ReaderOK, ReadString, NEW s, NEW last, Ahead(s, last), Matches(s)
  PROVE  MatchesNext(After(s))
<1>. DEFINE x == Item(s)
            t == After(s)
            b == StringBytes(x.value, s.little)
            n == Len(x.value)
<1>1. Due /\ Part.kind = "string" /\ stage = "reads"
  BY DEF ReadString, Due
<1>2. SenderSound(s) /\ s.puts # << >> /\ SenderSound(last) /\ last.readable /\ last.wire = buffer
  BY DEF Ahead
<1>3. /\ calls \in Seq(Calls) /\ s.puts \in Seq(Frames) /\ Alike(calls, s.puts)
      /\ Len(calls) # 0 /\ Waiting(calls) /\ Stacked(s.puts)
      /\ s.puts[1].done # Len(s.puts[1].value) /\ Part = x.type
  BY <1>1, <1>2, WhereTheyAre
<1>4. x \in Values /\ x.type.kind = "string"
  BY <1>1, <1>2, <1>3, WhereItIs
<1>5. x.value \in Seq(Byte) /\ n \in Nat /\ n + 1 <= 65535
  BY <1>4, StringsAreBytes
<1>6. t = PutsString(s, x)
  BY <1>3, <1>4, AfterIs
<1>7. /\ t.puts = OneDone(s.puts) /\ t.wire = Behind(s.wire, 4, b)
      /\ t.said = Says(s.said, s.puts, Quoted(x.value, FALSE))
      /\ t.moved = FALSE
      /\ t.readable => \A i \in 1..n : IsCharacter(x.value[i])
  BY <1>6 DEF PutsString, Puts
<1>8. SenderSound(t) /\ Leads(t, last)
  BY <1>2, AfterIsSound DEF Ahead
<1>. HIDE DEF x, t
<1>9. \A i \in 1..n : IsCharacter(x.value[i])
  BY <1>2, <1>7, <1>8 DEF Leads
<1>10. /\ s.wire \in Seq(Byte) /\ s.moved \in BOOLEAN /\ s.little \in BOOLEAN
       /\ buffer \in Seq(Byte) /\ offset = Offset(s, buffer)
  BY <1>2 DEF SenderSound, Senders, ReaderOK, Matches
<1>11. b \in Seq(Byte) /\ Len(b) = n + 5
  BY <1>5, <1>10, StringBytesAreBytes
<1>. HIDE DEF b
<1>. DEFINE at == Up(Len(s.wire), 4)
<1>12. 4 \in Sizes
  BY DEF Sizes
<1>13. /\ at \in Nat /\ at + Len(b) <= Len(buffer) /\ at <= Len(buffer)
       /\ Len(t.wire) = at + Len(b)
       /\ \A i \in 1..Len(b) : buffer[at + i] = b[i]
  BY <1>2, <1>7, <1>8, <1>11, <1>12, PutsIsRead
<1>14. s.moved => 4 >= 4
  OBVIOUS
<1>15. AlignOffset(4) = at
  BY <1>10, <1>12, <1>13, <1>14, AlignMatches
<1>. HIDE DEF at
<1>16. is_cdr_stream_little_endian <=> s.little
  <2>1. s.little = last.little
    BY <1>2, AfterIsSound DEF Ahead, Leads
  <2>2. is_cdr_stream_little_endian <=> last.little
    BY <1>2, OrderMatches
  <2>. QED  BY <2>1, <2>2
<1>20. /\ CountAt(at) = n + 1 /\ Characters(at + 4, n + 1) = x.value
       /\ Fits(at, 4) /\ Fits(at + 4, n + 1) /\ at + 4 + (n + 1) = at + Len(b)
  <2>1. PICK v \in Seq(Byte) : v = x.value
    BY <1>5
  <2>2. PICK little \in BOOLEAN : little = s.little
    BY <1>10
  <2>3. PICK k \in Nat : k = n /\ k = Len(v)
    BY <1>5, <2>1
  <2>4. b = StringBytes(v, little)
    BY <2>1, <2>2 DEF b
  <2>5. /\ buffer \in Seq(Byte) /\ (is_cdr_stream_little_endian <=> little)
        /\ Len(v) + 1 <= 65535 /\ at \in Nat
    BY <1>5, <1>10, <1>13, <1>16, <2>2, <2>3
  <2>. HIDE DEF n
  <2>6. /\ at + Len(StringBytes(v, little)) <= Len(buffer)
        /\ \A i \in 1..Len(StringBytes(v, little)) : buffer[at + i] = StringBytes(v, little)[i]
    BY <1>13, <2>4, Zenon
  <2>7. /\ CountAt(at) = Len(v) + 1 /\ Characters(at + 4, Len(v) + 1) = v
        /\ Fits(at, 4) /\ Fits(at + 4, Len(v) + 1)
        /\ at + 4 + (Len(v) + 1) = at + Len(StringBytes(v, little))
    BY <2>5, <2>6, StringMatches
  <2>. QED  BY <2>1, <2>3, <2>4, <2>7, Zenon
<1>. HIDE DEF n
<1>27. DOMAIN x.value = 1..n
  BY <1>5, LenProperties DEF n
<1>28. \A i \in DOMAIN x.value : IsCharacter(x.value[i])
  BY <1>9, <1>27
<1>29. Succeeds(EchoText(x.value), at + 4 + (n + 1))
  BY <1>15, <1>20, <1>28 DEF ReadString
<1>30. /\ offset' = at + Len(b) /\ ss' = Says(ss, calls, EchoText(x.value))
       /\ calls' = OneDone(calls) /\ buffer' = buffer /\ stage' = stage
  BY <1>20, <1>29 DEF Succeeds
<1>31. EchoText(x.value) = Quoted(x.value, FALSE)
  BY DEF EchoText
<1>32. Says(ss, calls, EchoText(x.value)) = Says(ss, s.puts, EchoText(x.value))
  BY <1>3, AlikeSays
<1>33. ss' = t.said
  BY <1>7, <1>30, <1>31, <1>32 DEF Matches
<1>34. Alike(calls', t.puts)
  <2>1. calls[1].done < calls[1].count
    BY <1>1 DEF Due
  <2>. QED  BY <1>3, <1>7, <1>30, <2>1, AlikeDone
<1>35. offset' = Offset(t, buffer)
  BY <1>7, <1>13, <1>30 DEF Offset
<1>. QED  BY <1>1, <1>30, <1>33, <1>34, <1>35 DEF MatchesNext, t

\* What the decoder does not know is not readable.
LEMMA ReadWideMatches ==
  ASSUME ReaderOK, ReadWide, NEW s, NEW last, Ahead(s, last), Matches(s)
  PROVE  MatchesNext(After(s))
<1>1. Due /\ Part.kind = "wide" /\ stage = "reads"
  BY DEF ReadWide, Due
<1>2. SenderSound(s) /\ s.puts # << >> /\ last.readable
  BY DEF Ahead
<1>3. s.puts[1].done # Len(s.puts[1].value) /\ Part = Item(s).type
  BY <1>1, <1>2, WhereTheyAre
<1>4. After(s) = PutsWide(s, Item(s))
  BY <1>1, <1>3, AfterIs
<1>5. After(s).readable = FALSE
  BY <1>1, <1>2, <1>3, <1>4, PutsWideIsSound
<1>6. After(s).readable
  BY <1>2 DEF Ahead, Leads
<1>. QED  BY <1>5, <1>6

LEMMA BeginMessageMatches ==
  ASSUME ReaderOK, BeginMessage, NEW s, NEW last, Ahead(s, last), Matches(s)
  PROVE  MatchesNext(After(s))
<1>. DEFINE x == Item(s)
            t == After(s)
<1>1. Due /\ Part.kind = "message" /\ stage = "reads" /\ Begins(Part, Len(Part.members), offset)
  BY DEF BeginMessage, Due
<1>2. SenderSound(s) /\ s.puts # << >>
  BY DEF Ahead
<1>3. /\ calls \in Seq(Calls) /\ s.puts \in Seq(Frames) /\ Alike(calls, s.puts)
      /\ Len(calls) # 0 /\ Waiting(calls) /\ Stacked(s.puts)
      /\ s.puts[1].done # Len(s.puts[1].value) /\ Part = x.type
  BY <1>1, <1>2, WhereTheyAre
<1>4. x \in Values /\ x.type.kind = "message" /\ x.type.kind \in Containers
  BY <1>1, <1>2, <1>3, WhereItIs DEF Containers
<1>5. Len(x.value) = Len(x.type.members) /\ Len(x.value) \in Nat /\ x.type \in Types
  BY <1>4, PartsAreValues, ValuesAreTrees
<1>6. t = EntersMessage(s, x)
  BY <1>3, <1>4, AfterIs
<1>7. s.moved \in BOOLEAN /\ s \in Senders
  BY <1>2 DEF SenderSound, Senders
<1>8. /\ t.puts = <<In(x)>> \o s.puts /\ t.wire = s.wire /\ t.moved = s.moved
      /\ t.said = Says(s.said, s.puts, Opened)
  <2>. DEFINE puts == <<In(x)>> \o s.puts
              said == Says(s.said, s.puts, Opened)
  <2>1. t = Walks(s, puts, said, s.moved)
    BY <1>6 DEF EntersMessage
  <2>2. LET u == Walks(s, puts, said, s.moved)
        IN u.puts = puts /\ u.wire = s.wire /\ u.said = said /\ u.moved = s.moved
    BY <1>2, <1>3, <1>4, <1>7, EntersIsSound
  <2>. QED  BY <2>1, <2>2
<1>. HIDE DEF x, t
<1>. DEFINE c == [type |-> x.type, count |-> Len(x.value), done |-> 0]
<1>9. /\ offset' = offset /\ ss' = Says(ss, calls, Opened)
      /\ calls' = <<c>> \o calls /\ buffer' = buffer /\ stage' = stage
  BY <1>1, <1>3, <1>5 DEF Begins
<1>10. c \in Calls
  BY <1>5 DEF Calls
<1>11. ss' = t.said
  BY <1>3, <1>8, <1>9, AlikeSays DEF Matches
<1>12. Alike(calls', t.puts)
  <2>1. calls[1].done < calls[1].count
    BY <1>1 DEF Due
  <2>2. c = [type |-> x.type, count |-> Len(x.value), done |-> 0]
    OBVIOUS
  <2>. HIDE DEF c
  <2>. QED  BY <1>3, <1>4, <1>8, <1>9, <1>10, <2>1, <2>2, AlikePush
<1>13. offset' = Offset(t, buffer)
  BY <1>8, <1>9 DEF Offset, Matches
<1>. QED  BY <1>1, <1>9, <1>11, <1>12, <1>13 DEF MatchesNext, t

LEMMA ReturnsMatches ==
  ASSUME ReaderOK, Returns, NEW s, NEW last, Ahead(s, last), Matches(s)
  PROVE  MatchesNext(After(s))
<1>. DEFINE t == After(s)
            cut == IsArray(calls[1].type) /\ calls[1].count > MaxShown
            gone == IsArray(s.puts[1].type) /\ Len(s.puts[1].value) > MaxShown
<1>1. /\ stage = "reads" /\ calls[1].done = calls[1].count
      /\ ss' = Says(ss, Tail(calls), Closed(cut))
      /\ calls' = Left(calls) /\ buffer' = buffer /\ offset' = offset /\ stage' # "threw"
  BY DEF Returns
<1>2. SenderSound(s) /\ s.puts # << >>
  BY DEF Ahead
<1>3. /\ calls \in Seq(Calls) /\ s.puts \in Seq(Frames) /\ Alike(calls, s.puts)
      /\ Len(calls) # 0 /\ Waiting(calls) /\ Stacked(s.puts)
      /\ calls[1].type = s.puts[1].type /\ calls[1].done = s.puts[1].done
      /\ calls[1].count = Len(s.puts[1].value)
  BY <1>1, <1>2, WhereTheyAre
<1>4. t = Leaves(s)
  BY <1>1, <1>3, AfterIs
<1>5. /\ t.puts = Left(s.puts) /\ t.wire = s.wire /\ t.moved = s.moved
      /\ t.said = Says(s.said, Tail(s.puts), Closed(gone))
  BY <1>2, <1>4, LeavesIsSound
<1>6. Closed(cut) = Closed(gone)
  BY <1>3
<1>. HIDE DEF t, cut, gone
<1>7. Tail(calls) \in Seq(Calls) /\ Tail(s.puts) \in Seq(Frames) /\ Alike(Tail(calls), Tail(s.puts))
  BY <1>3, AlikeTail
<1>8. Says(ss, Tail(calls), Closed(cut)) = Says(ss, Tail(s.puts), Closed(cut))
  <2>1. PICK w \in Seq(Calls), q \in Seq(Frames) : w = Tail(calls) /\ q = Tail(s.puts)
    BY <1>7
  <2>2. Alike(w, q)
    BY <1>7, <2>1
  <2>3. Hidden(w) <=> Hidden(q)
    BY <2>2, AlikeHidden
  <2>4. Says(ss, w, Closed(cut)) = Says(ss, q, Closed(cut))
    BY <2>3 DEF Says
  <2>. QED  BY <2>1, <2>4
<1>9. ss' = t.said
  BY <1>1, <1>5, <1>6, <1>8 DEF Matches
<1>10. Alike(calls', t.puts)
  BY <1>1, <1>3, <1>5, AlikeLeft
<1>11. offset' = Offset(t, buffer)
  BY <1>1, <1>5 DEF Offset, Matches
<1>. QED  BY <1>1, <1>9, <1>10, <1>11 DEF MatchesNext, t

LEMMA BeginCountedMatches ==
  ASSUME ReaderOK, BeginArray, HasCount(Part), NEW s, NEW last, Ahead(s, last), Matches(s)
  PROVE  MatchesNext(After(s))
<1>. DEFINE x == Item(s)
            t == After(s)
            n == Len(x.value)
            b == CountBytes(n, s.little)
<1>1. Due /\ IsArray(Part) /\ stage = "reads"
  BY DEF BeginArray, Due
<1>2. SenderSound(s) /\ s.puts # << >> /\ SenderSound(last) /\ last.readable /\ last.wire = buffer
  BY DEF Ahead
<1>3. /\ calls \in Seq(Calls) /\ s.puts \in Seq(Frames) /\ Alike(calls, s.puts)
      /\ Len(calls) # 0 /\ Waiting(calls) /\ Stacked(s.puts)
      /\ s.puts[1].done # Len(s.puts[1].value) /\ Part = x.type
  BY <1>1, <1>2, WhereTheyAre
<1>4. x \in Values /\ x.type.kind = "array" /\ x.type.kind \in Containers /\ HasCount(x.type)
  BY <1>1, <1>2, <1>3, WhereItIs DEF IsArray, Containers
<1>5. n \in Nat /\ n <= 65535 /\ x.type \in Types
  BY <1>4, PartsAreValues, ValuesAreTrees DEF IsArray
<1>6. t = PutsCount(s, x)
  BY <1>3, <1>4, AfterIs
<1>7. /\ t.puts = <<In(x)>> \o s.puts /\ t.wire = Behind(s.wire, 4, b)
      /\ t.said = Says(s.said, s.puts, Opened) /\ t.moved = FALSE
  BY <1>6 DEF PutsCount, Puts
<1>8. SenderSound(t) /\ Leads(t, last)
  BY <1>2, AfterIsSound DEF Ahead
<1>. HIDE DEF x, t, n
<1>9. /\ s.wire \in Seq(Byte) /\ s.moved \in BOOLEAN /\ s.little \in BOOLEAN
      /\ buffer \in Seq(Byte) /\ offset = Offset(s, buffer)
  BY <1>2 DEF SenderSound, Senders, ReaderOK, Matches
<1>10. b \in Seq(Byte) /\ Len(b) = 4
  BY <1>5, <1>9, CountIsBytes
<1>. HIDE DEF b
<1>. DEFINE at == Up(Len(s.wire), 4)
<1>11. 4 \in Sizes
  BY DEF Sizes
<1>12. /\ at \in Nat /\ at + 4 <= Len(buffer) /\ at <= Len(buffer)
       /\ Len(t.wire) = at + 4
       /\ \A i \in 1..4 : buffer[at + i] = b[i]
  <2>1. /\ at \in Nat /\ at + Len(b) <= Len(buffer) /\ at <= Len(buffer)
        /\ Len(t.wire) = at + Len(b)
        /\ \A i \in 1..Len(b) : buffer[at + i] = b[i]
    <3>1. b \in Seq(Byte)
      BY <1>10
    <3>. QED  BY <1>2, <1>7, <1>8, <1>11, <3>1, PutsIsRead
  <2>. HIDE DEF at
  <2>. QED  BY <1>10, <2>1
<1>13. s.moved => 4 >= 4
  OBVIOUS
<1>14. AlignOffset(4) = at
  BY <1>9, <1>11, <1>12, <1>13, AlignMatches
<1>. HIDE DEF at
<1>15. is_cdr_stream_little_endian <=> s.little
  <2>1. s.little = last.little
    BY <1>2, AfterIsSound DEF Ahead, Leads
  <2>2. is_cdr_stream_little_endian <=> last.little
    BY <1>2, OrderMatches
  <2>. QED  BY <2>1, <2>2
<1>16. CountAt(at) = n
  <2>1. PICK m \in Nat : m = n /\ m <= 65535
    BY <1>5
  <2>2. \A i \in 1..4 : buffer[at + i] = CountBytes(m, s.little)[i]
    BY <1>12, <2>1 DEF b
  <2>3. CountAt(at) = m
    <3>1. /\ buffer \in Seq(Byte) /\ s.little \in BOOLEAN
          /\ at \in Nat /\ at + 4 <= Len(buffer)
      BY <1>9, <1>12
    <3>. QED  BY <1>15, <2>1, <2>2, <3>1, CountMatches
  <2>. QED  BY <2>1, <2>3
<1>17. Fits(at, 4)
  BY <1>12 DEF Fits
<1>18. Begins(x.type, n, at + 4)
  BY <1>3, <1>4, <1>14, <1>16, <1>17 DEF BeginArray
<1>. DEFINE c == [type |-> x.type, count |-> n, done |-> 0]
<1>19. /\ offset' = at + 4 /\ ss' = Says(ss, calls, Opened)
       /\ calls' = <<c>> \o calls /\ buffer' = buffer /\ stage' = stage
  BY <1>18 DEF Begins
<1>20. c \in Calls
  BY <1>5 DEF Calls
<1>21. ss' = t.said
  BY <1>3, <1>7, <1>19, AlikeSays DEF Matches
<1>22. Alike(calls', t.puts)
  <2>1. calls[1].done < calls[1].count
    BY <1>1 DEF Due
  <2>2. c = [type |-> x.type, count |-> Len(x.value), done |-> 0]
    BY DEF n
  <2>. HIDE DEF c
  <2>. QED  BY <1>3, <1>4, <1>7, <1>19, <1>20, <2>1, <2>2, AlikePush
<1>23. offset' = Offset(t, buffer)
  BY <1>7, <1>12, <1>19 DEF Offset
<1>. QED  BY <1>1, <1>19, <1>21, <1>22, <1>23 DEF MatchesNext, t

LEMMA BeginFixedMatches ==
  ASSUME ReaderOK, BeginArray, ~HasCount(Part), NEW s, NEW last, Ahead(s, last), Matches(s)
  PROVE  MatchesNext(After(s))
<1>. DEFINE x == Item(s)
            t == After(s)
            n == Len(x.value)
            moved == Len(s.wire) % 4 # 0
<1>1. /\ Due /\ IsArray(Part) /\ stage = "reads"
      /\ Begins(Part, Part.size, AlignOffset(4))
  BY DEF BeginArray, Due
<1>2. SenderSound(s) /\ s.puts # << >> /\ SenderSound(last) /\ last.wire = buffer
  BY DEF Ahead
<1>3. /\ calls \in Seq(Calls) /\ s.puts \in Seq(Frames) /\ Alike(calls, s.puts)
      /\ Len(calls) # 0 /\ Waiting(calls) /\ Stacked(s.puts)
      /\ s.puts[1].done # Len(s.puts[1].value) /\ Part = x.type
  BY <1>1, <1>2, WhereTheyAre
<1>4. x \in Values /\ x.type.kind = "array" /\ x.type.kind \in Containers /\ ~HasCount(x.type)
  BY <1>1, <1>2, <1>3, WhereItIs DEF IsArray, Containers
<1>5. n \in Nat /\ n = x.type.size /\ x.type \in Types
  BY <1>4, PartsAreValues, ValuesAreTrees DEF IsArray
<1>6. t = EntersFixed(s, x)
  BY <1>3, <1>4, AfterIs
<1>7. moved \in BOOLEAN
  OBVIOUS
<1>. HIDE DEF moved
<1>8. /\ t.puts = <<In(x)>> \o s.puts /\ t.wire = s.wire /\ t.moved = moved
      /\ t.said = Says(s.said, s.puts, Opened)
  <2>. DEFINE puts == <<In(x)>> \o s.puts
              said == Says(s.said, s.puts, Opened)
  <2>1. t = Walks(s, puts, said, moved)
    BY <1>6 DEF EntersFixed, moved
  <2>2. LET u == Walks(s, puts, said, moved)
        IN u.puts = puts /\ u.wire = s.wire /\ u.said = said /\ u.moved = moved
    BY <1>2, <1>3, <1>4, <1>7, EntersIsSound
  <2>. QED  BY <2>1, <2>2
<1>9. SenderSound(t) /\ Leads(t, last)
  BY <1>2, AfterIsSound DEF Ahead
<1>. HIDE DEF x, t, n
<1>10. /\ s.wire \in Seq(Byte) /\ s.moved \in BOOLEAN
       /\ buffer \in Seq(Byte) /\ offset = Offset(s, buffer)
  BY <1>2 DEF SenderSound, Senders, ReaderOK, Matches
<1>11. Len(s.wire) <= Len(buffer)
  BY <1>2, <1>8, <1>9 DEF Leads
<1>12. AlignOffset(4) = Offset(t, buffer)
  BY <1>8, <1>10, <1>11, FixedMatches DEF moved
<1>. DEFINE c == [type |-> x.type, count |-> n, done |-> 0]
<1>13. /\ offset' = AlignOffset(4) /\ ss' = Says(ss, calls, Opened)
       /\ calls' = <<c>> \o calls /\ buffer' = buffer /\ stage' = stage
  BY <1>1, <1>3, <1>5 DEF Begins
<1>14. c \in Calls
  BY <1>5 DEF Calls
<1>15. ss' = t.said
  BY <1>3, <1>8, <1>13, AlikeSays DEF Matches
<1>16. Alike(calls', t.puts)
  <2>1. calls[1].done < calls[1].count
    BY <1>1 DEF Due
  <2>2. c = [type |-> x.type, count |-> Len(x.value), done |-> 0]
    BY DEF n
  <2>. HIDE DEF c
  <2>. QED  BY <1>3, <1>4, <1>8, <1>13, <1>14, <2>1, <2>2, AlikePush
<1>17. offset' = Offset(t, buffer)
  BY <1>12, <1>13
<1>. QED  BY <1>1, <1>13, <1>15, <1>16, <1>17 DEF MatchesNext, t

LEMMA ParseFieldMatches ==
  ASSUME ReaderOK, parse_cdr_field, NEW s, NEW last, Ahead(s, last), Matches(s)
  PROVE  MatchesNext(After(s))
BY ReadScalarMatches, ReadStringMatches, ReadWideMatches, BeginCountedMatches, BeginFixedMatches,
   BeginMessageMatches, ReturnsMatches DEF parse_cdr_field

-----------------------------------------------------------------------------
(***************************************************************************)
(* The inductive invariant: the log is what the serializer does, and the   *)
(* decoder is always where the serializer was at some time.                *)
(***************************************************************************)
LogSound ==
  seen # None =>
    /\ log[1] = Starts(Value(seen.type, seen.value), Sender.little)
    /\ \A k \in 1..Len(log) : SenderSound(log[k]) /\ Leads(log[k], Sender)
    /\ \A k \in 1..(Len(log) - 1) : log[k].puts # << >> /\ log[k + 1] = After(log[k])

Decoded ==
  stage # "idle" =>
    /\ seen # None /\ Sender.puts = << >> /\ buffer = Sender.wire
    /\ Readable => stage # "threw" /\ \E k \in 1..Len(log) : Matches(log[k])

IInv == EchoTypeOK /\ ReaderOK /\ LogSound /\ Decoded

LEMMA MessagesAreMessages ==
  ASSUME NEW m \in Messages
  PROVE  /\ m # None /\ m \in MessagesOrNone
         /\ Value(m.type, m.value) \in Values
         /\ m.type.kind = "message" /\ m.known.kind = "message" /\ m.known \in Types
<1>1. { x : x \in Values } = Values /\ { t : t \in Types } = Types
  OBVIOUS
<1>2. AreMessages(Values, Types)
  BY <1>1, EchoAssumption
<1>3. /\ m = [type |-> m.type, value |-> m.value, known |-> m.known]
      /\ Value(m.type, m.value) \in Values
      /\ m.type.kind = "message" /\ m.known.kind = "message" /\ m.known \in Types
  BY <1>2 DEF AreMessages
<1>4. m # None
  <2>1. DOMAIN m = {"type", "value", "known"}
    BY <1>3
  <2>2. DOMAIN None = {"is"}
    BY DEF None
  <2>. QED  BY <2>1, <2>2
<1>5. m \in MessagesOrNone
  BY DEF MessagesOrNone
<1>. QED  BY <1>3, <1>4, <1>5

LEMMA SeenIsMessage ==
  ASSUME IInv, seen # None
  PROVE  /\ seen \in Messages /\ log \in Seq(Senders) /\ log # << >>
         /\ Len(log) \in Nat /\ Len(log) # 0 /\ SenderSound(Sender)
<1>1. seen \in Messages /\ log \in Seq(Senders) /\ log # << >>
  BY DEF IInv, EchoTypeOK, MessagesOrNone
<1>2. Len(log) \in Nat /\ Len(log) # 0
  BY <1>1, LenProperties, EmptySeq
<1>3. Len(log) \in 1..Len(log)
  BY <1>2
<1>4. SenderSound(Sender)
  BY <1>3 DEF IInv, LogSound, Sender
<1>. QED  BY <1>1, <1>2, <1>4

LEMMA StartsIsSound ==
  ASSUME NEW x \in Values, x.type.kind = "message", NEW little \in BOOLEAN
  PROVE  SenderSound(Starts(x, little))
<1>. DEFINE s == Starts(x, little)
            wire == <<0, IF little THEN 1 ELSE 0, 0, 0>>
<1>1. x.type.kind \in Containers
  BY DEF Containers
<1>2. In(x) \in Frames /\ In(x).type = x.type
  BY <1>1, InIsFrame
<1>3. <<In(x)>> \in Seq(Frames) /\ Len(<<In(x)>>) = 1 /\ <<In(x)>>[1] = In(x)
  BY <1>2
<1>4. Stacked(<<In(x)>>)
  BY <1>1, <1>2, <1>3 DEF Stacked
<1>5. wire \in Seq(Byte) /\ Len(wire) = 4 /\ wire[1] = 0 /\ wire[2] = IF little THEN 1 ELSE 0
  <2>1. CASE little
    BY <2>1 DEF Byte
  <2>2. CASE ~little
    BY <2>2 DEF Byte
  <2>. QED  BY <2>1, <2>2
<1>6. <<Opened>> \in Seq(Texts)
  BY OtherTexts
<1>7. s = [puts |-> <<In(x)>>, wire |-> wire, said |-> <<Opened>>,
           little |-> little, moved |-> FALSE, readable |-> TRUE]
  BY DEF Starts
<1>. HIDE DEF s, wire
<1>8. s.puts = <<In(x)>> /\ s.wire = wire /\ s.little = little
  BY <1>7
<1>9. s \in Senders
  BY <1>3, <1>5, <1>6, <1>7 DEF Senders
<1>11. 4 <= Len(s.wire) /\ s.wire[1] = 0 /\ s.wire[2] = IF s.little THEN 1 ELSE 0
  <2>1. 4 <= Len(s.wire)
    <3>1. Len(s.wire) = 4
      BY <1>5, <1>8, Zenon
    <3>. QED  BY <3>1
  <2>2. s.wire[1] = 0
    BY <1>5, <1>8
  <2>3. s.wire[2] = IF s.little THEN 1 ELSE 0
    BY <1>5, <1>8, Zenon
  <2>. QED  BY <2>1, <2>2, <2>3
<1>12. Stacked(s.puts)
  BY <1>4, <1>8
<1>10. SenderSound(s)
  BY <1>9, <1>11, <1>12 DEF SenderSound
<1>. QED  BY <1>10 DEF s

LEMMA LeadsToItself ==
  ASSUME NEW s, SenderSound(s)
  PROVE  Leads(s, s)
<1>1. s.wire \in Seq(Byte)
  BY DEF SenderSound, Senders
<1>2. Len(s.wire) <= Len(s.wire)
  BY <1>1, LenProperties
<1>. QED  BY <1>2 DEF Leads

LEMMA InitInv ==
  ASSUME EchoInit
  PROVE  IInv
<1>1. /\ seen = None /\ log = << >> /\ buffer = << >> /\ offset = 0
      /\ calls = << >> /\ ss = << >> /\ stage = "idle"
  BY DEF EchoInit, ReaderInit
<1>2. ReaderOK
  BY <1>1, EmptySeq DEF ReaderOK, CallsSound, Waiting, ReadsInside
<1>3. EchoTypeOK
  BY <1>1, EmptySeq DEF EchoTypeOK, MessagesOrNone
<1>. QED  BY <1>1, <1>2, <1>3 DEF IInv, LogSound, Decoded

LEMMA ReaderStays ==
  ASSUME ReaderOK, UNCHANGED reader
  PROVE  ReaderOK'
BY DEF ReaderOK, reader, CallsSound, Waiting, ReadsInside

LEMMA PublishInv ==
  ASSUME IInv, seen = None, NEW m \in Messages, NEW little \in BOOLEAN, Publish(m, little)
  PROVE  IInv'
<1>. DEFINE x == Value(m.type, m.value)
            s == Starts(x, little)
<1>1. /\ seen' = m /\ log' = <<s>>
      /\ buffer' = buffer /\ offset' = offset /\ calls' = calls /\ ss' = ss /\ stage' = stage
  BY DEF Publish, reader
<1>2. m # None /\ m \in MessagesOrNone /\ x \in Values /\ m.type.kind = "message"
  BY MessagesAreMessages
<1>3. x.type = m.type
  BY DEF Value
<1>4. SenderSound(s) /\ s.little = little
  BY <1>2, <1>3, StartsIsSound DEF Starts
<1>5. s \in Senders /\ Leads(s, s)
  BY <1>4, LeadsToItself DEF SenderSound
<1>. HIDE DEF s
<1>6. /\ log' \in Seq(Senders) /\ Len(log') = 1 /\ log'[1] = s /\ Sender' = s /\ log' # << >>
  BY <1>1, <1>5 DEF Sender
<1>7. ReaderOK'
  BY <1>1, ReaderStays DEF IInv, reader
<1>8. EchoTypeOK'
  BY <1>1, <1>2, <1>6 DEF IInv, EchoTypeOK, MessagesOrNone
<1>9. LogSound'
  <2>1. log'[1] = Starts(Value(seen'.type, seen'.value), Sender'.little)
    BY <1>1, <1>4, <1>6 DEF s
  <2>2. \A k \in 1..Len(log') : SenderSound(log'[k]) /\ Leads(log'[k], Sender')
    BY <1>4, <1>5, <1>6
  <2>3. 1..(Len(log') - 1) = {}
    BY <1>6
  <2>. QED  BY <2>1, <2>2, <2>3 DEF LogSound
<1>10. stage = "idle"
  BY DEF IInv, Decoded
<1>11. Decoded'
  BY <1>1, <1>10 DEF Decoded
<1>. QED  BY <1>7, <1>8, <1>9, <1>11 DEF IInv

LEMMA SerializeInv ==
  ASSUME IInv, Serialize
  PROVE  IInv'
<1>. DEFINE t == After(Sender)
<1>1. /\ seen # None /\ Sender.puts # << >> /\ log' = Append(log, t) /\ seen' = seen
      /\ buffer' = buffer /\ offset' = offset /\ calls' = calls /\ ss' = ss /\ stage' = stage
  BY DEF Serialize, reader
<1>2. /\ log \in Seq(Senders) /\ Len(log) \in Nat /\ Len(log) # 0 /\ SenderSound(Sender)
  BY <1>1, SeenIsMessage
<1>3. SenderSound(t) /\ Leads(Sender, t)
  BY <1>1, <1>2, AfterIsSound
<1>4. t \in Senders /\ Leads(t, t) /\ t.little = Sender.little
  BY <1>3, LeadsToItself DEF SenderSound, Leads
<1>. HIDE DEF t
<1>5. /\ log' \in Seq(Senders) /\ log' # << >> /\ Len(log') = Len(log) + 1
      /\ \A i \in 1..Len(log) : log'[i] = log[i]
      /\ log'[Len(log) + 1] = t
  BY <1>1, <1>2, <1>4, AppendProperties
<1>6. Sender' = t
  BY <1>5 DEF Sender
<1>7. ReaderOK'
  BY <1>1, ReaderStays DEF IInv, reader
<1>8. EchoTypeOK'
  BY <1>1, <1>5 DEF IInv, EchoTypeOK
<1>9. /\ log[1] = Starts(Value(seen.type, seen.value), Sender.little)
      /\ \A k \in 1..Len(log) : SenderSound(log[k]) /\ Leads(log[k], Sender)
      /\ \A k \in 1..(Len(log) - 1) : log[k].puts # << >> /\ log[k + 1] = After(log[k])
  BY <1>1 DEF IInv, LogSound
<1>10. log'[1] = Starts(Value(seen'.type, seen'.value), Sender'.little)
  <2>1. 1 \in 1..Len(log)
    BY <1>2
  <2>. QED  BY <1>1, <1>4, <1>5, <1>6, <1>9, <2>1
<1>11. ASSUME NEW k \in 1..Len(log')  PROVE SenderSound(log'[k]) /\ Leads(log'[k], Sender')
  <2>1. CASE k \in 1..Len(log)
    <3>1. log'[k] = log[k] /\ SenderSound(log[k]) /\ Leads(log[k], Sender)
      BY <1>5, <1>9, <2>1
    <3>. QED  BY <1>2, <1>3, <1>6, <3>1, LeadsOn
  <2>2. CASE k = Len(log) + 1
    BY <1>3, <1>4, <1>5, <1>6, <2>2
  <2>. QED  BY <1>2, <1>5, <2>1, <2>2
<1>12. ASSUME NEW k \in 1..(Len(log') - 1)
       PROVE  log'[k].puts # << >> /\ log'[k + 1] = After(log'[k])
  <2>1. k \in 1..Len(log) /\ log'[k] = log[k]
    BY <1>2, <1>5
  <2>2. CASE k = Len(log)
    BY <1>1, <1>5, <2>1, <2>2 DEF Sender, t
  <2>3. CASE k # Len(log)
    <3>1. k \in 1..(Len(log) - 1) /\ k + 1 \in 1..Len(log)
      BY <1>2, <2>1, <2>3
    <3>. QED  BY <1>5, <1>9, <2>1, <3>1
  <2>. QED  BY <2>2, <2>3
<1>13. LogSound'
  BY <1>10, <1>11, <1>12 DEF LogSound
<1>14. stage = "idle"
  BY <1>1 DEF IInv, Decoded
<1>15. Decoded'
  BY <1>1, <1>14 DEF Decoded
<1>. QED  BY <1>7, <1>8, <1>13, <1>15 DEF IInv

LEMMA DecodeInv ==
  ASSUME IInv, format_serialized_message
  PROVE  IInv'
<1>1. /\ seen # None /\ Sender.puts = << >> /\ parse_cdr_to_json(seen.known, Sender.wire)
      /\ seen' = seen /\ log' = log
  BY DEF format_serialized_message
<1>2. /\ seen \in Messages /\ Len(log) \in Nat /\ Len(log) # 0 /\ SenderSound(Sender)
  BY <1>1, SeenIsMessage
<1>3. /\ Value(seen.type, seen.value) \in Values
      /\ seen.type.kind = "message" /\ seen.known.kind = "message" /\ seen.known \in Types
  BY <1>2, MessagesAreMessages
<1>4. Sender.wire \in Seq(Byte) /\ 4 <= Len(Sender.wire)
  BY <1>2 DEF SenderSound, Senders
<1>5. ReaderOK'
  BY <1>1, <1>3, <1>4, ParseOK
<1>6. Sender' = Sender
  BY <1>1 DEF Sender
<1>7. EchoTypeOK'
  <2>1. /\ buffer' \in Seq(Byte) /\ offset' \in Nat
        /\ calls' \in Seq([type : Types, count : Nat, done : Nat])
        /\ ss' \in Seq(Texts)
        /\ stage' \in {"idle", "reads", "returned", "threw"}
    BY <1>5 DEF ReaderOK, Calls
  <2>. QED  BY <1>1, <2>1 DEF IInv, EchoTypeOK
<1>8. LogSound'
  BY <1>1, <1>6 DEF IInv, LogSound
<1>9. /\ buffer' = Sender.wire /\ stage' = "reads" /\ offset' = 4 /\ ss' = <<Opened>>
      /\ calls' = <<[type |-> seen.known, count |-> Len(seen.known.members), done |-> 0]>>
  BY <1>1 DEF parse_cdr_to_json
<1>10. ASSUME seen.known = seen.type
       PROVE  Matches(log[1])'
  <2>. DEFINE x == Value(seen.type, seen.value)
              s == log[1]
              c == [type |-> seen.known, count |-> Len(seen.known.members), done |-> 0]
  <2>1. s = Starts(x, Sender.little)
    BY <1>1 DEF IInv, LogSound
  <2>2. x.type = seen.type /\ x \in Values
    BY <1>3 DEF Value
  <2>. HIDE DEF x
  <2>3. x.type.kind \in Containers
    BY <1>3, <2>2 DEF Containers
  <2>4. Len(x.value) = Len(x.type.members)
    BY <1>3, <2>2, <2>3, PartsAreValues
  <2>5. /\ s.puts = <<In(x)>> /\ s.said = <<Opened>> /\ s.moved = FALSE
        /\ s.wire = <<0, IF Sender.little THEN 1 ELSE 0, 0, 0>>
    BY <2>1 DEF Starts
  <2>. HIDE DEF s
  <2>6. Len(s.wire) = 4
    BY <2>5
  <2>7. In(x).type = x.type /\ In(x).value = x.value /\ In(x).done = 0
    BY <2>2, <2>3, InIsFrame
  <2>8. c.type = x.type /\ c.done = 0 /\ c.count = Len(x.value)
    BY <1>10, <2>2, <2>4
  <2>. HIDE DEF c
  <2>9. Alike(<<c>>, <<In(x)>>)
    <3>1. Len(<<c>>) = 1 /\ <<c>>[1] = c /\ Len(<<In(x)>>) = 1 /\ <<In(x)>>[1] = In(x)
      OBVIOUS
    <3>. QED  BY <2>7, <2>8, <3>1 DEF Alike
  <2>10. calls' = <<c>>
    BY <1>9 DEF c
  <2>11. offset' = Offset(s, buffer')
    BY <1>9, <2>5, <2>6 DEF Offset
  <2>12. log[1]' = s
    BY <1>1 DEF s
  <2>. QED  BY <1>9, <2>5, <2>9, <2>10, <2>11, <2>12 DEF Matches
<1>11. 1 \in 1..Len(log')
  BY <1>1, <1>2
<1>12. Decoded'
  BY <1>1, <1>6, <1>9, <1>10, <1>11 DEF Decoded, Readable
<1>. QED  BY <1>5, <1>7, <1>8, <1>12 DEF IInv

LEMMA FieldReads ==
  ASSUME parse_cdr_field
  PROVE  stage = "reads"
BY DEF parse_cdr_field, ReadScalar, ReadString, ReadWide, BeginArray, BeginMessage, Returns, Due

LEMMA FieldInv ==
  ASSUME IInv, parse_cdr_field, UNCHANGED <<seen, log>>
  PROVE  IInv'
<1>1. stage = "reads" /\ seen' = seen /\ log' = log
  BY FieldReads
<1>2. ReaderOK /\ ReaderOK'
  BY ParseFieldOK DEF IInv
<1>3. Sender' = Sender
  BY <1>1 DEF Sender
<1>4. EchoTypeOK'
  <2>1. /\ buffer' \in Seq(Byte) /\ offset' \in Nat
        /\ calls' \in Seq([type : Types, count : Nat, done : Nat])
        /\ ss' \in Seq(Texts)
        /\ stage' \in {"idle", "reads", "returned", "threw"}
    BY <1>2 DEF ReaderOK, Calls
  <2>. QED  BY <1>1, <2>1 DEF IInv, EchoTypeOK
<1>5. LogSound'
  BY <1>1, <1>3 DEF IInv, LogSound
<1>6. seen # None /\ Sender.puts = << >> /\ buffer = Sender.wire
  BY <1>1 DEF IInv, Decoded
<1>7. Len(log) \in Nat /\ Len(log) # 0 /\ SenderSound(Sender)
  BY <1>6, SeenIsMessage
<1>8. buffer' = buffer
  BY DEF parse_cdr_field, ReadScalar, ReadString, ReadWide, BeginArray, BeginMessage, Returns,
         Succeeds, Fails, Begins
<1>9. ASSUME Readable
      PROVE  stage' # "threw" /\ \E k \in 1..Len(log) : Matches(log[k])'
  <2>1. PICK k \in 1..Len(log) : Matches(log[k])
    BY <1>1, <1>9 DEF IInv, Decoded
  <2>2. /\ SenderSound(log[k])
        /\ \A j \in 1..(Len(log) - 1) : log[j].puts # << >> /\ log[j + 1] = After(log[j])
        /\ \A j \in 1..Len(log) : Leads(log[j], Sender)
    BY <1>6 DEF IInv, LogSound
  <2>3. log[k].puts # << >>
    <3>1. Len(calls) # 0 /\ Len(calls) = Len(log[k].puts)
      BY <1>1, <1>2, <2>1, WhereItReads DEF Matches, Alike
    <3>. QED  BY <3>1, EmptySeq
  <2>4. k # Len(log)
    BY <1>6, <2>3 DEF Sender
  <2>5. k \in 1..(Len(log) - 1) /\ k + 1 \in 1..Len(log)
    BY <1>7, <2>4
  <2>6. log[k + 1] = After(log[k]) /\ Leads(After(log[k]), Sender)
    BY <2>2, <2>5
  <2>7. Ahead(log[k], Sender)
    BY <1>6, <1>7, <1>9, <2>2, <2>3, <2>6 DEF Ahead, Readable
  <2>8. MatchesNext(log[k + 1])
    BY <1>2, <2>1, <2>6, <2>7, ParseFieldMatches
  <2>9. log[k + 1]' = log[k + 1]
    BY <1>1
  <2>10. Matches(log[k + 1])'
    BY <2>8, <2>9 DEF MatchesNext, Matches
  <2>. QED  BY <2>5, <2>8, <2>10 DEF MatchesNext
<1>10. Readable' => Readable
  BY <1>1, <1>3 DEF Readable
<1>11. Decoded'
  BY <1>1, <1>3, <1>6, <1>8, <1>9, <1>10 DEF Decoded
<1>. QED  BY <1>2, <1>4, <1>5, <1>11 DEF IInv

LEMMA StutterInv ==
  ASSUME IInv, UNCHANGED echoVars
  PROVE  IInv'
<1>1. /\ seen' = seen /\ log' = log /\ buffer' = buffer /\ offset' = offset
      /\ calls' = calls /\ ss' = ss /\ stage' = stage
  BY DEF echoVars, reader
<1>2. ReaderOK'
  BY <1>1, ReaderStays DEF IInv, reader
<1>3. Sender' = Sender
  BY <1>1 DEF Sender
<1>4. EchoTypeOK'
  BY <1>1 DEF IInv, EchoTypeOK
<1>5. LogSound'
  BY <1>1, <1>3 DEF IInv, LogSound
<1>6. Decoded'
  BY <1>1, <1>3 DEF IInv, Decoded, Readable, Matches, Alike
<1>. QED  BY <1>2, <1>4, <1>5, <1>6 DEF IInv

LEMMA NextInv ==
  ASSUME IInv, [EchoNext]_echoVars
  PROVE  IInv'
BY PublishInv, SerializeInv, DecodeInv, FieldInv, StutterInv DEF EchoNext

\* Read through to the end of the log.
LEMMA InvIsTrue ==
  ASSUME IInv
  PROVE  EchoTypeOK /\ ReadsInside /\ EchoTrueUnlessShifted
<1>1. EchoTypeOK /\ ReadsInside
  BY DEF IInv, ReaderOK
<1>2. ASSUME stage \in {"returned", "threw"}, Readable
      PROVE  stage = "returned" /\ ss = Sender.said
  <2>1. /\ seen # None /\ stage # "threw" /\ \E k \in 1..Len(log) : Matches(log[k])
    BY <1>2 DEF IInv, Decoded
  <2>2. PICK k \in 1..Len(log) : Matches(log[k])
    BY <2>1
  <2>3. calls = << >>
    BY <1>2 DEF IInv, ReaderOK, CallsSound
  <2>4. /\ \A j \in 1..(Len(log) - 1) : log[j].puts # << >>
        /\ SenderSound(log[k])
    BY <2>1 DEF IInv, LogSound
  <2>5. log[k].puts \in Seq(Frames) /\ Len(log[k].puts) = 0
    BY <2>2, <2>3, <2>4 DEF Matches, Alike, SenderSound, Senders
  <2>6. log[k].puts = << >>
    BY <2>5, EmptySeq
  <2>7. Len(log) \in Nat
    BY <2>1, SeenIsMessage
  <2>8. k = Len(log)
    <3>1. k \notin 1..(Len(log) - 1)
      BY <2>4, <2>6
    <3>. QED  BY <2>7, <3>1
  <2>. QED  BY <1>2, <2>1, <2>2, <2>8 DEF Matches, Sender
<1>. QED  BY <1>1, <1>2 DEF EchoTrueUnlessShifted

(* Every state of the serializer and of the decoder is one of theirs       *)
(* (cdr_utils.hpp).                                                        *)
THEOREM EchoTypeCorrect == EchoSpec => []EchoTypeOK
<1>1. EchoInit => IInv
  BY InitInv
<1>2. IInv /\ [EchoNext]_echoVars => IInv'
  BY NextInv
<1>3. IInv => EchoTypeOK
  BY InvIsTrue
<1>. QED  BY <1>1, <1>2, <1>3, PTL DEF EchoSpec

(* The decoder never reads in the header or behind the end of the buffer,  *)
(* whatever was published and whatever type it is read as                  *)
(* (cdr_utils.hpp:92, 126).                                                *)
THEOREM DecoderReadsInside == EchoSpec => []ReadsInside
<1>1. EchoInit => IInv
  BY InitInv
<1>2. IInv /\ [EchoNext]_echoVars => IInv'
  BY NextInv
<1>3. IInv => ReadsInside
  BY InvIsTrue
<1>. QED  BY <1>1, <1>2, <1>3, PTL DEF EchoSpec

(* What is shown of a message is what was published, a float of it to six  *)
(* digits, whatever its type, its value and the order of its bytes, if it  *)
(* is read as the type it was published as and holds nothing that the      *)
(* decoder does not read (cdr_utils.hpp:74, 216, 226).                     *)
THEOREM EchoIsTrue == EchoSpec => []EchoTrueUnlessShifted
<1>1. EchoInit => IInv
  BY InitInv
<1>2. IInv /\ [EchoNext]_echoVars => IInv'
  BY NextInv
<1>3. IInv => EchoTrueUnlessShifted
  BY InvIsTrue
<1>. QED  BY <1>1, <1>2, <1>3, PTL DEF EchoSpec
=============================================================================
