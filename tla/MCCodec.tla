------------------------------ MODULE MCCodec ------------------------------
(* Types and values for TLC: every kind of member, at offsets that are     *)
(* aligned and not, arrays around MaxShown; what a user may write.         *)
EXTENDS Codec, SequencesExt

U8 == Scalar("int", 1)
U16 == Scalar("int", 2)
F32 == Scalar("float", 4)
F64 == Scalar("float", 8)
Bool == Scalar("bool", 1)
Octet == Scalar("octet", 1)
Str == Text(0)

Bytes == {<<1>>, <<255>>}
Shorts == {<<1, 2>>, <<0, 255>>}
Zero32 == <<0, 0, 0, 0>>
NaN == <<0, 0, 192, 127>>
Pi == <<24, 45, 68, 84, 251, 33, 9, 64>>
Third == <<171, 170, 170, 62>>
MCSixDigits ==        \* 3.14159 and 0.333333
  [b \in {Pi, Third} |->
     IF b = Pi THEN <<110, 134, 27, 240, 249, 33, 9, 64>> ELSE <<159, 170, 170, 62>>]

Strings == {<< >>, <<97>>, <<97, Quote>>, <<200>>}
Lists(S, n) == UNION { [1..k -> S] : k \in 0..n }
Pairs(S, T) == { <<a, b>> : a \in S, b \in T }

Published(members, values, known) ==
  { [type |-> Message(members), value |-> v, known |-> known] : v \in values }
Same(members, values) == Published(members, values, Message(members))
Answers(members, values) == { Value(Message(members), v) : v \in values }
Uuid == Fixed(U8, 2, <<<<0>>, <<0>>>>)
Point == Message(<<U8, Str>>)

MCMessages == { m : m \in UNION
   { Same(<<U8, F64, U16>>, { <<b, Pi, s>> : b \in Bytes, s \in Shorts }),
     Same(<<Bool, F32>>, Pairs({<<0>>, <<1>>}, {Third, NaN})),
     Same(<<U8, Str, U16>>, { <<b, t, s>> : b \in Bytes, t \in Strings, s \in Shorts }),
     Same(<<U8, Unbounded(U16)>>, Pairs(Bytes, Lists(Shorts, MaxShown + 1))),
     Same(<<Bounded(U8, 3, << >>), F32>>, Pairs(Lists(Bytes, MaxShown + 1), {Zero32})),
     Same(<<U8, Unbounded(Point)>>,
          Pairs(Bytes, Lists(Pairs(Bytes, {<< >>, <<97>>, <<200>>}), MaxShown + 1))),
     Same(<<U8, Fixed(F64, 2, <<Pi, Pi>>)>>, Pairs(Bytes, {<<Pi, Pi>>})),
     Same(<<Octet, Fixed(Bool, 2, <<<<0>>, <<0>>>>)>>, Pairs(Bytes, {<<<<0>>, <<1>>>>})),
     Same(<<F32, Fixed(Message(<<U8>>), 2, << >>), U16>>,
          { <<Zero32, <<<<a>>, <<b>>>>, s>> : a, b \in Bytes, s \in Shorts }),
     Same(<<Unbounded(Message(<<Uuid, U8>>))>>,      \* GoalStatusArray
          { <<l>> : l \in Lists(Pairs([1..2 -> Bytes], {<<4>>}), MaxShown) }),
     Same(<<U8, WideText, U8>>, { <<<<1>>, w, <<2>>>> : w \in {<< >>, <<97>>} }),
     Same(<<Empty, U16>>, Pairs({<<<<0>>>>}, Shorts)),
     \* Other versions of a type.
     Published(<<U8, U16>>, Pairs(Bytes, Shorts), Message(<<U8, U16, F64, Str>>)),
     Published(<<U16>>, { <<s>> : s \in Shorts }, Message(<<F32, U8>>)),
     Published(<<U16, U16, U16>>, {<<<<3, 0>>, <<0, 0>>, <<5, 0>>>>}, Message(<<Unbounded(U16), U8>>)),
     Published(<<U16, U16>>, {<<<<3, 0>>, <<0, 0>>>>}, Message(<<Str, Unbounded(U8)>>)) } }

MCResponses == { a : a \in UNION
   { Answers(<<U8, Str>>, Pairs({<<4>>}, {<<97>>, <<10>>, <<97, Backslash>>, <<200>>})),    \* GetResult
     Answers(<<Octet, F32, F64>>, { <<<<0>>, f, Pi>> : f \in {Third, NaN} }),
     Answers(<<Str, F32>>, Pairs({<<Quote>>}, {NaN})),
     Answers(<<Unbounded(Point)>>, { <<l>> : l \in Lists({<<<<1>>, <<97>>>>}, MaxShown + 1) }),
     { Value(Empty, <<<<0>>>>) } } }

Preset == Bounded(U8, 2, <<<<7>>, <<8>>>>)
MCForms == { t : t \in
   { Message(<<U8, Text(1), Bool>>),
     Message(<<Unbounded(U16), Fixed(Bool, 2, <<<<0>>, <<0>>>>)>>),
     Message(<<Bounded(U8, 2, << >>)>>),
     Message(<<Preset>>),
     Message(<<Unbounded(Point), F32>>),
     Message(<<Fixed(Message(<<U8>>), 2, <<<<<<0>>>>, <<<<0>>>>>>), WideText>>),
     Message(<<Empty, U8>>),
     Message(<<Octet>>),
     Message(<<Str, F32>>),
     Message(<<Text(2)>>),
     Empty } }

Digits(bytes) == { Number(b) : b \in bytes }
OneAndHalf == Decimal(<<0, 0, 0, 0, 0, 0, 248, 63>>)
Arrays(S, n) == { List(l) : l \in Lists(S, n) }
Texts1 ==
  UNION { { <<n, s, b>> : n \in Digits({<<1>>, <<44, 1>>}) \cup {OneAndHalf},
                          s \in {Quoted(<<97>>, FALSE), Quoted(<<97, 97>>, FALSE), Null},
                          b \in {Truth(<<1>>), Number(<<1>>)} },
          Pairs(Arrays(Digits({<<1, 2>>}), 3), Arrays({Truth(<<1>>)}, 3)),
          { <<l>> : l \in Arrays(Digits({<<1>>, <<255>>}), 3) },
          { <<l, x>> :
              x \in {Number(<<255>>), OneAndHalf},
              l \in Arrays({ Object(<<Number(<<1>>), Quoted(<<97>>, FALSE)>>),
                             Object(<<Number(<<1>>)>>) }, 2) },
          { <<Object(<<Number(<<0>>)>>), Number(<<1>>)>> } }

TextParts(X) ==
  X \cup UNION { ToSet(x.parts) : x \in { y \in X : y.is \in {"list", "object"} } }
MCWritten ==
  LET Roots == {Null, Object(<< >>)} \cup { Object(x) : x \in Texts1 }
  IN { x : x \in TextParts(TextParts(TextParts(Roots))) }

\* The floats that are nearest to the numbers in there.
MCNearest ==
  LET Numbers == Digits({<<0>>, <<1>>, <<1, 2>>, <<255>>, <<44, 1>>}) \cup {OneAndHalf}
  IN [p \in Numbers \X {4, 8} |->
        IF p[2] = 8
        THEN CASE p[1] = Number(<<0>>)     -> <<0, 0, 0, 0, 0, 0, 0, 0>>
               [] p[1] = Number(<<1>>)     -> <<0, 0, 0, 0, 0, 0, 240, 63>>
               [] p[1] = Number(<<1, 2>>)  -> <<0, 0, 0, 0, 0, 8, 128, 64>>
               [] p[1] = Number(<<255>>)   -> <<0, 0, 0, 0, 0, 224, 111, 64>>
               [] p[1] = Number(<<44, 1>>) -> <<0, 0, 0, 0, 0, 192, 114, 64>>
               [] OTHER                    -> OneAndHalf.bytes
        ELSE CASE p[1] = Number(<<0>>)     -> Zero32
               [] p[1] = Number(<<1>>)     -> <<0, 0, 128, 63>>
               [] p[1] = Number(<<1, 2>>)  -> <<0, 64, 0, 68>>
               [] p[1] = Number(<<255>>)   -> <<0, 0, 127, 67>>
               [] p[1] = Number(<<44, 1>>) -> <<0, 0, 150, 67>>
               [] OTHER                    -> <<0, 0, 192, 63>>]

TypeParts(T) ==
  T \cup { t.of : t \in { u \in T : IsArray(u) } }
    \cup UNION { ToSet(t.members) : t \in { u \in T : u.kind = "message" } }
AllParts(T) == TypeParts(TypeParts(TypeParts(TypeParts(T))))

RECURSIVE DefaultOf(_)
DefaultOf(t) ==
  CASE IsScalar(t) -> [i \in 1..t.size |-> 0]
    [] t.kind = "array" -> t.start
    [] t.kind = "message" -> [i \in DOMAIN t.members |-> DefaultOf(t.members[i])]
    [] t = Str -> <<97, Quote>>            \* declared so
    [] t = Text(2) -> <<10>>               \* and so is this
    [] OTHER -> << >>
MCDefault == [t \in AllParts(MCForms) |-> DefaultOf(t)]

ValueParts(V) ==
  V \cup UNION { { Value(IF IsArray(x.type) THEN x.type.of ELSE x.type.members[i], x.value[i]) :
                     i \in DOMAIN x.value } :
                  x \in { y \in V : IsStruct(y.type) } }

MCTypes ==
  LET Roots == { m.type : m \in MCMessages } \cup { m.known : m \in MCMessages }
                 \cup MCForms \cup { a.type : a \in MCResponses }
  IN { t : t \in AllParts(Roots) }
MCValues ==
  LET Roots == { Value(m.type, m.value) : m \in MCMessages } \cup MCResponses
                 \cup { Value(t, DefaultOf(t)) : t \in AllParts(MCForms) }
  IN { x : x \in ValueParts(ValueParts(ValueParts(ValueParts(Roots)))) }
=============================================================================
