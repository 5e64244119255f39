-------------------------------- MODULE Wire --------------------------------
(***************************************************************************)
(* A publisher's serializer, a library: XCDR1, a scalar aligned to its     *)
(* size, counts and lengths to 4, a fixed array to nothing but its         *)
(* elements.  It walks through a value; wire is what it has put on the     *)
(* wire, said what a text of that would say, the floats to six digits.     *)
(*                                                                         *)
(* readable turns FALSE when it puts what the decoder does not read as it  *)
(* is: a wide string, a string that is no UTF-8, or something that is not  *)
(* aligned to 4 behind the beginning of a fixed array off a multiple of 4  *)
(* (moved says that it is there).                                          *)
(***************************************************************************)
EXTENDS Introspection

-----------------------------------------------------------------------------
\* The header does not count.
Up(n, a) == n + ((4 - n) % a)

Ordered(b, little) == [i \in 1..Len(b) |-> IF little THEN b[i] ELSE b[Len(b) + 1 - i]]

\* b behind w, at the next multiple of a.
Behind(w, a, b) ==
  LET at == Up(Len(w), a)
  IN [i \in 1..(at + Len(b)) |->
        IF i <= Len(w) THEN w[i] ELSE IF i <= at THEN 0 ELSE b[i - at]]

Low(n) == n % 256
High(n) == n \div 256
CountBytes(n, little) == Ordered(<<Low(n), High(n), 0, 0>>, little)
StringBytes(s, little) == CountBytes(Len(s) + 1, little) \o Append(s, 0)
WideBytes(s, little) ==
  CountBytes(Len(s), little)
    \o [i \in 1..(4 * Len(s)) |-> Ordered(<<s[(i + 3) \div 4], 0, 0, 0>>, little)[1 + ((i - 1) % 4)]]

Frame(x, n) == [type |-> x.type, value |-> x.value, done |-> n]
In(x) == Frame(x, 0)

\* The header says in which order the bytes of numbers are.
Starts(x, little) ==
  [puts |-> <<In(x)>>, wire |-> <<0, IF little THEN 1 ELSE 0, 0, 0>>, said |-> <<Opened>>,
   little |-> little, moved |-> FALSE, readable |-> TRUE]

\* Something was put: bytes, aligned to a, of which a text says x.
Puts(s, puts, a, bytes, x) ==
  [puts |-> puts, wire |-> Behind(s.wire, a, bytes), said |-> Says(s.said, s.puts, x),
   little |-> s.little, moved |-> FALSE, readable |-> s.readable /\ (s.moved => a >= 4)]

\* Nothing was put, but the walk goes into a part or out of one.
Walks(s, puts, said, moved) ==
  [s EXCEPT !.puts = puts, !.said = said, !.moved = moved]

PutsScalar(s, x) ==
  Puts(s, OneDone(s.puts), x.type.size, Ordered(x.value, s.little), ScalarText(x.type, x.value))

PutsString(s, x) ==
  [Puts(s, OneDone(s.puts), 4, StringBytes(x.value, s.little), Quoted(x.value, FALSE))
     EXCEPT !.readable = @ /\ \A i \in 1..Len(x.value) : IsCharacter(x.value[i])]

PutsWide(s, x) ==
  [Puts(s, OneDone(s.puts), 4, WideBytes(x.value, s.little), Null) EXCEPT !.readable = FALSE]

PutsCount(s, x) ==
  Puts(s, <<In(x)>> \o s.puts, 4, CountBytes(Len(x.value), s.little), Opened)

EntersFixed(s, x) ==
  Walks(s, <<In(x)>> \o s.puts, Says(s.said, s.puts, Opened), Len(s.wire) % 4 # 0)

EntersMessage(s, x) ==
  Walks(s, <<In(x)>> \o s.puts, Says(s.said, s.puts, Opened), s.moved)

Leaves(s) ==
  LET in == s.puts[1]
  IN Walks(s, Left(s.puts),
           Says(s.said, Tail(s.puts), Closed(IsArray(in.type) /\ Len(in.value) > MaxShown)), s.moved)

\* The step after s.
After(s) ==
  LET in == s.puts[1]
      x == Value(PartType(in), in.value[in.done + 1])
  IN IF in.done = Len(in.value) THEN Leaves(s)
     ELSE CASE IsScalar(x.type)        -> PutsScalar(s, x)
            [] x.type.kind = "string"  -> PutsString(s, x)
            [] x.type.kind = "wide"    -> PutsWide(s, x)
            [] x.type.kind = "message" -> EntersMessage(s, x)
            [] x.type.kind = "array"   -> IF HasCount(x.type) THEN PutsCount(s, x) ELSE EntersFixed(s, x)
=============================================================================
