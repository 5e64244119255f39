-------------------------------- MODULE CDR --------------------------------
(***************************************************************************)
(* The decoder (src/cdr_utils.hpp), step by step: the calls of             *)
(* parse_cdr_members and parse_cdr_field are a walk through the type, and  *)
(* each field that is read, each array and each message that is begun or   *)
(* ended is a step.  A call that returns false has moved the offset all    *)
(* the same.  The host is little-endian.                                   *)
(***************************************************************************)
EXTENDS Introspection

VARIABLES
  buffer,    \* the bytes of the message
  offset,    \* how many of them the decoder has behind it
  calls,     \* the calls in progress: type, parts that are done, and how many it has
  ss,        \* what is written
  stage      \* what has become of it

reader == <<buffer, offset, calls, ss, stage>>

ReaderInit ==
  /\ buffer = << >> /\ offset = 0
  /\ calls = << >> /\ ss = << >>
  /\ stage = "idle"

-----------------------------------------------------------------------------
is_cdr_stream_little_endian == buffer[2] \in {1, 3, 7, 11} \/ buffer[1] = 1

\* What lies behind the buffer could be anything.
ByteAt(i) == IF i \in DOMAIN buffer THEN buffer[i] ELSE 0

\* Mutant of HostBytes: the bytes are never swapped.
HostBytesUnswapped(o, n) == [i \in 1..n |-> ByteAt(o + i)]

HostBytes(o, n) ==
  [i \in 1..n |-> ByteAt(o + IF is_cdr_stream_little_endian THEN i ELSE n + 1 - i)]

\* The loop stops at the end of the buffer; the header does not count.
AlignOffset(a) ==
  LET up == offset + ((4 - offset) % a) IN IF up <= Len(buffer) THEN up ELSE Len(buffer)

\* Mutant of Fits: only the first byte is looked for.
FitsFirst(o, n) == o < Len(buffer)

Fits(o, n) == o + n <= Len(buffer)

\* A count that needs more than two bytes is as good as any other that is
\* larger than the buffer.
TooMany == 65536
CountAt(o) ==
  LET b == HostBytes(o, 4) IN IF b[3] = 0 /\ b[4] = 0 THEN b[1] + 256 * b[2] ELSE TooMany

-----------------------------------------------------------------------------
(***************************************************************************)
(* What is to be read next, and how a call for it ends.                    *)
(***************************************************************************)
Due == stage = "reads" /\ calls[1].done < calls[1].count
Part == PartType(calls[1])

Succeeds(x, at) ==
  /\ offset' = at
  /\ ss' = Says(ss, calls, x)
  /\ calls' = OneDone(calls)
  /\ UNCHANGED <<buffer, stage>>

\* Elements of an array behind the shown ones are only skipped, up to the
\* first that fails.
Fails(at) ==
  /\ offset' = at
  /\ IF IsArray(calls[1].type) /\ calls[1].done >= MaxShown
     THEN calls' = Done(calls, calls[1].count) /\ UNCHANGED ss
     ELSE calls' = OneDone(calls) /\ ss' = Says(ss, calls, Null)
  /\ UNCHANGED <<buffer, stage>>

Begins(t, count, at) ==
  /\ offset' = at
  /\ ss' = Says(ss, calls, Opened)
  /\ calls' = <<[type |-> t, count |-> count, done |-> 0]>> \o calls
  /\ UNCHANGED <<buffer, stage>>

-----------------------------------------------------------------------------
(***************************************************************************)
(* parse_cdr_field                                                         *)
(***************************************************************************)
ReadScalar ==
  LET at == AlignOffset(Part.size)
      b == HostBytes(at, Part.size)
      read == IF Part.kind = "bool" /\ b # <<0>> THEN <<1>> ELSE b
  IN /\ Due /\ IsScalar(Part)
     /\ \/ Fits(at, Part.size) /\ Succeeds(ScalarText(Part, read), at + Part.size)
        \/ ~Fits(at, Part.size) /\ Fails(at)

\* Mutant of EchoText: the quotes are put around the string as it is.
EchoTextRaw(s) == Quoted(s, TRUE)

EchoText(s) == Quoted(s, FALSE)

\* The last byte is left out when it is zero.
Characters(o, n) ==
  [i \in 1..(IF n > 0 /\ ByteAt(o + n) = 0 THEN n - 1 ELSE n) |-> ByteAt(o + i)]

ReadString ==
  LET at == AlignOffset(4)
      len == CountAt(at)
      s == Characters(at + 4, len)
      Text8 == \A i \in DOMAIN s : IsCharacter(s[i])
  IN /\ Due /\ Part.kind = "string"
     /\ \/ ~Fits(at, 4) /\ Fails(at)
        \/ Fits(at, 4) /\ ~Fits(at + 4, len) /\ Fails(at + 4)
        \/ Fits(at, 4) /\ Fits(at + 4, len) /\ Text8 /\ Succeeds(EchoText(s), at + 4 + len)
        \/ /\ Fits(at, 4) /\ Fits(at + 4, len) /\ ~Text8      \* dump() throws
           /\ stage' = "threw" /\ calls' = << >> /\ offset' = at + 4 + len
           /\ UNCHANGED <<buffer, ss>>

ReadWide == Due /\ Part.kind = "wide" /\ Fails(offset)

BeginArray ==
  LET at == AlignOffset(4)
  IN /\ Due /\ IsArray(Part)
     /\ \/ ~HasCount(Part) /\ Begins(Part, Part.size, at)
        \/ HasCount(Part) /\ Fits(at, 4) /\ Begins(Part, CountAt(at), at + 4)
        \/ HasCount(Part) /\ ~Fits(at, 4) /\ Fails(at)

BeginMessage ==
  /\ Due /\ Part.kind = "message"
  /\ Begins(Part, Len(Part.members), offset)

Returns ==
  LET in == calls[1]
  IN /\ stage = "reads" /\ in.done = in.count
     /\ ss' = Says(ss, Tail(calls), Closed(IsArray(in.type) /\ in.count > MaxShown))
     /\ calls' = Left(calls)
     /\ stage' = IF Len(calls) = 1 THEN "returned" ELSE "reads"
     /\ UNCHANGED <<buffer, offset>>

parse_cdr_field ==
  ReadScalar \/ ReadString \/ ReadWide \/ BeginArray \/ BeginMessage \/ Returns

parse_cdr_to_json(t, w) ==
  /\ stage = "idle" /\ stage' = "reads"
  /\ buffer' = w /\ offset' = 4
  /\ calls' = <<[type |-> t, count |-> Len(t.members), done |-> 0]>>
  /\ ss' = <<Opened>>

-----------------------------------------------------------------------------
(* Nothing is read behind the end of the buffer or in the header, and the  *)
(* decoder does not go back, whatever the bytes are and whatever type they *)
(* are read as (cdr_utils.hpp:92, 126): each field that is read ends where *)
(* the offset then is.                                                     *)
ReadsInside == stage # "idle" => 4 <= offset /\ offset <= Len(buffer)
=============================================================================
