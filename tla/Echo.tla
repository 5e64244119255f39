-------------------------------- MODULE Echo --------------------------------
(***************************************************************************)
(* A message on its way from a publisher to the text that the interface    *)
(* shows: the publisher's serializer puts it on the wire, and then         *)
(* format_serialized_message decodes it with the type that this side knows *)
(* under the name, which may be another version of the publisher's.        *)
(*                                                                         *)
(* log is a history of the serializer: no step depends on anything of it   *)
(* but the last entry.                                                     *)
(***************************************************************************)
EXTENDS Wire, CDR

CONSTANT Messages    \* what publishers send: [type, value, known], the last the type here

\* Messages are of types in T, their values in V.
AreMessages(V, T) ==
  \A m \in Messages :
    /\ m = [type |-> m.type, value |-> m.value, known |-> m.known]
    /\ Value(m.type, m.value) \in V
    /\ m.known \in T /\ m.type.kind = "message" /\ m.known.kind = "message"

ASSUME EchoAssumption == AreMessages({ x : x \in Values }, { t : t \in Types })

VARIABLES
  seen,      \* the message, one of Messages
  log        \* the steps of the serializer

echoVars == <<seen, log, reader>>

Sender == log[Len(log)]

EchoInit == seen = None /\ log = << >> /\ ReaderInit

Publish(m, little) ==
  /\ seen' = m
  /\ log' = <<Starts(Value(m.type, m.value), little)>>
  /\ UNCHANGED reader

Serialize ==
  /\ seen # None /\ Sender.puts # << >>
  /\ log' = Append(log, After(Sender))
  /\ UNCHANGED <<seen, reader>>

format_serialized_message ==
  /\ seen # None /\ Sender.puts = << >>
  /\ parse_cdr_to_json(seen.known, Sender.wire)
  /\ UNCHANGED <<seen, log>>

EchoNext ==
  \/ seen = None /\ \E m \in Messages, little \in BOOLEAN : Publish(m, little)
  \/ Serialize
  \/ format_serialized_message
  \/ parse_cdr_field /\ UNCHANGED <<seen, log>>

EchoSpec == EchoInit /\ [][EchoNext]_echoVars

-----------------------------------------------------------------------------
Texts ==
  [is : {"null", "opened"}] \cup [is : {"closed"}, cut : BOOLEAN]
    \cup [is : {"number", "decimal", "truth", "nan"}, bytes : Seq(Byte)]
    \cup [is : {"string"}, chars : Seq(Byte), raw : BOOLEAN]

MessagesOrNone == { m : m \in Messages } \cup {None}
Frames == UNION { { Frame(x, n) : n \in 0..Len(x.value) } : x \in Values }

Senders ==
  [puts : Seq(Frames),
   wire : Seq(Byte), said : Seq(Texts),
   little : BOOLEAN, moved : BOOLEAN, readable : BOOLEAN]

EchoTypeOK ==
  /\ seen \in MessagesOrNone
  /\ log \in Seq(Senders) /\ (seen = None <=> log = << >>)
  /\ buffer \in Seq(Byte) /\ offset \in Nat
  /\ calls \in Seq([type : Types, count : Nat, done : Nat])
  /\ ss \in Seq(Texts)
  /\ stage \in {"idle", "reads", "returned", "threw"}

(* Every message is shown, and as it was published, if it is read as the   *)
(* type it was published as, unless a fixed array of small elements begins *)
(* off a multiple of 4, to which the decoder moves every array             *)
(* (cdr_utils.hpp:86), or a string is wide or no UTF-8.  A float is shown  *)
(* to six digits and no more (cdr_utils.hpp:216, 226), on both sides here: *)
(* floats that agree in six digits look the same.                          *)
Readable == Sender.readable /\ seen.known = seen.type

EchoTrueUnlessShifted ==
  stage \in {"returned", "threw"} /\ Readable => stage = "returned" /\ ss = Sender.said
=============================================================================
