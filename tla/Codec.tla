------------------------------- MODULE Codec -------------------------------
(***************************************************************************)
(* What the user sees of messages, and what goes out of what he writes:    *)
(* format_serialized_message for echoes and feedback, the request text     *)
(* that a service or an action begins with, the request made of the edited *)
(* text, and the text made of the response (src/ros_manager.cpp).          *)
(*                                                                         *)
(* The typesupport of every type is there.  ServiceWorker and ActionClient *)
(* have when these things happen; here is what they do to the data.  A     *)
(* behaviour follows one message of a topic (Echo) or the forms: the code  *)
(* carries nothing from one message to the next, or to a form.             *)
(***************************************************************************)
EXTENDS Structs, Echo

CONSTANTS
  Forms,       \* types of requests
  Responses,   \* responses: [type, value]
  Written      \* what users write, JSON, and all parts of that

\* x is a text that is not spoilt, whose parts are in W.
IsText(x, W) ==
  \/ x = Null
  \/ x.is = "number" /\ x = Number(x.bytes) /\ x.bytes \in Seq(Byte)
  \/ x.is = "decimal" /\ x = Decimal(x.bytes) /\ x.bytes \in Seq(Byte)
  \/ x.is = "truth" /\ x = Truth(x.bytes) /\ x.bytes \in {<<0>>, <<1>>}
  \/ x.is = "string" /\ x = Quoted(x.chars, x.raw) /\ x.chars \in Seq(Byte) /\ ParsesWord(x)
  \/ x.is \in {"list", "object"} /\ x \in {List(x.parts), Object(x.parts)} /\ x.parts \in Seq(W)

\* The type of a form is a message with a default, a response is in V, and
\* texts are in W, and so are their parts; the floats next to them are known.
AreForms(V, W) ==
  /\ \A t \in Forms : t \in DOMAIN Default /\ t.kind = "message"
  /\ \A a \in Responses : a \in V /\ a.type.kind = "message"
  /\ \A x \in W : IsText(x, W)
  /\ \A x \in W, n \in {4, 8} :
       \/ x.is \notin {"number", "decimal"}
       \/ x.is = "decimal" /\ Len(x.bytes) = n
       \/ <<x, n>> \in DOMAIN Nearest

ASSUME CodecAssumption == AreForms({ x : x \in Values }, { x : x \in Written })

VARIABLES
  form,      \* the type of the open form, one of Forms
  template,  \* the walk that makes the text it begins with
  text,      \* what the text in it parses to
  request,   \* the walk that makes a request of that
  answer,    \* the response to it
  reply      \* the walk that makes a text of that

formVars == <<form, template, text, request, answer, reply>>
vars == <<echoVars, formVars>>

Init ==
  /\ EchoInit
  /\ form = None /\ template = None /\ text = None
  /\ request = None /\ answer = None /\ reply = None

-----------------------------------------------------------------------------
(***************************************************************************)
(* A form.                                                                 *)
(***************************************************************************)
Runs(walk) == walk # None /\ walk.fields # << >>
Idle == ~Runs(template) /\ ~Runs(request) /\ ~Runs(reply)

NoCall == request' = None /\ answer' = None /\ reply' = None

\* The selection moves to a service or an action.
get_service_request_json(t) ==
  /\ seen = None /\ Idle
  /\ form' = t /\ text' = None /\ NoCall
  /\ template' = read_struct_members(Value(t, Default[t]))
  /\ UNCHANGED echoVars

\* A garbled text is some JSON or none, of what could be written as well.
ParsedAs(x) == IF x = Garbled THEN Written \cup {Broken} ELSE {x}

\* What is made is parsed, and put into the form.
ReadTemplate ==
  /\ Runs(template)
  /\ template' = read_struct_field(template)
  /\ text' \in ParsedAs(template'.end)
  /\ UNCHANGED <<echoVars, form, request, answer, reply>>

\* A call that is under way has a text of its own.
Edit(x) ==
  /\ text # None /\ Idle
  /\ text' = x /\ NoCall
  /\ UNCHANGED <<echoVars, form, template>>

\* execute_service_call, up to the request; it is not sent unless it is filled.
SendRequest ==
  /\ text # None /\ request = None
  /\ request' = fill_struct_members(form, text)
  /\ UNCHANGED <<echoVars, form, template, text, answer, reply>>

FillRequest ==
  /\ Runs(request)
  /\ request' = fill_struct_field(request)
  /\ UNCHANGED <<echoVars, form, template, text, answer, reply>>

Sent == request # None /\ ~Runs(request) /\ request.end.how = "filled"

ServerAnswers(a) ==
  /\ Sent /\ answer = None
  /\ answer' = a
  /\ UNCHANGED <<echoVars, form, template, text, request, reply>>

\* And from the response on.
TakeResponse ==
  /\ answer # None /\ reply = None
  /\ reply' = read_struct_members(answer)
  /\ UNCHANGED <<echoVars, form, template, text, request, answer>>

ReadReply ==
  /\ Runs(reply)
  /\ reply' = read_struct_field(reply)
  /\ UNCHANGED <<echoVars, form, template, text, request, answer>>

Next ==
  \/ form = None /\ EchoNext /\ UNCHANGED formVars
  \/ \E t \in Forms : get_service_request_json(t)
  \/ ReadTemplate
  \/ \E x \in Written \cup {Broken} : Edit(x)
  \/ SendRequest
  \/ FillRequest
  \/ \E a \in Responses : ServerAnswers(a)
  \/ TakeResponse
  \/ ReadReply

Spec == Init /\ [][Next]_vars

-----------------------------------------------------------------------------
(***************************************************************************)
(* What went through the serializer, and through the walks.                *)
(***************************************************************************)
\* An array that was cut, a number that no JSON has, a wide string.
CutAt(s) == IsArray(s.puts[1].type) /\ Len(s.puts[1].value) > MaxShown

PutNext(s) == Value(PartType(s.puts[1]), s.puts[1].value[s.puts[1].done + 1])
PutsMore(s) == s.puts # << >> /\ s.puts[1].done < Len(s.puts[1].value)

Infinite(x) == IsScalar(x.type) /\ ~Finite(x.type, x.value)
\* What makes a text garbled, and what breaks it.
Garbles(x) ==
  x.type.kind = "string" /\ \E i \in DOMAIN x.value : x.value[i] \in {Quote, Backslash}
Breaks(x) ==
  \/ x.type.kind = "string" /\ \E i \in DOMAIN x.value : x.value[i] < 32 \/ ~IsCharacter(x.value[i])
  \/ Infinite(x)

Mute(t) == t.kind \in {"octet", "wide"}

(* A field that is finished says the same as its text, and its parts are   *)
(* in S: all of a walk's finished fields do if the struct says the same as *)
(* the whole text.  A bounded sequence is not resized, and keeps what it   *)
(* began with behind the text's elements.                                  *)
SameParts(f, S) ==
  \/ /\ IsArray(f.type) /\ f.text.is = "list"
     /\ HasCount(f.type) \/ Len(f.value) = f.type.size
     /\ IF f.type.bounded THEN Len(f.text.parts) <= Len(f.value) /\ Len(f.value) <= f.type.size
        ELSE Len(f.text.parts) = Len(f.value)
     /\ \A i \in 1..Len(f.value) :
          IF i <= Len(f.text.parts)
          THEN Field(f.type.of, f.value[i], f.text.parts[i]) \in S
          ELSE f.value[i] = f.type.start[i]
  \/ /\ f.type.kind = "message" /\ f.text.is = "object"
     /\ Len(f.value) = Len(f.type.members)
     /\ \/ f.type = Empty
        \/ \A i \in 1..Len(f.value) :
             /\ i <= Len(f.text.parts)
             /\ Field(f.type.members[i], f.value[i], f.text.parts[i]) \in S

SameString(f) ==
  /\ f.type.kind = "string" /\ f.text.is = "string"
  /\ f.value = f.text.chars /\ ~TooLong(f.type, Len(f.value))

\* Of a walk from a struct to a text: a float is told to six digits.
Tells(f, S) ==
  \/ Mute(f.type) /\ f.text = Null
  \/ /\ IsScalar(f.type) /\ f.text.is \in {"number", "decimal", "truth"}
     /\ f.text.bytes = IF f.type.kind = "float" THEN Rounded(f.value) ELSE f.value
  \/ SameString(f)
  \/ SameParts(f, S)

\* Of a walk from a text to a struct: an integer is cut to its field, a float
\* goes to the nearest that its field has.
Carries(f, S) ==
  \/ /\ IsScalar(f.type) /\ f.text.is \in {"number", "decimal", "truth"}
     /\ f.value \in [1..f.type.size -> Byte]
     /\ f.value = IF f.type.kind = "float" THEN ReadFloat(f.text, f.type.size)
                  ELSE Narrowed(f.text.bytes, f.type.size)
  \/ SameString(f)
  \/ SameParts(f, S)

(***************************************************************************)
(* Safety.                                                                 *)
(***************************************************************************)

(* What is shown of a message is what was published, whatever its type and *)
(* byte order, a float to six digits, with null for what the code does not *)
(* know (DESIGN.md:105).                                                   *)
EchoTrue ==
  /\ stage = "returned" /\ seen.known = seen.type
  /\ \A i \in DOMAIN log : PutsMore(log[i]) => PutNext(log[i]).type.kind # "wide"
  => ss = Sender.said

(* A text that is parsed again does parse: of a feedback message, which is *)
(* dropped else, unless an array was cut, and of a result, which is        *)
(* reported as a failure else, unless a string in it needs escapes; a NaN  *)
(* and an infinity stop both (ros_manager.cpp:1034, 1107).  Of a result    *)
(* without a quote or a backslash in a string, what parses says what the   *)
(* response did, its floats to six digits; with one it may say anything,   *)
(* for it is written as it is (ros_manager.cpp:816-822).                   *)
TextsParse ==
  /\ stage = "returned" /\ Readable =>
       \/ \A i \in DOMAIN ss : ParsesWord(ss[i])
       \/ \E i \in DOMAIN log : log[i].puts # << >> /\ CutAt(log[i])
       \/ \E i \in DOMAIN log : PutsMore(log[i]) /\ Infinite(PutNext(log[i]))
  /\ reply # None /\ ~Runs(reply) =>
       \/ reply.end = Garbled /\ \E f \in reply.past : Garbles(f)
       \/ reply.end = Broken /\ \E f \in reply.past : Breaks(f)
       \/ /\ Field(answer.type, answer.value, reply.end) \in reply.past
          /\ \A f \in reply.past : ~Spoilt(f.text) /\ Tells(f, reply.past)

(* The text that a form begins with makes a request, unless the type has a *)
(* part that the text cannot carry: an octet, a wide string, an empty      *)
(* message within the request, or a default that is not JSON as it stands. *)
TemplatesAccepted ==
  request # None /\ ~Runs(request) /\ text = template.end =>
    \/ Sent
    \/ \E f \in template.past :
         Mute(f.type) \/ (f.type = Empty /\ form # Empty) \/ Garbles(f) \/ Breaks(f)

(* A request is never sent half-filled (ros_manager.cpp:585): every field  *)
(* of it says what the user wrote for it, an integer in the low bytes that *)
(* the field has, a float as near as it can be (ros_manager.cpp:629-676).  *)
RequestsCarryText ==
  Sent =>
    /\ Field(form, request.end.value, text) \in request.past
    /\ \A f \in request.past : Carries(f, request.past)
=============================================================================
