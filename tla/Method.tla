------------------------------- MODULE Method -------------------------------
(***************************************************************************)
(* Methods (method.go) and how a method travels in an INVOKE message.      *)
(*                                                                         *)
(* A string that contains slashes is the sequence of its segments, so      *)
(* "RpcTest/Rpc" is <<"RpcTest", "Rpc">>.  No segment holds white space:   *)
(* generated method names are identifiers.                                 *)
(***************************************************************************)
EXTENDS Naturals, Sequences

CONSTANT Text   \* what may stand between two slashes

\* fmt prints the type of a method as a digit.
Digits == {"0", "1", "2", "3", "4", "5"}

ASSUME DigitsAssumption == Digits \subseteq Text

MethodTypeUnary        == 0
MethodTypeServerStream == 1
MethodTypeClientStream == 2
MethodTypeBidiStream   == 3
MethodTypePublisher    == 4
MethodTypeConsumer     == 5

MethodTypes == 0 .. 5

Segments == Seq(Text)

\* The values of the struct Method: two are equal, as keys of the handler
\* map, when both their fields are.
Methods == [name : Segments, type : MethodTypes]

NewMethod(name, type) == [name |-> name, type |-> type]

\* fmt.Sprintf("%s/%d", m.Name, m.Type): the type is one more segment.
Digit(type) ==
    CASE type = MethodTypeUnary -> "0"
      [] type = MethodTypeServerStream -> "1"
      [] type = MethodTypeClientStream -> "2"
      [] type = MethodTypeBidiStream -> "3"
      [] type = MethodTypePublisher -> "4"
      [] type = MethodTypeConsumer -> "5"

String(m) == Append(m.name, Digit(m.type))

\* fmt.Sscanf(s, "%s/%d", &m.Name, &m.Type): the %s verb reads up to the next
\* white space, so it takes the whole string; the "/" that follows in the
\* format then finds no input and m.Type keeps its zero value.  The error
\* Sscanf returns is dropped.
NewMethodFromString(s) == [name |-> s, type |-> 0]

\* What a receiver of the INVOKE message of method m looks up.
MethodOnWire(m) == NewMethodFromString(String(m))

IsPubSub(m) == m.type \in {MethodTypePublisher, MethodTypeConsumer}
=============================================================================
