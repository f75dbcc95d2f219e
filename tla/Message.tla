------------------------------ MODULE Message ------------------------------
(***************************************************************************)
(* Messages (message.go), the unit every call is made of.  Data is a byte  *)
(* string, here a sequence of segments as in module Method: the name of a  *)
(* method, the text of an error or the encoding of a payload.              *)
(***************************************************************************)
EXTENDS Method

MessageTypes == {"INVOKE", "ACK", "CLOSE", "ERROR", "DATA"}

Messages == [type : MessageTypes, data : Segments]

NewAckMessage == [type |-> "ACK", data |-> <<>>]
NewCallMessage(method) == [type |-> "INVOKE", data |-> String(method)]
NewCloseMessage == [type |-> "CLOSE", data |-> <<>>]
NewDataMessage(data) == [type |-> "DATA", data |-> data]

\* Mutant: an error is announced as the mere end of the call.
NewErrorMessage_AsClose(text) == NewCloseMessage

NewErrorMessage(text) == [type |-> "ERROR", data |-> text]

IsClose(m) == m.type = "CLOSE"
IsError(m) == m.type = "ERROR"

\* Message.Method
MethodOf(m) == NewMethodFromString(m.data)
=============================================================================
